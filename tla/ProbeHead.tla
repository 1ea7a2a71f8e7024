------------------------------ MODULE ProbeHead ------------------------------
(***************************************************************************)
(* chain_head (crates/zou-log/src/chain.rs): find the first hole of the    *)
(* chain above a floor by galloping, searching and scanning back, one      *)
(* probe at a time, while the incumbent goes on landing windows.           *)
(*                                                                         *)
(* Windows land out of order, but none further than MaxInflight past the   *)
(* first hole: module Sequencer checks that (StragglersBounded).           *)
(***************************************************************************)
EXTENDS Integers, FiniteSets, FiniteSetsExt

CONSTANTS
  Floor,        \* the manifest's head, or its consolidated boundary
  MaxInflight,  \* MAX_INFLIGHT
  MaxSeq        \* bound: the last position that is ever landed

ASSUME ProbeAssumption == Floor \in Nat /\ MaxInflight \in Nat /\ MaxSeq \in Nat

VARIABLES
  there,    \* positions above the floor that are present
  there0,   \* observability: those present when the probe began
  pc, lo, hi, step,
  todo,     \* positions of the backscan's window yet to be answered
  absent,   \* positions of the window answered absent
  head      \* what chain_head returns

probe == <<there0, pc, lo, hi, step, todo, absent, head>>
vars == <<there, probe>>

Seqs == (Floor + 1)..MaxSeq

\* A window lands: those more than MaxInflight before it are there.
Land(q) ==
  /\ q \in Seqs \ there
  /\ (Floor + 1)..(q - MaxInflight - 1) \subseteq there
  /\ there' = there \cup {q}
  /\ UNCHANGED probe

\* The position right above the floor.
First ==
  /\ pc = "first"
  /\ there0' = there
  /\ IF Floor + 1 \in there
       THEN pc' = "gallop" /\ lo' = Floor + 1 /\ UNCHANGED head
       ELSE pc' = "done" /\ head' = Floor /\ UNCHANGED lo
  /\ UNCHANGED <<there, hi, step, todo, absent>>

Gallop ==
  /\ pc = "gallop"
  /\ IF lo + step \in there
       THEN lo' = lo + step /\ step' = 2 * step /\ UNCHANGED <<pc, hi>>
       ELSE hi' = lo + step /\ pc' = "search" /\ UNCHANGED <<lo, step>>
  /\ UNCHANGED <<there, there0, todo, absent, head>>

\* Mutant of Mid: rounded the wrong way.
MidLow == (lo + hi - 1) \div 2

Mid == lo + ((hi - lo) \div 2)

\* The binary search of the boundary in (lo, hi).
Search ==
  /\ pc = "search" /\ hi - lo > 1
  /\ IF Mid \in there
       THEN lo' = Mid /\ UNCHANGED hi
       ELSE hi' = Mid /\ UNCHANGED lo
  /\ UNCHANGED <<there, there0, pc, step, todo, absent, head>>

\* Mutant of Base: one position short.
BaseShort ==
  IF Floor + 1 >= lo - MaxInflight + 1 THEN Floor + 1 ELSE lo - MaxInflight + 1

\* Where the backscan starts.
Base == IF Floor + 1 >= lo - MaxInflight THEN Floor + 1 ELSE lo - MaxInflight

OpenWindow ==
  /\ pc = "search" /\ hi - lo <= 1
  /\ pc' = "window"
  /\ todo' = Base..lo
  /\ UNCHANGED <<there, there0, lo, hi, step, absent, head>>

\* probe_window: the probes go out together and answer in any order.
ProbeWindow(q) ==
  /\ pc = "window" /\ q \in todo
  /\ todo' = todo \ {q}
  /\ absent' = IF q \in there THEN absent ELSE absent \cup {q}
  /\ UNCHANGED <<there, there0, pc, lo, hi, step, head>>

\* The first hole in the window, or the boundary the search found.
Return ==
  /\ pc = "window" /\ todo = {}
  /\ pc' = "done"
  /\ IF absent = {} THEN head' = lo
     ELSE \E q \in absent : (\A r \in absent : q <= r) /\ head' = q - 1
  /\ UNCHANGED <<there, there0, lo, hi, step, todo, absent>>

Init ==
  /\ there = {} /\ there0 = {}
  /\ pc = "first" /\ lo = 0 /\ hi = 0 /\ step = 1
  /\ todo = {} /\ absent = {} /\ head = 0

ChainHead ==
  First \/ Gallop \/ Search \/ OpenWindow \/ (\E q \in todo : ProbeWindow(q)) \/ Return

Next == (\E q \in Seqs : Land(q)) \/ ChainHead

Spec == Init /\ [][Next]_vars

FairSpec == Spec /\ WF_vars(ChainHead)

-----------------------------------------------------------------------------
TypeOK ==
  /\ there \subseteq Seqs /\ there0 \subseteq Seqs
  /\ pc \in {"first", "gallop", "search", "window", "done"}
  /\ lo \in Nat /\ hi \in Nat /\ step \in Nat \ {0}
  /\ todo \subseteq Seqs /\ absent \subseteq Seqs
  /\ head \in Nat

\* The position a takeover seals after: everything up to it is there, and it
\* is no earlier than where the chain ended when the probe began, whatever
\* stragglers lie past the hole and whatever lands meanwhile.
HeadIsFirstHole ==
  pc = "done" => (Floor + 1)..head \subseteq there /\ head + 1 \notin there0

\* The probe ends: the incumbent cannot outrun the gallop.
ProbeEnds == <>(pc = "done")

(* The inductive invariant                                                 *)

\* No object lies more than MaxInflight past a hole.
Bounded == \A q \in there : (Floor + 1)..(q - MaxInflight - 1) \subseteq there

LoIsThere == pc \in {"gallop", "search", "window"} => lo \in there

HiWasAbsent == pc \in {"search", "window"} => hi \notin there0 /\ lo < hi

NextIsHi == pc = "window" => hi = lo + 1

\* What was there stays there.
Grows == pc # "first" => there0 \subseteq there

WindowSeen ==
  pc = "window" =>
    /\ todo \subseteq Base..lo /\ absent \subseteq Base..lo
    /\ absent \cap there0 = {}
    /\ (Base..lo) \ (todo \cup absent) \subseteq there

NothingYet == pc \in {"first", "gallop", "search"} => todo = {} /\ absent = {}

ProbeInv ==
  /\ TypeOK /\ Bounded /\ LoIsThere /\ HiWasAbsent /\ NextIsHi /\ Grows
  /\ WindowSeen /\ NothingYet /\ HeadIsFirstHole
=============================================================================
