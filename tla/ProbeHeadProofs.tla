--------------------------- MODULE ProbeHeadProofs ---------------------------
(***************************************************************************)
(* chain_head returns the first hole, for every floor, every pipeline      *)
(* depth, every set of stragglers and every interleaving with the writer   *)
(* whose windows land while it probes.                                     *)
(***************************************************************************)
EXTENDS ProbeHead, TLAPS

\* Nothing has landed and nothing is probed.
LEMMA ProbeInit == Init => ProbeInv
  BY ProbeAssumption
  DEF Init, ProbeInv, TypeOK, Bounded, LoIsThere, HiWasAbsent, NextIsHi, Grows,
      WindowSeen, NothingYet, HeadIsFirstHole, Seqs

\* A window that lands disturbs no answer: there only grows.
LEMMA LandStep ==
  ASSUME ProbeInv, NEW q \in Seqs, Land(q)
  PROVE  ProbeInv'
<1> USE ProbeAssumption
<1>1. TypeOK'
  BY DEF ProbeInv, TypeOK, Land, probe, Seqs
<1>2. Bounded'
  BY DEF ProbeInv, Bounded, Land
<1>3. (LoIsThere /\ HiWasAbsent /\ NextIsHi /\ Grows /\ NothingYet)'
  BY DEF ProbeInv, Land, probe, LoIsThere, HiWasAbsent, NextIsHi, Grows, NothingYet
<1>4. WindowSeen'
  BY DEF ProbeInv, Land, probe, WindowSeen, Base
<1>5. HeadIsFirstHole'
  BY DEF ProbeInv, Land, probe, HeadIsFirstHole
<1> QED
  BY <1>1, <1>2, <1>3, <1>4, <1>5 DEF ProbeInv

\* The first probe: the floor is the head, or a first present position.
LEMMA FirstStep ==
  ASSUME ProbeInv, First
  PROVE  ProbeInv'
<1> USE ProbeAssumption DEF ProbeInv
<1>1. TypeOK' /\ Bounded'
  BY DEF TypeOK, Bounded, First, Seqs
<1>2. (LoIsThere /\ HiWasAbsent /\ NextIsHi /\ Grows /\ NothingYet /\ WindowSeen)'
  BY DEF First, LoIsThere, HiWasAbsent, NextIsHi, Grows, NothingYet, WindowSeen
<1>3. HeadIsFirstHole'
  BY DEF First, HeadIsFirstHole
<1> QED
  BY <1>1, <1>2, <1>3

\* The gallop keeps lo on something present and stops on something absent.
LEMMA GallopStep ==
  ASSUME ProbeInv, Gallop
  PROVE  ProbeInv'
<1> USE ProbeAssumption DEF ProbeInv
<1>1. TypeOK' /\ Bounded'
  BY DEF TypeOK, Bounded, Gallop, Seqs
<1>2. (LoIsThere /\ HiWasAbsent /\ NextIsHi /\ Grows /\ NothingYet /\ WindowSeen)'
  BY DEF TypeOK, Gallop, LoIsThere, HiWasAbsent, NextIsHi, Grows, NothingYet, WindowSeen
<1>3. HeadIsFirstHole'
  BY DEF Gallop, HeadIsFirstHole
<1> QED
  BY <1>1, <1>2, <1>3

\* So does the binary search, which keeps lo below hi.
LEMMA SearchStep ==
  ASSUME ProbeInv, Search
  PROVE  ProbeInv'
<1> USE ProbeAssumption DEF ProbeInv
<1>0. Mid \in Nat /\ lo < Mid /\ Mid < hi
  BY DEF TypeOK, Search, Mid
<1>1. TypeOK' /\ Bounded'
  BY <1>0 DEF TypeOK, Bounded, Search, Seqs
<1>2. (LoIsThere /\ HiWasAbsent /\ NextIsHi /\ Grows /\ NothingYet /\ WindowSeen)'
  BY <1>0 DEF TypeOK, Search, LoIsThere, HiWasAbsent, NextIsHi, Grows, NothingYet, WindowSeen
<1>3. HeadIsFirstHole'
  BY DEF Search, HeadIsFirstHole
<1> QED
  BY <1>1, <1>2, <1>3

\* The search is over: the window of the backscan is all to be asked for.
LEMMA OpenWindowStep ==
  ASSUME ProbeInv, OpenWindow
  PROVE  ProbeInv'
<1> USE ProbeAssumption DEF ProbeInv
<1>1. lo \in Seqs /\ Base \in Nat /\ Base > Floor
  BY DEF TypeOK, LoIsThere, OpenWindow, Base, Seqs
<1>2. TypeOK' /\ Bounded'
  BY <1>1 DEF TypeOK, Bounded, OpenWindow, Seqs
<1>3. (LoIsThere /\ HiWasAbsent /\ NextIsHi /\ Grows /\ NothingYet)'
  BY DEF TypeOK, OpenWindow, LoIsThere, HiWasAbsent, NextIsHi, Grows, NothingYet
<1>4. WindowSeen'
  BY DEF OpenWindow, WindowSeen, NothingYet, Base
<1>5. HeadIsFirstHole'
  BY DEF OpenWindow, HeadIsFirstHole
<1> QED
  BY <1>2, <1>3, <1>4, <1>5

\* One answer of the backscan.
LEMMA WindowStep ==
  ASSUME ProbeInv, NEW q \in todo, ProbeWindow(q)
  PROVE  ProbeInv'
<1> USE ProbeAssumption DEF ProbeInv
<1>1. TypeOK' /\ Bounded'
  BY DEF TypeOK, Bounded, ProbeWindow, Seqs
<1>2. (LoIsThere /\ HiWasAbsent /\ NextIsHi /\ Grows /\ NothingYet)'
  BY DEF ProbeWindow, LoIsThere, HiWasAbsent, NextIsHi, Grows, NothingYet
<1>3. WindowSeen'
  BY DEF ProbeWindow, WindowSeen, Grows, Base
<1>4. HeadIsFirstHole'
  BY DEF ProbeWindow, HeadIsFirstHole
<1> QED
  BY <1>1, <1>2, <1>3, <1>4

\* The verdict: below the window everything is there because a straggler at
\* lo is at most MaxInflight past the hole, and in it up to the first absent
\* position because it was seen.
LEMMA ReturnStep ==
  ASSUME ProbeInv, Return
  PROVE  ProbeInv'
<1> USE ProbeAssumption DEF ProbeInv
<1>1. lo \in Seqs /\ lo \in Nat /\ Base \in Nat /\ Base > Floor /\ Base <= lo
  BY DEF TypeOK, LoIsThere, Return, Base, Seqs
<1>2. (Floor + 1)..(Base - 1) \subseteq there
  BY <1>1 DEF Bounded, LoIsThere, Return, Base
<1>3. (Base..lo) \ absent \subseteq there
  BY DEF WindowSeen, Return
<1>4. CASE absent = {}
  <2>1. head' = lo /\ pc' = "done" /\ there' = there /\ there0' = there0
    BY <1>4 DEF Return
  <2>2. (Floor + 1)..lo \subseteq there
    BY <1>1, <1>2, <1>3, <1>4
  <2>3. lo + 1 \notin there0
    BY DEF HiWasAbsent, NextIsHi, Return
  <2>4. HeadIsFirstHole'
    BY <2>1, <2>2, <2>3 DEF HeadIsFirstHole
  <2>5. head' \in Nat
    BY <2>1, <1>1
  <2> QED
    BY <2>1, <2>4, <2>5 DEF Return, TypeOK, Bounded, LoIsThere, HiWasAbsent, NextIsHi, Grows,
                       NothingYet, WindowSeen, Seqs
<1>5. CASE absent # {}
  <2>1. PICK q \in absent : (\A r \in absent : q <= r) /\ head' = q - 1
    BY <1>5 DEF Return
  <2>2. pc' = "done" /\ there' = there /\ there0' = there0
    BY DEF Return
  <2>3. q \in Base..lo /\ q \in Nat
    BY <1>1 DEF WindowSeen, Return
  <2>4. (Floor + 1)..(q - 1) \subseteq there
    <3> SUFFICES ASSUME NEW r \in (Floor + 1)..(q - 1) PROVE r \in there
      OBVIOUS
    <3>1. CASE r < Base
      BY <3>1, <1>1, <1>2
    <3>2. CASE r >= Base
      <4>1. r \in Base..lo /\ r < q
        BY <3>2, <2>3, <1>1
      <4>2. r \notin absent
        BY <4>1, <2>1, <2>3
      <4> QED
        BY <4>1, <4>2, <1>3
    <3> QED
      BY <3>1, <3>2, <1>1
  <2>5. q \notin there0
    BY DEF WindowSeen, Return
  <2>6. head' \in Nat /\ head' + 1 = q
    BY <2>1, <2>3, <1>1
  <2>7. HeadIsFirstHole'
    BY <2>1, <2>2, <2>4, <2>5, <2>6 DEF HeadIsFirstHole
  <2> QED
    BY <2>2, <2>6, <2>7 DEF Return, TypeOK, Bounded, LoIsThere, HiWasAbsent, NextIsHi, Grows,
                       NothingYet, WindowSeen, Seqs
<1> QED
  BY <1>4, <1>5

LEMMA ProbeStep == ProbeInv /\ [Next]_vars => ProbeInv'
<1> SUFFICES ASSUME ProbeInv, [Next]_vars PROVE ProbeInv'
  OBVIOUS
<1>1. CASE UNCHANGED vars
  BY <1>1
  DEF vars, probe, ProbeInv, TypeOK, Bounded, LoIsThere, HiWasAbsent, NextIsHi, Grows,
      WindowSeen, NothingYet, HeadIsFirstHole, Base, Seqs
<1>2. CASE \E q \in Seqs : Land(q)
  BY <1>2, LandStep
<1>3. CASE \E q \in todo : ProbeWindow(q)
  BY <1>3, WindowStep
<1> QED
  BY <1>1, <1>2, <1>3, FirstStep, GallopStep, SearchStep, OpenWindowStep, ReturnStep
  DEF Next, ChainHead

\* The probe's variables keep their types (chain_head).
THEOREM ProbeTypes == Spec => []TypeOK
<1>1. ProbeInv => TypeOK
  BY DEF ProbeInv
<1> QED
  BY <1>1, ProbeInit, ProbeStep, PTL DEF Spec

\* chain_head returns a position with everything up to it present, no earlier
\* than where the chain ended when it began: with any pipeline depth, any
\* stragglers within it and any landings in between.
THEOREM HeadFound == Spec => []HeadIsFirstHole
<1>1. ProbeInv => HeadIsFirstHole
  BY DEF ProbeInv
<1> QED
  BY <1>1, ProbeInit, ProbeStep, PTL DEF Spec
=============================================================================
