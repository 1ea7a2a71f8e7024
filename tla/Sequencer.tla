------------------------------ MODULE Sequencer ------------------------------
(***************************************************************************)
(* The sequencer of one WAL shard (crates/zou-log/src/sequencer.rs) at the *)
(* grain of its threads: committers append, the flusher closes windows and *)
(* dispatches them, put workers land them, the lander resolves them in     *)
(* order, and close waits for all of it.  Each step is what a thread does  *)
(* between taking a mutex and letting it go, or one call of the sink.      *)
(*                                                                         *)
(* The sink is external here: a PUT is answered Ok, or with an error after *)
(* which its object may or may not be there (Chain says when it is a       *)
(* fence).                                                                 *)
(***************************************************************************)
EXTENDS Integers, Sequences, FiniteSets, FiniteSetsExt

CONSTANTS
  Appends,    \* the calls of append
  EpochOf,    \* [Appends -> Nat], the writer epoch of an append's frames
  Inflight    \* SequencerConfig::inflight

ASSUME SequencerAssumption ==
  /\ EpochOf \in [Appends -> Nat]
  /\ Inflight \in Nat \ {0}

VARIABLES
  ticket,       \* how each append was answered, or where it waits
  batch,        \* State::batch, the appends of the open window
  epoch,        \* State::epochs for the tenant
  next_seq,     \* State::next_seq
  poisoned,     \* State::poisoned
  shutdown,     \* State::shutdown
  flusher,      \* the flusher thread
  held,         \* the window in the flusher's hands: [seq, appends]
  flying,       \* windows with the put workers: [seq, appends, at]
  parked,       \* LanderState::parked: [seq, appends, at]
  next_ack,     \* LanderState::next_ack
  failed,       \* LanderState::failed
  outstanding,  \* LanderState::outstanding
  seq_of,       \* observability: the window each append went into
  landed,       \* observability: positions whose object is in the store
  teed          \* what the tee was told, in order

state == <<batch, epoch, next_seq, poisoned, shutdown>>
lander == <<parked, next_ack, failed, outstanding>>
vars == <<ticket, state, flusher, held, flying, lander, seq_of, landed, teed>>

Tickets == {"new", "staged", "ok", "store", "poisoned", "stale", "throttled", "closed"}

Resolved == {"ok", "store", "poisoned"}

NoWindow == [seq |-> 0, appends |-> {}]

Answer(appends, how) == ticket' = [a \in Appends |-> IF a \in appends THEN how ELSE ticket[a]]

-----------------------------------------------------------------------------
(* Committers                                                              *)

\* Mutant of Stale: every epoch is admitted.
NeverStale(a) == EpochOf[a] < 0

\* append refuses a writer older than the newest one it has admitted.
Stale(a) == EpochOf[a] < epoch

\* Mutant of Wake and of ShutdownWake: nobody is told.
NoWake == flusher

\* work.notify_all: the flusher looks at the state again.
Wake == IF flusher = "asleep" THEN "loop" ELSE flusher

Append_(a) ==
  /\ ticket[a] = "new"
  /\ \/ /\ shutdown
        /\ Answer({a}, "closed") /\ UNCHANGED <<batch, epoch, flusher>>
     \/ /\ ~shutdown /\ poisoned
        /\ Answer({a}, "poisoned") /\ UNCHANGED <<batch, epoch, flusher>>
     \/ /\ ~shutdown /\ ~poisoned /\ Stale(a)
        /\ Answer({a}, "stale") /\ UNCHANGED <<batch, epoch, flusher>>
     \/ /\ ~shutdown /\ ~poisoned /\ ~Stale(a)
        /\ \/ Answer({a}, "throttled") /\ UNCHANGED <<batch, epoch, flusher>>
           \/ /\ Answer({a}, "staged")
              /\ batch' = batch \cup {a}
              /\ epoch' = Max({epoch, EpochOf[a]})
              /\ flusher' = Wake
  /\ UNCHANGED <<next_seq, poisoned, shutdown, held, flying, lander, seq_of, landed, teed>>

\* The same, from begin_shutdown.
ShutdownWake == Wake

\* begin_shutdown, from close or drop.
BeginShutdown ==
  /\ ~shutdown
  /\ shutdown' = TRUE
  /\ flusher' = ShutdownWake
  /\ UNCHANGED <<ticket, batch, epoch, next_seq, poisoned, held, flying, lander, seq_of, landed, teed>>

-----------------------------------------------------------------------------
(* The flusher                                                             *)

\* No batch: leave on shutdown, else wait to be woken.
Idle ==
  /\ flusher = "loop" /\ batch = {}
  /\ flusher' = IF shutdown THEN "drain" ELSE "asleep"
  /\ UNCHANGED <<ticket, state, held, flying, lander, seq_of, landed, teed>>

\* The window has aged, filled or must close: take the batch.  A poisoned
\* sequencer answers it without a PUT.
CloseWindow ==
  /\ flusher = "loop" /\ batch # {}
  /\ batch' = {}
  /\ IF poisoned
       THEN Answer(batch, "poisoned") /\ UNCHANGED <<flusher, held, seq_of>>
       ELSE /\ held' = [seq |-> next_seq, appends |-> batch]
            /\ flusher' = "build"
            /\ seq_of' = [a \in Appends |-> IF a \in batch THEN next_seq ELSE seq_of[a]]
            /\ UNCHANGED ticket
  /\ UNCHANGED <<epoch, next_seq, poisoned, shutdown, flying, lander, landed, teed>>

\* The segment is built and the position moves on.
Build ==
  /\ flusher = "build"
  /\ next_seq' = held.seq + 1
  /\ flusher' = "admit"
  /\ UNCHANGED <<ticket, batch, epoch, poisoned, shutdown, held, flying, lander, seq_of, landed, teed>>

\* Mutant of HasSlot: one too many.
OneTooMany == outstanding <= Inflight

\* Lander::admit.
HasSlot == outstanding < Inflight

Dispatch ==
  /\ flusher = "admit" /\ HasSlot
  /\ outstanding' = outstanding + 1
  /\ flying' = flying \cup {[seq |-> held.seq, appends |-> held.appends, at |-> "put"]}
  /\ held' = NoWindow
  /\ flusher' = "loop"
  /\ UNCHANGED <<ticket, state, parked, next_ack, failed, seq_of, landed, teed>>

NoneOut == outstanding = 0

\* wait_drained, after which close and drop return.
Drained ==
  /\ flusher = "drain" /\ NoneOut
  /\ flusher' = "gone"
  /\ UNCHANGED <<ticket, state, held, flying, lander, seq_of, landed, teed>>

-----------------------------------------------------------------------------
(* Put workers and the lander                                              *)

\* sink.put_segment answers.
PutAnswer(d) ==
  /\ d.at = "put"
  /\ \/ /\ flying' = (flying \ {d}) \cup {[d EXCEPT !.at = "ok"]}
        /\ landed' = landed \cup {d.seq}
     \/ /\ flying' = (flying \ {d}) \cup {[d EXCEPT !.at = "failed"]}
        /\ landed' \in {landed, landed \cup {d.seq}}
  /\ UNCHANGED <<ticket, state, flusher, held, lander, seq_of, teed>>

\* Mutant of Prefix: whatever is parked resolves.
Everything(p) == {w.seq : w \in p}

\* The positions that resolve once the windows p are parked: those with no
\* position missing in front of them.
Prefix(p) ==
  {q \in {w.seq : w \in p} : \A r \in next_ack..q : \E w \in p : w.seq = r}

\* Some window at or before q failed.
Behind(p, q) == failed \/ \E w \in p : w.seq < q /\ w.at = "failed"

\* Mutant of ToTee: windows behind a failed one are published too.
AllDone(ok, done) == [i \in 1..Cardinality(done) |-> next_ack + i - 1]

\* tee.publish, for the windows that are acknowledged, in order.
ToTee(ok, done) == [i \in 1..Cardinality(ok) |-> next_ack + i - 1]

\* Lander::complete: park the outcome and resolve the contiguous prefix.
Complete(d) ==
  LET p    == parked \cup {d}
      done == {w \in p : w.seq \in Prefix(p)}
      ok   == {w \in done : w.at = "ok" /\ ~Behind(done, w.seq)}
      bad  == {w \in done : w.at = "failed" /\ ~Behind(done, w.seq)}
  IN
  /\ d.at \in {"ok", "failed"}
  /\ flying' = flying \ {d}
  /\ parked' = p \ done
  /\ next_ack' = IF done = {} THEN next_ack ELSE Max({w.seq : w \in done}) + 1
  /\ outstanding' = outstanding - Cardinality(done)
  /\ failed' = (failed \/ bad # {})
  /\ poisoned' = (poisoned \/ bad # {})
  /\ ticket' = [a \in Appends |->
       CASE \E w \in ok : a \in w.appends          -> "ok"
         [] \E w \in bad : a \in w.appends         -> "store"
         [] \E w \in done \ (ok \cup bad) : a \in w.appends -> "poisoned"
         [] OTHER                                  -> ticket[a]]
  /\ teed' = teed \o ToTee(ok, done)
  /\ UNCHANGED <<batch, epoch, next_seq, shutdown, flusher, held, seq_of, landed>>

-----------------------------------------------------------------------------
Init ==
  /\ ticket = [a \in Appends |-> "new"]
  /\ batch = {} /\ epoch = 0 /\ next_seq = 1
  /\ poisoned = FALSE /\ shutdown = FALSE
  /\ flusher = "loop" /\ held = NoWindow
  /\ flying = {} /\ parked = {}
  /\ next_ack = 1 /\ failed = FALSE /\ outstanding = 0
  /\ seq_of = [a \in Appends |-> 0]
  /\ landed = {} /\ teed = << >>

Flusher == Idle \/ CloseWindow \/ Build \/ Dispatch \/ Drained

Next ==
  \/ \E a \in Appends : Append_(a)
  \/ BeginShutdown
  \/ Flusher
  \/ \E d \in flying : PutAnswer(d) \/ Complete(d)

Spec == Init /\ [][Next]_vars

\* The threads run, a timed wait ends, and the store answers every PUT, with
\* an error if need be.
FairSpec ==
  /\ Spec
  /\ WF_vars(Flusher)
  /\ WF_vars(\E d \in flying : PutAnswer(d) \/ Complete(d))

-----------------------------------------------------------------------------
(* Properties                                                              *)

Windows == [seq: Nat, appends: SUBSET Appends, at: {"put", "ok", "failed"}]

TypeOK ==
  /\ ticket \in [Appends -> Tickets]
  /\ batch \subseteq Appends /\ epoch \in Nat /\ next_seq \in Nat
  /\ poisoned \in BOOLEAN /\ shutdown \in BOOLEAN /\ failed \in BOOLEAN
  /\ flusher \in {"loop", "asleep", "build", "admit", "drain", "gone"}
  /\ held \in [seq: Nat, appends: SUBSET Appends]
  /\ flying \subseteq Windows /\ parked \subseteq Windows
  /\ next_ack \in Nat /\ outstanding \in 0..Inflight
  /\ seq_of \in [Appends -> Nat] /\ landed \subseteq Nat /\ teed \in Seq(Nat)

\* A committer is told Ok only when its window and every window before it are
\* in the store, however the PUTs overtake one another.
AcksAreDurable ==
  \A a \in Appends : ticket[a] = "ok" => 1..seq_of[a] \subseteq landed

\* The tee is told of every acknowledged window, once, in chain order, and of
\* no other.
TeeFollowsAcks ==
  /\ \A i \in 1..Len(teed) : teed[i] = i
  /\ {teed[i] : i \in 1..Len(teed)} = {seq_of[a] : a \in {b \in Appends : ticket[b] = "ok"}}

\* No window holds frames of a writer older than one admitted in a window
\* before it: the epoch fence holds along the chain.
EpochsInChainOrder ==
  \A a, b \in Appends :
    0 < seq_of[a] /\ seq_of[a] < seq_of[b] => EpochOf[a] <= EpochOf[b]

\* What chain_head's backscan relies on: no object lies more than inflight
\* positions past the first hole, failures and late poisoning included.
StragglersBounded ==
  LET hole == Min({q \in 1..next_seq : q \notin landed})
  IN  \A q \in landed : q <= hole + Inflight

\* Every staged append is answered, durable or failed: no committer waits for
\* ever on a flusher nobody woke or a window nobody resolves.
EveryTicketResolves ==
  \A a \in Appends : ticket[a] = "staged" ~> ticket[a] \in Resolved

\* close returns.
CloseReturns == shutdown ~> flusher = "gone"
=============================================================================
