-------------------------------- MODULE Chain --------------------------------
(***************************************************************************)
(* The landing chain of one WAL shard (crates/zou-log/src/chain.rs) and    *)
(* the pipelined writer that grows it (sequencer.rs, media.rs, single      *)
(* medium).  The chain is objects 1, 2, 3, ... each made by put_if_absent  *)
(* and naming the digest of the one before it.  A session takes the shard  *)
(* over (take_over), finds where the stream ends (stream_end) and lands    *)
(* windows, several at once, acknowledging them in order.                  *)
(*                                                                         *)
(* Every store call is a step of its own.  A frozen session is one that    *)
(* takes no step for a while: its PUTs and DELETEs reach the store late,   *)
(* after any number of steps of the others.  A crashed one takes none.     *)
(*                                                                         *)
(* The digest of a landing segment is its tenant's last LSN, which is all  *)
(* tenants_digest covers for a shard of one tenant; that of a seal is 0.   *)
(***************************************************************************)
EXTENDS Integers, FiniteSets, FiniteSetsExt

CONSTANTS
  Sessions,     \* process lives that open the shard's WAL pipe
  Depth,        \* SequencerConfig::inflight, windows in flight at once
  Sizes,        \* how many LSNs a window may add
  TimelySweep,  \* assumption: no DELETE of a sweep reaches the store once a
                \* rival has begun to take the shard over
  TimelyClear,  \* assumption: nor does a DELETE of put_segment
  MaxSeq,       \* bound: the last chain position, below one probe window
  MaxFaults     \* bound: PUTs that apply and are answered as taken

ASSUME ChainAssumption ==
  /\ Depth \in Nat \ {0}
  /\ Sizes \subseteq Nat \ {0}
  /\ TimelySweep \in BOOLEAN /\ TimelyClear \in BOOLEAN
  /\ MaxSeq \in Nat /\ MaxFaults \in Nat

VARIABLES
  seg,      \* the object at each chain position
  man,      \* the shard manifest: [epoch, head]
  faults,   \* PUTs answered wrongly so far
  pc,       \* what each session is doing
  view,     \* the shard manifest take_over loaded
  head,     \* the probe's position, then the position of the session's seal
  dig,      \* the digest the session's next segment links to
  todo,     \* positions the sweep has yet to probe
  seen,     \* positions the sweep found present and has yet to visit
  next,     \* State::next_seq
  ack,      \* LanderState::next_ack
  end,      \* the LSN the session's stream has reached
  win,      \* dispatched windows that are not resolved yet
  acked     \* observability: the segments whose tickets resolved Ok

session == <<pc, view, head, dig, todo, seen, next, ack, end, win>>
vars == <<seg, man, faults, session, acked>>

-----------------------------------------------------------------------------
(* Data                                                                    *)

Seqs == 1..MaxSeq

Segment == [kind: {"landing", "seal"}, prev: Nat, end: Nat, by: Sessions]

\* No object, told from every segment by its kind.
None == [kind |-> "none", prev |-> 0, end |-> 0, by |-> 0]

Present(q) == seg[q].kind # "none"

ShardManifest == [epoch: Nat, head: 0..MaxSeq]

\* Where a dispatched window is: its PUT is on the wire, found the position
\* taken, found a landing segment there, may clear it, is on the wire again;
\* or its outcome is parked in the lander.
WinAt == {"put", "taken", "landing", "litter", "reput", "ok", "failed"}

NoWin == [at |-> "none", seg |-> None]

Window == [at: WinAt, seg: Segment]

Pcs == {"idle", "load", "probe", "digest", "seal", "cas", "sweep", "delete", "recover",
        "open", "poisoned", "dead"}

\* Sessions inside take_over that have not yet returned or failed.
TakingOver == {"load", "probe", "digest", "seal", "cas", "sweep", "delete", "recover"}

\* Those between their load of the manifest and their swap of it.
Claiming == {"probe", "digest", "seal", "cas"}

\* tenants_digest of the segment at q, and of the empty chain.
Digest(q) == IF q = 0 THEN 0 ELSE seg[q].end

SealSegment(s) == [kind |-> "seal", prev |-> dig[s], end |-> 0, by |-> s]

LandingSegment(s, size) ==
  [kind |-> "landing", prev |-> dig[s], end |-> end[s] + size, by |-> s]

\* Mutant of Linked: what is there counts, whatever it links to.
PresentUpTo(q) == \A r \in 1..q : Present(r)

\* Every position up to q is there and links to the one before it.
Linked(q) == \A r \in 1..q : Present(r) /\ seg[r].prev = Digest(r - 1)

\* Where a walk of the chain from its start ends.
WalkEnd == Max({q \in 0..MaxSeq : Linked(q)})

GoTo(s, to) == pc' = [pc EXCEPT ![s] = to]

\* The process ends, or take_over or stream_end fails and open_wal_pipe with
\* it: what the session knew is gone.
Dies(s) ==
  /\ GoTo(s, "dead")
  /\ view' = [view EXCEPT ![s] = [epoch |-> 0, head |-> 0]]
  /\ head' = [head EXCEPT ![s] = 0]
  /\ dig' = [dig EXCEPT ![s] = 0]
  /\ todo' = [todo EXCEPT ![s] = {}]
  /\ seen' = [seen EXCEPT ![s] = {}]
  /\ next' = [next EXCEPT ![s] = 0]
  /\ ack' = [ack EXCEPT ![s] = 0]
  /\ end' = [end EXCEPT ![s] = 0]
  /\ win' = [win EXCEPT ![s] = [q \in Seqs |-> NoWin]]

Put(q, object) == seg' = [seg EXCEPT ![q] = object]

-----------------------------------------------------------------------------
(* take_over                                                               *)

Load(s) ==
  /\ pc[s] \in {"idle", "load"}
  /\ TimelySweep => \A t \in Sessions \ {s} : pc[t] \notin {"sweep", "delete"}
  /\ view' = [view EXCEPT ![s] = man]
  /\ head' = [head EXCEPT ![s] = man.head]
  /\ GoTo(s, "probe")
  /\ UNCHANGED <<seg, man, faults, dig, todo, seen, next, ack, end, win, acked>>

\* chain_head finds the first hole above the floor.  How its gallop, binary
\* search and backscan do so is module ProbeHead's business; here it is one
\* probe at a time, with steps of others in between.
Probe(s) ==
  /\ pc[s] = "probe" /\ head[s] < MaxSeq
  /\ IF Present(head[s] + 1)
       THEN head' = [head EXCEPT ![s] = @ + 1] /\ UNCHANGED pc
       ELSE GoTo(s, "digest") /\ UNCHANGED head
  /\ UNCHANGED <<seg, man, faults, view, dig, todo, seen, next, ack, end, win, acked>>

\* digest_of_segment: a head that is gone again is a BrokenLink.
ReadDigest(s) ==
  /\ pc[s] = "digest"
  /\ IF head[s] = 0 \/ Present(head[s])
       THEN /\ dig' = [dig EXCEPT ![s] = Digest(head[s])]
            /\ GoTo(s, "seal")
            /\ UNCHANGED <<view, head, todo, seen, next, ack, end, win>>
       ELSE Dies(s)
  /\ UNCHANGED <<seg, man, faults, acked>>

\* Mutant of AfterOccupied: try the same position again.
SealAgain == "seal"

\* Occupied: the head moved, probe again.
AfterOccupied == "load"

\* media.seal, put_if_absent at the position after the head.
SealAt(s) == head[s] + 1 \in Seqs /\ ~Present(head[s] + 1)

Seal(s) ==
  /\ pc[s] = "seal"
  /\ IF SealAt(s)
       THEN /\ Put(head[s] + 1, SealSegment(s))
            /\ head' = [head EXCEPT ![s] = @ + 1]
            /\ GoTo(s, "cas")
       ELSE GoTo(s, AfterOccupied) /\ UNCHANGED <<seg, head>>
  /\ UNCHANGED <<man, faults, view, dig, todo, seen, next, ack, end, win, acked>>

\* The seal landed, its answer was a 5xx, and the backend's retry met it.
SealRetried(s) ==
  /\ pc[s] = "seal" /\ SealAt(s)
  /\ faults < MaxFaults /\ faults' = faults + 1
  /\ Put(head[s] + 1, SealSegment(s))
  /\ GoTo(s, AfterOccupied)
  /\ UNCHANGED <<man, view, head, dig, todo, seen, next, ack, end, win, acked>>

\* The manifest a takeover swaps in.
NextManifest(s) == [epoch |-> view[s].epoch + 1, head |-> head[s]]

\* put_if_match of the shard manifest; a Conflict starts over.
Cas(s) ==
  /\ pc[s] = "cas"
  /\ IF man = view[s]
       THEN /\ man' = NextManifest(s)
            /\ todo' = [todo EXCEPT ![s] = (head[s] + 1)..MaxSeq]
            /\ seen' = [seen EXCEPT ![s] = {}]
            /\ GoTo(s, "sweep")
       ELSE GoTo(s, "load") /\ UNCHANGED <<man, todo, seen>>
  /\ UNCHANGED <<seg, faults, view, head, dig, next, ack, end, win, acked>>

CasRetried(s) ==
  /\ pc[s] = "cas" /\ man = view[s]
  /\ faults < MaxFaults /\ faults' = faults + 1
  /\ man' = NextManifest(s)
  /\ GoTo(s, "load")
  /\ UNCHANGED <<seg, view, head, dig, todo, seen, next, ack, end, win, acked>>

\* probe_window: the probes of a window go out together and answer in any
\* order.
SweepProbe(s, q) ==
  /\ pc[s] = "sweep" /\ q \in todo[s]
  /\ todo' = [todo EXCEPT ![s] = @ \ {q}]
  /\ seen' = [seen EXCEPT ![s] = IF Present(q) THEN @ \cup {q} ELSE @]
  /\ UNCHANGED <<seg, man, faults, pc, view, head, dig, next, ack, end, win, acked>>

\* sweep_stragglers: fetch the next position found present.  One that is gone
\* is skipped, a seal ends the sweep, a landing segment goes.
SweepFetch(s) ==
  /\ pc[s] = "sweep" /\ todo[s] = {}
  /\ IF seen[s] = {} THEN GoTo(s, "recover") /\ UNCHANGED seen
     ELSE LET q == Min(seen[s]) IN
          CASE seg[q].kind = "none"    ->
                 seen' = [seen EXCEPT ![s] = @ \ {q}] /\ UNCHANGED pc
            [] seg[q].kind = "seal"    ->
                 seen' = [seen EXCEPT ![s] = {}] /\ GoTo(s, "recover")
            [] seg[q].kind = "landing" ->
                 GoTo(s, "delete") /\ UNCHANGED seen
  /\ UNCHANGED <<seg, man, faults, view, head, dig, todo, next, ack, end, win, acked>>

SweepDelete(s) ==
  LET q == Min(seen[s]) IN
  /\ pc[s] = "delete"
  /\ Put(q, None)
  /\ seen' = [seen EXCEPT ![s] = @ \ {q}]
  /\ GoTo(s, "sweep")
  /\ UNCHANGED <<man, faults, view, head, dig, todo, next, ack, end, win, acked>>

\* stream_end walks the chain, which is an error when it meets a segment that
\* does not link at or below the recorded head; then Sequencer::resume.
Recover(s) ==
  /\ pc[s] = "recover"
  /\ LET stop == WalkEnd + 1
         broken == stop <= man.head /\ Present(stop)
     IN  IF broken
           THEN Dies(s)
           ELSE /\ end' = [end EXCEPT ![s] = Max({seg[q].end : q \in 1..WalkEnd} \cup {0})]
                /\ dig' = [dig EXCEPT ![s] = 0]
                /\ next' = [next EXCEPT ![s] = head[s] + 1]
                /\ ack' = [ack EXCEPT ![s] = head[s] + 1]
                /\ GoTo(s, "open")
                /\ UNCHANGED <<view, head, todo, seen, win>>
  /\ UNCHANGED <<seg, man, faults, acked>>

-----------------------------------------------------------------------------
(* Sequencer and MediaSink                                                 *)

\* The flusher closes a window, builds its segment and is admitted.
Send(s) ==
  /\ pc[s] = "open"
  /\ next[s] <= MaxSeq
  /\ next[s] - ack[s] < Depth
  /\ \E size \in Sizes :
       /\ win' = [win EXCEPT ![s][next[s]] =
                    [at |-> "put", seg |-> LandingSegment(s, size)]]
       /\ end' = [end EXCEPT ![s] = @ + size]
       /\ dig' = [dig EXCEPT ![s] = end[s] + size]
  /\ next' = [next EXCEPT ![s] = @ + 1]
  /\ UNCHANGED <<seg, man, faults, pc, view, head, todo, seen, ack, acked>>

At(s, q, at) == pc[s] \in {"open", "poisoned"} /\ win[s][q].at = at

Becomes(s, q, at) == win' = [win EXCEPT ![s][q].at = at]

\* Everything a put worker does leaves the session's other state alone.
Worker == UNCHANGED <<man, pc, view, head, dig, todo, seen, next, ack, end, acked>>

\* put_if_absent applies.
Free(q) == ~Present(q)

Land(s, q) ==
  /\ At(s, q, "put") \/ At(s, q, "reput")
  /\ Free(q)
  /\ Put(q, win[s][q].seg)
  /\ Becomes(s, q, "ok")
  /\ Worker /\ UNCHANGED faults

\* AlreadyExists: once the sink looks at what is there, twice it is an error.
AfterTaken(s, q) == IF win[s][q].at = "put" THEN "taken" ELSE "failed"

Taken(s, q) ==
  /\ At(s, q, "put") \/ At(s, q, "reput")
  /\ Present(q)
  /\ Becomes(s, q, AfterTaken(s, q))
  /\ Worker /\ UNCHANGED <<seg, faults>>

\* The PUT landed and the backend's retry, or the hedge, met it.
LandRetried(s, q) ==
  /\ At(s, q, "put") \/ At(s, q, "reput")
  /\ ~Present(q)
  /\ faults < MaxFaults /\ faults' = faults + 1
  /\ Put(q, win[s][q].seg)
  /\ Becomes(s, q, AfterTaken(s, q))
  /\ Worker

\* straggler_at: is a landing segment there?
IsLitter(q) == seg[q].kind = "landing"

CheckKind(s, q) ==
  /\ At(s, q, "taken")
  /\ Becomes(s, q, IF IsLitter(q) THEN "landing" ELSE "failed")
  /\ Worker /\ UNCHANGED <<seg, faults>>

\* straggler_at: does the manifest still name this session's seal?
StillOwner(s) == man.head = head[s]

CheckHead(s, q) ==
  /\ At(s, q, "landing")
  /\ Becomes(s, q, IF StillOwner(s) THEN "litter" ELSE "failed")
  /\ Worker /\ UNCHANGED <<seg, faults>>

\* put_segment: delete the litter, then PUT again.
Clear(s, q) ==
  /\ At(s, q, "litter")
  /\ TimelyClear => StillOwner(s) /\ \A t \in Sessions \ {s} : pc[t] \notin Claiming
  /\ Put(q, None)
  /\ Becomes(s, q, "reput")
  /\ Worker /\ UNCHANGED faults

\* Mutant of Ready: a window resolves as soon as its own PUT is answered.
ReadyAlone(s, q) == q >= ack[s] /\ win[s][q].at \in {"ok", "failed"}

\* Lander::complete resolves the contiguous prefix only.
Ready(s, q) == q = ack[s] /\ win[s][q].at \in {"ok", "failed"}

\* Mutant of Durable: any answer will do.
Answered(s, q) == pc[s] = "open"

\* The window landed and so did every one before it.
Durable(s, q) == pc[s] = "open" /\ win[s][q].at = "ok"

Resolve(s, q) ==
  /\ pc[s] \in {"open", "poisoned"} /\ Ready(s, q)
  /\ IF Durable(s, q)
       THEN acked' = acked \cup {[seq |-> q, seg |-> win[s][q].seg]} /\ UNCHANGED pc
       ELSE GoTo(s, "poisoned") /\ UNCHANGED acked
  /\ win' = [win EXCEPT ![s][q] = NoWin]
  /\ ack' = [ack EXCEPT ![s] = @ + 1]
  /\ UNCHANGED <<seg, man, faults, view, head, dig, todo, seen, next, end>>

-----------------------------------------------------------------------------
Crash(s) ==
  /\ pc[s] \notin {"idle", "dead"}
  /\ Dies(s)
  /\ UNCHANGED <<seg, man, faults, acked>>

Init ==
  /\ seg = [q \in Seqs |-> None]
  /\ man = [epoch |-> 0, head |-> 0]
  /\ faults = 0
  /\ pc = [s \in Sessions |-> "idle"]
  /\ view = [s \in Sessions |-> man]
  /\ head = [s \in Sessions |-> 0]
  /\ dig = [s \in Sessions |-> 0]
  /\ todo = [s \in Sessions |-> {}]
  /\ seen = [s \in Sessions |-> {}]
  /\ next = [s \in Sessions |-> 0]
  /\ ack = [s \in Sessions |-> 0]
  /\ end = [s \in Sessions |-> 0]
  /\ win = [s \in Sessions |-> [q \in Seqs |-> NoWin]]
  /\ acked = {}

TakeOver(s) ==
  \/ Load(s) \/ Probe(s) \/ ReadDigest(s) \/ Seal(s) \/ Cas(s)
  \/ \E q \in Seqs : SweepProbe(s, q)
  \/ SweepFetch(s) \/ SweepDelete(s) \/ Recover(s)

PutWorker(s, q) ==
  Land(s, q) \/ Taken(s, q) \/ CheckKind(s, q) \/ CheckHead(s, q) \/ Clear(s, q)

Next ==
  \E s \in Sessions :
    \/ TakeOver(s) \/ SealRetried(s) \/ CasRetried(s)
    \/ Send(s) \/ Crash(s)
    \/ \E q \in Seqs : PutWorker(s, q) \/ LandRetried(s, q) \/ Resolve(s, q)

Spec == Init /\ [][Next]_vars

\* A store call is answered and a thread that can run does; a session is not
\* obliged to open the pipe, to write or to survive.
FairSpec ==
  /\ Spec
  /\ \A s \in Sessions :
       /\ WF_vars(pc[s] # "idle" /\ TakeOver(s))
       /\ \A q \in Seqs : WF_vars(PutWorker(s, q)) /\ WF_vars(Resolve(s, q))

-----------------------------------------------------------------------------
(* Properties                                                              *)

TypeOK ==
  /\ seg \in [Seqs -> Segment \cup {None}]
  /\ man \in ShardManifest
  /\ faults \in 0..MaxFaults
  /\ pc \in [Sessions -> Pcs]
  /\ view \in [Sessions -> ShardManifest]
  /\ head \in [Sessions -> 0..MaxSeq]
  /\ dig \in [Sessions -> Nat] /\ end \in [Sessions -> Nat]
  /\ todo \in [Sessions -> SUBSET Seqs] /\ seen \in [Sessions -> SUBSET Seqs]
  /\ next \in [Sessions -> 0..(MaxSeq + 1)] /\ ack \in [Sessions -> 0..(MaxSeq + 1)]
  /\ win \in [Sessions -> [Seqs -> Window \cup {NoWin}]]
  /\ acked \subseteq [seq: Seqs, seg: Segment]

\* A window whose committers were told it is durable is in the chain a
\* recovery reads, as it was written: no sweep, no clearing of litter, no
\* rival and no crash takes it or anything below it away.
AckedReachable ==
  \A a \in acked : Linked(a.seq) /\ seg[a.seq] = a.seg

\* Recovery never meets a break under a seal an owner recorded: the chain up
\* to the manifest's head reads clean, whatever crashed on the way.
NotWedged == Linked(man.head)

\* The seal that governs a position: the last one below it.
SealBelow(q) == Max({r \in 1..(q - 1) : seg[r].kind = "seal"} \cup {0})

\* A landing segment a recovery reads was written by the session whose seal
\* governs it: a fenced writer's late PUT never becomes part of the stream.
ZombiesStayOut ==
  \A q \in Seqs :
    Linked(q) /\ seg[q].kind = "landing"
      => SealBelow(q) > 0 /\ seg[SealBelow(q)].by = seg[q].by

\* The chain as its readers see it.
Readable == [q \in 1..WalkEnd |-> [kind |-> seg[q].kind, by |-> seg[q].by]]

Shared == INSTANCE SharedLog
            WITH Writers <- Sessions, log <- Readable, acked <- {a.seq : a \in acked}

\* The chain is the shared log: a recovery's view of it only grows, only the
\* session whose seal is the last one grows it, and what is acknowledged is in
\* it.
ImplementsSharedLog == Shared!Spec

\* A takeover under way ends, in an open pipe or in an error, however its
\* rivals race it, unless the model runs out of positions.
TakeoverEnds ==
  \A s \in Sessions :
    pc[s] \in TakingOver
      ~> pc[s] \in {"open", "poisoned", "dead"} \/ head[s] = MaxSeq
=============================================================================
