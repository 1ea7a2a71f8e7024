-------------------------------- MODULE Rounds --------------------------------
(***************************************************************************)
(* Consolidation of one WAL shard (crates/zou-log/src/consolidate.rs) and  *)
(* the readers of what it leaves (crates/zou-log/src/tee.rs).  A round     *)
(* copies a stretch of the landing chain into one sealed object, names it  *)
(* in a round index and commits it with a swap of the shard manifest;      *)
(* gc_landing later deletes the landing segments the round covers.         *)
(* Takeovers swap the same manifest, and readers go through the rounds and *)
(* then through the tail of the chain with one load of it.                 *)
(*                                                                         *)
(* The chain itself is the one SharedLog promises (module Chain shows the  *)
(* takeover and its writers implement it): a seal or a window takes the    *)
(* next position, and only the last sealer's windows do.                   *)
(***************************************************************************)
EXTENDS Integers, Sequences, FiniteSets, FiniteSetsExt

CONSTANTS
  Sessions,   \* process lives that take the shard over and write
  Folders,    \* threads that run consolidate and gc_landing
  Readers,    \* subscribers that catch up from storage
  LongGrace,  \* assumption: no read that began before a round was published
              \* is still running when the round's grace ends
  MaxSeq,     \* bound: chain positions
  MaxRound,   \* bound: rounds
  MaxCrash    \* bound: crashes of sessions and folders

ASSUME RoundsAssumption ==
  /\ LongGrace \in BOOLEAN
  /\ MaxSeq \in Nat /\ MaxRound \in Nat /\ MaxCrash \in Nat
  /\ Sessions \cap Folders = {}
  /\ Sessions \cap Readers = {}
  /\ Folders \cap Readers = {}

VARIABLES
  log,     \* the chain as SharedLog has it: every segment ever in it
  obj,     \* the landing objects
  man,     \* the shard manifest
  index,   \* the round index objects
  sealed,  \* the sealed objects
  wait,    \* per round, the reads its grace must cover that have not ended
  me,      \* what each process is doing, and what it holds
  cur,     \* each reader's CatchUpCursor
  due,     \* observability: the chain's length when a reader's poll began
  crashes  \* crashes so far

vars == <<log, obj, man, index, sealed, wait, me, cur, due, crashes>>

Procs == Sessions \cup Folders \cup Readers

Seqs == 1..MaxSeq

-----------------------------------------------------------------------------
(* Data                                                                    *)

None == [kind |-> "none", prev |-> 0, end |-> 0, by |-> 0]

Segment == [kind: {"landing", "seal"}, prev: 0..MaxSeq, end: 0..MaxSeq, by: Sessions]

\* tenants_digest: the tenant's last LSN, 0 for a seal.
Digest(o) == o.end

\* WalMedia::fetch.
Obj(q) == IF q \in Seqs THEN obj[q] ELSE None

Present(q) == Obj(q) # None

\* consolidated_upto and consolidated_digest, the last round and gc_round
\* beside what a takeover writes.
ShardManifest ==
  [epoch: Nat, head: 0..MaxSeq, upto: 0..MaxSeq, dig: 0..MaxSeq,
   last: 0..MaxRound, gc: 0..MaxRound]

NoManifest == [epoch |-> 0, head |-> 0, upto |-> 0, dig |-> 0, last |-> 0, gc |-> 0]

\* A RoundIndex: the positions it covers and the tenant's watermark.
RoundIndex == [first: 0..MaxSeq, last: 0..MaxSeq, mark: 0..MaxSeq]

NoIndex == [first |-> 0, last |-> 0, mark |-> 0]

Index(r) == IF r \in 1..MaxRound THEN index[r] ELSE NoIndex

\* The positions of the chain that carry frames.
Frames == {q \in 1..Len(log) : log[q].kind = "landing"}

\* The frames of the sealed object a round names.
SealedFrames(r) ==
  UNION {o.frames : o \in {x \in sealed : x.first = index[r].first /\ x.last = index[r].last}}

Pcs == {"idle", "probe", "seal", "cas", "end", "tail", "open", "dead",
        "index", "adopt", "sealed", "put_index", "publish", "gc", "delete", "hint",
        "rounds", "caught"}

\* at and link: the landing position a process is at and the digest the
\* segment there must link to; rnd: its round; got: the positions whose
\* frames it has read; end: the LSN it has reached.
Rest == [pc |-> "idle", view |-> NoManifest, at |-> 0, link |-> 0, rnd |-> 0,
         got |-> {}, end |-> 0]

Dead == [Rest EXCEPT !.pc = "dead"]

Step(p, r) == me' = [me EXCEPT ![p] = r]

\* Reads that go by a manifest they loaded earlier.
UnderWay == {p \in Sessions \cup Readers : me[p].pc \notin {"idle", "open", "dead", "caught"}}

ReadEnds(p) == wait' = [r \in 1..MaxRound |-> wait[r] \ {p}]

GraceStarts(r) == wait' = [wait EXCEPT ![r] = UnderWay]

-----------------------------------------------------------------------------
(* The walk of the tail, shared by all (walk_chain_linked)                 *)

\* The segment at the cursor is there and links.
WalkGoes(p) ==
  /\ me[p].pc = "tail"
  /\ Present(me[p].at) /\ Obj(me[p].at).prev = me[p].link

\* One that is there, does not link and is not above the recorded seal is a
\* BrokenLink; a hole, or litter above the seal, is the end of the chain.
WalkBreaks(p) ==
  /\ me[p].pc = "tail"
  /\ Present(me[p].at) /\ Obj(me[p].at).prev # me[p].link /\ me[p].at <= man.head

WalkEnds(p) == me[p].pc = "tail" /\ ~WalkGoes(p) /\ ~WalkBreaks(p)

\* What a process holds once it has taken the segment at its cursor.
Walked(p) ==
  LET o == Obj(me[p].at) IN
  [me[p] EXCEPT !.at = @ + 1, !.link = Digest(o), !.end = Max({@, o.end}),
                !.got = @ \cup (IF o.kind = "landing" THEN {me[p].at} ELSE {})]

-----------------------------------------------------------------------------
(* Sessions: take_over, stream_end and the writer                          *)

\* ShardManifest::load, again after a lost race.
Load(s) ==
  /\ me[s].pc = "idle"
  /\ Step(s, [Rest EXCEPT !.pc = "probe", !.view = man])
  /\ UNCHANGED <<log, obj, man, index, sealed, wait, cur, due, crashes>>

\* chain_head, a present position with an absent one above it, and the digest
\* of the segment there: the manifest's own at the consolidated boundary,
\* where the object may be gone.
Probe(s) ==
  LET v == me[s].view
      floor == Max({v.head, v.upto})
  IN
  /\ me[s].pc = "probe"
  /\ \E h \in floor..(MaxSeq - 1) :
       /\ ~Present(h + 1)
       /\ h > floor => Present(h) /\ Present(floor + 1)
       /\ IF h = v.upto \/ Present(h)
            THEN /\ Step(s, [me[s] EXCEPT !.pc = "seal", !.at = h + 1,
                               !.link = IF h = v.upto THEN v.dig ELSE Digest(Obj(h))])
                 /\ UNCHANGED wait
            ELSE Step(s, Dead) /\ ReadEnds(s)
  /\ UNCHANGED <<log, obj, man, index, sealed, cur, due, crashes>>

\* media.seal.  A seal that lands in front of the chain is its next segment.
Seal(s) ==
  LET seal == [kind |-> "seal", prev |-> me[s].link, end |-> 0, by |-> s]
      next == me[s].at = Len(log) + 1 /\ me[s].link = (IF log = << >> THEN 0 ELSE Digest(log[Len(log)]))
  IN
  /\ me[s].pc = "seal"
  /\ IF Present(me[s].at)
       THEN Step(s, Rest) /\ ReadEnds(s) /\ UNCHANGED <<log, obj>>
       ELSE /\ obj' = [obj EXCEPT ![me[s].at] = seal]
            /\ log' = IF next THEN Append(log, seal) ELSE log
            /\ Step(s, [me[s] EXCEPT !.pc = "cas"])
            /\ UNCHANGED wait
  /\ UNCHANGED <<man, index, sealed, cur, due, crashes>>

\* The manifest a takeover swaps in keeps the rounds it loaded.
NextManifest(s) == [me[s].view EXCEPT !.epoch = @ + 1, !.head = me[s].at]

Cas(s) ==
  /\ me[s].pc = "cas"
  /\ IF man = me[s].view
       THEN /\ man' = NextManifest(s)
            /\ Step(s, [me[s] EXCEPT !.pc = "end"])
            /\ UNCHANGED wait
       ELSE Step(s, Rest) /\ ReadEnds(s) /\ UNCHANGED man
  /\ UNCHANGED <<log, obj, index, sealed, cur, due, crashes>>

\* Mutant of SealedEnd: only the tail is looked at.
TailOnly == 0

\* The tenant's watermark in the newest round.
SealedEnd == Index(man.last).mark

\* stream_end loads the manifest and the newest round's watermark, then walks.
StreamEnd(s) ==
  /\ me[s].pc = "end"
  /\ Step(s, [Rest EXCEPT !.pc = "tail", !.view = man, !.at = man.upto + 1,
                !.link = man.dig, !.end = SealedEnd])
  /\ UNCHANGED <<log, obj, man, index, sealed, wait, cur, due, crashes>>

WalkSession(s) ==
  /\ \/ WalkGoes(s) /\ Step(s, [Walked(s) EXCEPT !.got = {}]) /\ UNCHANGED wait
     \/ /\ WalkEnds(s)
        /\ Step(s, [Rest EXCEPT !.pc = "open", !.end = me[s].end]) /\ ReadEnds(s)
     \/ WalkBreaks(s) /\ Step(s, Dead) /\ ReadEnds(s)
  /\ UNCHANGED <<log, obj, man, index, sealed, cur, due, crashes>>

\* A window lands at the end of the chain, its frames from where the session's
\* stream stands.
Write(s) ==
  LET seals == {q \in 1..Len(log) : log[q].kind = "seal"}
      w == [kind |-> "landing", prev |-> Digest(log[Len(log)]), end |-> me[s].end + 1, by |-> s]
  IN
  /\ me[s].pc = "open" /\ log[Max(seals)].by = s
  /\ Len(log) < MaxSeq /\ ~Present(Len(log) + 1)
  /\ obj' = [obj EXCEPT ![Len(log) + 1] = w]
  /\ log' = Append(log, w)
  /\ Step(s, [me[s] EXCEPT !.end = @ + 1])
  /\ UNCHANGED <<man, index, sealed, wait, cur, due, crashes>>

-----------------------------------------------------------------------------
(* Folders: consolidate                                                    *)

StartRound(f) ==
  /\ me[f].pc = "idle" /\ man.epoch > 0 /\ man.last < MaxRound
  /\ Step(f, [Rest EXCEPT !.pc = "index", !.view = man, !.rnd = man.last + 1])
  /\ UNCHANGED <<log, obj, man, index, sealed, wait, cur, due, crashes>>

\* Mutant of Adoptable: off by one.
AdoptableNext(x, v) == x.first = v.upto

\* The index starts where the shard is consolidated to.
Adoptable(x, v) == x.first = v.upto + 1

\* A round index that is already there is a predecessor's and is adopted if it
\* starts where the shard is consolidated to; else walk the tail.
FindIndex(f) ==
  LET x == Index(me[f].rnd)
      v == me[f].view
  IN
  /\ me[f].pc = "index"
  /\ Step(f, IF x = NoIndex THEN [me[f] EXCEPT !.pc = "tail", !.at = v.upto + 1, !.link = v.dig]
             ELSE IF Adoptable(x, v) THEN [me[f] EXCEPT !.pc = "adopt", !.at = x.last]
             ELSE Rest)
  /\ UNCHANGED <<log, obj, man, index, sealed, wait, cur, due, crashes>>

\* digest_of_segment of the adopted round's last position.
Adopt(f) ==
  /\ me[f].pc = "adopt"
  /\ Step(f, IF Present(me[f].at)
               THEN [me[f] EXCEPT !.pc = "publish", !.at = @ + 1, !.link = Digest(Obj(me[f].at))]
               ELSE Rest)
  /\ UNCHANGED <<log, obj, man, index, sealed, wait, cur, due, crashes>>

\* The positions whose frames a round keeps over watermark w: a frame at or
\* below what is durable is a writer's retry.
Kept(got, w) ==
  {q \in got : log[q].end > w /\ \A r \in got : r < q => log[r].end # log[q].end}

\* The tail is read: nothing to do, a Discontinuity, or a round to write.
WalkRound(f) ==
  LET w == Index(me[f].view.last).mark
      kept == Kept(me[f].got, w)
      ends == {log[q].end : q \in kept}
      mark == Max(ends \cup {w})
  IN
  /\ \/ WalkGoes(f) /\ Step(f, Walked(f))
     \/ WalkBreaks(f) /\ Step(f, Rest)
     \/ /\ WalkEnds(f)
        /\ Step(f, IF me[f].at = me[f].view.upto + 1 \/ ends # (w + 1)..mark THEN Rest
                   ELSE [me[f] EXCEPT !.pc = "sealed", !.got = kept, !.end = mark])
  /\ UNCHANGED <<log, obj, man, index, sealed, wait, cur, due, crashes>>

\* put_if_absent of the sealed object: one of the same name stays.
PutSealed(f) ==
  LET first == me[f].view.upto + 1
      last == me[f].at - 1
  IN
  /\ me[f].pc = "sealed"
  /\ sealed' = IF \E o \in sealed : o.first = first /\ o.last = last THEN sealed
               ELSE sealed \cup {[first |-> first, last |-> last, frames |-> me[f].got]}
  /\ Step(f, [me[f] EXCEPT !.pc = "put_index"])
  /\ UNCHANGED <<log, obj, man, index, wait, cur, due, crashes>>

\* Mutant of IndexFree: the index is overwritten.
AlwaysFree(f) == me[f].rnd > 0

\* put_if_absent of the round index.
IndexFree(f) == Index(me[f].rnd) = NoIndex

\* The index is built with the time its grace is counted from.
PutIndex(f) ==
  /\ me[f].pc = "put_index"
  /\ IF IndexFree(f)
       THEN /\ index' = [index EXCEPT ![me[f].rnd] =
                  [first |-> me[f].view.upto + 1, last |-> me[f].at - 1, mark |-> me[f].end]]
            /\ Step(f, [me[f] EXCEPT !.pc = "publish"])
            /\ IF LongGrace THEN UNCHANGED wait ELSE GraceStarts(me[f].rnd)
       ELSE Step(f, Rest) /\ UNCHANGED <<index, wait>>
  /\ UNCHANGED <<log, obj, man, sealed, cur, due, crashes>>

\* put_if_match: the manifest is the one that was loaded.
Unmoved(f) == man = me[f].view

\* The last position the round folded.
ConsolidatedTo(f) == me[f].at - 1

\* publish, the commit point.
Publish(f) ==
  /\ me[f].pc = "publish"
  /\ IF Unmoved(f)
       THEN /\ man' = [me[f].view EXCEPT !.upto = ConsolidatedTo(f), !.dig = me[f].link,
                                         !.last = me[f].rnd]
            /\ IF LongGrace THEN GraceStarts(me[f].rnd) ELSE UNCHANGED wait
       ELSE UNCHANGED <<man, wait>>
  /\ Step(f, Rest)
  /\ UNCHANGED <<log, obj, index, sealed, cur, due, crashes>>

-----------------------------------------------------------------------------
(* Folders: gc_landing                                                     *)

StartGc(f) ==
  /\ me[f].pc = "idle" /\ man.gc < man.last
  /\ Step(f, [Rest EXCEPT !.pc = "gc", !.view = man, !.rnd = man.gc + 1])
  /\ UNCHANGED <<log, obj, man, index, sealed, wait, cur, due, crashes>>

\* The round is older than the grace.
GraceOver(r) == wait[r] = {}

GcRound(f) ==
  LET r == me[f].rnd IN
  /\ me[f].pc = "gc"
  /\ \/ r <= me[f].view.last /\ GraceOver(r)
        /\ Step(f, [me[f] EXCEPT !.pc = "delete", !.at = index[r].first])
     \/ Step(f, [me[f] EXCEPT !.pc = "hint"])
  /\ UNCHANGED <<log, obj, man, index, sealed, wait, cur, due, crashes>>

\* Mutant of LastToDelete: one position too far.
OnePast(r) == Min({index[r].last + 1, MaxSeq})

LastToDelete(r) == index[r].last

\* delete_segment, one position after the other.
GcDelete(f) ==
  /\ me[f].pc = "delete"
  /\ obj' = [obj EXCEPT ![me[f].at] = None]
  /\ Step(f, IF me[f].at = LastToDelete(me[f].rnd)
               THEN [me[f] EXCEPT !.pc = "gc", !.at = 0, !.rnd = @ + 1]
               ELSE [me[f] EXCEPT !.at = @ + 1])
  /\ UNCHANGED <<log, man, index, sealed, wait, cur, due, crashes>>

\* The last round whose segments are all deleted.
GcUpTo(f) == me[f].rnd - 1

\* gc_round moves, if nothing else in the manifest has.
GcHint(f) ==
  /\ me[f].pc = "hint"
  /\ man' = IF man = me[f].view THEN [man EXCEPT !.gc = GcUpTo(f)] ELSE man
  /\ Step(f, Rest)
  /\ UNCHANGED <<log, obj, index, sealed, wait, cur, due, crashes>>

-----------------------------------------------------------------------------
(* Readers: catch_up_resuming                                              *)

\* A reader keeps what it was given across polls.
Poll(p) ==
  /\ me[p].pc \in {"idle", "caught"} /\ man.epoch > 0
  /\ due' = [due EXCEPT ![p] = Len(log)]
  /\ Step(p, [Rest EXCEPT !.pc = "rounds", !.view = man, !.got = me[p].got,
                !.rnd = cur[p].round, !.at = cur[p].chunk])
  /\ UNCHANGED <<log, obj, man, index, sealed, wait, cur, crashes>>

\* The slice is spent: return with the cursor where it stands.
Stops(p, round, chunk, seq, link) ==
  /\ cur' = [cur EXCEPT ![p] = [round |-> round, chunk |-> chunk, seq |-> seq, link |-> link]]
  /\ ReadEnds(p)

\* One chunk of a round, then stop or go on; the round's last, then the next.
ReadChunk(p) ==
  LET r == me[p].rnd
      q == index[r].first + me[p].at
      got == me[p].got \cup (SealedFrames(r) \cap {q})
  IN
  /\ me[p].pc = "rounds" /\ r <= me[p].view.last
  /\ q <= index[r].last
  /\ \/ /\ Step(p, [me[p] EXCEPT !.got = got, !.at = @ + 1])
        /\ UNCHANGED <<wait, cur>>
     \/ /\ Step(p, [Rest EXCEPT !.got = got])
        /\ Stops(p, r, me[p].at + 1, cur[p].seq, cur[p].link)
  /\ UNCHANGED <<log, obj, man, index, sealed, due, crashes>>

NextRound(p) ==
  LET r == me[p].rnd IN
  /\ me[p].pc = "rounds" /\ r <= me[p].view.last
  /\ index[r].first + me[p].at > index[r].last
  /\ \/ /\ Step(p, [me[p] EXCEPT !.rnd = r + 1, !.at = 0])
        /\ UNCHANGED <<wait, cur>>
     \/ /\ Step(p, [Rest EXCEPT !.got = me[p].got])
        /\ Stops(p, r + 1, 0, cur[p].seq, cur[p].link)
  /\ UNCHANGED <<log, obj, man, index, sealed, due, crashes>>

\* Mutant of TailStart: the cursor is trusted whatever was folded since.
KeepsCursor(p) ==
  IF cur[p].seq > 0
    THEN [seq |-> cur[p].seq, link |-> cur[p].link]
    ELSE [seq |-> me[p].view.upto + 1, link |-> me[p].view.dig]

\* A cursor at or below the boundary was folded away.
TailStart(p) ==
  IF cur[p].seq > me[p].view.upto
    THEN [seq |-> cur[p].seq, link |-> cur[p].link]
    ELSE [seq |-> me[p].view.upto + 1, link |-> me[p].view.dig]

StartTail(p) ==
  /\ me[p].pc = "rounds" /\ me[p].rnd > me[p].view.last
  /\ cur' = [cur EXCEPT ![p].round = me[p].rnd, ![p].chunk = 0]
  /\ Step(p, [me[p] EXCEPT !.pc = "tail", !.at = TailStart(p).seq, !.link = TailStart(p).link])
  /\ UNCHANGED <<log, obj, man, index, sealed, wait, due, crashes>>

WalkReader(p) ==
  /\ \/ WalkGoes(p) /\ Step(p, [Walked(p) EXCEPT !.end = 0]) /\ UNCHANGED <<wait, cur>>
     \/ /\ WalkGoes(p) /\ Step(p, [Rest EXCEPT !.got = Walked(p).got])
        /\ Stops(p, cur[p].round, cur[p].chunk, Walked(p).at, Walked(p).link)
     \/ /\ WalkEnds(p) /\ Step(p, [Rest EXCEPT !.pc = "caught", !.got = me[p].got])
        /\ Stops(p, cur[p].round, cur[p].chunk, me[p].at, me[p].link)
     \/ /\ WalkBreaks(p) /\ Step(p, [Rest EXCEPT !.got = me[p].got])
        /\ ReadEnds(p) /\ UNCHANGED cur
  /\ UNCHANGED <<log, obj, man, index, sealed, due, crashes>>

-----------------------------------------------------------------------------
Crash(p) ==
  /\ crashes < MaxCrash /\ crashes' = crashes + 1
  /\ \/ p \in Sessions /\ me[p].pc \notin {"idle", "dead"} /\ Step(p, Dead)
     \/ p \in Folders /\ me[p].pc # "idle" /\ Step(p, Rest)
  /\ ReadEnds(p)
  /\ UNCHANGED <<log, obj, man, index, sealed, cur, due>>

Init ==
  /\ log = << >>
  /\ obj = [q \in Seqs |-> None]
  /\ man = NoManifest
  /\ index = [r \in 1..MaxRound |-> NoIndex]
  /\ sealed = {}
  /\ wait = [r \in 1..MaxRound |-> {}]
  /\ me = [p \in Procs |-> Rest]
  /\ cur = [p \in Readers |-> [round |-> 1, chunk |-> 0, seq |-> 0, link |-> 0]]
  /\ due = [p \in Readers |-> 0]
  /\ crashes = 0

Session(s) ==
  Load(s) \/ Probe(s) \/ Seal(s) \/ Cas(s) \/ StreamEnd(s) \/ WalkSession(s)

Consolidate(f) ==
  \/ StartRound(f) \/ FindIndex(f) \/ Adopt(f) \/ WalkRound(f)
  \/ PutSealed(f) \/ PutIndex(f) \/ Publish(f)

GcLanding(f) == StartGc(f) \/ GcRound(f) \/ GcDelete(f) \/ GcHint(f)

CatchUp(p) ==
  Poll(p) \/ ReadChunk(p) \/ NextRound(p) \/ StartTail(p) \/ WalkReader(p)

Next ==
  \/ \E s \in Sessions : Session(s) \/ Write(s)
  \/ \E f \in Folders : Consolidate(f) \/ GcLanding(f)
  \/ \E p \in Readers : CatchUp(p)
  \/ \E p \in Procs : Crash(p)

Spec == Init /\ [][Next]_vars

\* Every fold runs consolidate before gc_landing, another fold follows, and
\* store calls are answered.
FairSpec ==
  /\ Spec
  /\ \A f \in Folders : WF_vars(Consolidate(f) \/ GcLanding(f)) /\ SF_vars(StartRound(f))
  /\ \A s \in Sessions : WF_vars(me[s].pc # "idle" /\ Session(s))

-----------------------------------------------------------------------------
(* Properties                                                              *)

TypeOK ==
  /\ log \in Seq(Segment) /\ Len(log) <= MaxSeq
  /\ obj \in [Seqs -> Segment \cup {None}]
  /\ man \in ShardManifest
  /\ index \in [1..MaxRound -> RoundIndex]
  /\ sealed \subseteq [first: Seqs, last: Seqs, frames: SUBSET Seqs]
  /\ wait \in [1..MaxRound -> SUBSET Procs]
  /\ me \in [Procs -> [pc: Pcs, view: ShardManifest, at: 0..(MaxSeq + 1), link: 0..MaxSeq,
                       rnd: 0..(MaxRound + 1), got: SUBSET Seqs, end: 0..MaxSeq]]
  /\ cur \in [Readers -> [round: 1..(MaxRound + 1), chunk: 0..MaxSeq,
                          seq: 0..(MaxSeq + 1), link: 0..MaxSeq]]
  /\ due \in [Readers -> 0..MaxSeq]
  /\ crashes \in 0..MaxCrash

\* No window is lost to consolidation: its frames are in the sealed object of
\* a published round, or it lies above the consolidated boundary and its
\* landing segment is still there.
NothingLost ==
  \A q \in Frames :
    \/ q > man.upto /\ obj[q] = log[q]
    \/ \E r \in 1..man.last :
         q \in index[r].first..index[r].last /\ q \in SealedFrames(r)

\* The published rounds cover the chain up to the boundary, without a gap or
\* an overlap, and an index that waits to be adopted starts where they end:
\* the BadRound arms are unreachable and a crashed round can always be
\* finished.
RoundsTile ==
  /\ \A r \in 1..MaxRound :
       index[r] # NoIndex <=> r <= man.last \/ (r = man.last + 1 /\ index[r].first > 0)
  /\ \A r \in 1..MaxRound :
       index[r] # NoIndex =>
         /\ index[r].first = (IF r = 1 THEN 0 ELSE index[r - 1].last) + 1
         /\ index[r].last \in index[r].first..Len(log)
  /\ man.upto = Index(man.last).last

\* No two windows carry the same frames: a session that opens resumes exactly
\* where the durable stream ends, however folds and deletions race its
\* stream_end.
ResumesAtEnd ==
  \A q, r \in Frames : q < r => log[q].end < log[r].end

\* A reader that is told it caught up has been given everything that was
\* durable when its poll began.
CaughtUp ==
  \A p \in Readers :
    me[p].pc = "caught" => Frames \cap 1..due[p] \subseteq me[p].got

\* A round whose index is in the store is published in the end, by whoever
\* runs next: a crash, or a swap lost to a takeover or to another folder,
\* never leaves consolidation stuck on it.
LeftoverPublished ==
  \A r \in 1..MaxRound : index[r] # NoIndex ~> man.last >= r
=============================================================================
