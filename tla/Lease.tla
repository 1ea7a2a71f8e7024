-------------------------------- MODULE Lease --------------------------------
(***************************************************************************)
(* The writer lease of one tenant (crates/zou-store/src/lease.rs): a lease *)
(* record inside the tenant manifest, moved only by compare-and-swap on    *)
(* one object.  A session is one process life: it takes the lease, renews  *)
(* it from the heartbeat thread, publishes checkpoints from the fold       *)
(* thread, and releases it or dies.  The heartbeat and the fold share the  *)
(* HeldLease behind one mutex, so a session has one store call under way.  *)
(*                                                                         *)
(* The store's version of an object is a function of its content (an ETag, *)
(* or the content hash of LocalFsStore), so a version is modelled by the   *)
(* content it names: a swap applies iff the manifest still equals what the *)
(* caller expects.                                                         *)
(***************************************************************************)
EXTENDS Integers, Sequences, FiniteSets

CONSTANTS
  Sessions,       \* process lives that may want to write the tenant
  Holders,        \* node identities, stable across restarts (wal_holder)
  Nobody,         \* the holder of an absent lease
  HolderOf,       \* [Sessions -> Holders]
  SkewOf,         \* [Sessions -> Nat], how far a session's clock runs ahead
  Stealers,       \* sessions started with ZOU_LEASE_STEAL
  BusyTtl,        \* the TTL of a take, and of a renewal while writing
  IdleTtl,        \* the TTL of a renewal once the heartbeat has backed off
  MaxNow,         \* bound: the last second of the model
  MaxEpoch,       \* bound: acquisitions
  MaxPublishes,   \* bound: checkpoints in the manifest
  MaxFaults       \* bound: store calls answered by an error

ASSUME LeaseAssumption ==
  /\ Nobody \notin Holders
  /\ HolderOf \in [Sessions -> Holders]
  /\ SkewOf \in [Sessions -> Nat]
  /\ Stealers \subseteq Sessions
  /\ BusyTtl \in Nat /\ IdleTtl \in Nat /\ MaxNow \in Nat /\ MaxEpoch \in Nat
  /\ MaxPublishes \in Nat /\ MaxFaults \in Nat

VARIABLES
  manifest,   \* the tenant manifest object
  history,    \* the snapshots under manifests/
  now,        \* true time, in seconds
  faults,     \* store errors so far
  pc,         \* what each session is doing
  held,       \* each session's HeldLease
  put,        \* the conditional PUT each session has under way
  limbo,      \* PUTs given up on that the store may still apply
  granted,    \* observability: acquisitions answered Ok
  acked       \* observability: publishes answered Ok

vars == <<manifest, history, now, faults, pc, held, put, limbo, granted, acked>>

-----------------------------------------------------------------------------
(* Data                                                                    *)

LeaseRec == [holder: Holders \cup {Nobody}, fence: Nat, expires: Nat, ttl: Nat]

NoLease == [holder |-> Nobody, fence |-> 0, expires |-> 0, ttl |-> 0]

\* One published checkpoint, with the session and epoch that published it.
Ckpt == [by: Sessions, epoch: Nat]

Manifest == [epoch: Nat, lease: LeaseRec, ckpts: Seq(Ckpt)]

Snapshot == [epoch: Nat, at: Nat, ckpts: Seq(Ckpt)]

\* Proof of an acquisition; epoch 0 is never held and stands for no lease.
HeldLease == [epoch: Nat, fence: Nat, expires: Nat,
              manifest: Manifest, version: Manifest, last_history: Nat]

\* The manifest open_wal_pipe creates when there is none.
Genesis == [epoch |-> 0, lease |-> NoLease, ckpts |-> << >>]

NotHeld == [epoch |-> 0, fence |-> 0, expires |-> 0,
            manifest |-> Genesis, version |-> Genesis, last_history |-> 0]

\* A conditional PUT: its body, the version it expects, and the now_unix its
\* operation was called with.
PutRec == [body: Manifest, expect: Manifest, at: Nat]

NoPut == [body |-> Genesis, expect |-> Genesis, at |-> 0]

\* The pcs at which a conditional PUT of the manifest is under way.
Swapping == {"take", "renew", "reswap", "publish", "release"}

Pcs == Swapping \cup {"idle", "holding", "reread", "snapshot", "lost", "gone"}

Clock(s) == now + SkewOf[s]

\* Mutant of Ours: a lease that nobody holds is still the one taken earlier.
OursUnlessTaken(s, m) ==
  \/ m.lease = NoLease
  \/ /\ m.lease.holder = HolderOf[s]
     /\ m.lease.fence = held[s].fence
     /\ m.epoch = held[s].epoch

\* reread_checking_ownership: the manifest still names this very lease.
Ours(s, m) ==
  /\ m.lease.holder = HolderOf[s]
  /\ m.lease.fence = held[s].fence
  /\ m.epoch = held[s].epoch

\* take: the lease is live and somebody else's; Held or Skew comes back.
Refused(s, m) ==
  /\ m.lease.expires > Clock(s)
  /\ m.lease.holder \notin {HolderOf[s], Nobody}

\* Mutants of Taken: a lease that was released is taken up at its epoch; the
\* fence counts down.
TakenKeepingEpoch(s, m) ==
  [epoch |-> IF m.lease.holder = Nobody /\ m.epoch > 0 THEN m.epoch ELSE m.epoch + 1,
   lease |-> [holder |-> HolderOf[s], fence |-> m.lease.fence + 1,
              expires |-> Clock(s) + BusyTtl, ttl |-> BusyTtl],
   ckpts |-> m.ckpts]

TakenFenceDown(s, m) ==
  [epoch |-> m.epoch + 1,
   lease |-> [holder |-> HolderOf[s], fence |-> m.lease.fence - 1,
              expires |-> Clock(s) + BusyTtl, ttl |-> BusyTtl],
   ckpts |-> m.ckpts]

\* The manifest take swaps in.
Taken(s, m) ==
  [epoch |-> m.epoch + 1,
   lease |-> [holder |-> HolderOf[s], fence |-> m.lease.fence + 1,
              expires |-> Clock(s) + BusyTtl, ttl |-> BusyTtl],
   ckpts |-> m.ckpts]

\* The manifest a renewal swaps in, from the copy in hand or a fresh read.
Renewed(m, expires, ttl) ==
  [m EXCEPT !.lease = [@ EXCEPT !.expires = expires, !.ttl = ttl]]

\* The manifest update_manifest swaps in: one more checkpoint.
Published(s, m) ==
  [m EXCEPT !.ckpts = Append(@, [by |-> s, epoch |-> held[s].epoch])]

\* What a holder remembers of a swap that landed.  Its mutant forgets the body.
RememberVersion(h, m) == [h EXCEPT !.version = m]

Remember(h, m) == [h EXCEPT !.version = m, !.manifest = m]

\* The manifest release swaps in.
Released(m) == [m EXCEPT !.lease = NoLease]

\* Start a conditional PUT and move on to the pc that waits for its answer.
Send(s, body, expect, clock, to) ==
  /\ put' = [put EXCEPT ![s] = [body |-> body, expect |-> expect, at |-> clock]]
  /\ pc' = [pc EXCEPT ![s] = to]

\* The operation goes on, or is over and its locals with it.
GoTo(s, to) ==
  /\ pc' = [pc EXCEPT ![s] = to]
  /\ put' = IF to \in {"reread", "snapshot"} THEN put ELSE [put EXCEPT ![s] = NoPut]

\* The HeldLease of a session that stops is dropped with it.
Keep(s, to) ==
  held' = IF to \in {"lost", "gone"} THEN [held EXCEPT ![s] = NotHeld] ELSE held

Ends(s, to) == GoTo(s, to) /\ Keep(s, to)

-----------------------------------------------------------------------------
(* The store: put_if_match on the manifest, as its callers see it.         *)

\* Mutant of Applied: the PUT carries no condition.
Unconditional(s) == manifest' = put[s].body

\* The version matched and the answer says so.
Applied(s) == manifest = put[s].expect /\ manifest' = put[s].body

\* The heartbeat's answer to trouble that is not Lost: keep trying while its
\* own TTL has time left, give up once it does not.
Retry(s) == IF Clock(s) >= held[s].expires THEN "lost" ELSE "holding"

\* Mutant of AfterRace: a renewal takes a conflict for trouble that passes.
RaceIsTransient(s) ==
  CASE pc[s] = "take"    -> "idle"
    [] pc[s] \in {"renew", "reswap"} -> "holding"
    [] pc[s] = "publish" -> "holding"
    [] pc[s] = "release" -> "gone"

\* Where an operation goes when its swap comes back Raced.
AfterRace(s) ==
  CASE pc[s] = "take"    -> "idle"
    [] pc[s] = "renew"   -> "reread"
    [] pc[s] = "reswap"  -> Retry(s)
    [] pc[s] = "publish" -> "holding"
    [] pc[s] = "release" -> "gone"

\* Where it goes when the store answers with an error instead.
AfterError(s) ==
  IF pc[s] = "renew" THEN Retry(s) ELSE AfterRace(s)

\* The version did not match: Conflict, which swap turns into Raced.
Conflict(s) ==
  /\ pc[s] \in Swapping
  /\ manifest # put[s].expect
  /\ Ends(s, AfterRace(s))
  /\ UNCHANGED <<manifest, history, now, faults, limbo, granted, acked>>

\* The PUT applied, its answer was a 5xx, and the retry inside the backend
\* met its own write and answers Conflict.
SelfConflict(s) ==
  /\ pc[s] \in Swapping
  /\ faults < MaxFaults
  /\ Applied(s)
  /\ faults' = faults + 1
  /\ Ends(s, AfterRace(s))
  /\ UNCHANGED <<history, now, limbo, granted, acked>>

\* A PUT that died on the wire: it may land now, later or never.
Ambiguous(s) ==
  /\ pc[s] \in Swapping
  /\ faults < MaxFaults
  /\ faults' = faults + 1
  /\ limbo' = limbo \cup {put[s]}
  /\ Ends(s, AfterError(s))
  /\ UNCHANGED <<manifest, history, now, granted, acked>>

LandLate(p) ==
  /\ manifest = p.expect
  /\ manifest' = p.body
  /\ limbo' = limbo \ {p}
  /\ UNCHANGED <<history, now, faults, pc, held, put, granted, acked>>

\* The read of renew_by_reading fails.
RereadFails(s) ==
  /\ pc[s] = "reread"
  /\ faults < MaxFaults
  /\ faults' = faults + 1
  /\ Ends(s, Retry(s))
  /\ UNCHANGED <<manifest, history, now, limbo, granted, acked>>

-----------------------------------------------------------------------------
(* Operations of a session                                                 *)

\* take: read the manifest and decide.  A refusal changes nothing.
Take(s) ==
  /\ pc[s] = "idle"
  /\ manifest.epoch < MaxEpoch
  /\ ~Refused(s, manifest) \/ s \in Stealers
  /\ Send(s, Taken(s, manifest), manifest, Clock(s), "take")
  /\ UNCHANGED <<manifest, history, now, faults, held, limbo, granted, acked>>

TakeOk(s) ==
  /\ pc[s] = "take"
  /\ Applied(s)
  /\ held' = [held EXCEPT ![s] =
       [epoch |-> put[s].body.epoch, fence |-> put[s].body.lease.fence,
        expires |-> put[s].body.lease.expires, manifest |-> put[s].body,
        version |-> put[s].body, last_history |-> 0]]
  /\ granted' = granted \cup {[by |-> s, epoch |-> put[s].body.epoch,
                              fence |-> put[s].body.lease.fence]}
  /\ GoTo(s, "holding")
  /\ UNCHANGED <<history, now, faults, limbo, acked>>

\* renew: a PUT against the version of the last swap, without a read.
Renew(s) ==
  /\ pc[s] = "holding"
  /\ \E ttl \in {BusyTtl, IdleTtl} :
       Send(s, Renewed(held[s].manifest, Clock(s) + ttl, ttl),
            held[s].version, Clock(s), "renew")
  /\ UNCHANGED <<manifest, history, now, faults, held, limbo, granted, acked>>

\* renew_by_reading: who swapped it, this holder or a thief?
Reread(s) ==
  /\ pc[s] = "reread"
  /\ IF Ours(s, manifest)
       THEN /\ Send(s, Renewed(manifest, put[s].body.lease.expires,
                               put[s].body.lease.ttl),
                    manifest, put[s].at, "reswap")
            /\ UNCHANGED held
       ELSE Ends(s, "lost")
  /\ UNCHANGED <<manifest, history, now, faults, limbo, granted, acked>>

RenewOk(s) ==
  /\ pc[s] \in {"renew", "reswap"}
  /\ Applied(s)
  /\ held' = [held EXCEPT ![s] =
       [Remember(@, put[s].body) EXCEPT !.expires = put[s].body.lease.expires]]
  /\ GoTo(s, "holding")
  /\ UNCHANGED <<history, now, faults, limbo, granted, acked>>

\* update_manifest: re-read, check ownership, mutate, swap.  Lost goes back
\* to the fold thread, which changes nothing here.
Publish(s) ==
  /\ pc[s] = "holding"
  /\ Len(manifest.ckpts) < MaxPublishes
  /\ Ours(s, manifest)
  /\ Send(s, Published(s, manifest), manifest, Clock(s), "publish")
  /\ UNCHANGED <<manifest, history, now, faults, held, limbo, granted, acked>>

\* What an Ok of update_manifest lets the caller rely on.
Ack(s) == acked' = acked \cup {[n |-> Len(put[s].body.ckpts), by |-> s]}

\* The swap landed; a second publish in one second takes no snapshot.
PublishOk(s) ==
  /\ pc[s] = "publish"
  /\ Applied(s)
  /\ IF held[s].last_history = put[s].at
       THEN /\ GoTo(s, "holding")
            /\ Ack(s)
            /\ held' = [held EXCEPT ![s] = Remember(@, put[s].body)]
       ELSE /\ GoTo(s, "snapshot")
            /\ held' = [held EXCEPT ![s].version = put[s].body]
            /\ UNCHANGED acked
  /\ UNCHANGED <<history, now, faults, limbo, granted>>

\* Mutant of SnapshotKey: the epoch is left out of the key.
KeyBySecond(s) == [epoch |-> 0, at |-> put[s].at]

\* manifest_history: where a snapshot goes.
SnapshotKey(s) == [epoch |-> put[s].body.epoch, at |-> put[s].at]

\* The history snapshot, put_if_absent and best effort, after the swap.
PutSnapshot(s) ==
  LET key == SnapshotKey(s)
      taken == \E h \in history : h.epoch = key.epoch /\ h.at = key.at
  IN
  /\ pc[s] = "snapshot"
  /\ \/ /\ history' = IF taken THEN history
                      ELSE history \cup {[epoch |-> key.epoch, at |-> key.at,
                                          ckpts |-> put[s].body.ckpts]}
        /\ held' = [held EXCEPT ![s].manifest = put[s].body,
                                ![s].last_history = put[s].at]
        /\ UNCHANGED faults
     \/ /\ faults < MaxFaults
        /\ faults' = faults + 1
        /\ held' = [held EXCEPT ![s].manifest = put[s].body]
        /\ UNCHANGED history
  /\ GoTo(s, "holding")
  /\ Ack(s)
  /\ UNCHANGED <<manifest, now, limbo, granted>>

\* Heartbeat::detach, then release: re-read, check ownership, clear the lease.
Release(s) ==
  /\ pc[s] = "holding"
  /\ IF Ours(s, manifest)
       THEN Send(s, Released(manifest), manifest, Clock(s), "release") /\ UNCHANGED held
       ELSE Ends(s, "gone")
  /\ UNCHANGED <<manifest, history, now, faults, limbo, granted, acked>>

ReleaseOk(s) ==
  /\ pc[s] = "release"
  /\ Applied(s)
  /\ Ends(s, "gone")
  /\ UNCHANGED <<history, now, faults, limbo, granted, acked>>

\* The process ends without a word: a crash, or the parent gone.
Die(s) ==
  /\ pc[s] \notin {"idle", "gone"}
  /\ Ends(s, "gone")
  /\ UNCHANGED <<manifest, history, now, faults, limbo, granted, acked>>

Tick ==
  /\ now < MaxNow
  /\ now' = now + 1
  /\ UNCHANGED <<manifest, history, faults, pc, held, put, limbo, granted, acked>>

-----------------------------------------------------------------------------
Init ==
  /\ manifest = Genesis
  /\ history = {}
  /\ now = 0
  /\ faults = 0
  /\ pc = [s \in Sessions |-> "idle"]
  /\ held = [s \in Sessions |-> NotHeld]
  /\ put = [s \in Sessions |-> NoPut]
  /\ limbo = {}
  /\ granted = {}
  /\ acked = {}

\* What the heartbeat thread does by itself, once it holds the lease.
Heartbeat(s) == Renew(s) \/ Reread(s) \/ RenewOk(s)

Session(s) ==
  \/ Take(s) \/ TakeOk(s)
  \/ Heartbeat(s)
  \/ Publish(s) \/ PublishOk(s) \/ PutSnapshot(s)
  \/ Release(s) \/ ReleaseOk(s)
  \/ Conflict(s) \/ SelfConflict(s) \/ Ambiguous(s) \/ RereadFails(s)
  \/ Die(s)

Next ==
  \/ Tick
  \/ \E p \in limbo : LandLate(p)
  \/ \E s \in Sessions : Session(s)

Spec == Init /\ [][Next]_vars

\* The heartbeat thread runs, and a store call is answered; a session is not
\* obliged to want the lease, to publish, to stop or to survive.
FairSpec ==
  /\ Spec
  /\ \A s \in Sessions :
       /\ WF_vars(Heartbeat(s) \/ Conflict(s))
       /\ WF_vars(TakeOk(s) \/ PublishOk(s) \/ PutSnapshot(s))

-----------------------------------------------------------------------------
(* Properties                                                              *)

TypeOK ==
  /\ manifest \in Manifest
  /\ history \subseteq Snapshot
  /\ now \in Nat /\ faults \in Nat
  /\ pc \in [Sessions -> Pcs]
  /\ held \in [Sessions -> HeldLease]
  /\ put \in [Sessions -> PutRec]
  /\ limbo \subseteq PutRec
  /\ granted \subseteq [by: Sessions, epoch: Nat, fence: Nat]
  /\ acked \subseteq [n: Nat, by: Sessions]

\* A publish that update_manifest answered Ok for stays in the manifest for
\* ever, at its place: no renewal from a cached copy, release, take or rival
\* publish ever writes over it.
PublishedStays ==
  \A a \in acked : a.n \in 1..Len(manifest.ckpts) /\ manifest.ckpts[a.n].by = a.by

\* The checkpoints of m are in the order of the epochs they were published
\* under, and none is of an epoch m has not reached.
InEpochOrder(m) ==
  /\ \A i, j \in 1..Len(m.ckpts) : i < j => m.ckpts[i].epoch <= m.ckpts[j].epoch
  /\ \A i \in 1..Len(m.ckpts) : m.ckpts[i].epoch <= m.epoch

\* A fenced writer publishes nothing: once a successor has published, or has
\* only taken its epoch, no checkpoint of an older epoch lands behind it.
NoZombiePublish == InEpochOrder(manifest)

\* An epoch is handed out once: no two sessions ever hold the same one, not
\* even two lives of one node after an answer that was lost.
OneHolderPerEpoch ==
  \A g, h \in granted : g.epoch = h.epoch => g = h

\* The PITR trail reads in order: of two snapshots the one with the later
\* epoch, or the later second of one epoch, holds at least what the other does.
HistoryInOrder ==
  \A g, h \in history :
    g.epoch < h.epoch \/ (g.epoch = h.epoch /\ g.at < h.at)
      => /\ Len(g.ckpts) <= Len(h.ckpts)
         /\ g.ckpts = SubSeq(h.ckpts, 1, Len(g.ckpts))

\* Every checkpoint of m is in n, at its place.
Extends(m, n) ==
  /\ Len(m.ckpts) <= Len(n.ckpts)
  /\ \A i \in 1..Len(m.ckpts) : n.ckpts[i] = m.ckpts[i]

\* From m the manifest may become n: the epoch does not move back, no
\* checkpoint is dropped or rewritten, and the owner changes only with a new
\* epoch.
Forward(m, n) ==
  /\ n.epoch >= m.epoch
  /\ Extends(m, n)
  /\ n.epoch = m.epoch =>
       \/ n.lease = NoLease
       \/ n.lease.holder = m.lease.holder /\ n.lease.fence = m.lease.fence

\* What a step may never do to the manifest, whoever takes it and however
\* late: a renewal from a cached copy, a PUT given up on, a thief's swap.
ManifestOnlyMovesForward == [][Forward(manifest, manifest')]_manifest

\* A session whose lease was taken stops: its heartbeat finds out, or it dies.
StolenWriterStops ==
  \A s \in Sessions :
    (pc[s] = "holding" /\ held[s].epoch < manifest.epoch)
      ~> pc[s] \in {"lost", "gone"}

-----------------------------------------------------------------------------
(* The inductive invariant behind PublishedStays, NoZombiePublish,         *)
(* OneHolderPerEpoch and ManifestOnlyMovesForward.                         *)

\* A PUT, whenever it is applied, moves the manifest it expects forward.
Sound(p) ==
  InEpochOrder(p.expect) /\ InEpochOrder(p.body) /\ Forward(p.expect, p.body)

\* The last checkpoint of m is s's.
LastBy(m, s) == Len(m.ckpts) > 0 /\ m.ckpts[Len(m.ckpts)].by = s

HeldInv(s) ==
  /\ InEpochOrder(held[s].manifest)
  /\ IF pc[s] = "snapshot"
       THEN /\ held[s].version = put[s].body
            /\ LastBy(put[s].body, s)
            /\ Extends(put[s].body, manifest)
       ELSE held[s].version = held[s].manifest

PutInv(s) ==
  /\ Sound(put[s])
  /\ pc[s] = "take" => put[s].body.epoch = put[s].expect.epoch + 1
  /\ pc[s] = "publish" => LastBy(put[s].body, s)

LeaseInv ==
  /\ InEpochOrder(manifest)
  /\ \A s \in Sessions : HeldInv(s) /\ PutInv(s)
  /\ \A p \in limbo : Sound(p)
  /\ \A g \in granted : g.epoch <= manifest.epoch
  /\ OneHolderPerEpoch
  /\ PublishedStays

-----------------------------------------------------------------------------
(* The inductive invariant behind HistoryInOrder.                          *)

\* The pcs of a session that holds a HeldLease.
Working == {"holding", "renew", "reread", "reswap", "publish", "snapshot", "release"}

\* The snapshots that are there and those about to be put.
Shot(s) == [epoch |-> put[s].body.epoch, at |-> put[s].at, ckpts |-> put[s].body.ckpts]

Shots == history \cup {Shot(s) : s \in {t \in Sessions : pc[t] = "snapshot"}}

Before(g, h) == g.epoch < h.epoch \/ (g.epoch = h.epoch /\ g.at < h.at)

\* A session works under an epoch it was granted and publishes under it, with
\* a clock that does not run back.
WorkInv(s) ==
  pc[s] \in Working =>
    /\ \E g \in granted : g.by = s /\ g.epoch = held[s].epoch
    /\ pc[s] \in {"publish", "snapshot"} =>
         put[s].body.epoch = held[s].epoch /\ put[s].at <= Clock(s)

\* A snapshot is of a manifest the present one extends, and the one session
\* that had its epoch publishes nothing with an earlier time.
ShotInv(h) ==
  /\ h.epoch <= manifest.epoch
  /\ Extends(h, manifest)
  /\ \E g \in granted :
       /\ g.epoch = h.epoch
       /\ h.at <= Clock(g.by)
       /\ pc[g.by] = "publish" /\ held[g.by].epoch = h.epoch => h.at <= put[g.by].at

TrailInv ==
  /\ \A s \in Sessions : WorkInv(s)
  /\ \A h \in Shots : ShotInv(h)
  /\ \A g, h \in Shots : Before(g, h) => Extends(g, h)
=============================================================================
