----------------------------- MODULE LeaseProofs -----------------------------
(* Theorems about the writer lease, for any sessions, clocks and bounds.     *)
EXTENDS Lease, SequenceTheorems, TLAPS

-----------------------------------------------------------------------------
(* Types                                                                    *)

LEMMA GenesisType == Genesis \in Manifest /\ NotHeld \in HeldLease /\ NoPut \in PutRec
BY DEF Genesis, NotHeld, NoPut, NoLease, LeaseRec, Manifest, HeldLease, PutRec

LEMMA ClockType == ASSUME TypeOK, NEW s \in Sessions PROVE Clock(s) \in Nat
BY LeaseAssumption DEF TypeOK, Clock

LEMMA BodyTypes ==
  ASSUME TypeOK, NEW s \in Sessions, NEW m \in Manifest
  PROVE  /\ Taken(s, m) \in Manifest
         /\ \A e, t \in Nat : Renewed(m, e, t) \in Manifest
         /\ Published(s, m) \in Manifest
         /\ Released(m) \in Manifest
<1>1. Taken(s, m) \in Manifest
  BY ClockType, LeaseAssumption DEF Taken, Manifest, LeaseRec
<1>2. ASSUME NEW e \in Nat, NEW t \in Nat PROVE Renewed(m, e, t) \in Manifest
  BY DEF Renewed, Manifest, LeaseRec
<1>3. Published(s, m) \in Manifest
  <2>1. [by |-> s, epoch |-> held[s].epoch] \in Ckpt
    BY DEF TypeOK, HeldLease, Ckpt
  <2> QED BY <2>1 DEF Published, Manifest
<1>4. Released(m) \in Manifest
  BY DEF Released, Manifest, LeaseRec, NoLease
<1> QED BY <1>1, <1>2, <1>3, <1>4

LEMMA AfterTypes ==
  ASSUME NEW s \in Sessions, pc[s] \in Swapping
  PROVE  AfterRace(s) \in Pcs /\ AfterError(s) \in Pcs
BY DEF AfterRace, AfterError, Retry, Swapping, Pcs

LEMMA EndsType ==
  ASSUME TypeOK, NEW s \in Sessions, NEW to \in Pcs, Ends(s, to)
  PROVE  /\ pc' \in [Sessions -> Pcs]
         /\ put' \in [Sessions -> PutRec]
         /\ held' \in [Sessions -> HeldLease]
BY GenesisType DEF Ends, GoTo, Keep, TypeOK

LEMMA GoToType ==
  ASSUME TypeOK, NEW s \in Sessions, NEW to \in Pcs, GoTo(s, to)
  PROVE  pc' \in [Sessions -> Pcs] /\ put' \in [Sessions -> PutRec]
BY GenesisType DEF GoTo, TypeOK

LEMMA SendType ==
  ASSUME TypeOK, NEW s \in Sessions, NEW body \in Manifest, NEW expect \in Manifest,
         NEW clock \in Nat, NEW to \in Pcs, Send(s, body, expect, clock, to)
  PROVE  pc' \in [Sessions -> Pcs] /\ put' \in [Sessions -> PutRec]
BY DEF Send, TypeOK, PutRec

LEMMA PutType ==
  ASSUME TypeOK, NEW s \in Sessions
  PROVE  /\ put[s].body \in Manifest /\ put[s].expect \in Manifest
         /\ put[s].at \in Nat /\ put[s] \in PutRec
         /\ put[s].body.epoch \in Nat /\ put[s].body.lease.fence \in Nat
         /\ put[s].body.lease.expires \in Nat /\ put[s].body.lease.ttl \in Nat
         /\ put[s].body.ckpts \in Seq(Ckpt)
BY DEF TypeOK, PutRec, Manifest, LeaseRec

\* Every step keeps the types: no action of the lease writes a manifest, a
\* HeldLease or a PUT that is not one.
LEMMA TypeStep == TypeOK /\ [Next]_vars => TypeOK'
<1> SUFFICES ASSUME TypeOK, [Next]_vars PROVE TypeOK'
  OBVIOUS
<1>1. CASE Tick
  BY <1>1 DEF Tick, TypeOK
<1>2. ASSUME NEW p \in limbo, LandLate(p) PROVE TypeOK'
  BY <1>2 DEF LandLate, TypeOK, PutRec
<1>3. ASSUME NEW s \in Sessions, Session(s) PROVE TypeOK'
  <2> USE PutType
  <2> Swapping \subseteq Pcs /\ {"idle", "holding", "reread", "lost", "gone", "snapshot"} \subseteq Pcs
    BY DEF Pcs
  <2>1. CASE Take(s)
    <3>1. Taken(s, manifest) \in Manifest /\ Clock(s) \in Nat /\ manifest \in Manifest
      BY BodyTypes, ClockType DEF TypeOK
    <3>2. Send(s, Taken(s, manifest), manifest, Clock(s), "take")
      BY <2>1 DEF Take
    <3>3. pc' \in [Sessions -> Pcs] /\ put' \in [Sessions -> PutRec]
      BY <3>1, <3>2, SendType DEF Swapping
    <3> QED BY <2>1, <3>3 DEF Take, TypeOK
  <2>2. CASE TakeOk(s)
    <3>1. pc' \in [Sessions -> Pcs] /\ put' \in [Sessions -> PutRec]
      BY <2>2, GoToType DEF TakeOk
    <3>2. held' \in [Sessions -> HeldLease]
      BY <2>2 DEF TakeOk, TypeOK, HeldLease
    <3> QED BY <2>2, <3>1, <3>2 DEF TakeOk, TypeOK, Applied
  <2>3. CASE Renew(s)
    <3>1. PICK ttl \in {BusyTtl, IdleTtl} :
            Send(s, Renewed(held[s].manifest, Clock(s) + ttl, ttl),
                 held[s].version, Clock(s), "renew")
      BY <2>3 DEF Renew
    <3>2. ttl \in Nat /\ Clock(s) \in Nat /\ Clock(s) + ttl \in Nat
      BY ClockType, LeaseAssumption
    <3>3. held[s].manifest \in Manifest /\ held[s].version \in Manifest
      BY DEF TypeOK, HeldLease
    <3>4. Renewed(held[s].manifest, Clock(s) + ttl, ttl) \in Manifest
      BY <3>2, <3>3, BodyTypes
    <3>5. pc' \in [Sessions -> Pcs] /\ put' \in [Sessions -> PutRec]
      BY <3>1, <3>2, <3>3, <3>4, SendType DEF Swapping
    <3> QED BY <2>3, <3>5 DEF Renew, TypeOK
  <2>4. CASE Reread(s)
    <3>1. CASE Ours(s, manifest)
      <4>1. Renewed(manifest, put[s].body.lease.expires, put[s].body.lease.ttl) \in Manifest
        BY BodyTypes DEF TypeOK
      <4>2. pc' \in [Sessions -> Pcs] /\ put' \in [Sessions -> PutRec]
        BY <2>4, <3>1, <4>1, SendType DEF Reread, TypeOK, Swapping
      <4> QED BY <2>4, <3>1, <4>2 DEF Reread, TypeOK
    <3>2. CASE ~Ours(s, manifest)
      BY <2>4, <3>2, EndsType DEF Reread, TypeOK
    <3> QED BY <3>1, <3>2
  <2>5. CASE RenewOk(s)
    <3>1. pc' \in [Sessions -> Pcs] /\ put' \in [Sessions -> PutRec]
      BY <2>5, GoToType DEF RenewOk
    <3>2. held' \in [Sessions -> HeldLease]
      BY <2>5 DEF RenewOk, Remember, TypeOK, HeldLease
    <3> QED BY <2>5, <3>1, <3>2 DEF RenewOk, TypeOK, Applied
  <2>6. CASE Publish(s)
    <3>1. Published(s, manifest) \in Manifest /\ Clock(s) \in Nat /\ manifest \in Manifest
      BY BodyTypes, ClockType DEF TypeOK
    <3>2. pc' \in [Sessions -> Pcs] /\ put' \in [Sessions -> PutRec]
      BY <2>6, <3>1, SendType DEF Publish, Swapping
    <3> QED BY <2>6, <3>2 DEF Publish, TypeOK
  <2>7. CASE PublishOk(s)
    <3>1. pc' \in [Sessions -> Pcs] /\ put' \in [Sessions -> PutRec]
      BY <2>7, GoToType DEF PublishOk
    <3>2. held' \in [Sessions -> HeldLease]
      <4>1. /\ Remember(held[s], put[s].body) \in HeldLease
            /\ [held[s] EXCEPT !.version = put[s].body] \in HeldLease
        BY DEF Remember, HeldLease, TypeOK
      <4>2. \/ held' = [held EXCEPT ![s] = Remember(held[s], put[s].body)]
            \/ held' = [held EXCEPT ![s] = [held[s] EXCEPT !.version = put[s].body]]
        BY <2>7 DEF PublishOk
      <4> QED BY <4>1, <4>2 DEF TypeOK
    <3>3. acked' \subseteq [n: Nat, by: Sessions]
      BY <2>7, LenProperties DEF PublishOk, Ack, TypeOK
    <3> QED BY <2>7, <3>1, <3>2, <3>3 DEF PublishOk, TypeOK, Applied
  <2>8. CASE PutSnapshot(s)
    <3>1. pc' \in [Sessions -> Pcs] /\ put' \in [Sessions -> PutRec]
      BY <2>8, GoToType DEF PutSnapshot
    <3>2. held' \in [Sessions -> HeldLease]
      <4>1. \A h \in Nat : /\ [held[s] EXCEPT !.manifest = put[s].body] \in HeldLease
                           /\ [held[s] EXCEPT !.manifest = put[s].body,
                                              !.last_history = h] \in HeldLease
        BY DEF HeldLease, TypeOK
      <4>2. \/ held' = [held EXCEPT ![s] = [held[s] EXCEPT !.manifest = put[s].body]]
            \/ held' = [held EXCEPT ![s] = [held[s] EXCEPT !.manifest = put[s].body,
                                                          !.last_history = put[s].at]]
        BY <2>8 DEF PutSnapshot
      <4> QED BY <4>1, <4>2 DEF TypeOK
    <3>3. acked' \subseteq [n: Nat, by: Sessions]
      BY <2>8, LenProperties DEF PutSnapshot, Ack, TypeOK
    <3>4. history' \subseteq Snapshot
      BY <2>8 DEF PutSnapshot, SnapshotKey, Snapshot, TypeOK
    <3> QED BY <2>8, <3>1, <3>2, <3>3, <3>4 DEF PutSnapshot, TypeOK
  <2>9. CASE Release(s)
    <3>1. CASE Ours(s, manifest)
      <4>1. Released(manifest) \in Manifest /\ Clock(s) \in Nat
        BY BodyTypes, ClockType DEF TypeOK
      <4>2. pc' \in [Sessions -> Pcs] /\ put' \in [Sessions -> PutRec]
        BY <2>9, <3>1, <4>1, SendType DEF Release, TypeOK, Swapping
      <4> QED BY <2>9, <3>1, <4>2 DEF Release, TypeOK
    <3>2. CASE ~Ours(s, manifest)
      BY <2>9, <3>2, EndsType DEF Release, TypeOK
    <3> QED BY <3>1, <3>2
  <2>10. CASE ReleaseOk(s)
    BY <2>10, EndsType DEF ReleaseOk, TypeOK, Applied
  <2>11. CASE Conflict(s)
    BY <2>11, EndsType, AfterTypes DEF Conflict, TypeOK
  <2>12. CASE SelfConflict(s)
    BY <2>12, EndsType, AfterTypes DEF SelfConflict, TypeOK, Applied
  <2>13. CASE Ambiguous(s)
    BY <2>13, EndsType, AfterTypes DEF Ambiguous, TypeOK
  <2>14. CASE RereadFails(s)
    <3>1. Retry(s) \in Pcs
      BY DEF Retry
    <3> QED BY <2>14, <3>1, EndsType DEF RereadFails, TypeOK
  <2>15. CASE Die(s)
    BY <2>15, EndsType DEF Die, TypeOK
  <2> QED
    BY <1>3, <2>1, <2>2, <2>3, <2>4, <2>5, <2>6, <2>7, <2>8, <2>9, <2>10, <2>11,
       <2>12, <2>13, <2>14, <2>15 DEF Session, Heartbeat
<1>4. CASE UNCHANGED vars
  BY <1>4 DEF vars, TypeOK
<1> QED BY <1>1, <1>2, <1>3, <1>4 DEF Next

\* Type correctness of the lease for every set of sessions, clocks and bounds.
THEOREM LeaseTypes == Spec => []TypeOK
<1>1. Init => TypeOK
  BY GenesisType DEF Init, TypeOK, Pcs
<1> QED BY <1>1, TypeStep, PTL DEF Spec

-----------------------------------------------------------------------------
(* The manifest only moves forward                                          *)

LEMMA ExtendsTrans ==
  ASSUME NEW m \in Manifest, NEW n \in Manifest, NEW o \in Manifest,
         Extends(m, n), Extends(n, o)
  PROVE  Extends(m, o)
<1>1. Len(m.ckpts) \in Nat /\ Len(n.ckpts) \in Nat /\ Len(o.ckpts) \in Nat
  BY LenProperties DEF Manifest
<1> QED BY <1>1 DEF Extends

LEMMA ForwardSelf == ASSUME NEW m \in Manifest PROVE Forward(m, m)
<1>1. Len(m.ckpts) \in Nat /\ m.epoch \in Nat
  BY LenProperties DEF Manifest
<1> QED BY <1>1 DEF Forward, Extends

LEMMA SoundGenesis == InEpochOrder(Genesis) /\ Sound(NoPut)
<1>1. Len(Genesis.ckpts) = 0
  BY DEF Genesis
<1>2. InEpochOrder(Genesis)
  BY <1>1 DEF InEpochOrder
<1>3. Forward(Genesis, Genesis)
  BY GenesisType, ForwardSelf
<1> QED BY <1>2, <1>3 DEF Sound, NoPut

\* The four bodies a session ever sends move the manifest they expect forward.
LEMMA BodiesSound ==
  ASSUME TypeOK, NEW s \in Sessions, NEW m \in Manifest, InEpochOrder(m)
  PROVE  /\ InEpochOrder(Taken(s, m)) /\ Forward(m, Taken(s, m))
         /\ Taken(s, m).epoch = m.epoch + 1
         /\ \A e, t \in Nat : InEpochOrder(Renewed(m, e, t)) /\ Forward(m, Renewed(m, e, t))
         /\ Ours(s, m) => /\ InEpochOrder(Published(s, m))
                          /\ Forward(m, Published(s, m))
                          /\ LastBy(Published(s, m), s)
         /\ InEpochOrder(Released(m)) /\ Forward(m, Released(m))
<1> m.epoch \in Nat /\ m.ckpts \in Seq(Ckpt) /\ Len(m.ckpts) \in Nat /\ m.lease \in LeaseRec
  BY LenProperties DEF Manifest
<1>0. \A i \in 1..Len(m.ckpts) : m.ckpts[i].epoch \in Nat
  <2>1. \A i \in 1..Len(m.ckpts) : m.ckpts[i] \in Ckpt
    BY ElementOfSeq
  <2> QED BY <2>1 DEF Ckpt
<1>1. Taken(s, m).ckpts = m.ckpts /\ Taken(s, m).epoch = m.epoch + 1
  BY DEF Taken
<1>2. InEpochOrder(Taken(s, m)) /\ Forward(m, Taken(s, m))
  BY <1>0, <1>1 DEF InEpochOrder, Forward, Extends
<1>3. ASSUME NEW e \in Nat, NEW t \in Nat
      PROVE  InEpochOrder(Renewed(m, e, t)) /\ Forward(m, Renewed(m, e, t))
  <2>1. /\ Renewed(m, e, t).ckpts = m.ckpts /\ Renewed(m, e, t).epoch = m.epoch
        /\ Renewed(m, e, t).lease.holder = m.lease.holder
        /\ Renewed(m, e, t).lease.fence = m.lease.fence
    BY DEF Renewed, Manifest, LeaseRec
  <2> QED BY <2>1 DEF InEpochOrder, Forward, Extends
<1>4. ASSUME Ours(s, m)
      PROVE  /\ InEpochOrder(Published(s, m)) /\ Forward(m, Published(s, m))
             /\ LastBy(Published(s, m), s)
  <2> DEFINE c == [by |-> s, epoch |-> held[s].epoch]
             q == Append(m.ckpts, c)
  <2>1. c \in Ckpt /\ c.by = s /\ c.epoch = m.epoch
    BY <1>4 DEF TypeOK, HeldLease, Ckpt, Ours
  <2>2. /\ Published(s, m).ckpts = q /\ Published(s, m).epoch = m.epoch
        /\ Published(s, m).lease = m.lease
    BY DEF Published, Manifest
  <2> HIDE DEF c
  <2>3. /\ q \in Seq(Ckpt) /\ Len(q) = Len(m.ckpts) + 1
        /\ \A i \in 1..Len(m.ckpts) : q[i] = m.ckpts[i]
        /\ q[Len(m.ckpts) + 1] = c
    BY <2>1, AppendProperties
  <2> HIDE DEF q
  <2>4. InEpochOrder(Published(s, m))
    <3>1. \A i \in 1..Len(q) : i \in 1..Len(m.ckpts) \/ i = Len(m.ckpts) + 1
      BY <2>3
    <3>2. \A i \in 1..Len(q) : q[i].epoch <= m.epoch
      BY <2>1, <2>3, <3>1 DEF InEpochOrder
    <3>3. ASSUME NEW i \in 1..Len(q), NEW j \in 1..Len(q), i < j
          PROVE  q[i].epoch <= q[j].epoch
      <4>1. i \in 1..Len(m.ckpts)
        BY <2>3, <3>1, <3>3
      <4>2. CASE j \in 1..Len(m.ckpts)
        BY <2>3, <3>3, <4>1, <4>2 DEF InEpochOrder
      <4>3. CASE j = Len(m.ckpts) + 1
        BY <2>1, <2>3, <3>2, <4>3
      <4> QED BY <3>1, <4>2, <4>3
    <3> QED BY <2>2, <3>2, <3>3 DEF InEpochOrder
  <2>5. Forward(m, Published(s, m))
    BY <2>2, <2>3 DEF Forward, Extends
  <2>6. LastBy(Published(s, m), s)
    BY <2>1, <2>2, <2>3 DEF LastBy
  <2> QED BY <2>4, <2>5, <2>6
<1>5. InEpochOrder(Released(m)) /\ Forward(m, Released(m))
  <2>1. /\ Released(m).ckpts = m.ckpts /\ Released(m).epoch = m.epoch
        /\ Released(m).lease = NoLease
    BY DEF Released, Manifest
  <2> QED BY <2>1 DEF InEpochOrder, Forward, Extends
<1> QED BY <1>1, <1>2, <1>3, <1>4, <1>5

\* What does not depend on who moved the manifest.
Common ==
  /\ InEpochOrder(manifest)
  /\ \A g \in granted : g.epoch <= manifest.epoch
  /\ OneHolderPerEpoch
  /\ PublishedStays

\* A sound PUT that lands keeps what is acked and granted, and whatever
\* manifest the current one extends.
LEMMA Lands ==
  ASSUME TypeOK, LeaseInv, NEW p \in PutRec, Sound(p), manifest = p.expect,
         manifest' = p.body, granted' = granted, acked' = acked
  PROVE  /\ Common'
         /\ Forward(manifest, manifest')
         /\ \A m \in Manifest : Extends(m, manifest) => Extends(m, manifest')
<1>1. p.expect \in Manifest /\ p.body \in Manifest /\ manifest \in Manifest
  BY DEF PutRec, TypeOK
<1>2. Forward(manifest, manifest') /\ Extends(manifest, manifest') /\ InEpochOrder(manifest')
  BY DEF Sound, Forward
<1>3. \A m \in Manifest : Extends(m, manifest) => Extends(m, manifest')
  BY <1>1, <1>2, ExtendsTrans
<1>4. manifest.epoch \in Nat /\ manifest'.epoch \in Nat /\ manifest'.epoch >= manifest.epoch
  BY <1>1, <1>2 DEF Manifest, Forward
<1>5. (\A g \in granted : g.epoch <= manifest.epoch)'
  BY <1>4 DEF LeaseInv, TypeOK
<1>6. OneHolderPerEpoch'
  BY DEF LeaseInv, OneHolderPerEpoch
<1>7. PublishedStays'
  <2>1. Len(manifest.ckpts) \in Nat /\ Len(manifest'.ckpts) \in Nat
    BY <1>1, LenProperties DEF Manifest
  <2>2. \A a \in acked : a.n \in Nat
    BY DEF TypeOK
  <2> QED BY <1>2, <2>1, <2>2 DEF LeaseInv, PublishedStays, Extends
<1>8. (InEpochOrder(manifest))'
  BY <1>2 DEF InEpochOrder
<1> QED BY <1>2, <1>3, <1>5, <1>6, <1>7, <1>8 DEF Common

\* A session the step does not belong to.
LEMMA Bystander ==
  ASSUME TypeOK, LeaseInv, NEW t \in Sessions,
         pc'[t] = pc[t], put'[t] = put[t], held'[t] = held[t],
         \A m \in Manifest : Extends(m, manifest) => Extends(m, manifest')
  PROVE  HeldInv(t)' /\ PutInv(t)'
<1>1. put[t].body \in Manifest
  BY DEF TypeOK, PutRec
<1>2. PutInv(t)'
  BY DEF LeaseInv, PutInv, Sound, Forward, Extends, InEpochOrder, LastBy
<1>3. HeldInv(t) /\ (pc[t] = "snapshot" => Extends(put[t].body, manifest'))
  BY <1>1 DEF LeaseInv, HeldInv
<1>4. HeldInv(t)'
  BY <1>3 DEF HeldInv, Extends, InEpochOrder, LastBy
<1> QED BY <1>2, <1>4

\* The session whose operation is over, or goes on to re-read.
LEMMA Ending ==
  ASSUME TypeOK, LeaseInv, NEW s \in Sessions,
         NEW to \in {"idle", "holding", "reread", "lost", "gone"}, Ends(s, to),
         pc[s] = "snapshot" => to \in {"lost", "gone"}
  PROVE  /\ HeldInv(s)' /\ PutInv(s)'
         /\ \A t \in Sessions \ {s} : pc'[t] = pc[t] /\ put'[t] = put[t] /\ held'[t] = held[t]
<1>1. pc'[s] = to /\ (put'[s] = put[s] \/ put'[s] = NoPut)
  BY DEF Ends, GoTo, TypeOK
<1>2. \/ held'[s] = NotHeld
      \/ held'[s] = held[s] /\ pc[s] # "snapshot"
  BY DEF Ends, Keep, TypeOK
<1>3. Sound(put'[s])
  BY <1>1, SoundGenesis DEF LeaseInv, PutInv
<1>4. PutInv(s)'
  BY <1>1, <1>3 DEF PutInv, Sound, Forward, Extends, InEpochOrder
<1>5. InEpochOrder(held'[s].manifest) /\ held'[s].version = held'[s].manifest
  BY <1>2, SoundGenesis DEF LeaseInv, HeldInv, NotHeld
<1>6. HeldInv(s)'
  BY <1>1, <1>5 DEF HeldInv, InEpochOrder
<1>7. ASSUME NEW t \in Sessions \ {s}
      PROVE  pc'[t] = pc[t] /\ put'[t] = put[t] /\ held'[t] = held[t]
  BY DEF Ends, GoTo, Keep, TypeOK
<1> QED BY <1>4, <1>6, <1>7

\* A session that starts a sound PUT.
LEMMA Starting ==
  ASSUME TypeOK, LeaseInv, NEW s \in Sessions, NEW body \in Manifest,
         NEW expect \in Manifest, NEW clock \in Nat, NEW to \in Swapping,
         Send(s, body, expect, clock, to), held' = held, pc[s] # "snapshot",
         InEpochOrder(expect), InEpochOrder(body), Forward(expect, body),
         to = "take" => body.epoch = expect.epoch + 1,
         to = "publish" => LastBy(body, s)
  PROVE  /\ HeldInv(s)' /\ PutInv(s)'
         /\ \A t \in Sessions \ {s} : pc'[t] = pc[t] /\ put'[t] = put[t] /\ held'[t] = held[t]
<1>1. pc'[s] = to /\ put'[s] = [body |-> body, expect |-> expect, at |-> clock]
  BY DEF Send, TypeOK
<1>2. put'[s].body = body /\ put'[s].expect = expect
  BY <1>1
<1>3. PutInv(s)'
  BY <1>1, <1>2 DEF PutInv, Sound, Forward, Extends, InEpochOrder, LastBy
<1>4. HeldInv(s)'
  BY <1>1 DEF LeaseInv, HeldInv, InEpochOrder, Swapping
<1>5. ASSUME NEW t \in Sessions \ {s}
      PROVE  pc'[t] = pc[t] /\ put'[t] = put[t] /\ held'[t] = held[t]
  BY DEF Send, TypeOK
<1> QED BY <1>3, <1>4, <1>5

\* The invariant of a step that leaves the manifest and what was answered
\* alone, or moves it by a sound PUT, given the acting session's own part.
LEMMA Assemble ==
  ASSUME TypeOK, LeaseInv, NEW s \in Sessions,
         HeldInv(s)', PutInv(s)', Common',
         \A t \in Sessions \ {s} : pc'[t] = pc[t] /\ put'[t] = put[t] /\ held'[t] = held[t],
         \A m \in Manifest : Extends(m, manifest) => Extends(m, manifest'),
         \A p \in limbo' : p \in limbo \/ p = put[s]
  PROVE  LeaseInv'
<1>1. ASSUME NEW t \in Sessions PROVE HeldInv(t)' /\ PutInv(t)'
  <2>1. CASE t = s
    BY <2>1
  <2>2. CASE t # s
    BY <2>2, Bystander
  <2> QED BY <2>1, <2>2
<1>2. \A p \in limbo' : Sound(p)
  BY DEF LeaseInv, PutInv
<1>3. (\A p \in limbo : Sound(p))'
  BY <1>2 DEF Sound, Forward, Extends, InEpochOrder
<1> QED BY <1>1, <1>3 DEF LeaseInv, Common

LEMMA Same ==
  ASSUME TypeOK, LeaseInv, manifest' = manifest, granted' = granted, acked' = acked
  PROVE  Common' /\ \A m \in Manifest : Extends(m, manifest) => Extends(m, manifest')
BY DEF LeaseInv, Common, InEpochOrder, OneHolderPerEpoch, PublishedStays

LEMMA InvStep == TypeOK /\ TypeOK' /\ LeaseInv /\ [Next]_vars => LeaseInv'
<1> SUFFICES ASSUME TypeOK, TypeOK', LeaseInv, [Next]_vars PROVE LeaseInv'
  OBVIOUS
<1>1. CASE Tick
  BY <1>1 DEF Tick, LeaseInv, HeldInv, PutInv, Sound, Forward, Extends, InEpochOrder,
              LastBy, OneHolderPerEpoch, PublishedStays
<1>2. ASSUME NEW p \in limbo, LandLate(p) PROVE LeaseInv'
  <2>1. p \in PutRec /\ Sound(p)
    BY DEF TypeOK, LeaseInv
  <2>2. Common' /\ \A m \in Manifest : Extends(m, manifest) => Extends(m, manifest')
    BY <1>2, <2>1, Lands DEF LandLate
  <2>3. ASSUME NEW t \in Sessions PROVE HeldInv(t)' /\ PutInv(t)'
    BY <1>2, <2>2, Bystander DEF LandLate
  <2>4. \A r \in limbo' : Sound(r)
    BY <1>2 DEF LandLate, LeaseInv
  <2>5. (\A r \in limbo : Sound(r))'
    BY <2>4 DEF Sound, Forward, Extends, InEpochOrder
  <2> QED BY <2>2, <2>3, <2>5 DEF LeaseInv, Common
<1>3. ASSUME NEW s \in Sessions, Session(s) PROVE LeaseInv'
  <2> manifest \in Manifest /\ Clock(s) \in Nat /\ put[s] \in PutRec /\ Sound(put[s])
      /\ InEpochOrder(manifest)
    BY ClockType DEF TypeOK, LeaseInv, PutInv
  <2> DEFINE Frame == \A t \in Sessions \ {s} :
                        pc'[t] = pc[t] /\ put'[t] = put[t] /\ held'[t] = held[t]
  <2>0. Applied(s) /\ granted' = granted /\ acked' = acked =>
          /\ Common'
          /\ \A m \in Manifest : Extends(m, manifest) => Extends(m, manifest')
    BY Lands DEF Applied
  <2>1. CASE Take(s)
    <3>1. HeldInv(s)' /\ PutInv(s)' /\ Frame
      BY <2>1, Starting, BodiesSound, BodyTypes DEF Take, Swapping
    <3> QED BY <2>1, <3>1, Same, Assemble DEF Take
  <2>2. CASE TakeOk(s)
    <3>1. pc[s] = "take" /\ manifest = put[s].expect /\ manifest' = put[s].body
      BY <2>2 DEF TakeOk, Applied
    <3>2. /\ pc'[s] = "holding" /\ put'[s] = NoPut
          /\ held'[s].manifest = put[s].body /\ held'[s].version = put[s].body
          /\ Frame
      BY <2>2 DEF TakeOk, GoTo, TypeOK
    <3>3. HeldInv(s)'
      BY <3>2 DEF HeldInv, Sound, InEpochOrder
    <3>4. PutInv(s)'
      BY <3>2, SoundGenesis DEF PutInv, Sound, Forward, Extends, InEpochOrder
    <3>5. manifest'.epoch = manifest.epoch + 1 /\ manifest.epoch \in Nat
      BY <3>1 DEF LeaseInv, PutInv, Manifest
    <3>6. /\ InEpochOrder(manifest)' /\ PublishedStays'
          /\ \A m \in Manifest : Extends(m, manifest) => Extends(m, manifest')
      <4>1. acked' = acked
        BY <2>2 DEF TakeOk
      <4>2. /\ Len(manifest.ckpts) \in Nat /\ Len(manifest'.ckpts) \in Nat
            /\ manifest' \in Manifest
        BY LenProperties DEF TypeOK, Manifest
      <4>3. Extends(manifest, manifest')
        BY <3>1 DEF Sound, Forward
      <4>4. \A m \in Manifest : Extends(m, manifest) => Extends(m, manifest')
        BY <4>2, <4>3, ExtendsTrans
      <4>5. InEpochOrder(manifest)'
        BY <3>1 DEF Sound, InEpochOrder
      <4>6. PublishedStays'
        BY <4>1, <4>2, <4>3 DEF LeaseInv, PublishedStays, Extends, TypeOK
      <4> QED BY <4>4, <4>5, <4>6
    <3>7. (\A g \in granted : g.epoch <= manifest.epoch)' /\ OneHolderPerEpoch'
      <4>1. \A g \in granted : g.epoch \in Nat /\ g.epoch <= manifest.epoch
        BY DEF LeaseInv, TypeOK
      <4> DEFINE n == [by |-> s, epoch |-> put[s].body.epoch,
                       fence |-> put[s].body.lease.fence]
      <4>2. granted' = granted \cup {n} /\ n.epoch = manifest'.epoch
        BY <2>2, <3>1 DEF TakeOk
      <4> HIDE DEF n
      <4>3. (\A g \in granted : g.epoch <= manifest.epoch)'
        BY <3>5, <4>1, <4>2
      <4>4. OneHolderPerEpoch'
        BY <3>5, <4>1, <4>2 DEF LeaseInv, OneHolderPerEpoch
      <4> QED BY <4>3, <4>4
    <3> QED BY <2>2, <3>2, <3>3, <3>4, <3>6, <3>7, Assemble DEF TakeOk, Common
  <2>3. CASE Renew(s)
    <3>1. PICK ttl \in {BusyTtl, IdleTtl} :
            Send(s, Renewed(held[s].manifest, Clock(s) + ttl, ttl),
                 held[s].version, Clock(s), "renew")
      BY <2>3 DEF Renew
    <3>2. ttl \in Nat /\ Clock(s) + ttl \in Nat
      BY LeaseAssumption
    <3>3. /\ held[s].manifest \in Manifest /\ held[s].version = held[s].manifest
          /\ InEpochOrder(held[s].manifest)
      BY <2>3 DEF TypeOK, HeldLease, LeaseInv, HeldInv, Renew
    <3> DEFINE body == Renewed(held[s].manifest, Clock(s) + ttl, ttl)
    <3>4. body \in Manifest /\ InEpochOrder(body) /\ Forward(held[s].version, body)
      BY <3>2, <3>3, BodiesSound, BodyTypes
    <3> HIDE DEF body
    <3>5. HeldInv(s)' /\ PutInv(s)' /\ Frame
      BY <2>3, <3>1, <3>3, <3>4, Starting DEF Renew, Swapping, body
    <3> QED BY <2>3, <3>5, Same, Assemble DEF Renew
  <2>4. CASE Reread(s)
    <3>1. HeldInv(s)' /\ PutInv(s)' /\ Frame
      <4>1. CASE Ours(s, manifest)
        <5> DEFINE body == Renewed(manifest, put[s].body.lease.expires, put[s].body.lease.ttl)
        <5>1. body \in Manifest /\ InEpochOrder(body) /\ Forward(manifest, body)
          BY PutType, BodiesSound, BodyTypes
        <5>2. Send(s, body, manifest, put[s].at, "reswap") /\ held' = held /\ pc[s] = "reread"
          BY <2>4, <4>1 DEF Reread
        <5> HIDE DEF body
        <5> QED BY <5>1, <5>2, PutType, Starting DEF Swapping
      <4>2. CASE ~Ours(s, manifest)
        BY <2>4, <4>2, Ending DEF Reread
      <4> QED BY <4>1, <4>2
    <3> QED BY <2>4, <3>1, Same, Assemble DEF Reread
  <2>5. CASE RenewOk(s)
    <3>1. /\ pc'[s] = "holding" /\ put'[s] = NoPut
          /\ held'[s] = [Remember(held[s], put[s].body)
                            EXCEPT !.expires = put[s].body.lease.expires]
          /\ Frame
      BY <2>5 DEF RenewOk, GoTo, TypeOK
    <3>2. held'[s].manifest = put[s].body /\ held'[s].version = put[s].body
      BY <3>1 DEF Remember, TypeOK, HeldLease
    <3>3. HeldInv(s)'
      BY <3>1, <3>2 DEF HeldInv, Sound, InEpochOrder
    <3>4. PutInv(s)'
      BY <3>1, SoundGenesis DEF PutInv, Sound, Forward, Extends, InEpochOrder
    <3> QED BY <2>5, <2>0, <3>1, <3>3, <3>4, Assemble DEF RenewOk
  <2>6. CASE Publish(s)
    <3>1. HeldInv(s)' /\ PutInv(s)' /\ Frame
      BY <2>6, Starting, BodiesSound, BodyTypes DEF Publish, Swapping
    <3> QED BY <2>6, <3>1, Same, Assemble DEF Publish
  <2>7. CASE PublishOk(s)
    <3>1. pc[s] = "publish" /\ manifest = put[s].expect /\ manifest' = put[s].body
      BY <2>7 DEF PublishOk, Applied
    <3>2. /\ InEpochOrder(manifest)' /\ Forward(manifest, manifest')
          /\ LastBy(put[s].body, s)
      BY <3>1 DEF Sound, InEpochOrder, LeaseInv, PutInv
    <3>3. /\ Len(manifest.ckpts) \in Nat /\ Len(manifest'.ckpts) \in Nat
          /\ manifest' \in Manifest /\ manifest.epoch \in Nat /\ manifest'.epoch \in Nat
      BY LenProperties DEF TypeOK, Manifest
    <3>4. \A m \in Manifest : Extends(m, manifest) => Extends(m, manifest')
      BY <3>2, <3>3, ExtendsTrans DEF Forward
    <3>5. (\A g \in granted : g.epoch <= manifest.epoch)' /\ OneHolderPerEpoch'
      BY <2>7, <3>2, <3>3 DEF PublishOk, LeaseInv, OneHolderPerEpoch, Forward, TypeOK
    <3>6. PublishedStays'
      <4>1. acked' = acked \/ acked' = acked \cup {[n |-> Len(put[s].body.ckpts), by |-> s]}
        BY <2>7 DEF PublishOk, Ack
      <4>2. \A a \in acked : /\ a.n \in 1..Len(manifest'.ckpts)
                             /\ manifest'.ckpts[a.n].by = a.by
        BY <3>2, <3>3 DEF LeaseInv, PublishedStays, Forward, Extends, TypeOK
      <4>3. /\ Len(put[s].body.ckpts) \in 1..Len(manifest'.ckpts)
            /\ manifest'.ckpts[Len(put[s].body.ckpts)].by = s
        BY <3>1, <3>2, <3>3 DEF LastBy
      <4> QED BY <4>1, <4>2, <4>3 DEF PublishedStays
    <3>7. Frame
      BY <2>7 DEF PublishOk, GoTo, TypeOK
    <3>8. HeldInv(s)' /\ PutInv(s)'
      <4>1. CASE held[s].last_history = put[s].at
        <5>1. /\ pc'[s] = "holding" /\ put'[s] = NoPut
              /\ held'[s] = Remember(held[s], put[s].body)
          BY <2>7, <4>1 DEF PublishOk, GoTo, TypeOK
        <5>2. held'[s].manifest = put[s].body /\ held'[s].version = put[s].body
          BY <5>1 DEF Remember, TypeOK, HeldLease
        <5>3. HeldInv(s)'
          BY <5>1, <5>2 DEF HeldInv, Sound, InEpochOrder
        <5>4. PutInv(s)'
          BY <5>1, SoundGenesis DEF PutInv, Sound, Forward, Extends, InEpochOrder
        <5> QED BY <5>3, <5>4
      <4>2. CASE held[s].last_history # put[s].at
        <5>1. /\ pc'[s] = "snapshot" /\ put'[s] = put[s]
              /\ held'[s] = [held[s] EXCEPT !.version = put[s].body]
          BY <2>7, <4>2 DEF PublishOk, GoTo, TypeOK
        <5>2. held'[s].manifest = held[s].manifest /\ held'[s].version = put[s].body
          BY <5>1 DEF TypeOK, HeldLease
        <5>3. Extends(put[s].body, manifest')
          BY <3>1, <3>3, ForwardSelf DEF Forward
        <5>4. HeldInv(s)'
          BY <3>2, <5>1, <5>2, <5>3 DEF LeaseInv, HeldInv, InEpochOrder, LastBy, Extends
        <5>5. PutInv(s)'
          BY <5>1 DEF PutInv, Sound, Forward, Extends, InEpochOrder
        <5> QED BY <5>4, <5>5
      <4> QED BY <4>1, <4>2
    <3> QED BY <2>7, <3>2, <3>4, <3>5, <3>6, <3>7, <3>8, Assemble DEF PublishOk, Common
  <2>8. CASE PutSnapshot(s)
    <3>1. /\ pc[s] = "snapshot" /\ held[s].version = put[s].body
          /\ LastBy(put[s].body, s) /\ Extends(put[s].body, manifest)
      BY <2>8 DEF PutSnapshot, LeaseInv, HeldInv
    <3>2. pc'[s] = "holding" /\ put'[s] = NoPut /\ Frame
      BY <2>8 DEF PutSnapshot, GoTo, TypeOK
    <3>3. held'[s].manifest = put[s].body /\ held'[s].version = put[s].body
      <4>1. held[s] \in HeldLease
        BY DEF TypeOK
      <4>2. \/ held' = [held EXCEPT ![s] = [held[s] EXCEPT !.manifest = put[s].body]]
            \/ held' = [held EXCEPT ![s] = [held[s] EXCEPT !.manifest = put[s].body,
                                                          !.last_history = put[s].at]]
        BY <2>8 DEF PutSnapshot
      <4>3. \/ held'[s] = [held[s] EXCEPT !.manifest = put[s].body]
            \/ held'[s] = [held[s] EXCEPT !.manifest = put[s].body,
                                          !.last_history = put[s].at]
        BY <4>2 DEF TypeOK
      <4> QED BY <3>1, <4>1, <4>3 DEF HeldLease
    <3>4. HeldInv(s)'
      BY <3>2, <3>3 DEF HeldInv, Sound, InEpochOrder
    <3>5. PutInv(s)'
      BY <3>2, SoundGenesis DEF PutInv, Sound, Forward, Extends, InEpochOrder
    <3>6. Common'
      <4>1. /\ manifest' = manifest /\ granted' = granted
            /\ acked' = acked \cup {[n |-> Len(put[s].body.ckpts), by |-> s]}
        BY <2>8 DEF PutSnapshot, Ack
      <4>2. Len(manifest.ckpts) \in Nat /\ Len(put[s].body.ckpts) \in Nat
        BY PutType, LenProperties DEF TypeOK, Manifest
      <4> DEFINE n == Len(put[s].body.ckpts)
      <4>3. n \in 1..n /\ n <= Len(manifest.ckpts) /\ put[s].body.ckpts[n].by = s
        BY <3>1, <4>2 DEF LastBy, Extends
      <4>5. manifest.ckpts[n] = put[s].body.ckpts[n]
        BY <3>1, <4>3 DEF Extends
      <4>6. n \in 1..Len(manifest.ckpts) /\ manifest.ckpts[n].by = s
        BY <4>2, <4>3, <4>5
      <4>4. PublishedStays'
        BY <4>1, <4>6 DEF PublishedStays, LeaseInv
      <4> QED BY <4>1, <4>4 DEF LeaseInv, Common, InEpochOrder, OneHolderPerEpoch
    <3> QED BY <2>8, <3>2, <3>4, <3>5, <3>6, Assemble DEF PutSnapshot
  <2>9. CASE Release(s)
    <3>1. HeldInv(s)' /\ PutInv(s)' /\ Frame
      <4>1. CASE Ours(s, manifest)
        BY <2>9, <4>1, Starting, BodiesSound, BodyTypes DEF Release, Swapping
      <4>2. CASE ~Ours(s, manifest)
        BY <2>9, <4>2, Ending DEF Release
      <4> QED BY <4>1, <4>2
    <3> QED BY <2>9, <3>1, Same, Assemble DEF Release
  <2>10. CASE ReleaseOk(s)
    BY <2>10, <2>0, Ending, Assemble DEF ReleaseOk
  <2>11. CASE Conflict(s)
    <3>1. AfterRace(s) \in {"idle", "holding", "reread", "lost", "gone"} /\ pc[s] # "snapshot"
      BY <2>11 DEF Conflict, Swapping, AfterRace, Retry
    <3> QED BY <2>11, <3>1, Ending, Same, Assemble DEF Conflict
  <2>12. CASE SelfConflict(s)
    <3>1. AfterRace(s) \in {"idle", "holding", "reread", "lost", "gone"} /\ pc[s] # "snapshot"
      BY <2>12 DEF SelfConflict, Swapping, AfterRace, Retry
    <3> QED BY <2>12, <2>0, <3>1, Ending, Assemble DEF SelfConflict
  <2>13. CASE Ambiguous(s)
    <3>1. AfterError(s) \in {"idle", "holding", "reread", "lost", "gone"} /\ pc[s] # "snapshot"
      BY <2>13 DEF Ambiguous, Swapping, AfterError, AfterRace, Retry
    <3> QED BY <2>13, <3>1, Ending, Same, Assemble DEF Ambiguous
  <2>14. CASE RereadFails(s)
    <3>1. Retry(s) \in {"holding", "lost"} /\ pc[s] # "snapshot"
      BY <2>14 DEF RereadFails, Retry
    <3> QED BY <2>14, <3>1, Ending, Same, Assemble DEF RereadFails
  <2>15. CASE Die(s)
    BY <2>15, Ending, Same, Assemble DEF Die
  <2> QED
    BY <1>3, <2>1, <2>2, <2>3, <2>4, <2>5, <2>6, <2>7, <2>8, <2>9, <2>10, <2>11,
       <2>12, <2>13, <2>14, <2>15 DEF Session, Heartbeat
<1>4. CASE UNCHANGED vars
  BY <1>4 DEF vars, LeaseInv, HeldInv, PutInv, Sound, Forward, Extends, InEpochOrder,
              LastBy, OneHolderPerEpoch, PublishedStays
<1> QED BY <1>1, <1>2, <1>3, <1>4 DEF Next

LEMMA InvInit == Init => LeaseInv
<1> SUFFICES ASSUME Init PROVE LeaseInv
  OBVIOUS
<1>1. InEpochOrder(manifest)
  BY SoundGenesis DEF Init
<1>2. ASSUME NEW s \in Sessions PROVE HeldInv(s) /\ PutInv(s)
  BY SoundGenesis DEF Init, HeldInv, PutInv, NotHeld
<1>3. OneHolderPerEpoch /\ PublishedStays
  BY DEF Init, OneHolderPerEpoch, PublishedStays
<1> QED BY <1>1, <1>2, <1>3 DEF Init, LeaseInv

LEMMA LeaseInvariant == Spec => []LeaseInv
<1>1. TypeOK /\ LeaseInv /\ TypeOK' /\ [Next]_vars => LeaseInv'
  BY InvStep
<1> QED BY InvInit, LeaseTypes, <1>1, PTL DEF Spec

(***************************************************************************)
(* What update_manifest answered Ok for stays in the manifest, whatever    *)
(* the other sessions, the clocks and late PUTs do.                        *)
(***************************************************************************)
THEOREM PublishesAreSafe == Spec => []PublishedStays
<1>1. LeaseInv => PublishedStays
  BY DEF LeaseInv
<1> QED BY <1>1, LeaseInvariant, PTL

(***************************************************************************)
(* A fenced writer publishes nothing behind its successor.                 *)
(***************************************************************************)
THEOREM ZombiesAreFenced == Spec => []NoZombiePublish
<1>1. LeaseInv => NoZombiePublish
  BY DEF LeaseInv, NoZombiePublish
<1> QED BY <1>1, LeaseInvariant, PTL

(***************************************************************************)
(* acquire hands an epoch out once.                                        *)
(***************************************************************************)
THEOREM EpochsAreExclusive == Spec => []OneHolderPerEpoch
<1>1. LeaseInv => OneHolderPerEpoch
  BY DEF LeaseInv
<1> QED BY <1>1, LeaseInvariant, PTL

\* A step that changes the manifest is some PUT of it landing.
LEMMA OnlyPutsMove ==
  ASSUME TypeOK, LeaseInv, [Next]_vars
  PROVE  Forward(manifest, manifest') \/ manifest' = manifest
<1>1. ASSUME NEW p \in limbo, LandLate(p) PROVE Forward(manifest, manifest')
  BY <1>1 DEF LandLate, LeaseInv, Sound
<1>2. ASSUME NEW s \in Sessions, Applied(s) PROVE Forward(manifest, manifest')
  BY <1>2 DEF Applied, LeaseInv, PutInv, Sound
<1>3. ASSUME NEW s \in Sessions, Session(s) PROVE Applied(s) \/ manifest' = manifest
  BY <1>3 DEF Session, Heartbeat, Take, TakeOk, Renew, Reread, RenewOk, Publish,
     PublishOk, PutSnapshot, Release, ReleaseOk, Conflict, SelfConflict, Ambiguous,
     RereadFails, Die
<1> QED BY <1>1, <1>2, <1>3 DEF Next, Tick, vars

(***************************************************************************)
(* No step moves the manifest back: not a renewal from a cached copy, not  *)
(* a PUT the store applies after its caller gave up, not a thief's swap.   *)
(***************************************************************************)
THEOREM ManifestForward == Spec => ManifestOnlyMovesForward
<1>1. TypeOK /\ LeaseInv /\ [Next]_vars => [Forward(manifest, manifest')]_manifest
  BY OnlyPutsMove
<1> QED BY <1>1, LeaseTypes, LeaseInvariant, PTL DEF Spec, ManifestOnlyMovesForward

-----------------------------------------------------------------------------
(* The PITR trail                                                           *)

\* What a step may do to a session's PUT and lease while it works.
Moved(t) ==
  /\ pc'[t] = "publish" =>
       \/ pc[t] = "publish" /\ put'[t] = put[t] /\ held'[t] = held[t]
       \/ Publish(t)
  /\ pc'[t] = "snapshot" =>
       /\ put'[t] = put[t] /\ held'[t].epoch = held[t].epoch
       /\ pc[t] = "snapshot" \/ PublishOk(t)
  /\ pc'[t] \in Working =>
       \/ pc[t] \in Working /\ held'[t].epoch = held[t].epoch
       \/ TakeOk(t)

LEMMA EndsMoves ==
  ASSUME TypeOK, NEW s \in Sessions, NEW to, Ends(s, to),
         to \in {"idle", "holding", "reread", "lost", "gone"},
         to \in {"holding", "reread"} => pc[s] \in Working
  PROVE  \A t \in Sessions : Moved(t)
<1> SUFFICES ASSUME NEW t \in Sessions PROVE Moved(t)
  OBVIOUS
<1>1. CASE t = s
  <2>1. pc'[s] = to
    BY DEF Ends, GoTo, TypeOK
  <2>2. to \in {"holding", "reread"} => held' = held
    BY DEF Ends, Keep
  <2> QED BY <1>1, <2>1, <2>2 DEF Moved, Working
<1>2. CASE t # s
  BY <1>2 DEF Ends, GoTo, Keep, TypeOK, Moved
<1> QED BY <1>1, <1>2

LEMMA SendMoves ==
  ASSUME TypeOK, NEW s \in Sessions, NEW body, NEW expect, NEW clock, NEW to,
         Send(s, body, expect, clock, to), held' = held,
         to \in Swapping, to = "publish" => Publish(s),
         to # "take" => pc[s] \in Working
  PROVE  \A t \in Sessions : Moved(t)
<1> SUFFICES ASSUME NEW t \in Sessions PROVE Moved(t)
  OBVIOUS
<1>1. CASE t = s
  BY <1>1 DEF Send, TypeOK, Moved, Working, Swapping
<1>2. CASE t # s
  BY <1>2 DEF Send, TypeOK, Moved
<1> QED BY <1>1, <1>2

LEMMA AfterStops ==
  ASSUME NEW s \in Sessions, pc[s] \in Swapping
  PROVE  /\ AfterRace(s) \in {"idle", "holding", "reread", "lost", "gone"}
         /\ AfterError(s) \in {"idle", "holding", "reread", "lost", "gone"}
         /\ AfterRace(s) \in {"holding", "reread"} => pc[s] \in Working
         /\ AfterError(s) \in {"holding", "reread"} => pc[s] \in Working
BY DEF AfterRace, AfterError, Retry, Swapping, Working

\* Only a take that was answered makes a session work, only publish sends a
\* PUT of a checkpoint, and a snapshot follows only on one that landed.
LEMMA Moves ==
  ASSUME TypeOK, [Next]_vars
  PROVE  \A t \in Sessions : Moved(t)
<1>1. CASE UNCHANGED <<pc, put, held>>
  BY <1>1 DEF Moved
<1>2. ASSUME NEW s \in Sessions, Session(s) PROVE \A t \in Sessions : Moved(t)
  <2>1. CASE Take(s)
    BY <2>1, SendMoves DEF Take, Swapping
  <2>2. CASE TakeOk(s)
    BY <2>2 DEF TakeOk, GoTo, TypeOK, Moved
  <2>3. CASE Renew(s)
    BY <2>3, SendMoves DEF Renew, Swapping, Working
  <2>4. CASE Reread(s)
    <3>1. CASE Ours(s, manifest)
      BY <2>4, <3>1, SendMoves DEF Reread, Swapping, Working
    <3>2. CASE ~Ours(s, manifest)
      BY <2>4, <3>2, EndsMoves DEF Reread
    <3> QED BY <3>1, <3>2
  <2>5. CASE RenewOk(s)
    <3>1. held'[s].epoch = held[s].epoch
      BY <2>5 DEF RenewOk, Remember, TypeOK, HeldLease
    <3> QED BY <2>5, <3>1 DEF RenewOk, GoTo, TypeOK, Moved, Working
  <2>6. CASE Publish(s)
    BY <2>6, SendMoves DEF Publish, Swapping, Working
  <2>7. CASE PublishOk(s)
    <3>1. held'[s].epoch = held[s].epoch
      BY <2>7 DEF PublishOk, Remember, TypeOK, HeldLease
    <3>2. ASSUME NEW t \in Sessions, t # s PROVE Moved(t)
      BY <2>7, <3>2 DEF PublishOk, GoTo, TypeOK, Moved
    <3>3. Moved(s)
      BY <2>7, <3>1 DEF PublishOk, GoTo, TypeOK, Moved, Working
    <3> QED BY <3>2, <3>3
  <2>8. CASE PutSnapshot(s)
    <3>1. held'[s].epoch = held[s].epoch
      BY <2>8 DEF PutSnapshot, TypeOK, HeldLease
    <3>2. ASSUME NEW t \in Sessions, t # s PROVE Moved(t)
      <4>1. pc'[t] = pc[t] /\ put'[t] = put[t] /\ held'[t] = held[t]
        BY <2>8, <3>2 DEF PutSnapshot, GoTo, TypeOK
      <4> QED BY <4>1 DEF Moved
    <3>3. Moved(s)
      BY <2>8, <3>1 DEF PutSnapshot, GoTo, TypeOK, Moved, Working
    <3> QED BY <3>2, <3>3
  <2>9. CASE Release(s)
    <3>1. CASE Ours(s, manifest)
      BY <2>9, <3>1, SendMoves DEF Release, Swapping, Working
    <3>2. CASE ~Ours(s, manifest)
      BY <2>9, <3>2, EndsMoves DEF Release
    <3> QED BY <3>1, <3>2
  <2>10. CASE ReleaseOk(s)
    BY <2>10, EndsMoves DEF ReleaseOk
  <2>11. CASE Conflict(s)
    BY <2>11, EndsMoves, AfterStops DEF Conflict
  <2>12. CASE SelfConflict(s)
    BY <2>12, EndsMoves, AfterStops DEF SelfConflict
  <2>13. CASE Ambiguous(s)
    BY <2>13, EndsMoves, AfterStops DEF Ambiguous
  <2>14. CASE RereadFails(s)
    <3>1. Retry(s) \in {"lost", "holding"} /\ pc[s] \in Working
      BY <2>14 DEF RereadFails, Retry, Working
    <3> QED BY <2>14, <3>1, EndsMoves DEF RereadFails
  <2>15. CASE Die(s)
    BY <2>15, EndsMoves DEF Die
  <2> QED
    BY <1>2, <2>1, <2>2, <2>3, <2>4, <2>5, <2>6, <2>7, <2>8, <2>9, <2>10, <2>11,
       <2>12, <2>13, <2>14, <2>15 DEF Session, Heartbeat
<1> QED BY <1>1, <1>2 DEF Next, Tick, LandLate, vars

\* Time and what was granted only grow, and a snapshot is put by the session
\* that published it.
LEMMA Grows ==
  ASSUME TypeOK, [Next]_vars
  PROVE  /\ granted \subseteq granted'
         /\ now' >= now
         /\ \A h \in history' : h \in history \/ \E s \in Sessions : pc[s] = "snapshot" /\ h = Shot(s)
<1>1. ASSUME NEW s \in Sessions, Session(s)
      PROVE  now' = now /\ granted \subseteq granted'
  BY <1>1 DEF Session, Heartbeat, Take, TakeOk, Renew, Reread, RenewOk, Publish,
     PublishOk, PutSnapshot, Release, ReleaseOk, Conflict, SelfConflict, Ambiguous,
     RereadFails, Die
<1>2. ASSUME NEW s \in Sessions, Session(s)
      PROVE  history' = history \/ PutSnapshot(s)
  BY <1>2 DEF Session, Heartbeat, Take, TakeOk, Renew, Reread, RenewOk, Publish,
     PublishOk, Release, ReleaseOk, Conflict, SelfConflict, Ambiguous, RereadFails, Die
<1>3. ASSUME NEW s \in Sessions, PutSnapshot(s)
      PROVE  \A h \in history' : h \in history \/ (pc[s] = "snapshot" /\ h = Shot(s))
  BY <1>3 DEF PutSnapshot, SnapshotKey, Shot
<1>4. now \in Nat
  BY DEF TypeOK
<1> QED BY <1>1, <1>2, <1>3, <1>4 DEF Next, Tick, LandLate, vars

LEMMA ShotTypes ==
  ASSUME TypeOK PROVE Shots \subseteq Snapshot
<1>1. ASSUME NEW s \in Sessions PROVE Shot(s) \in Snapshot
  BY PutType DEF Shot, Snapshot
<1> QED BY <1>1 DEF Shots, TypeOK

LEMMA ExtendsOn ==
  ASSUME NEW h \in Snapshot, NEW m \in Manifest, NEW n \in Manifest,
         Extends(h, m), Extends(m, n)
  PROVE  Extends(h, n)
<1>1. Len(h.ckpts) \in Nat /\ Len(m.ckpts) \in Nat /\ Len(n.ckpts) \in Nat
  BY LenProperties DEF Manifest, Snapshot
<1> QED BY <1>1 DEF Extends

LEMMA ShotStays ==
  ASSUME TypeOK, TypeOK', LeaseInv, [Next]_vars, NEW h \in Snapshot, ShotInv(h)
  PROVE  ShotInv(h)'
<1>1. manifest \in Manifest /\ manifest' \in Manifest
  BY DEF TypeOK
<1>2. Forward(manifest, manifest')
  BY <1>1, OnlyPutsMove, ForwardSelf
<1>3. h.epoch <= manifest'.epoch
  BY <1>1, <1>2 DEF Forward, Manifest, Snapshot, ShotInv
<1>4. Extends(h, manifest')
  BY <1>1, <1>2, ExtendsOn DEF Forward, ShotInv
<1>5. PICK g \in granted :
        /\ g.epoch = h.epoch
        /\ h.at <= Clock(g.by)
        /\ pc[g.by] = "publish" /\ held[g.by].epoch = h.epoch => h.at <= put[g.by].at
  BY DEF ShotInv
<1>6. g.by \in Sessions /\ g \in granted'
  BY Grows DEF TypeOK
<1>7. PICK t \in Sessions : t = g.by
  BY <1>6
<1>8. h.at <= Clock(t)'
  <2>1. now \in Nat /\ now' \in Nat /\ SkewOf[t] \in Nat /\ h.at \in Nat /\ now' >= now
    BY Grows, LeaseAssumption DEF TypeOK, Snapshot
  <2>2. h.at <= now + SkewOf[t]
    BY <1>5, <1>7 DEF Clock
  <2> QED BY <2>1, <2>2 DEF Clock
<1>9. pc'[t] = "publish" /\ held'[t].epoch = h.epoch => h.at <= put'[t].at
  <2>1. CASE pc[t] = "publish" /\ put'[t] = put[t] /\ held'[t] = held[t]
    BY <1>5, <1>7, <2>1
  <2>2. CASE Publish(t)
    <3>1. put'[t].at = Clock(t)
      BY <2>2 DEF Publish, Send, TypeOK
    <3> QED BY <1>5, <1>7, <3>1
  <2> QED BY <2>1, <2>2, Moves DEF Moved
<1>10. Extends(h, manifest)'
  BY <1>4 DEF Extends
<1> QED BY <1>3, <1>5, <1>6, <1>7, <1>8, <1>9, <1>10 DEF ShotInv

LEMMA WorkStays ==
  ASSUME TypeOK, TypeOK', TrailInv, [Next]_vars, NEW t \in Sessions
  PROVE  WorkInv(t)'
<1> SUFFICES ASSUME pc'[t] \in Working PROVE WorkInv(t)'
  BY DEF WorkInv
<1>1. Moved(t) /\ WorkInv(t) /\ granted \subseteq granted' /\ now' >= now
  BY Moves, Grows DEF TrailInv
<1>2. \E g \in granted' : g.by = t /\ g.epoch = held'[t].epoch
  <2>1. CASE pc[t] \in Working /\ held'[t].epoch = held[t].epoch
    BY <1>1, <2>1 DEF WorkInv
  <2>2. CASE TakeOk(t)
    <3>1. PICK g : /\ g = [by |-> t, epoch |-> put[t].body.epoch, fence |-> put[t].body.lease.fence]
                   /\ g \in granted'
      BY <2>2 DEF TakeOk
    <3>2. held'[t].epoch = put[t].body.epoch
      BY <2>2 DEF TakeOk, TypeOK
    <3> QED BY <3>1, <3>2
  <2> QED BY <1>1, <2>1, <2>2 DEF Moved
<1>3. /\ put[t].at \in Nat /\ now \in Nat /\ now' \in Nat /\ SkewOf[t] \in Nat
      /\ put[t].body.epoch \in Nat
  BY PutType, LeaseAssumption DEF TypeOK
<1>4. ASSUME pc'[t] \in {"publish", "snapshot"}
      PROVE  put'[t].body.epoch = held'[t].epoch /\ put'[t].at <= Clock(t)'
  <2>1. CASE /\ pc[t] \in {"publish", "snapshot"} /\ put'[t] = put[t]
             /\ held'[t].epoch = held[t].epoch
    <3>1. put[t].body.epoch = held[t].epoch /\ put[t].at <= Clock(t)
      BY <1>1, <2>1 DEF WorkInv, Working
    <3> QED BY <1>1, <1>3, <2>1, <3>1 DEF Clock
  <2>2. CASE Publish(t)
    <3>1. /\ put'[t].body = Published(t, manifest) /\ put'[t].at = Clock(t)
          /\ held' = held /\ now' = now
      BY <2>2 DEF Publish, Send, TypeOK
    <3>2. Published(t, manifest).epoch = manifest.epoch
      BY DEF Published, TypeOK, Manifest
    <3>3. manifest.epoch = held[t].epoch
      BY <2>2 DEF Publish, Ours
    <3> QED BY <1>3, <3>1, <3>2, <3>3 DEF Clock
  <2>3. CASE PublishOk(t) /\ put'[t] = put[t] /\ held'[t].epoch = held[t].epoch
    BY <2>1, <2>3 DEF PublishOk
  <2> QED BY <1>1, <1>4, <2>1, <2>2, <2>3 DEF Moved
<1> QED BY <1>2, <1>4 DEF WorkInv

\* The shot a publish adds when it lands is the newest of them all.
LEMMA NewShot ==
  ASSUME TypeOK, TypeOK', LeaseInv, TrailInv, [Next]_vars,
         NEW s \in Sessions, PublishOk(s), NEW h, h = Shot(s)
  PROVE  /\ ShotInv(h)'
         /\ \A k \in Shots : Extends(k, h) /\ ~Before(h, k)
<1>1. /\ pc[s] = "publish" /\ manifest = put[s].expect /\ manifest' = put[s].body
      /\ now' = now /\ granted' = granted
  BY DEF PublishOk, Applied
<1>2. /\ h.epoch = put[s].body.epoch /\ h.at = put[s].at /\ h.ckpts = put[s].body.ckpts
  BY DEF Shot
<1>3. put[s].body.epoch = held[s].epoch /\ put[s].at <= Clock(s)
  BY <1>1 DEF TrailInv, WorkInv, Working
<1>4. PICK g \in granted : g.by = s /\ g.epoch = held[s].epoch
  BY <1>1 DEF TrailInv, WorkInv, Working
<1>5. /\ manifest \in Manifest /\ manifest' \in Manifest /\ put[s].body \in Manifest
      /\ put[s].at \in Nat /\ Clock(s) \in Nat
  BY PutType, ClockType DEF TypeOK
<1>6. Forward(manifest, manifest') /\ Extends(manifest, manifest')
  BY <1>1 DEF LeaseInv, PutInv, Sound, Forward
<1>7. ShotInv(h)'
  <2>1. Extends(h, manifest)'
    BY <1>1, <1>2, <1>5, ForwardSelf DEF Extends, Forward
  <2>2. h.epoch <= manifest'.epoch
    BY <1>1, <1>2, <1>5 DEF Manifest
  <2>3. h.at <= Clock(s)'
    BY <1>1, <1>2, <1>3 DEF Clock
  <2>4. pc'[s] # "publish"
    BY DEF PublishOk, GoTo, TypeOK
  <2>5. g \in granted' /\ g.epoch = h.epoch
    BY <1>1, <1>2, <1>3, <1>4
  <2> QED BY <1>4, <2>1, <2>2, <2>3, <2>4, <2>5 DEF ShotInv
<1>8. ASSUME NEW k \in Shots PROVE Extends(k, h) /\ ~Before(h, k)
  <2>1. k \in Snapshot /\ ShotInv(k)
    BY ShotTypes DEF TrailInv
  <2>2. Extends(k, manifest')
    BY <1>5, <1>6, <2>1, ExtendsOn DEF ShotInv
  <2>3. Extends(k, h)
    BY <1>1, <1>2, <2>2 DEF Extends
  <2>4. h.epoch >= k.epoch /\ h.epoch \in Nat /\ k.epoch \in Nat /\ k.at \in Nat
    BY <1>1, <1>2, <1>5, <1>6, <2>1 DEF Forward, Manifest, Snapshot, ShotInv
  <2>5. ASSUME h.epoch = k.epoch PROVE k.at <= h.at
    <3>1. PICK o \in granted :
            /\ o.epoch = k.epoch
            /\ pc[o.by] = "publish" /\ held[o.by].epoch = k.epoch => k.at <= put[o.by].at
      BY <2>1 DEF ShotInv
    <3>2. o = g
      BY <1>2, <1>3, <1>4, <2>5, <3>1 DEF LeaseInv, OneHolderPerEpoch
    <3> QED BY <1>1, <1>2, <1>3, <1>4, <2>5, <3>1, <3>2
  <2>6. ~Before(h, k)
    BY <1>2, <1>5, <2>4, <2>5 DEF Before
  <2> QED BY <2>3, <2>6
<1> QED BY <1>7, <1>8

LEMMA TrailStep ==
  TypeOK /\ TypeOK' /\ LeaseInv /\ TrailInv /\ [Next]_vars => TrailInv'
<1> SUFFICES ASSUME TypeOK, TypeOK', LeaseInv, TrailInv, [Next]_vars PROVE TrailInv'
  OBVIOUS
<1>1. ASSUME NEW h \in Shots'
      PROVE  h \in Shots \/ \E s \in Sessions : PublishOk(s) /\ h = Shot(s)
  <2>1. CASE h \in history'
    BY <2>1, Grows DEF Shots
  <2>2. CASE \E s \in Sessions : pc'[s] = "snapshot" /\ h = Shot(s)'
    <3>1. PICK s \in Sessions : pc'[s] = "snapshot" /\ h = Shot(s)'
      BY <2>2
    <3>2. put'[s] = put[s] /\ (pc[s] = "snapshot" \/ PublishOk(s))
      BY <3>1, Moves DEF Moved
    <3>3. h = Shot(s)
      BY <3>1, <3>2 DEF Shot
    <3> QED BY <3>2, <3>3 DEF Shots
  <2> QED BY <2>1, <2>2 DEF Shots
<1>2. ASSUME NEW h \in Shots' PROVE ShotInv(h)'
  <2>1. CASE h \in Shots
    BY <2>1, ShotStays, ShotTypes DEF TrailInv
  <2>2. ASSUME NEW s \in Sessions, PublishOk(s), h = Shot(s) PROVE ShotInv(h)'
    BY <2>2, NewShot
  <2> QED BY <1>1, <2>1, <2>2
<1>3. ASSUME NEW g \in Shots', NEW h \in Shots', Before(g, h) PROVE Extends(g, h)
  <2>1. CASE g \in Shots /\ h \in Shots
    BY <1>3, <2>1 DEF TrailInv
  <2>2. ASSUME NEW s \in Sessions, PublishOk(s), h = Shot(s), g \in Shots PROVE Extends(g, h)
    BY <2>2, NewShot
  <2>3. ASSUME NEW s \in Sessions, PublishOk(s), g = Shot(s), h \in Shots PROVE FALSE
    BY <1>3, <2>3, NewShot
  <2>4. ASSUME NEW s \in Sessions, PublishOk(s), g = Shot(s),
               NEW t \in Sessions, PublishOk(t), h = Shot(t)
        PROVE  FALSE
    <3>1. s = t
      BY <2>4 DEF PublishOk, GoTo, TypeOK
    <3>2. g.epoch \in Nat /\ g.at \in Nat
      BY <2>4, PutType DEF Shot
    <3> QED BY <1>3, <2>4, <3>1, <3>2 DEF Before
  <2> QED BY <1>1, <2>1, <2>2, <2>3, <2>4
<1>4. ASSUME NEW t \in Sessions PROVE WorkInv(t)'
  BY WorkStays
<1>5. (\A g, h \in Shots : Before(g, h) => Extends(g, h))'
  BY <1>3 DEF Before, Extends
<1> QED BY <1>2, <1>4, <1>5 DEF TrailInv

(***************************************************************************)
(* Point in time recovery reads its snapshots in the order of their epochs *)
(* and seconds, and each holds what the ones before it do: whoever writes  *)
(* a snapshot late, under whatever clocks.                                 *)
(***************************************************************************)
THEOREM TrailReads == Spec => []HistoryInOrder
<1>1. Init => TrailInv
  <2> SUFFICES ASSUME Init PROVE TrailInv
    OBVIOUS
  <2>1. \A s \in Sessions : pc[s] = "idle"
    BY DEF Init
  <2>2. Shots = {}
    BY <2>1 DEF Init, Shots
  <2> QED BY <2>1, <2>2 DEF TrailInv, WorkInv, Working
<1>2. TypeOK /\ TrailInv => HistoryInOrder
  <2> SUFFICES ASSUME TypeOK, TrailInv, NEW g \in history, NEW h \in history, Before(g, h)
               PROVE  /\ Len(g.ckpts) <= Len(h.ckpts)
                      /\ g.ckpts = SubSeq(h.ckpts, 1, Len(g.ckpts))
    BY DEF HistoryInOrder, Before
  <2>1. Extends(g, h)
    BY DEF TrailInv, Shots
  <2>2. /\ g.ckpts \in Seq(Ckpt) /\ h.ckpts \in Seq(Ckpt)
        /\ Len(g.ckpts) \in Nat /\ Len(h.ckpts) \in Nat
    BY LenProperties DEF TypeOK, Snapshot
  <2>3. PICK n \in Nat : n = Len(g.ckpts)
    BY <2>2
  <2>4. PICK p : p = SubSeq(h.ckpts, 1, n)
    OBVIOUS
  <2>5. p \in Seq(Ckpt) /\ Len(p) = n /\ \A i \in 1..n : p[i] = h.ckpts[i]
    BY <2>1, <2>2, <2>3, <2>4 DEF Extends
  <2>6. \A i \in 1..n : g.ckpts[i] = p[i]
    BY <2>1, <2>3, <2>5 DEF Extends
  <2>7. g.ckpts = p
    BY <2>2, <2>3, <2>5, <2>6, SeqEqual
  <2> QED BY <2>1, <2>3, <2>4, <2>7 DEF Extends
<1> QED BY <1>1, <1>2, TrailStep, LeaseTypes, LeaseInvariant, PTL DEF Spec
=============================================================================
