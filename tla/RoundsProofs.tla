----------------------------- MODULE RoundsProofs -----------------------------
(* Theorems about consolidation, the deletion of what it folded and the      *)
(* readers of both, for any number of sessions, folders and readers and any  *)
(* bounds.                                                                   *)
EXTENDS Rounds, SequenceTheorems, NaturalsInduction, WellFoundedInduction, TLAPS

-----------------------------------------------------------------------------
(* Facts about numbers and sets                                             *)

\* A nonempty set of naturals has a least element.
LEMMA LeastElement ==
  ASSUME NEW T, T \subseteq Nat, T # {}
  PROVE  \E x \in T : \A y \in T : x <= y
<1>1. PICK x \in T : \A y \in T : ~(<<y, x>> \in OpToRel(<, Nat))
  <2> DEFINE R == OpToRel(<, Nat)
  <2>1. IsWellFoundedOn(R, Nat)
    BY NatLessThanWellFounded
  <2> HIDE DEF R
  <2>2. \E x \in T : \A y \in T : ~(<<y, x>> \in R)
    BY <2>1, WFMin
  <2> QED BY <2>2 DEF R
<1>2. \A y \in T : ~(y < x)
  BY <1>1 DEF OpToRel
<1> QED BY <1>2

\* A bounded nonempty set of naturals has its Max in it.
LEMMA MaxIsGreatest ==
  ASSUME NEW T, T \subseteq Nat, T # {}, NEW b \in Nat, \A y \in T : y <= b
  PROVE  Max(T) \in T /\ \A y \in T : y <= Max(T)
<1>1. \E x \in T : \A y \in T : y <= x
  <2> DEFINE U == {m \in Nat : \A y \in T : y <= m}
  <2>1. b \in U /\ U \subseteq Nat
    OBVIOUS
  <2>2. PICK x \in U : \A m \in U : x <= m
    <3> HIDE DEF U
    <3> QED BY <2>1, LeastElement
  <2>3. CASE x \in T
    BY <2>2, <2>3
  <2>4. CASE x \notin T
    <3>1. \A y \in T : y \in Nat /\ y < x
      BY <2>2, <2>4
    <3>2. x \in Nat /\ x # 0
      <4>1. PICK y \in T : y \in Nat /\ y < x
        BY <3>1
      <4>2. x \in Nat
        BY <2>2
      <4> QED BY <4>1, <4>2
    <3>3. x - 1 \in Nat /\ \A y \in T : y <= x - 1
      BY <3>1, <3>2
    <3>4. x - 1 \in U
      BY <3>3
    <3> QED BY <2>2, <3>2, <3>4
  <2> QED BY <2>3, <2>4
<1> QED BY <1>1 DEF Max

\* An element no other exceeds is the Max.
LEMMA MaxIs ==
  ASSUME NEW T, T \subseteq Nat, NEW x \in T, \A y \in T : y <= x
  PROVE  Max(T) = x
<1>1. Max(T) \in T /\ \A y \in T : Max(T) >= y
  BY DEF Max
<1>2. Max(T) \in Nat /\ x \in Nat /\ Max(T) <= x /\ Max(T) >= x
  BY <1>1
<1> QED BY <1>2

\* The Max of two numbers.
LEMMA MaxPair ==
  ASSUME NEW a \in Nat, NEW b \in Nat
  PROVE  Max({a, b}) = IF b <= a THEN a ELSE b
<1>1. CASE b <= a
  BY <1>1, MaxIs
<1>2. CASE ~(b <= a)
  BY <1>2, MaxIs
<1> QED BY <1>1, <1>2

-----------------------------------------------------------------------------
(* The inductive invariant                                                  *)

\* The digest of the chain up to q.
DigAt(q) == IF q = 0 THEN 0 ELSE log[q].end

\* e is the last LSN of the chain up to n.
EndAt(e, n) ==
  /\ \A q \in Frames : q <= n => log[q].end <= e
  /\ e = 0 \/ \E q \in Frames : q <= n /\ log[q].end = e

Covers(r, q) == index[r].first <= q /\ q <= index[r].last

\* The chain: linked, its frames in order and dense enough to be counted.
ChainOK ==
  /\ \A q \in 1..Len(log) : log[q].prev = DigAt(q - 1)
  /\ \A q \in 1..Len(log) : log[q].kind = "seal" => log[q].end = 0
  /\ \A q \in Frames : 1 <= log[q].end /\ log[q].end <= q
  /\ ResumesAtEnd

\* A view is a manifest of this shard, now or earlier.
ManifestOK(v) ==
  /\ v.upto <= Len(log) /\ v.head <= Len(log)
  /\ v.dig = DigAt(v.upto)
  /\ v.last <= man.last /\ v.gc <= v.last
  /\ v.upto = Index(v.last).last

RoundsOK ==
  /\ \A r \in 1..MaxRound : index[r] # NoIndex => r <= man.last + 1
  /\ \A r \in 1..man.last : index[r] # NoIndex
  /\ \A r \in 1..MaxRound :
       index[r] # NoIndex =>
         /\ 1 <= index[r].first /\ index[r].first <= index[r].last
         /\ index[r].last <= Len(log)
         /\ EndAt(index[r].mark, index[r].last)
         /\ \E o \in sealed : o.first = index[r].first /\ o.last = index[r].last
         /\ index[r].first = (IF r = 1 THEN 0 ELSE index[r - 1].last) + 1
  /\ \A r, t \in 1..MaxRound :
       index[r] # NoIndex /\ index[t] # NoIndex /\ r < t => index[r].last < index[t].first
  /\ \A q \in 1..man.upto : \E r \in 1..man.last : Covers(r, q)

SealedOK ==
  \A o \in sealed :
    /\ o.last <= Len(log)
    /\ o.frames = {q \in Frames : o.first <= q /\ q <= o.last}

ObjOK ==
  /\ \A q \in Seqs : obj[q] # None => q <= Len(log) /\ obj[q] = log[q]
  /\ \A q \in 1..Len(log) :
       obj[q] = None => \E r \in 1..man.last : Covers(r, q) /\ wait[r] = {}

Sealer == \E q \in 1..Len(log) : log[q].kind = "seal"

LastSealer(s) ==
  \E q \in 1..Len(log) :
    /\ log[q].kind = "seal" /\ log[q].by = s
    /\ \A t \in (q + 1)..Len(log) : log[t].kind = "landing"

\* A place in the chain above what the process knows to be folded, and the
\* digest it has there.
AtIs(m) ==
  /\ m.view.upto < m.at /\ m.at <= Len(log) + 1
  /\ m.link = DigAt(m.at - 1)

AtOK(p) == AtIs(me[p])

SessionIs(m) ==
  /\ m.pc = "seal" => AtIs(m) /\ m.at <= MaxSeq
  /\ m.pc = "cas" => 1 <= m.at /\ m.at <= Len(log)
  /\ m.pc = "tail" => AtIs(m) /\ EndAt(m.end, m.at - 1)
  /\ m.pc \in {"cas", "end", "tail", "open"} => Sealer

SessionOK(s) == SessionIs(me[s])

\* The frames a folder has read, from where its view is consolidated to.
Gathers(m) == m.got = {q \in Frames : m.view.upto < q /\ q < m.at}

Gathered(f) == Gathers(me[f])

FolderIs(m) ==
  /\ m.pc \in {"index", "adopt", "tail", "sealed", "put_index", "publish"} =>
       m.rnd = m.view.last + 1 /\ m.rnd <= MaxRound
  /\ m.pc = "index" => m.got = {}
  /\ m.pc = "adopt" =>
       /\ index[m.rnd] # NoIndex
       /\ m.at = index[m.rnd].last
  /\ m.pc = "tail" => AtIs(m) /\ Gathers(m)
  /\ m.pc \in {"sealed", "put_index"} =>
       /\ AtIs(m) /\ Gathers(m) /\ EndAt(m.end, m.at - 1)
       /\ m.view.upto + 1 < m.at
  /\ m.pc = "put_index" =>
       \E o \in sealed : o.first = m.view.upto + 1 /\ o.last = m.at - 1
  /\ m.pc = "publish" =>
       /\ index[m.rnd] # NoIndex
       /\ m.at = index[m.rnd].last + 1
       /\ m.link = DigAt(m.at - 1)
  /\ m.pc \in {"gc", "hint"} => 1 <= m.rnd /\ m.rnd <= m.view.last + 1
  /\ m.pc = "delete" =>
       /\ 1 <= m.rnd /\ m.rnd <= m.view.last
       /\ wait[m.rnd] = {}
       /\ Covers(m.rnd, m.at)

FolderOK(f) == FolderIs(me[f])

\* q lies in a round below r, or in round r among its first c positions.
Before(r, c, q) ==
  \E t \in 1..man.last : Covers(t, q) /\ (t < r \/ (t = r /\ q < index[t].first + c))

\* A place in the rounds up to last.
PlaceOK(r, c, last) ==
  /\ 1 <= r /\ r <= last + 1
  /\ r = last + 1 => c = 0
  /\ r <= last => index[r].first + c <= index[r].last + 1

\* A reader was given what lies before its cursor k, and before the place it
\* has reached since its poll began, when the chain was d long.
ReaderIs(m, k, d) ==
  /\ PlaceOK(k.round, k.chunk, man.last)
  /\ \A q \in Frames : Before(k.round, k.chunk, q) => q \in m.got
  /\ k.seq <= Len(log) + 1
  /\ k.seq > 0 => k.link = DigAt(k.seq - 1)
  /\ \A q \in Frames : q < k.seq => q \in m.got
  /\ d <= Len(log)
  /\ m.pc = "rounds" =>
       /\ PlaceOK(m.rnd, m.at, m.view.last)
       /\ \A q \in Frames : Before(m.rnd, m.at, q) => q \in m.got
  /\ m.pc = "tail" =>
       /\ AtIs(m)
       /\ \A q \in Frames : q < m.at => q \in m.got
  /\ m.pc = "caught" => \A q \in Frames : q <= d => q \in m.got

ReaderOK(p) == ReaderIs(me[p], cur[p], due[p])

\* A read under way is waited for by every round published since its load.
Grace ==
  \A p \in UnderWay : \A r \in 1..man.last : me[p].view.last < r => p \in wait[r]

\* The session that may write stands at the end of the stream.
OpenOK(s) == me[s].pc = "open" /\ LastSealer(s) => EndAt(me[s].end, Len(log))

\* What a process may rely on.
Own(p) ==
  /\ ManifestOK(me[p].view)
  /\ p \in Sessions => SessionOK(p)
  /\ p \in Folders => FolderOK(p)
  /\ p \in Readers => ReaderOK(p)

\* What is in the store.
Store == ChainOK /\ ManifestOK(man) /\ RoundsOK /\ SealedOK /\ ObjOK

IInv ==
  /\ TypeOK /\ Store /\ Grace
  /\ \A s \in Sessions : OpenOK(s)
  /\ \A p \in Procs : Own(p)

-----------------------------------------------------------------------------
(* Steps that only add                                                      *)

Proc == [pc: Pcs, view: ShardManifest, at: 0..(MaxSeq + 1), link: 0..MaxSeq,
         rnd: 0..(MaxRound + 1), got: SUBSET Seqs, end: 0..MaxSeq]

\* The chain and the rounds grow and keep what they have.
Advance ==
  /\ Len(log) <= Len(log') /\ \A q \in 1..Len(log) : log'[q] = log[q]
  /\ man.last <= man'.last
  /\ \A r \in 1..MaxRound : index[r] # NoIndex => index'[r] = index[r]
  /\ sealed \subseteq sealed'

\* The reads a published round waits for only get fewer.
WaitShrinks == \A r \in 1..man.last : wait'[r] \subseteq wait[r]

\* Only process a steps.
Alone(a) ==
  /\ \A p \in Procs \ {a} : me'[p] = me[p]
  /\ \A p \in Readers \ {a} : cur'[p] = cur[p] /\ due'[p] = due[p]

\* What the types say of the sizes and elements of the state.
LEMMA Types ==
  ASSUME TypeOK
  PROVE  /\ MaxSeq \in Nat /\ MaxRound \in Nat /\ MaxCrash \in Nat
         /\ Len(log) \in Nat /\ Len(log) <= MaxSeq
         /\ \A q \in 1..Len(log) : q \in Seqs /\ log[q] \in Segment
         /\ man \in ShardManifest
         /\ \A r \in 1..MaxRound : index[r] \in RoundIndex
         /\ \A p \in Procs : me[p] \in Proc
  BY RoundsAssumption, LenProperties, ElementOfSeq DEF TypeOK, Proc, Seqs

\* The fields of a segment.
LEMMA SegmentIs ==
  ASSUME NEW o \in Segment
  PROVE  /\ o.kind \in {"landing", "seal"} /\ o.prev \in Nat /\ o.end \in Nat /\ o.end <= MaxSeq
         /\ o # None /\ o.end \in 0..MaxSeq /\ o.prev \in 0..MaxSeq
  BY RoundsAssumption DEF Segment, None

\* The fields of a manifest.
LEMMA ManifestIs ==
  ASSUME NEW v \in ShardManifest
  PROVE  /\ v.epoch \in Nat /\ v.head \in Nat /\ v.upto \in Nat /\ v.dig \in Nat
         /\ v.last \in Nat /\ v.gc \in Nat
         /\ v.head <= MaxSeq /\ v.upto <= MaxSeq /\ v.dig <= MaxSeq
         /\ v.last <= MaxRound /\ v.gc <= MaxRound
  BY RoundsAssumption DEF ShardManifest

\* Index(r) for a round number or 0.
LEMMA IndexIs ==
  ASSUME TypeOK, NEW r \in Nat, r <= MaxRound
  PROVE  /\ Index(r) = IF r = 0 THEN NoIndex ELSE index[r]
         /\ Index(r).first \in Nat /\ Index(r).last \in Nat /\ Index(r).mark \in Nat
         /\ Index(r).last <= MaxSeq /\ Index(r).mark <= MaxSeq
  BY RoundsAssumption DEF TypeOK, Index, NoIndex, RoundIndex

\* Frames are the positions of the chain that are not seals.
LEMMA FramesAre ==
  ASSUME TypeOK
  PROVE  /\ \A q \in Frames : q \in 1..Len(log) /\ q \in Nat /\ q \in Seqs /\ log[q].end \in Nat
         /\ \A q \in 1..Len(log) : q \in Frames <=> log[q].kind = "landing"
         /\ \A q \in 1..Len(log) : q \notin Frames <=> log[q].kind = "seal"
  BY Types, SegmentIs DEF Frames

\* A chain that grows keeps its frames,
LEMMA KeepFrames ==
  ASSUME TypeOK, TypeOK', Advance
  PROVE  \A q \in 1..Len(log) : (q \in Frames' <=> q \in Frames) /\ log'[q] = log[q] /\ q \in 1..Len(log')
  <1>1. Len(log) \in Nat /\ Len(log') \in Nat
    BY LenProperties DEF TypeOK
  <1> QED BY <1>1 DEF Frames, Advance

\* its digests,
LEMMA KeepDig ==
  ASSUME TypeOK, TypeOK', Advance, NEW q \in Nat, q <= Len(log)
  PROVE  DigAt(q)' = DigAt(q)
  BY Types DEF DigAt, Advance

\* the last LSN up to a position,
LEMMA KeepEnd ==
  ASSUME TypeOK, TypeOK', Advance, NEW n \in Nat, n <= Len(log), NEW e, EndAt(e, n)
  PROVE  EndAt(e, n)'
  <1>0. Len(log) \in Nat /\ Len(log') \in Nat
    BY LenProperties DEF TypeOK
  <1>1. ASSUME NEW q \in Frames', q <= n
        PROVE  q \in Frames /\ log'[q] = log[q]
    <2>1. q \in 1..Len(log')
      BY DEF Frames
    <2>2. q \in 1..Len(log)
      BY <1>0, <1>1, <2>1
    <2> QED BY <2>2, KeepFrames
  <1>2. ASSUME NEW q \in Frames, q <= n
        PROVE  q \in Frames' /\ log'[q] = log[q]
    BY FramesAre, KeepFrames
  <1>3. \A q \in Frames' : q <= n => log'[q].end <= e
    BY <1>1 DEF EndAt
  <1>4. e = 0 \/ \E q \in Frames' : q <= n /\ log'[q].end = e
    BY <1>2 DEF EndAt
  <1> QED BY <1>3, <1>4 DEF EndAt

\* and its published rounds.
LEMMA KeepIndex ==
  ASSUME TypeOK, TypeOK', RoundsOK, Advance, NEW r \in Nat, r <= man.last
  PROVE  /\ Index(r)' = Index(r)
         /\ r > 0 => index'[r] = index[r] /\ index[r] # NoIndex
         /\ r > 0 => \A q : Covers(r, q)' <=> Covers(r, q)
  <1>1. r > 0 => r \in 1..man.last /\ r \in 1..MaxRound
    BY Types, ManifestIs
  <1>2. r > 0 => index[r] # NoIndex
    BY <1>1 DEF RoundsOK
  <1>3. r > 0 => index'[r] = index[r]
    BY <1>1, <1>2 DEF Advance
  <1> QED BY <1>1, <1>2, <1>3 DEF Index, Covers

\* A manifest stays one of this shard.
LEMMA KeepManifest ==
  ASSUME TypeOK, TypeOK', RoundsOK, Advance, NEW v \in ShardManifest, ManifestOK(v)
  PROVE  ManifestOK(v)'
  <1>1. /\ v.upto \in Nat /\ v.head \in Nat /\ v.last \in Nat /\ v.gc \in Nat
        /\ man.last \in Nat /\ man'.last \in Nat
        /\ Len(log) \in Nat /\ Len(log') \in Nat
    BY ManifestIs, LenProperties DEF TypeOK
  <1>2. DigAt(v.upto)' = DigAt(v.upto)
    BY <1>1, KeepDig DEF ManifestOK
  <1>3. Index(v.last)' = Index(v.last)
    BY <1>1, KeepIndex DEF ManifestOK
  <1> QED BY <1>1, <1>2, <1>3 DEF ManifestOK, Advance

\* The place p is at in the chain stays a place in it.
LEMMA KeepAt ==
  ASSUME TypeOK, TypeOK', Advance, NEW p \in Procs, me'[p] = me[p], AtOK(p)
  PROVE  AtOK(p)'
  <1>1. PICK a, l, u : a = me[p].at /\ l = me[p].link /\ u = me[p].view.upto
    OBVIOUS
  <1>2. a \in Nat /\ u \in Nat /\ Len(log) \in Nat /\ Len(log') \in Nat
    BY <1>1, Types, ManifestIs, LenProperties DEF TypeOK, Proc
  <1>3. u < a /\ a <= Len(log) + 1 /\ l = DigAt(a - 1)
    BY <1>1 DEF AtOK, AtIs
  <1>4. DigAt(a - 1)' = DigAt(a - 1)
    BY <1>2, <1>3, KeepDig
  <1> QED BY <1>1, <1>2, <1>3, <1>4 DEF AtOK, AtIs, Advance

\* A session that takes no step keeps what it may rely on,
LEMMA KeepSession ==
  ASSUME IInv, TypeOK', Advance, NEW s \in Sessions, me'[s] = me[s]
  PROVE  SessionOK(s)'
  <1>1. TypeOK /\ SessionOK(s) /\ s \in Procs
    BY DEF IInv, Own, Procs
  <1>2. PICK a, e, c : a = me[s].at /\ e = me[s].end /\ c = me[s].pc
    OBVIOUS
  <1>3. a \in Nat /\ Len(log) \in Nat /\ Len(log') \in Nat
    BY <1>1, <1>2, Types, LenProperties DEF TypeOK, Proc
  <1>4. AtOK(s) => AtOK(s)'
    BY <1>1, KeepAt
  <1>5. c = "tail" => EndAt(e, a - 1)'
    <2> SUFFICES ASSUME c = "tail" PROVE EndAt(e, a - 1)'
      OBVIOUS
    <2>1. AtOK(s) /\ EndAt(e, a - 1)
      BY <1>1, <1>2 DEF SessionOK, SessionIs, AtOK
    <2>2. PICK u : u = me[s].view.upto /\ u \in Nat
      BY <1>1, Types, ManifestIs DEF Proc
    <2>3. a - 1 \in Nat /\ a - 1 <= Len(log)
      BY <1>2, <1>3, <2>1, <2>2 DEF AtOK, AtIs
    <2> QED BY <1>1, <2>1, <2>3, KeepEnd
  <1>6. Sealer => Sealer'
    BY <1>1, <1>3, KeepFrames DEF Sealer
  <1> QED BY <1>1, <1>2, <1>3, <1>4, <1>5, <1>6 DEF SessionOK, SessionIs, Advance, AtOK

\* What a folder has read of the chain does not change behind it.
LEMMA KeepGathered ==
  ASSUME TypeOK, TypeOK', Advance, NEW f \in Procs, me'[f] = me[f], AtOK(f), Gathered(f)
  PROVE  Gathered(f)'
  <1>1. PICK a, u, g : a = me[f].at /\ u = me[f].view.upto /\ g = me[f].got
    OBVIOUS
  <1>2. a \in Nat /\ u \in Nat /\ Len(log) \in Nat /\ Len(log') \in Nat
    BY <1>1, Types, ManifestIs, LenProperties DEF TypeOK, Proc
  <1>3. a <= Len(log) + 1
    BY <1>1 DEF AtOK, AtIs
  <1>4. ASSUME NEW q, q < a PROVE q \in Frames' <=> q \in Frames
    <2>1. q \in Frames => q \in 1..Len(log) /\ q \in Frames'
      BY FramesAre, KeepFrames
    <2>2. q \in Frames' => q \in 1..Len(log')
      BY DEF Frames
    <2>3. q \in Frames' => q \in 1..Len(log)
      BY <1>2, <1>3, <1>4, <2>2
    <2> QED BY <2>1, <2>3, KeepFrames
  <1>5. {q \in Frames : u < q /\ q < a} = {q \in Frames' : u < q /\ q < a}
    BY <1>4
  <1> QED BY <1>1, <1>5 DEF Gathered, Gathers

\* and so does a folder,
LEMMA KeepFolder ==
  ASSUME IInv, TypeOK', Advance, WaitShrinks, NEW f \in Folders, me'[f] = me[f]
  PROVE  FolderOK(f)'
  <1>1. TypeOK /\ FolderOK(f) /\ f \in Procs /\ RoundsOK /\ ManifestOK(me[f].view)
    BY DEF IInv, Own, Procs, Store
  <1>2. PICK a, e, c, r, v : /\ a = me[f].at /\ e = me[f].end /\ c = me[f].pc /\ r = me[f].rnd
                             /\ v = me[f].view
    OBVIOUS
  <1>3. /\ a \in Nat /\ r \in Nat /\ v.last \in Nat /\ v.upto \in Nat /\ v.last <= man.last /\ man.last \in Nat
        /\ Len(log) \in Nat /\ Len(log') \in Nat
    BY <1>1, <1>2, Types, ManifestIs, LenProperties DEF TypeOK, Proc, ManifestOK
  <1>4. AtOK(f) => AtOK(f)'
    BY <1>1, KeepAt
  <1>5. AtOK(f) /\ Gathered(f) => Gathered(f)'
    BY <1>1, KeepGathered
  <1>6. AtOK(f) /\ EndAt(e, a - 1) => EndAt(e, a - 1)'
    <2> SUFFICES ASSUME AtOK(f), EndAt(e, a - 1) PROVE EndAt(e, a - 1)'
      OBVIOUS
    <2>1. a - 1 \in Nat /\ a - 1 <= Len(log)
      BY <1>2, <1>3 DEF AtOK, AtIs
    <2> QED BY <1>1, <2>1, KeepEnd
  <1>7. r \in 1..MaxRound /\ index[r] # NoIndex => index'[r] = index[r] /\ index[r].last \in Nat /\ index[r].last <= Len(log)
    BY <1>1, Types DEF Advance, RoundsOK, RoundIndex
  <1>8. c = "publish" => DigAt(a - 1)' = DigAt(a - 1)
    <2> SUFFICES ASSUME c = "publish" PROVE DigAt(a - 1)' = DigAt(a - 1)
      OBVIOUS
    <2>1. r \in 1..MaxRound /\ index[r] # NoIndex /\ a = index[r].last + 1
      BY <1>1, <1>2, <1>3 DEF FolderOK, FolderIs, AtOK, Gathered
    <2>2. a - 1 \in Nat /\ a - 1 <= Len(log)
      BY <1>3, <1>7, <2>1
    <2> QED BY <1>1, <2>2, KeepDig
  <1>9. c = "delete" => wait'[r] = {} /\ Covers(r, a)'
    <2> SUFFICES ASSUME c = "delete" PROVE wait'[r] = {} /\ Covers(r, a)'
      OBVIOUS
    <2>1. r \in 1..man.last /\ wait[r] = {} /\ Covers(r, a) /\ r <= man.last /\ r > 0
      BY <1>1, <1>2, <1>3 DEF FolderOK, FolderIs, AtOK, Gathered
    <2>2. wait'[r] = {}
      BY <2>1 DEF WaitShrinks
    <2>3. Covers(r, a)'
      BY <1>1, <1>3, <2>1, KeepIndex
    <2> QED BY <2>2, <2>3
  <1>10. c \in {"adopt", "publish"} => r \in 1..MaxRound
    BY <1>1, <1>2, <1>3 DEF FolderOK, FolderIs, AtOK, Gathered
  <1> QED BY <1>1, <1>2, <1>3, <1>4, <1>5, <1>6, <1>7, <1>8, <1>9, <1>10 DEF FolderOK, FolderIs, Advance, AtOK, Gathered

\* A place in the rounds says the same after a step that only adds.
LEMMA KeepBefore ==
  ASSUME TypeOK, TypeOK', RoundsOK, RoundsOK', Advance, NEW r \in Nat, NEW c \in Nat, NEW l \in Nat,
         l <= man.last, PlaceOK(r, c, l)
  PROVE  /\ PlaceOK(r, c, l)'
         /\ \A q \in Nat : Before(r, c, q)' => Before(r, c, q)
  <1>1. man.last \in Nat /\ man'.last \in Nat /\ man.last <= man'.last
    BY Types, ManifestIs DEF TypeOK, Advance
  <1>2. r <= l => index'[r] = index[r]
    BY <1>1, KeepIndex DEF PlaceOK
  <1>3. PlaceOK(r, c, l)'
    BY <1>2 DEF PlaceOK
  <1>4. ASSUME NEW q \in Nat, Before(r, c, q)' PROVE Before(r, c, q)
    <2>1. PICK t \in 1..man'.last : Covers(t, q)' /\ (t < r \/ (t = r /\ q < index'[t].first + c))
      BY <1>4 DEF Before
    <2>2. CASE t <= man.last
      <3>1. t \in Nat /\ t \in 1..man.last /\ t > 0
        BY <1>1, <2>2
      <3>2. index'[t] = index[t] /\ Covers(t, q)
        BY <2>1, <2>2, <3>1, KeepIndex
      <3> QED BY <2>1, <3>1, <3>2 DEF Before
    <2>3. CASE ~(t <= man.last)
      <3>1. r = l + 1 /\ c = 0 /\ t = r
        BY <1>1, <2>1, <2>3 DEF PlaceOK
      <3>2. index'[t].first \in Nat
        <4>1. t \in 1..MaxRound
          BY <1>1, Types, ManifestIs DEF TypeOK
        <4>2. index' \in [1..MaxRound -> RoundIndex]
          BY DEF TypeOK
        <4>3. index'[t] \in RoundIndex
          BY <4>1, <4>2
        <4> QED BY <4>3 DEF RoundIndex
      <3> QED BY <2>1, <3>1, <3>2 DEF Covers
    <2> QED BY <2>2, <2>3
  <1> QED BY <1>3, <1>4

\* What lies in a published round lies in the chain.
LEMMA BeforeIn ==
  ASSUME TypeOK, RoundsOK, NEW r, NEW c, NEW q \in Nat, Before(r, c, q)
  PROVE  q <= Len(log)
  <1>1. PICK t \in 1..man.last : Covers(t, q)
    BY DEF Before
  <1>2. t \in 1..MaxRound /\ index[t] # NoIndex
    BY Types, ManifestIs DEF RoundsOK
  <1>3. index[t].last \in Nat /\ index[t].last <= Len(log)
    BY <1>2, Types DEF RoundsOK, RoundIndex
  <1> QED BY <1>1, <1>3, Types DEF Covers

\* and a reader.
LEMMA KeepReader ==
  ASSUME IInv, TypeOK', RoundsOK', Advance,
         NEW p \in Readers, me'[p] = me[p], cur'[p] = cur[p], due'[p] = due[p]
  PROVE  ReaderOK(p)'
  <1>1. TypeOK /\ ReaderOK(p) /\ p \in Procs /\ RoundsOK /\ ManifestOK(me[p].view)
    BY DEF IInv, Own, Procs, Store
  <1>2. PICK k, m, v, d : k = cur[p] /\ m = me[p] /\ v = me[p].view /\ d = due[p]
    OBVIOUS
  <1>3. /\ k.round \in Nat /\ k.chunk \in Nat /\ k.seq \in Nat
        /\ m.rnd \in Nat /\ m.at \in Nat /\ v.last \in Nat /\ v.last <= man.last /\ man.last \in Nat
        /\ man'.last \in Nat /\ man.last <= man'.last /\ man'.last <= MaxRound /\ MaxRound \in Nat
        /\ d \in Nat /\ d <= Len(log) /\ Len(log) \in Nat /\ Len(log') \in Nat /\ Len(log) <= Len(log')
    <2>1. k.round \in Nat /\ k.chunk \in Nat /\ k.seq \in Nat
      BY <1>1, <1>2 DEF TypeOK
    <2>2. m.rnd \in Nat /\ m.at \in Nat /\ v \in ShardManifest
      BY <1>1, <1>2, Types DEF Proc
    <2>3. man \in ShardManifest /\ man' \in ShardManifest /\ d \in Nat
      BY <1>1, <1>2 DEF TypeOK
    <2>4. Len(log) \in Nat /\ Len(log') \in Nat
      BY <1>1, LenProperties DEF TypeOK
    <2>5. d <= Len(log) /\ v.last <= man.last
      BY <1>1, <1>2 DEF ReaderOK, ReaderIs, ManifestOK, AtOK
    <2> QED BY <2>1, <2>2, <2>3, <2>4, <2>5, ManifestIs, RoundsAssumption DEF Advance
  <1>4. \A q \in Frames' : q \in Nat
    BY DEF Frames
  <1>5. ASSUME NEW q \in Frames', q <= Len(log) PROVE q \in Frames
    <2>1. q \in 1..Len(log)
      BY <1>3, <1>4, <1>5 DEF Frames
    <2> QED BY <1>1, <2>1, KeepFrames
  <1>6. /\ PlaceOK(k.round, k.chunk, man.last)' /\ \A q \in Nat : Before(k.round, k.chunk, q)' => Before(k.round, k.chunk, q)
    <2>1. PICK l : l = man.last
      OBVIOUS
    <2>2. PlaceOK(k.round, k.chunk, l)
      BY <1>1, <1>2, <2>1 DEF ReaderOK, ReaderIs, AtOK
    <2>3. PlaceOK(k.round, k.chunk, l)' /\ \A q \in Nat : Before(k.round, k.chunk, q)' => Before(k.round, k.chunk, q)
      BY <1>1, <1>3, <2>1, <2>2, KeepBefore
    <2>4. k.round <= man'.last /\ k.round = l + 1 => index'[k.round].first <= index'[k.round].last + 1
      <3> SUFFICES ASSUME k.round <= man'.last, k.round = l + 1
                   PROVE  index'[k.round].first <= index'[k.round].last + 1
        OBVIOUS
      <3>1. k.round \in 1..man'.last /\ k.round \in 1..MaxRound
        BY <1>3, <2>1
      <3>2. PICK x : x = index'[k.round]
        OBVIOUS
      <3>3. x \in RoundIndex /\ x.first <= x.last
        BY <3>1, <3>2 DEF RoundsOK, TypeOK
      <3> QED BY <3>2, <3>3 DEF RoundIndex
    <2>5. k.round <= man'.last /\ k.round = l + 1 => index'[k.round].first + k.chunk <= index'[k.round].last + 1
      <3> SUFFICES ASSUME k.round <= man'.last, k.round = l + 1
                   PROVE  index'[k.round].first + k.chunk <= index'[k.round].last + 1
        OBVIOUS
      <3>1. k.chunk = 0
        BY <2>2 DEF PlaceOK
      <3>2. k.round \in 1..MaxRound
        BY <1>3, <2>1
      <3>3. PICK x : x = index'[k.round] /\ x \in RoundIndex
        BY <3>2 DEF TypeOK
      <3> QED BY <2>4, <3>1, <3>3 DEF RoundIndex
    <2>6. PlaceOK(k.round, k.chunk, man.last)'
      BY <1>3, <2>1, <2>2, <2>3, <2>5 DEF PlaceOK
    <2> QED BY <2>3, <2>6
  <1>7. \A q \in Frames' : Before(k.round, k.chunk, q)' => q \in m.got
    <2> SUFFICES ASSUME NEW q \in Frames', Before(k.round, k.chunk, q)' PROVE q \in m.got
      OBVIOUS
    <2>1. Before(k.round, k.chunk, q)
      BY <1>4, <1>6
    <2>2. q \in Frames
      BY <1>1, <1>3, <1>4, <1>5, <2>1, BeforeIn
    <2> QED BY <1>1, <1>2, <2>1, <2>2 DEF ReaderOK, ReaderIs, AtOK
  <1>8. m.pc = "rounds" => /\ PlaceOK(m.rnd, m.at, v.last)'
                           /\ \A q \in Frames' : Before(m.rnd, m.at, q)' => q \in m.got
    <2> SUFFICES ASSUME m.pc = "rounds" PROVE /\ PlaceOK(m.rnd, m.at, v.last)'
                           /\ \A q \in Frames' : Before(m.rnd, m.at, q)' => q \in m.got
      OBVIOUS
    <2>1. PlaceOK(m.rnd, m.at, v.last)
      BY <1>1, <1>2 DEF ReaderOK, ReaderIs, AtOK
    <2>2. PlaceOK(m.rnd, m.at, v.last)' /\ \A q \in Nat : Before(m.rnd, m.at, q)' => Before(m.rnd, m.at, q)
      BY <1>1, <1>3, <2>1, KeepBefore
    <2>3. ASSUME NEW q \in Frames', Before(m.rnd, m.at, q)' PROVE q \in m.got
      <3>1. Before(m.rnd, m.at, q)
        BY <1>4, <2>2, <2>3
      <3>2. q \in Frames
        BY <1>1, <1>3, <1>4, <1>5, <3>1, BeforeIn
      <3> QED BY <1>1, <1>2, <3>1, <3>2 DEF ReaderOK, ReaderIs, AtOK
    <2> QED BY <2>2, <2>3
  <1>9. k.seq > 0 => DigAt(k.seq - 1)' = DigAt(k.seq - 1)
    BY <1>1, <1>2, <1>3, KeepDig DEF ReaderOK, ReaderIs, AtOK
  <1>10. \A q \in Frames' : q < k.seq => q \in m.got
    BY <1>1, <1>2, <1>3, <1>4, <1>5 DEF ReaderOK, ReaderIs, AtOK
  <1>11. m.pc = "tail" => AtOK(p)' /\ \A q \in Frames' : q < m.at => q \in m.got
    <2>1. AtOK(p) => AtOK(p)'
      BY <1>1, KeepAt
    <2>2. AtOK(p) => m.at <= Len(log) + 1
      BY <1>2 DEF AtOK, AtIs
    <2> QED BY <1>1, <1>2, <1>3, <1>4, <1>5, <2>1, <2>2 DEF ReaderOK, ReaderIs, AtOK
  <1>12. m.pc = "caught" => \A q \in Frames' : q <= d => q \in m.got
    BY <1>1, <1>2, <1>3, <1>4, <1>5 DEF ReaderOK, ReaderIs, AtOK
  <1>13. k.seq <= Len(log') + 1 /\ d <= Len(log') /\ (k.seq > 0 => k.link = DigAt(k.seq - 1)')
    BY <1>1, <1>2, <1>3, <1>9 DEF ReaderOK, ReaderIs, AtOK
  <1> QED BY <1>2, <1>6, <1>7, <1>8, <1>10, <1>11, <1>12, <1>13 DEF ReaderOK, ReaderIs, AtOK

\* What a step of process a must show.
LEMMA Assemble ==
  ASSUME IInv, NEW a \in Procs, TypeOK', Store', Grace', Advance, WaitShrinks, Alone(a),
         Own(a)', \A s \in Sessions : OpenOK(s)'
  PROVE  IInv'
  <1>1. TypeOK /\ RoundsOK /\ RoundsOK'
    BY DEF IInv, Store
  <1>2. ASSUME NEW p \in Procs, p # a PROVE Own(p)'
    <2>1. me'[p] = me[p] /\ (p \in Readers => cur'[p] = cur[p] /\ due'[p] = due[p])
      BY <1>2 DEF Alone
    <2>2. ManifestOK(me[p].view)'
      <3>1. PICK v : v = me[p].view
        OBVIOUS
      <3>2. v \in ShardManifest /\ ManifestOK(v)
        BY <1>1, <3>1, Types DEF Proc, IInv, Own
      <3>3. ManifestOK(v)'
        BY <1>1, <3>2, KeepManifest
      <3> QED BY <2>1, <3>1, <3>3 DEF ManifestOK
    <2>3. p \in Sessions => SessionOK(p)'
      BY <2>1, KeepSession
    <2>4. p \in Folders => FolderOK(p)'
      BY <2>1, KeepFolder
    <2>5. p \in Readers => ReaderOK(p)'
      BY <1>1, <2>1, KeepReader
    <2> QED BY <2>2, <2>3, <2>4, <2>5 DEF Own
  <1> QED BY <1>2 DEF IInv

-----------------------------------------------------------------------------
(* Steps that leave the store alone                                         *)

store == <<log, obj, man, index, sealed>>

\* The process goes by a manifest it loaded.
Busy(m) == m.pc \notin {"idle", "open", "dead", "caught"}

Cursor == [round: 1..(MaxRound + 1), chunk: 0..MaxSeq, seq: 0..(MaxSeq + 1), link: 0..MaxSeq]

\* A step that leaves the store alone changes nothing said of it,
LEMMA SameStore ==
  ASSUME store' = store
  PROVE  /\ Frames' = Frames /\ (Sealer' <=> Sealer)
         /\ \A q : DigAt(q)' = DigAt(q)
         /\ \A e, n : EndAt(e, n)' <=> EndAt(e, n)
         /\ \A v : ManifestOK(v)' <=> ManifestOK(v)
         /\ \A r, q : Covers(r, q)' <=> Covers(r, q)
         /\ \A r, c, q : Before(r, c, q)' <=> Before(r, c, q)
         /\ \A r, c, l : PlaceOK(r, c, l)' <=> PlaceOK(r, c, l)
         /\ \A s : LastSealer(s)' <=> LastSealer(s)
         /\ (ChainOK' <=> ChainOK) /\ (RoundsOK' <=> RoundsOK) /\ (SealedOK' <=> SealedOK)
  <1>1. log' = log /\ obj' = obj /\ man' = man /\ index' = index /\ sealed' = sealed
    BY DEF store
  <1>2. Frames' = Frames /\ \A r : Index(r)' = Index(r)
    BY <1>1 DEF Frames, Index
  <1>3. (\A q : DigAt(q)' = DigAt(q)) /\ (\A e, n : EndAt(e, n)' <=> EndAt(e, n)) /\ (Sealer' <=> Sealer)
    BY <1>1, <1>2 DEF DigAt, EndAt, Sealer
  <1>4. (\A v : ManifestOK(v)' <=> ManifestOK(v)) /\ (\A r, q : Covers(r, q)' <=> Covers(r, q))
    BY <1>1, <1>2, <1>3 DEF ManifestOK, Covers
  <1>5. /\ \A r, c, q : Before(r, c, q)' <=> Before(r, c, q)
        /\ \A r, c, l : PlaceOK(r, c, l)' <=> PlaceOK(r, c, l)
        /\ \A s : LastSealer(s)' <=> LastSealer(s)
    BY <1>1, <1>4 DEF Before, PlaceOK, LastSealer
  <1>6. (ChainOK' <=> ChainOK) /\ (SealedOK' <=> SealedOK)
    BY <1>1, <1>2, <1>3 DEF ChainOK, SealedOK, ResumesAtEnd
  <1>7. RoundsOK' <=> RoundsOK
    BY <1>1, <1>3, <1>4 DEF RoundsOK
  <1> QED BY <1>2, <1>3, <1>4, <1>5, <1>6, <1>7

\* nor of what a process holds.
LEMMA SameRecords ==
  ASSUME store' = store
  PROVE  /\ \A m : AtIs(m)' <=> AtIs(m)
         /\ \A m : SessionIs(m)' <=> SessionIs(m)
         /\ \A m : Gathers(m)' <=> Gathers(m)
         /\ \A m, k, d : ReaderIs(m, k, d)' <=> ReaderIs(m, k, d)
         /\ wait' = wait => \A m : FolderIs(m)' <=> FolderIs(m)
  <1>1. log' = log /\ obj' = obj /\ man' = man /\ index' = index /\ sealed' = sealed
    BY DEF store
  <1>2. (\A m : AtIs(m)' <=> AtIs(m)) /\ (\A m : Gathers(m)' <=> Gathers(m))
    BY <1>1, SameStore DEF AtIs, Gathers
  <1>3. \A m : SessionIs(m)' <=> SessionIs(m)
    BY <1>1, <1>2, SameStore DEF SessionIs
  <1>4. \A m, k, d : ReaderIs(m, k, d)' <=> ReaderIs(m, k, d)
    BY <1>1, <1>2, SameStore DEF ReaderIs
  <1>5. wait' = wait => \A m : FolderIs(m)' <=> FolderIs(m)
    BY <1>1, <1>2, SameStore DEF FolderIs
  <1> QED BY <1>2, <1>3, <1>4, <1>5

\* What a step that leaves the store alone must show.
LEMMA QuietStep ==
  ASSUME IInv, NEW a \in Procs, NEW m \in Proc, Step(a, m), store' = store,
         cur' \in [Readers -> Cursor], due' \in [Readers -> 0..MaxSeq], crashes' \in 0..MaxCrash,
         \A p \in Readers \ {a} : cur'[p] = cur[p] /\ due'[p] = due[p],
         \/ /\ wait' = wait
            /\ a \in Folders \/ m.view = man \/ (m.view = me[a].view /\ Busy(me[a]))
         \/ ReadEnds(a) /\ ~Busy(m),
         Own(a)', a \in Sessions => OpenOK(a)'
  PROVE  IInv'
  <1>1. TypeOK /\ Store /\ Grace
    BY DEF IInv
  <1>2. log' = log /\ obj' = obj /\ man' = man /\ index' = index /\ sealed' = sealed
    BY DEF store
  <1>3. me \in [Procs -> Proc] /\ wait \in [1..MaxRound -> SUBSET Procs] /\ man.last \in Nat /\ man.last <= MaxRound /\ MaxRound \in Nat
    BY <1>1, ManifestIs, RoundsAssumption DEF TypeOK, Proc
  <1>4. me'[a] = m /\ me' \in [Procs -> Proc] /\ \A p \in Procs \ {a} : me'[p] = me[p]
    BY <1>3 DEF Step
  <1>5. /\ wait' \in [1..MaxRound -> SUBSET Procs]
        /\ \A r \in 1..MaxRound : wait'[r] \subseteq wait[r] /\ wait[r] \ {a} \subseteq wait'[r]
    BY <1>3 DEF ReadEnds
  <1>6. TypeOK'
    BY <1>1, <1>2, <1>4, <1>5 DEF TypeOK, Proc, Cursor
  <1>7. Advance /\ WaitShrinks /\ Alone(a)
    <2>1. Len(log) \in Nat
      BY <1>1, Types
    <2> QED BY <1>2, <1>3, <1>4, <1>5, <2>1 DEF Advance, WaitShrinks, Alone
  <1>8. Store'
    <2>1. ObjOK'
      <3>1. \A q \in Seqs : obj'[q] # None => q <= Len(log') /\ obj'[q] = log'[q]
        BY <1>1, <1>2 DEF Store, ObjOK
      <3>2. ASSUME NEW q \in 1..Len(log'), obj'[q] = None
            PROVE  \E r \in 1..man'.last : Covers(r, q)' /\ wait'[r] = {}
        <4>1. PICK r \in 1..man.last : Covers(r, q) /\ wait[r] = {}
          BY <1>1, <1>2, <3>2 DEF Store, ObjOK
        <4>2. wait'[r] = {}
          BY <1>3, <1>5, <4>1
        <4> QED BY <1>2, <4>1, <4>2, SameStore
      <3> QED BY <3>1, <3>2 DEF ObjOK
    <2>2. ManifestOK(man)'
      BY <1>1, <1>2, SameStore DEF Store, ManifestOK, DigAt, Index
    <2> QED BY <1>1, <2>1, <2>2, SameStore DEF Store
  <1>9. Grace'
    <2> SUFFICES ASSUME NEW p \in UnderWay', NEW r \in 1..man'.last, me'[p].view.last < r
                 PROVE  p \in wait'[r]
      BY DEF Grace
    <2>1. p \in Procs /\ p \notin Folders /\ Busy(me'[p]) /\ r \in 1..man.last /\ r \in 1..MaxRound
      BY <1>2, <1>3, RoundsAssumption DEF UnderWay, Procs, Busy
    <2>2. CASE p # a
      <3>1. p \in UnderWay /\ me'[p] = me[p]
        BY <1>4, <2>1, <2>2 DEF UnderWay
      <3>2. p \in wait[r]
        BY <1>1, <2>1, <3>1 DEF Grace
      <3> QED BY <1>5, <2>1, <2>2, <3>2
    <2>3. CASE p = a
      <3>1. wait' = wait /\ (m.view = man \/ (m.view = me[a].view /\ Busy(me[a])))
        BY <1>4, <2>1, <2>3
      <3>2. m.view # man
        BY <1>2, <1>3, <1>4, <2>3
      <3>3. a \in UnderWay /\ me[a].view.last < r
        BY <1>4, <2>1, <2>3, <3>1, <3>2 DEF UnderWay, Busy, Procs
      <3> QED BY <1>1, <2>1, <2>3, <3>1, <3>3 DEF Grace
    <2> QED BY <2>2, <2>3
  <1>10. ASSUME NEW s \in Sessions PROVE OpenOK(s)'
    <2>1. CASE s = a
      BY <2>1
    <2>2. CASE s # a
      <3>1. me'[s] = me[s] /\ OpenOK(s)
        BY <1>4, <2>2 DEF Procs, IInv
      <3>2. Len(log)' = Len(log) /\ (LastSealer(s)' <=> LastSealer(s))
        BY <1>2, SameStore
      <3>3. PICK e, n : e = me[s].end /\ n = Len(log)
        OBVIOUS
      <3>4. EndAt(e, n)' <=> EndAt(e, n)
        BY SameStore
      <3> QED BY <3>1, <3>2, <3>3, <3>4 DEF OpenOK
    <2> QED BY <2>1, <2>2
  <1> QED BY <1>6, <1>7, <1>8, <1>9, <1>10, Assemble

\* The records of a process at rest and of a dead one.
LEMMA RestIs ==
  /\ Rest \in Proc /\ Dead \in Proc /\ NoManifest \in ShardManifest
  /\ Rest.view = NoManifest /\ Dead.view = NoManifest
  /\ Rest.pc = "idle" /\ Dead.pc = "dead" /\ Rest.got = {} /\ Dead.got = {}
  BY RoundsAssumption DEF Rest, Dead, NoManifest, Proc, Pcs, ShardManifest

\* The manifest before the first takeover.
LEMMA NoManifestOK ==
  ASSUME TypeOK
  PROVE  ManifestOK(NoManifest)
  BY Types, ManifestIs DEF ManifestOK, NoManifest, DigAt, Index, NoIndex

-----------------------------------------------------------------------------
(* The walk of the chain                                                    *)

\* An object in the store is the chain's segment at its position.
LEMMA ObjIs ==
  ASSUME TypeOK, ObjOK, NEW q, Present(q)
  PROVE  q \in 1..Len(log) /\ q \in Nat /\ Obj(q) = log[q] /\ Obj(q) \in Segment
  <1>1. q \in Seqs /\ obj[q] # None
    BY DEF Present, Obj
  <1>2. q <= Len(log) /\ obj[q] = log[q]
    BY <1>1 DEF ObjOK
  <1>3. q \in 1..Len(log)
    BY <1>1, <1>2, Types DEF Seqs
  <1> QED BY <1>1, <1>2, <1>3, Types DEF Obj

\* Rounds follow one another.
LEMMA LastsGrow ==
  ASSUME TypeOK, RoundsOK, NEW r \in 1..man.last, NEW t \in 1..man.last, r <= t
  PROVE  index[r].last <= index[t].last /\ index[r].last \in Nat /\ index[t].last \in Nat
  <1>1. r \in 1..MaxRound /\ t \in 1..MaxRound /\ index[r] # NoIndex /\ index[t] # NoIndex
    BY Types, ManifestIs DEF RoundsOK
  <1>2. index[r] \in RoundIndex /\ index[t] \in RoundIndex
    BY <1>1, Types
  <1>3. index[t].first <= index[t].last
    BY <1>1 DEF RoundsOK
  <1>4. r < t => index[r].last < index[t].first
    BY <1>1 DEF RoundsOK
  <1> QED BY <1>2, <1>3, <1>4 DEF RoundIndex

\* What a read under way may still need is not deleted: the rounds that fold
\* it were published after the read's load, and wait for it.
LEMMA Covered ==
  ASSUME IInv, NEW p \in UnderWay, NEW q \in Nat, me[p].view.upto < q, q <= Len(log)
  PROVE  Present(q) /\ Obj(q) = log[q]
  <1>1. TypeOK /\ ObjOK /\ RoundsOK /\ Grace /\ p \in Procs /\ ManifestOK(me[p].view)
    BY DEF IInv, Store, UnderWay, Procs, Own
  <1>2. PICK v : v = me[p].view
    OBVIOUS
  <1>3. /\ v.upto \in Nat /\ v.last \in Nat /\ v.last <= man.last /\ v.upto = Index(v.last).last
        /\ man.last \in Nat /\ man.last <= MaxRound /\ MaxRound \in Nat
    BY <1>1, <1>2, Types, ManifestIs DEF Proc, ManifestOK
  <1>4. q \in 1..Len(log) /\ q \in Seqs
    BY <1>1, <1>2, <1>3, Types DEF Seqs
  <1>5. obj[q] # None
    <2> SUFFICES ASSUME obj[q] = None PROVE FALSE
      OBVIOUS
    <2>1. PICK r \in 1..man.last : Covers(r, q) /\ wait[r] = {}
      BY <1>1, <1>4 DEF ObjOK
    <2>2. r <= v.last
      BY <1>1, <1>2, <1>3, <2>1 DEF Grace
    <2>3. v.last \in 1..man.last /\ Index(v.last) = index[v.last]
      BY <1>3, <2>1, <2>2 DEF Index
    <2>4. index[r].last <= v.upto /\ index[r].last \in Nat
      BY <1>1, <1>3, <2>2, <2>3, LastsGrow
    <2> QED BY <1>2, <1>3, <2>1, <2>4 DEF Covers
  <1> QED BY <1>1, <1>4, <1>5 DEF Present, Obj, ObjOK

\* A walk meets no break, and a reader whose walk ends is at the end of the chain.
LEMMA WalkIs ==
  ASSUME IInv, NEW p \in Procs, me[p].pc = "tail", AtOK(p)
  PROVE  /\ ~WalkBreaks(p)
         /\ me[p].at \in Nat /\ me[p].at <= Len(log) + 1 /\ me[p].view.upto \in Nat /\ me[p].at > 0
         /\ WalkGoes(p) => me[p].at \in 1..Len(log) /\ Obj(me[p].at) = log[me[p].at]
         /\ p \in UnderWay /\ WalkEnds(p) => me[p].at = Len(log) + 1
  <1>1. TypeOK /\ ObjOK /\ ChainOK
    BY DEF IInv, Store
  <1>2. PICK a, l, u : a = me[p].at /\ l = me[p].link /\ u = me[p].view.upto
    OBVIOUS
  <1>3. a \in Nat /\ u \in Nat /\ Len(log) \in Nat /\ u < a /\ a <= Len(log) + 1 /\ l = DigAt(a - 1)
    BY <1>1, <1>2, Types, ManifestIs DEF Proc, AtOK, AtIs
  <1>4. Present(a) => a \in 1..Len(log) /\ Obj(a) = log[a] /\ log[a].prev = l
    BY <1>1, <1>3, ObjIs DEF ChainOK
  <1>5. ~WalkBreaks(p)
    BY <1>2, <1>4 DEF WalkBreaks
  <1>6. p \in UnderWay /\ WalkEnds(p) => a = Len(log) + 1
    <2> SUFFICES ASSUME p \in UnderWay, WalkEnds(p), a # Len(log) + 1 PROVE FALSE
      OBVIOUS
    <2>1. Present(a)
      BY <1>2, <1>3, Covered
    <2> QED BY <1>2, <1>4, <2>1 DEF WalkEnds, WalkGoes
  <1> QED BY <1>2, <1>3, <1>4, <1>5, <1>6 DEF WalkGoes

\* The last LSN of the chain, one segment further.
LEMMA EndStep ==
  ASSUME TypeOK, ChainOK, NEW q \in 1..Len(log), NEW e \in Nat, EndAt(e, q - 1)
  PROVE  EndAt(Max({e, log[q].end}), q)
  <1>1. PICK x : x = log[q].end /\ x \in Nat
    BY Types, SegmentIs
  <1>2. Max({e, x}) = IF x <= e THEN e ELSE x
    BY <1>1, MaxPair
  <1>3. \A r \in Frames : r \in Nat /\ r \in 1..Len(log) /\ log[r].end \in Nat
    BY FramesAre
  <1>4. CASE log[q].kind = "seal"
    <2>1. x = 0 /\ q \notin Frames /\ Max({e, x}) = e
      BY <1>1, <1>2, <1>4, FramesAre DEF ChainOK
    <2>2. \A r \in Frames : r <= q <=> r <= q - 1
      BY <1>3, <2>1
    <2> QED BY <1>1, <2>1, <2>2 DEF EndAt
  <1>5. CASE log[q].kind # "seal"
    <2>1. q \in Frames
      BY <1>5, FramesAre
    <2>2. \A r \in Frames : r <= q - 1 => log[r].end < x
      BY <1>1, <1>3, <2>1 DEF ChainOK, ResumesAtEnd
    <2>3. e <= x /\ Max({e, x}) = x
      <3>1. e = 0 \/ \E r \in Frames : r <= q - 1 /\ log[r].end = e
        BY DEF EndAt
      <3>2. e <= x
        BY <1>1, <2>2, <3>1
      <3> QED BY <1>1, <1>2, <3>2
    <2>4. \A r \in Frames : r <= q => log[r].end <= x
      BY <1>1, <1>3, <2>2
    <2>5. q \in Nat /\ q <= q /\ log[q].end = x
      BY <1>1
    <2>6. EndAt(x, q)
      BY <2>1, <2>4, <2>5 DEF EndAt
    <2> QED BY <1>1, <2>3, <2>6
  <1> QED BY <1>4, <1>5

\* What a process holds after one segment of its walk.
LEMMA WalkedIs ==
  ASSUME IInv, NEW p \in Procs, me[p].pc = "tail", AtOK(p), WalkGoes(p), NEW m, m = Walked(p)
  PROVE  /\ m \in Proc
         /\ m.pc = "tail" /\ m.view = me[p].view /\ m.rnd = me[p].rnd
         /\ m.at = me[p].at + 1 /\ m.link = DigAt(me[p].at)
         /\ m.end = Max({me[p].end, log[me[p].at].end})
         /\ m.got = {q \in me[p].got \cup Frames : q \in me[p].got \/ q = me[p].at}
         /\ AtIs(m)
  <1>1. TypeOK
    BY DEF IInv
  <1>2. PICK x, a, o : x = me[p] /\ a = x.at /\ o = Obj(a)
    OBVIOUS
  <1>3. /\ a \in 1..Len(log) /\ a \in Nat /\ o = log[a] /\ o \in Segment /\ x \in Proc /\ x.view.upto \in Nat /\ x.view.upto < a
        /\ a \in Seqs /\ Len(log) \in Nat /\ Len(log) <= MaxSeq /\ MaxSeq \in Nat
    BY <1>1, <1>2, WalkIs, Types DEF AtOK, AtIs
  <1>4. /\ o.end \in 0..MaxSeq /\ o.end \in Nat /\ x.end \in 0..MaxSeq /\ x.end \in Nat
        /\ o.kind \in {"landing", "seal"} /\ x.got \in SUBSET Seqs
    BY <1>3, SegmentIs DEF Proc
  <1>5. PICK e : e = Max({x.end, o.end}) /\ e \in 0..MaxSeq
    BY <1>4, MaxPair
  <1>6. PICK g : g = x.got \cup (IF o.kind = "landing" THEN {a} ELSE {})
    OBVIOUS
  <1>7. m = [x EXCEPT !.at = a + 1, !.link = o.end, !.end = e, !.got = g]
    BY <1>2, <1>5, <1>6 DEF Walked, Digest
  <1>8. g \in SUBSET Seqs /\ a + 1 \in 0..(MaxSeq + 1)
    BY <1>3, <1>4, <1>6 DEF Seqs
  <1>9. m \in Proc /\ m.pc = x.pc /\ m.view = x.view /\ m.rnd = x.rnd /\ m.at = a + 1 /\ m.link = o.end
        /\ m.end = e /\ m.got = g
    BY <1>3, <1>4, <1>5, <1>7, <1>8 DEF Proc
  <1>10. a \in Frames <=> o.kind = "landing"
    BY <1>1, <1>3, FramesAre
  <1>11. g = {q \in x.got \cup Frames : q \in x.got \/ q = a}
    BY <1>6, <1>10
  <1>12. DigAt(a) = o.end /\ a + 1 - 1 = a
    BY <1>3 DEF DigAt
  <1>13. AtIs(m)
    BY <1>3, <1>9, <1>12 DEF AtIs
  <1> QED BY <1>2, <1>3, <1>5, <1>9, <1>11, <1>12, <1>13

\* The watermark of a round is the last LSN up to its boundary.
LEMMA MarkIs ==
  ASSUME TypeOK, RoundsOK, NEW v \in ShardManifest, ManifestOK(v)
  PROVE  EndAt(Index(v.last).mark, v.upto) /\ Index(v.last).mark \in 0..MaxSeq
  <1>1. /\ v.last \in Nat /\ v.last <= man.last /\ v.last <= MaxRound /\ v.upto = Index(v.last).last
        /\ man.last \in Nat /\ MaxRound \in Nat /\ MaxSeq \in Nat
    BY ManifestIs, Types DEF ManifestOK
  <1>2. CASE v.last = 0
    <2>1. Index(v.last) = NoIndex /\ v.upto = 0
      BY <1>1, <1>2, IndexIs DEF NoIndex
    <2>2. \A q \in Frames : ~(q <= 0)
      BY FramesAre
    <2> QED BY <1>1, <2>1, <2>2 DEF EndAt, NoIndex
  <1>3. CASE v.last # 0
    <2>1. v.last \in 1..man.last /\ v.last \in 1..MaxRound /\ Index(v.last) = index[v.last]
      BY <1>1, <1>3, IndexIs
    <2>2. EndAt(index[v.last].mark, index[v.last].last)
      BY <2>1 DEF RoundsOK
    <2>3. index[v.last].mark \in 0..MaxSeq
      BY <2>1, Types DEF RoundIndex
    <2> QED BY <1>1, <2>1, <2>2, <2>3
  <1> QED BY <1>2, <1>3

-----------------------------------------------------------------------------
(* Steps of the sessions                                                    *)

\* A session whose step leaves the store alone.
LEMMA SessionQuiet ==
  ASSUME IInv, NEW s \in Sessions, NEW m \in Proc, Step(s, m), store' = store,
         UNCHANGED <<cur, due>>, crashes' \in 0..MaxCrash,
         \/ wait' = wait /\ (m.view = man \/ (m.view = me[s].view /\ Busy(me[s])))
         \/ ReadEnds(s) /\ ~Busy(m),
         ManifestOK(m.view), SessionIs(m), m.pc = "open" => EndAt(m.end, Len(log))
  PROVE  IInv'
  <1>1. s \in Procs /\ s \notin Folders /\ s \notin Readers
    BY RoundsAssumption DEF Procs
  <1>2. me'[s] = m
    BY <1>1 DEF Step, IInv, TypeOK
  <1>3. ManifestOK(me[s].view)'
    <2>1. PICK v : v = m.view
      OBVIOUS
    <2>2. ManifestOK(v)'
      BY <2>1, SameStore
    <2> QED BY <1>2, <2>1, <2>2 DEF ManifestOK
  <1>4. SessionOK(s)'
    <2>1. SessionIs(m)'
      BY SameRecords
    <2> QED BY <1>2, <2>1 DEF SessionOK, SessionIs, AtIs
  <1>5. OpenOK(s)'
    <2>1. PICK e, n : e = m.end /\ n = Len(log) /\ Len(log') = n
      BY DEF store
    <2>2. EndAt(e, n)' <=> EndAt(e, n)
      BY SameStore
    <2> QED BY <1>2, <2>1, <2>2 DEF OpenOK
  <1>6. cur' \in [Readers -> Cursor] /\ due' \in [Readers -> 0..MaxSeq]
    BY DEF IInv, TypeOK, Cursor
  <1>7. Own(s)'
    BY <1>1, <1>3, <1>4 DEF Own
  <1>8. \A p \in Readers \ {s} : cur'[p] = cur[p] /\ due'[p] = due[p]
    OBVIOUS
  <1> QED BY <1>1, <1>5, <1>6, <1>7, <1>8, QuietStep

\* A session that gives up or dies.
LEMMA SessionStops ==
  ASSUME IInv, NEW s \in Sessions, NEW m \in {Rest, Dead}, Step(s, m), store' = store,
         UNCHANGED <<cur, due>>, crashes' \in 0..MaxCrash, ReadEnds(s)
  PROVE  IInv'
  <1>1. m \in Proc /\ m.pc \in {"idle", "dead"} /\ m.view = NoManifest
    BY RestIs
  <1>2. ManifestOK(m.view)
    BY <1>1, NoManifestOK DEF IInv
  <1>3. SessionIs(m) /\ ~Busy(m) /\ m.pc # "open"
    BY <1>1 DEF SessionIs, Busy
  <1> QED BY <1>1, <1>2, <1>3, SessionQuiet

LEMMA LoadInv == ASSUME IInv, NEW s \in Sessions, Load(s) PROVE IInv'
  <1>1. PICK m : m = [Rest EXCEPT !.pc = "probe", !.view = man]
    OBVIOUS
  <1>2. man \in ShardManifest /\ ManifestOK(man) /\ crashes \in 0..MaxCrash
    BY DEF IInv, TypeOK, Store
  <1>3. m \in Proc /\ m.pc = "probe" /\ m.view = man
    BY <1>1, <1>2, RestIs DEF Proc, Rest, Pcs
  <1>4. SessionIs(m) /\ ManifestOK(m.view)
    BY <1>2, <1>3 DEF SessionIs
  <1> QED BY <1>1, <1>2, <1>3, <1>4, SessionQuiet DEF Load, store

LEMMA ProbeInv == ASSUME IInv, NEW s \in Sessions, Probe(s) PROVE IInv'
  <1>0. crashes \in 0..MaxCrash
    BY DEF IInv, TypeOK
  <1>1. TypeOK /\ ObjOK /\ ChainOK /\ s \in Procs /\ ManifestOK(me[s].view) /\ me[s].pc = "probe" /\ s \in UnderWay
    BY DEF IInv, Store, Procs, Own, Probe, UnderWay
  <1>2. PICK v, x : v = me[s].view /\ x = me[s]
    OBVIOUS
  <1>3. /\ v.upto \in Nat /\ v.head \in Nat /\ v.upto <= Len(log) /\ v.head <= Len(log) /\ v.dig = DigAt(v.upto)
        /\ x \in Proc /\ Len(log) \in Nat /\ Len(log) <= MaxSeq /\ MaxSeq \in Nat /\ v.dig \in 0..MaxSeq
    BY <1>1, <1>2, Types, ManifestIs DEF Proc, ManifestOK, ShardManifest
  <1>4. PICK f : f = Max({v.head, v.upto})
    OBVIOUS
  <1>5. f \in Nat /\ v.upto <= f /\ f <= Len(log)
    BY <1>3, <1>4, MaxPair
  <1>6. PICK h \in f..(MaxSeq - 1) :
       /\ ~Present(h + 1)
       /\ h > f => Present(h) /\ Present(f + 1)
       /\ IF h = v.upto \/ Present(h)
            THEN /\ Step(s, [me[s] EXCEPT !.pc = "seal", !.at = h + 1,
                               !.link = IF h = v.upto THEN v.dig ELSE Digest(Obj(h))])
                 /\ UNCHANGED wait
            ELSE Step(s, Dead) /\ ReadEnds(s)
    BY <1>2, <1>4, Zenon DEF Probe
  <1>7. store' = store /\ UNCHANGED <<cur, due>> /\ crashes' = crashes
    BY DEF Probe, store
  <1>8. CASE ~(h = v.upto \/ Present(h))
    <2>1. Step(s, Dead) /\ ReadEnds(s)
      BY <1>6, <1>8
    <2> QED BY <1>0, <1>7, <2>1, SessionStops
  <1>9. CASE h = v.upto \/ Present(h)
    <2>1. h \in Nat /\ h + 1 \in Nat /\ v.upto < h + 1 /\ h <= Len(log) /\ h + 1 <= MaxSeq
      <3>1. h \in Nat /\ h >= f
        BY <1>5, <1>6
      <3>2. Present(h) => h <= Len(log)
        BY <1>1, ObjIs, Types
      <3> QED BY <1>3, <1>5, <1>6, <1>9, <3>1, <3>2
    <2>2. PICK l : l = IF h = v.upto THEN v.dig ELSE Digest(Obj(h))
      OBVIOUS
    <2>3. l = DigAt(h) /\ l \in 0..MaxSeq
      <3>1. CASE h = v.upto
        BY <1>3, <2>2, <3>1
      <3>2. CASE h # v.upto
        <4>1. h \in 1..Len(log) /\ Obj(h) = log[h] /\ log[h] \in Segment
          BY <1>1, <1>9, <3>2, ObjIs
        <4> QED BY <2>2, <3>2, <4>1, SegmentIs DEF DigAt, Digest
      <3> QED BY <3>1, <3>2
    <2>4. PICK m : m = [x EXCEPT !.pc = "seal", !.at = h + 1, !.link = l]
      OBVIOUS
    <2>5. m \in Proc /\ m.pc = "seal" /\ m.at = h + 1 /\ m.link = l /\ m.view = v
      <3>1. h + 1 \in 0..(MaxSeq + 1)
        BY <1>3, <2>1
      <3> QED BY <1>2, <1>3, <2>3, <2>4, <3>1 DEF Proc, Pcs
    <2>6. Step(s, m) /\ wait' = wait
      BY <1>2, <1>6, <1>9, <2>2, <2>4
    <2>7. h + 1 - 1 = h
      BY <2>1
    <2>8. AtIs(m) /\ SessionIs(m)
      BY <1>3, <2>1, <2>3, <2>5, <2>7 DEF AtIs, SessionIs
    <2>9. ManifestOK(m.view) /\ Busy(me[s])
      BY <1>1, <1>2, <2>5 DEF Busy
    <2> QED BY <1>0, <1>2, <1>7, <2>5, <2>6, <2>8, <2>9, SessionQuiet
  <1> QED BY <1>8, <1>9

LEMMA StreamEndInv == ASSUME IInv, NEW s \in Sessions, StreamEnd(s) PROVE IInv'
  <1>1. TypeOK /\ RoundsOK /\ ChainOK /\ ManifestOK(man) /\ SessionOK(s) /\ me[s].pc = "end" /\ man \in ShardManifest
        /\ crashes \in 0..MaxCrash
    BY DEF IInv, Store, Procs, Own, StreamEnd, TypeOK
  <1>2. PICK e : e = Index(man.last).mark
    OBVIOUS
  <1>3. EndAt(e, man.upto) /\ e \in 0..MaxSeq /\ man.upto \in 0..MaxSeq /\ man.dig \in 0..MaxSeq /\ man.upto <= Len(log)
    BY <1>1, <1>2, MarkIs DEF ShardManifest, ManifestOK
  <1>4. PICK m : m = [Rest EXCEPT !.pc = "tail", !.view = man, !.at = man.upto + 1, !.link = man.dig, !.end = e]
    OBVIOUS
  <1>5. man.upto + 1 \in 0..(MaxSeq + 1) /\ man.upto < man.upto + 1 /\ man.upto + 1 - 1 = man.upto /\ man.upto + 1 <= Len(log) + 1
    BY <1>1, <1>3, Types
  <1>6. m \in Proc /\ m.pc = "tail" /\ m.view = man /\ m.at = man.upto + 1 /\ m.link = man.dig /\ m.end = e
    BY <1>1, <1>3, <1>4, <1>5, RestIs DEF Proc, Rest, Pcs
  <1>7. AtIs(m)
    <2>1. m.at - 1 = man.upto
      BY <1>3, <1>6, RoundsAssumption
    <2>2. m.link = DigAt(man.upto)
      BY <1>1, <1>6, Zenon DEF ManifestOK
    <2> QED BY <1>5, <1>6, <2>1, <2>2 DEF AtIs
  <1>8. SessionIs(m)
    BY <1>1, <1>3, <1>5, <1>6, <1>7 DEF SessionIs, SessionOK
  <1>9. Step(s, m) /\ wait' = wait /\ store' = store /\ UNCHANGED <<cur, due>> /\ crashes' = crashes
    BY <1>2, <1>4 DEF StreamEnd, SealedEnd, store
  <1> QED BY <1>1, <1>6, <1>8, <1>9, SessionQuiet

\* A folder whose step leaves the store alone.
LEMMA FolderQuiet ==
  ASSUME IInv, NEW f \in Folders, NEW m \in Proc, Step(f, m), store' = store,
         UNCHANGED <<cur, due>>, crashes' \in 0..MaxCrash,
         wait' = wait \/ (ReadEnds(f) /\ m = Rest),
         ManifestOK(m.view), FolderIs(m)
  PROVE  IInv'
  <1>1. f \in Procs /\ f \notin Sessions /\ f \notin Readers
    BY RoundsAssumption DEF Procs
  <1>2. me'[f] = m
    BY <1>1 DEF Step, IInv, TypeOK
  <1>3. ManifestOK(me[f].view)'
    <2>1. PICK v : v = m.view
      OBVIOUS
    <2>2. ManifestOK(v)'
      BY <2>1, SameStore
    <2> QED BY <1>2, <2>1, <2>2 DEF ManifestOK
  <1>4. FolderOK(f)'
    <2>1. CASE wait' = wait
      <3>1. FolderIs(m)'
        BY <2>1, SameRecords
      <3> QED BY <1>2, <3>1 DEF FolderOK, FolderIs, AtIs, Gathers
    <2>2. CASE m = Rest
      BY <1>2, <2>2, RestIs DEF FolderOK, FolderIs
    <2> QED BY <2>1, <2>2
  <1>5. cur' \in [Readers -> Cursor] /\ due' \in [Readers -> 0..MaxSeq]
    BY DEF IInv, TypeOK, Cursor
  <1>6. Own(f)'
    BY <1>1, <1>3, <1>4 DEF Own
  <1>7. \A p \in Readers \ {f} : cur'[p] = cur[p] /\ due'[p] = due[p]
    OBVIOUS
  <1>8. m = Rest => ~Busy(m)
    BY RestIs DEF Busy
  <1> QED BY <1>1, <1>5, <1>6, <1>7, <1>8, QuietStep

\* A folder that gives up.
LEMMA FolderStops ==
  ASSUME IInv, NEW f \in Folders, Step(f, Rest), store' = store,
         UNCHANGED <<cur, due>>, crashes' \in 0..MaxCrash, wait' = wait \/ ReadEnds(f)
  PROVE  IInv'
  <1>1. ManifestOK(Rest.view) /\ FolderIs(Rest) /\ Rest \in Proc
    BY RestIs, NoManifestOK DEF FolderIs, IInv
  <1> QED BY <1>1, FolderQuiet

LEMMA WalkSessionInv == ASSUME IInv, NEW s \in Sessions, WalkSession(s) PROVE IInv'
  <1>1. /\ TypeOK /\ ChainOK /\ s \in Procs /\ SessionOK(s) /\ me[s].pc = "tail" /\ s \in UnderWay
        /\ ManifestOK(me[s].view) /\ me[s] \in Proc /\ crashes \in 0..MaxCrash
    BY Types DEF IInv, Store, Procs, Own, WalkSession, UnderWay, WalkGoes, WalkEnds, WalkBreaks, TypeOK
  <1>2. AtOK(s) /\ EndAt(me[s].end, me[s].at - 1) /\ Sealer
    BY <1>1 DEF SessionOK, SessionIs, AtOK
  <1>3. store' = store /\ UNCHANGED <<cur, due>> /\ crashes' = crashes
    BY DEF WalkSession, store
  <1>4. CASE WalkGoes(s) /\ Step(s, [Walked(s) EXCEPT !.got = {}]) /\ UNCHANGED wait
    <2>1. PICK w, m : w = Walked(s) /\ m = [w EXCEPT !.got = {}]
      OBVIOUS
    <2>2. /\ w \in Proc /\ w.pc = "tail" /\ w.view = me[s].view
          /\ w.at = me[s].at + 1 /\ w.end = Max({me[s].end, log[me[s].at].end}) /\ AtIs(w)
      BY <1>1, <1>2, <1>4, <2>1, WalkedIs
    <2>3. m \in Proc /\ m.pc = "tail" /\ m.view = w.view /\ m.at = w.at /\ m.end = w.end /\ m.link = w.link
      BY <2>1, <2>2 DEF Proc
    <2>4. AtIs(m)
      BY <2>2, <2>3 DEF AtIs
    <2>5. PICK a, e : a = me[s].at /\ e = me[s].end
      OBVIOUS
    <2>6. a \in 1..Len(log) /\ e \in Nat /\ EndAt(e, a - 1) /\ a + 1 - 1 = a
      BY <1>1, <1>2, <1>4, <2>5, WalkIs, Types DEF Proc
    <2>7. EndAt(Max({e, log[a].end}), a)
      BY <1>1, <2>6, EndStep
    <2>8. SessionIs(m)
      <3>1. EndAt(m.end, m.at - 1)
        BY <2>2, <2>3, <2>5, <2>6, <2>7
      <3> QED BY <1>2, <2>3, <2>4, <3>1 DEF SessionIs
    <2>9. Step(s, m) /\ wait' = wait /\ m.view = me[s].view /\ Busy(me[s]) /\ ManifestOK(m.view)
      BY <1>1, <1>4, <2>1, <2>2, <2>3 DEF Busy
    <2> QED BY <1>1, <1>3, <2>3, <2>8, <2>9, SessionQuiet
  <1>5. CASE WalkEnds(s) /\ Step(s, [Rest EXCEPT !.pc = "open", !.end = me[s].end]) /\ ReadEnds(s)
    <2>1. PICK m : m = [Rest EXCEPT !.pc = "open", !.end = me[s].end]
      OBVIOUS
    <2>2. m \in Proc /\ m.pc = "open" /\ m.view = NoManifest /\ m.end = me[s].end
      BY <1>1, <2>1, RestIs DEF Proc, Rest, Pcs
    <2>3. me[s].at = Len(log) + 1 /\ Len(log) \in Nat
      BY <1>1, <1>2, <1>5, WalkIs, Types
    <2>4. EndAt(m.end, Len(log))
      <3>1. me[s].at - 1 = Len(log)
        BY <2>3
      <3> QED BY <1>2, <2>2, <3>1
    <2>5. SessionIs(m) /\ ~Busy(m) /\ ManifestOK(m.view)
      BY <1>1, <1>2, <2>2, NoManifestOK DEF SessionIs, Busy
    <2>6. Step(s, m) /\ ReadEnds(s)
      BY <1>5, <2>1
    <2> QED BY <1>1, <1>3, <2>2, <2>4, <2>5, <2>6, SessionQuiet
  <1>6. CASE WalkBreaks(s) /\ Step(s, Dead) /\ ReadEnds(s)
    BY <1>1, <1>2, <1>6, WalkIs
  <1> QED BY <1>4, <1>5, <1>6 DEF WalkSession

LEMMA CrashInv == ASSUME IInv, NEW p \in Procs, Crash(p) PROVE IInv'
  <1>1. crashes' \in 0..MaxCrash
    BY RoundsAssumption DEF Crash, IInv, TypeOK
  <1>2. store' = store /\ UNCHANGED <<cur, due>> /\ ReadEnds(p)
    BY DEF Crash, store
  <1>3. CASE p \in Sessions /\ Step(p, Dead)
    BY <1>1, <1>2, <1>3, SessionStops
  <1>4. CASE p \in Folders /\ Step(p, Rest)
    BY <1>1, <1>2, <1>4, FolderStops
  <1> QED BY <1>3, <1>4 DEF Crash

\* The chain gets one more segment, at the end and in the store.
LEMMA GrowStore ==
  ASSUME IInv, TypeOK', NEW o \in Segment, log' = Append(log, o), obj' = [obj EXCEPT ![Len(log) + 1] = o],
         Len(log) < MaxSeq, UNCHANGED <<man, index, sealed, wait>>,
         o.prev = DigAt(Len(log)),
         o.kind = "seal" => o.end = 0,
         o.kind = "landing" => /\ 1 <= o.end /\ o.end <= Len(log) + 1
                               /\ \A q \in Frames : log[q].end < o.end
  PROVE  /\ Advance /\ WaitShrinks /\ Store'
         /\ Len(log') = Len(log) + 1 /\ log'[Len(log) + 1] = o
  <1>1. TypeOK /\ Store /\ log \in Seq(Segment) /\ o.kind \in {"landing", "seal"} /\ o # None /\ o.end \in Nat
    BY SegmentIs DEF IInv, TypeOK
  <1>2. PICK n : n = Len(log) /\ n \in Nat
    BY <1>1, Types
  <1>3. Len(log') = n + 1 /\ log'[n + 1] = o /\ \A q \in 1..n : log'[q] = log[q]
    BY <1>1, <1>2, AppendProperties
  <1>4. Advance /\ WaitShrinks
    BY <1>2, <1>3, Types, ManifestIs, RoundsAssumption DEF Advance, WaitShrinks, IInv, TypeOK
  <1>5. \A q \in 1..(n + 1) : q \in 1..n \/ q = n + 1
    BY <1>2
  <1>6. /\ \A q \in 1..n : q \in Frames' <=> q \in Frames
        /\ n + 1 \in Frames' <=> o.kind = "landing"
        /\ \A q \in Frames' : q \in Frames \/ (q = n + 1 /\ o.kind = "landing")
        /\ \A q \in Frames : q \in 1..n /\ q \in Frames'
    BY <1>1, <1>2, <1>3, <1>5 DEF Frames
  <1>7. \A q \in 0..n : DigAt(q)' = DigAt(q)
    BY <1>2, <1>3 DEF DigAt
  <1>8. ChainOK'
    <2>1. \A q \in 1..Len(log') : log'[q].prev = DigAt(q - 1)'
      <3> SUFFICES ASSUME NEW q \in 1..(n + 1) PROVE log'[q].prev = DigAt(q - 1)'
        BY <1>3
      <3>1. CASE q \in 1..n
        <4>1. q - 1 \in 0..n /\ log'[q] = log[q] /\ log[q].prev = DigAt(q - 1)
          BY <1>1, <1>2, <1>3, <3>1 DEF Store, ChainOK
        <4> QED BY <1>7, <4>1
      <3>2. CASE q = n + 1
        <4>1. q - 1 = n /\ n \in 0..n
          BY <1>2, <3>2
        <4> QED BY <1>2, <1>3, <1>7, <3>2, <4>1
      <3> QED BY <1>5, <3>1, <3>2
    <2>2. \A q \in 1..Len(log') : log'[q].kind = "seal" => log'[q].end = 0
      BY <1>1, <1>2, <1>3, <1>5 DEF Store, ChainOK
    <2>3. \A q \in Frames' : 1 <= log'[q].end /\ log'[q].end <= q
      BY <1>1, <1>2, <1>3, <1>6 DEF Store, ChainOK
    <2>4. ASSUME NEW q \in Frames', NEW r \in Frames', q < r PROVE log'[q].end < log'[r].end
      <3>1. CASE r \in Frames
        <4>1. q \in Frames
          BY <1>2, <1>6, <2>4, <3>1
        <4> QED BY <1>1, <1>3, <1>6, <2>4, <3>1, <4>1 DEF Store, ChainOK, ResumesAtEnd
      <3>2. CASE r = n + 1 /\ o.kind = "landing"
        <4>1. q \in Frames
          BY <1>2, <1>6, <2>4, <3>2
        <4> QED BY <1>3, <1>6, <3>2, <4>1
      <3> QED BY <1>6, <3>1, <3>2
    <2> QED BY <2>1, <2>2, <2>3, <2>4 DEF ChainOK, ResumesAtEnd
  <1>9. ManifestOK(man)'
    <2>1. PICK v : v = man
      OBVIOUS
    <2>2. ManifestOK(v)'
      BY <1>1, <1>4, <2>1, KeepManifest, Types DEF Store
    <2> QED BY <2>1, <2>2 DEF ManifestOK
  <1>10. RoundsOK'
    <2>1. ASSUME NEW r \in 1..MaxRound, index[r] # NoIndex
          PROVE  index[r].last <= Len(log') /\ EndAt(index[r].mark, index[r].last)'
      <3>1. PICK e, l : e = index[r].mark /\ l = index[r].last
        OBVIOUS
      <3>2. l \in Nat /\ l <= n /\ EndAt(e, l)
        BY <1>1, <1>2, <2>1, <3>1, Types DEF Store, RoundsOK, RoundIndex
      <3>3. EndAt(e, l)'
        BY <1>1, <1>2, <1>4, <3>2, KeepEnd
      <3>4. EndAt(index[r].mark, index[r].last)'
        BY <3>1, <3>3 DEF EndAt
      <3> QED BY <1>2, <1>3, <3>1, <3>2, <3>4
    <2>2. \A r, q : Covers(r, q)' <=> Covers(r, q)
      BY DEF Covers
    <2> QED BY <1>1, <2>1, <2>2 DEF Store, RoundsOK
  <1>11. SealedOK'
    <2> SUFFICES ASSUME NEW x \in sealed
                 PROVE  x.last <= Len(log') /\ x.frames = {q \in Frames' : x.first <= q /\ q <= x.last}
      BY DEF SealedOK
    <2>1. x.last \in Nat /\ x.last <= n /\ x.frames = {q \in Frames : x.first <= q /\ q <= x.last}
      BY <1>1, <1>2 DEF Store, SealedOK, TypeOK, Seqs
    <2>2. {q \in Frames : x.first <= q /\ q <= x.last} = {q \in Frames' : x.first <= q /\ q <= x.last}
      BY <1>2, <1>6, <2>1
    <2> QED BY <1>2, <1>3, <2>1, <2>2
  <1>12. ObjOK'
    <2>0. obj \in [Seqs -> Segment \cup {None}] /\ n + 1 \in Seqs
      BY <1>1, <1>2, RoundsAssumption DEF TypeOK, Seqs
    <2>1. obj'[n + 1] = o /\ \A q \in Seqs : q # n + 1 => obj'[q] = obj[q]
      BY <1>2, <2>0
    <2>2. \A q \in Seqs : obj'[q] # None => q <= Len(log') /\ obj'[q] = log'[q]
      <3> SUFFICES ASSUME NEW q \in Seqs, obj'[q] # None PROVE q <= Len(log') /\ obj'[q] = log'[q]
        OBVIOUS
      <3>1. CASE q = n + 1
        BY <1>2, <1>3, <2>1, <3>1
      <3>2. CASE q # n + 1
        <4>1. q <= n /\ obj[q] = log[q] /\ q \in 1..n /\ obj'[q] = obj[q]
          BY <1>1, <1>2, <2>1, <3>2 DEF Store, ObjOK, Seqs
        <4> QED BY <1>2, <1>3, <4>1
      <3> QED BY <3>1, <3>2
    <2>3. \A q \in 1..Len(log') :
            obj'[q] = None => \E r \in 1..man'.last : Covers(r, q)' /\ wait'[r] = {}
      <3> SUFFICES ASSUME NEW q \in 1..(n + 1), obj'[q] = None
                   PROVE  \E r \in 1..man.last : Covers(r, q)' /\ wait[r] = {}
        BY <1>3
      <3>1. q \in 1..n /\ q \in Seqs /\ q # n + 1
        BY <1>1, <1>2, <1>5, <2>1, Types DEF Seqs
      <3>2. obj[q] = None
        BY <2>1, <3>1
      <3>3. PICK r \in 1..man.last : Covers(r, q) /\ wait[r] = {}
        BY <1>1, <1>2, <3>1, <3>2 DEF Store, ObjOK
      <3> QED BY <3>3 DEF Covers
    <2> QED BY <2>2, <2>3 DEF ObjOK
  <1> QED BY <1>2, <1>3, <1>4, <1>8, <1>9, <1>10, <1>11, <1>12 DEF Store

\* A step that publishes no round and starts no read keeps the grace.
LEMMA GraceSame ==
  ASSUME IInv, NEW a \in Procs, NEW m \in Proc, Step(a, m), wait' = wait, man'.last = man.last,
         a \in Folders \/ ~Busy(m) \/ (m.view = me[a].view /\ Busy(me[a]))
  PROVE  Grace'
  <1>1. TypeOK /\ Grace /\ me \in [Procs -> Proc]
    BY DEF IInv, TypeOK, Proc
  <1>2. me'[a] = m /\ \A p \in Procs \ {a} : me'[p] = me[p]
    BY <1>1 DEF Step
  <1> SUFFICES ASSUME NEW p \in UnderWay', NEW r \in 1..man.last, me'[p].view.last < r PROVE p \in wait[r]
    BY DEF Grace
  <1>3. p \in Procs /\ p \notin Folders /\ Busy(me'[p])
    BY RoundsAssumption DEF UnderWay, Procs, Busy
  <1>4. CASE p # a
    <2>1. p \in UnderWay /\ me'[p] = me[p]
      BY <1>2, <1>3, <1>4 DEF UnderWay
    <2> QED BY <1>1, <2>1 DEF Grace
  <1>5. CASE p = a
    <2>1. a \in UnderWay /\ me[a].view.last < r
      BY <1>2, <1>3, <1>5 DEF UnderWay, Busy, Procs
    <2> QED BY <1>1, <1>5, <2>1 DEF Grace
  <1> QED BY <1>4, <1>5

\* The type of a state whose process a took a step.
LEMMA StepTypes ==
  ASSUME IInv, NEW a \in Procs, NEW m \in Proc, Step(a, m)
  PROVE  /\ me' \in [Procs -> Proc] /\ me'[a] = m /\ \A p \in Procs \ {a} : me'[p] = me[p]
         /\ UNCHANGED <<cur, due>> => Alone(a)
  <1>1. me \in [Procs -> Proc]
    BY DEF IInv, TypeOK, Proc
  <1>2. me' \in [Procs -> Proc] /\ me'[a] = m /\ \A p \in Procs \ {a} : me'[p] = me[p]
    BY <1>1 DEF Step
  <1> QED BY <1>2 DEF Alone

LEMMA SealInv == ASSUME IInv, NEW s \in Sessions, Seal(s) PROVE IInv'
  <1>1. /\ TypeOK /\ Store /\ s \in Procs /\ SessionOK(s) /\ me[s].pc = "seal" /\ s \in UnderWay
        /\ ManifestOK(me[s].view) /\ me[s] \in Proc /\ crashes \in 0..MaxCrash
    BY Types DEF IInv, Procs, Own, Seal, UnderWay, TypeOK
  <1>2. PICK x, n : x = me[s] /\ n = Len(log)
    OBVIOUS
  <1>3. /\ x.at \in Nat /\ x.view.upto \in Nat /\ x.view.upto < x.at /\ x.at <= n + 1 /\ x.link = DigAt(x.at - 1)
        /\ x.at <= MaxSeq /\ n \in Nat /\ MaxSeq \in Nat /\ x \in Proc /\ x.link \in 0..MaxSeq
    BY <1>1, <1>2, Types, ManifestIs DEF SessionOK, SessionIs, AtIs, Proc
  <1>4. CASE Present(x.at)
    <2>1. Step(s, Rest) /\ ReadEnds(s) /\ store' = store /\ UNCHANGED <<cur, due>> /\ crashes' = crashes
      BY <1>2, <1>4 DEF Seal, store
    <2> QED BY <1>1, <2>1, SessionStops
  <1>5. CASE ~Present(x.at)
    <2>1. x.at = n + 1
      BY <1>1, <1>2, <1>3, <1>5, Covered
    <2>2. x.link = DigAt(n)
      BY <1>3, <2>1
    <2>3. x.link = (IF log = << >> THEN 0 ELSE Digest(log[Len(log)]))
      <3>1. log = << >> <=> n = 0
        BY <1>1, <1>2, EmptySeq DEF TypeOK
      <3> QED BY <1>2, <2>2, <3>1 DEF DigAt, Digest
    <2>4. PICK o : o = [kind |-> "seal", prev |-> x.link, end |-> 0, by |-> s]
      OBVIOUS
    <2>5. PICK m : m = [x EXCEPT !.pc = "cas"]
      OBVIOUS
    <2>6. /\ log' = Append(log, o) /\ obj' = [obj EXCEPT ![Len(log) + 1] = o]
          /\ Step(s, m) /\ UNCHANGED <<man, index, sealed, wait, cur, due, crashes>>
      BY <1>2, <1>5, <2>1, <2>3, <2>4, <2>5, Zenon DEF Seal
    <2>7. o \in Segment /\ o.kind = "seal" /\ o.end = 0 /\ o.prev = x.link /\ o.by = s
      BY <1>3, <2>4 DEF Segment
    <2>8. m \in Proc /\ m.pc = "cas" /\ m.at = n + 1 /\ m.view = x.view
      BY <1>3, <2>1, <2>5 DEF Proc, Pcs
    <2>9. TypeOK'
      <3>1. log' \in Seq(Segment) /\ Len(log') = n + 1
        BY <1>1, <1>2, <2>6, <2>7, AppendProperties DEF TypeOK
      <3>2. obj' \in [Seqs -> Segment \cup {None}]
        BY <1>1, <2>6, <2>7 DEF TypeOK
      <3>3. me' \in [Procs -> Proc]
        BY <1>1, <2>6, <2>8, StepTypes
      <3> QED BY <1>1, <1>3, <2>1, <2>6, <3>1, <3>2, <3>3 DEF TypeOK, Proc
    <2>10. /\ Advance /\ WaitShrinks /\ Store' /\ Len(log') = n + 1 /\ log'[n + 1] = o
      <3>1. Len(log) < MaxSeq /\ o.prev = DigAt(Len(log)) /\ o.kind # "landing"
        BY <1>2, <1>3, <2>1, <2>2, <2>7
      <3>2. /\ Advance /\ WaitShrinks /\ Store' /\ Len(log') = Len(log) + 1 /\ log'[Len(log) + 1] = o
        BY <2>6, <2>7, <2>9, <3>1, GrowStore
      <3> QED BY <1>2, <3>2
    <2>11. Alone(s) /\ me'[s] = m /\ Grace'
      BY <1>1, <1>2, <2>6, <2>8, StepTypes, GraceSame DEF Busy
    <2>12. Own(s)'
      <3>1. ManifestOK(me[s].view)'
        <4>1. PICK v : v = x.view
          OBVIOUS
        <4>2. v \in ShardManifest /\ ManifestOK(v)
          BY <1>1, <1>2, <4>1 DEF Proc
        <4>3. ManifestOK(v)'
          BY <1>1, <2>9, <2>10, <4>2, KeepManifest DEF Store
        <4> QED BY <2>8, <2>11, <4>1, <4>3 DEF ManifestOK
      <3>2. Sealer'
        <4>1. n + 1 \in 1..Len(log') /\ log'[n + 1].kind = "seal"
          BY <1>3, <2>7, <2>10
        <4> QED BY <4>1 DEF Sealer
      <3>3. SessionOK(s)'
        BY <1>3, <2>8, <2>10, <2>11, <3>2 DEF SessionOK, SessionIs
      <3> QED BY <3>1, <3>3, RoundsAssumption DEF Own
    <2>13. ASSUME NEW t \in Sessions PROVE OpenOK(t)'
      <3>1. CASE t = s
        BY <2>8, <2>11, <3>1 DEF OpenOK
      <3>2. CASE t # s
        <4> SUFFICES ASSUME LastSealer(t)' PROVE FALSE
          BY DEF OpenOK
        <4>1. PICK q \in 1..Len(log') : /\ log'[q].kind = "seal" /\ log'[q].by = t
                                        /\ \A r \in (q + 1)..Len(log') : log'[r].kind = "landing"
          BY DEF LastSealer
        <4>2. q \in 1..(n + 1) /\ (q # n + 1 => n + 1 \in (q + 1)..Len(log'))
          BY <1>3, <2>10, <4>1
        <4> QED BY <2>7, <2>10, <3>2, <4>1, <4>2
      <3> QED BY <3>1, <3>2
    <2> QED BY <1>1, <2>9, <2>10, <2>11, <2>12, <2>13, Assemble
  <1> QED BY <1>4, <1>5

\* A swap of the manifest that leaves the rounds as they are.
LEMMA ManStep ==
  ASSUME IInv, TypeOK', UNCHANGED <<log, obj, index, sealed, wait>>,
         man'.last = man.last, man'.upto = man.upto, man'.dig = man.dig,
         man'.head <= Len(log), man'.gc <= man.last
  PROVE  Advance /\ WaitShrinks /\ Store' /\ \A s : LastSealer(s)' <=> LastSealer(s)
  <1>1. TypeOK /\ Store
    BY DEF IInv
  <1>2. man.last \in Nat /\ man'.last \in Nat /\ Len(log) \in Nat
    BY <1>1, Types, ManifestIs
  <1>3. Advance /\ WaitShrinks
    BY <1>2 DEF Advance, WaitShrinks
  <1>4. /\ Frames' = Frames /\ \A q : DigAt(q)' = DigAt(q)
        /\ \A r, q : Covers(r, q)' <=> Covers(r, q)
        /\ \A r : Index(r)' = Index(r)
        /\ \A s : LastSealer(s)' <=> LastSealer(s)
    BY DEF Frames, DigAt, Covers, Index, LastSealer
  <1>5. \A e, n : EndAt(e, n)' <=> EndAt(e, n)
    BY <1>4 DEF EndAt
  <1>6. ChainOK' /\ SealedOK' /\ ObjOK'
    BY <1>1, <1>4 DEF Store, ChainOK, SealedOK, ResumesAtEnd, ObjOK
  <1>7. RoundsOK'
    BY <1>1, <1>4, <1>5 DEF Store, RoundsOK
  <1>8. ManifestOK(man)'
    BY <1>1, <1>2, <1>4 DEF Store, ManifestOK
  <1> QED BY <1>3, <1>4, <1>6, <1>7, <1>8 DEF Store

\* A step that opens no session keeps where the open ones stand.
LEMMA OpenSame ==
  ASSUME IInv, log' = log, NEW a \in Procs, NEW m \in Proc, Step(a, m), m.pc # "open"
  PROVE  \A s \in Sessions : OpenOK(s)'
  <1> SUFFICES ASSUME NEW s \in Sessions PROVE OpenOK(s)'
    OBVIOUS
  <1>1. OpenOK(s) /\ s \in Procs
    BY DEF IInv, Procs
  <1>2. me'[a] = m /\ (s # a => me'[s] = me[s])
    BY <1>1, StepTypes
  <1>3. s = a => me'[s].pc # "open"
    BY <1>2
  <1>4. (LastSealer(s)' <=> LastSealer(s)) /\ \A e, n : EndAt(e, n)' <=> EndAt(e, n)
    BY DEF LastSealer, EndAt, Frames
  <1>5. PICK e, n : e = me[s].end /\ n = Len(log) /\ n = Len(log')
    OBVIOUS
  <1>6. s # a => OpenOK(s)'
    BY <1>1, <1>2, <1>4, <1>5 DEF OpenOK
  <1> QED BY <1>3, <1>6 DEF OpenOK

LEMMA CasInv == ASSUME IInv, NEW s \in Sessions, Cas(s) PROVE IInv'
  <1>1. /\ TypeOK /\ Store /\ s \in Procs /\ SessionOK(s) /\ me[s].pc = "cas"
        /\ ManifestOK(me[s].view) /\ me[s] \in Proc /\ crashes \in 0..MaxCrash /\ man \in ShardManifest
    BY Types DEF IInv, Procs, Own, Cas, UnderWay, TypeOK
  <1>2. CASE man # me[s].view
    <2>1. Step(s, Rest) /\ ReadEnds(s) /\ store' = store /\ UNCHANGED <<cur, due>> /\ crashes' = crashes
      BY <1>2 DEF Cas, store
    <2> QED BY <1>1, <2>1, SessionStops
  <1>3. CASE man = me[s].view
    <2>1. PICK x, m : x = me[s] /\ m = [x EXCEPT !.pc = "end"]
      OBVIOUS
    <2>2. /\ man' = [man EXCEPT !.epoch = @ + 1, !.head = x.at] /\ Step(s, m)
          /\ UNCHANGED <<log, obj, index, sealed, wait, cur, due, crashes>>
      BY <1>3, <2>1 DEF Cas, NextManifest
    <2>3. 1 <= x.at /\ x.at <= Len(log) /\ Sealer /\ x.at \in Nat /\ x \in Proc /\ Len(log) \in Nat /\ Len(log) <= MaxSeq
      BY <1>1, <2>1, Types DEF SessionOK, SessionIs, Proc
    <2>4. m \in Proc /\ m.pc = "end" /\ m.view = man
      BY <1>3, <2>1, <2>3 DEF Proc, Pcs
    <2>5. man' \in ShardManifest /\ man'.last = man.last /\ man'.upto = man.upto /\ man'.dig = man.dig
          /\ man'.head = x.at /\ man'.gc = man.gc
      <3>1. x.at \in 0..MaxSeq
        BY <2>3, RoundsAssumption
      <3>2. PICK v, e, h : v = man /\ e = man.epoch + 1 /\ h = x.at
        OBVIOUS
      <3>3. v \in ShardManifest /\ e \in Nat /\ h \in 0..MaxSeq
        BY <1>1, <3>1, <3>2, ManifestIs
      <3>4. man' = [v EXCEPT !.epoch = e, !.head = h]
        BY <2>2, <3>2
      <3> QED BY <3>2, <3>3, <3>4 DEF ShardManifest
    <2>6. TypeOK'
      BY <1>1, <2>2, <2>4, <2>5, StepTypes DEF TypeOK, Proc
    <2>7. man.gc <= man.last
      BY <1>1 DEF Store, ManifestOK
    <2>8. Advance /\ WaitShrinks /\ Store'
      BY <2>2, <2>3, <2>5, <2>6, <2>7, ManStep
    <2>9. Alone(s) /\ me'[s] = m /\ Grace'
      BY <1>1, <1>3, <2>2, <2>4, <2>5, StepTypes, GraceSame DEF Busy
    <2>10. \A t \in Sessions : OpenOK(t)'
      BY <1>1, <2>2, <2>4, OpenSame
    <2>11. Own(s)'
      <3>1. ManifestOK(me[s].view)'
        <4>1. PICK v : v = man
          OBVIOUS
        <4>2. ManifestOK(v)'
          BY <1>1, <2>6, <2>8, <4>1, KeepManifest DEF Store
        <4> QED BY <2>4, <2>9, <4>1, <4>2 DEF ManifestOK
      <3>2. Sealer'
        BY <2>2, <2>3 DEF Sealer
      <3>3. SessionOK(s)'
        BY <2>4, <2>9, <3>2 DEF SessionOK, SessionIs
      <3> QED BY <3>1, <3>3, RoundsAssumption DEF Own
    <2> QED BY <1>1, <2>6, <2>8, <2>9, <2>10, <2>11, Assemble
  <1> QED BY <1>2, <1>3

\* The guard of a write: the last seal of the chain is the session's.
LEMMA WriterIs ==
  ASSUME TypeOK, Sealer, NEW s, log[Max({q \in 1..Len(log) : log[q].kind = "seal"})].by = s
  PROVE  LastSealer(s) /\ Len(log) > 0
  <1> DEFINE S == {q \in 1..Len(log) : log[q].kind = "seal"}
  <1>1. S \subseteq Nat /\ S # {} /\ Len(log) \in Nat /\ \A q \in S : q <= Len(log)
    BY Types DEF Sealer
  <1>2. PICK x : x = Max(S)
    OBVIOUS
  <1>3. x \in S /\ \A y \in S : y <= x
    <2> HIDE DEF S
    <2> QED BY <1>1, <1>2, MaxIsGreatest
  <1>4. x \in 1..Len(log) /\ log[x].kind = "seal" /\ log[x].by = s
    BY <1>2, <1>3
  <1>5. ASSUME NEW t \in (x + 1)..Len(log) PROVE log[t].kind = "landing"
    <2>1. t \in 1..Len(log) /\ ~(t <= x)
      BY <1>1, <1>4
    <2>2. t \notin S
      BY <1>3, <2>1
    <2> QED BY <2>1, <2>2, Types, SegmentIs
  <1> QED BY <1>1, <1>4, <1>5 DEF LastSealer

\* One session holds the last seal.
LEMMA OneLastSealer ==
  ASSUME TypeOK, NEW s, NEW t, LastSealer(s), LastSealer(t)
  PROVE  s = t
  <1>1. PICK q \in 1..Len(log) : /\ log[q].kind = "seal" /\ log[q].by = s
                                 /\ \A r \in (q + 1)..Len(log) : log[r].kind = "landing"
    BY DEF LastSealer
  <1>2. PICK u \in 1..Len(log) : /\ log[u].kind = "seal" /\ log[u].by = t
                                 /\ \A r \in (u + 1)..Len(log) : log[r].kind = "landing"
    BY DEF LastSealer
  <1>3. Len(log) \in Nat
    BY Types
  <1>4. ~(q < u) /\ ~(u < q)
    BY <1>1, <1>2, <1>3
  <1> QED BY <1>1, <1>2, <1>3, <1>4

\* The last LSN of the chain is no larger than the chain.
LEMMA EndIsSmall ==
  ASSUME TypeOK, ChainOK, NEW n \in Nat, n <= Len(log), NEW e \in Nat, EndAt(e, n)
  PROVE  e <= n
  <1>1. e = 0 \/ \E q \in Frames : q <= n /\ log[q].end = e
    BY DEF EndAt
  <1>2. \A q \in Frames : q \in Nat /\ log[q].end <= q
    BY FramesAre DEF ChainOK
  <1> QED BY <1>1, <1>2

LEMMA WriteInv == ASSUME IInv, NEW s \in Sessions, Write(s) PROVE IInv'
  <1>1. /\ TypeOK /\ Store /\ s \in Procs /\ SessionOK(s) /\ OpenOK(s) /\ me[s].pc = "open" /\ ChainOK
        /\ ManifestOK(me[s].view) /\ me[s] \in Proc /\ Len(log) < MaxSeq
    BY Types DEF IInv, Procs, Own, Write, Store
  <1>2. PICK x, n, e : x = me[s] /\ n = Len(log) /\ e = me[s].end
    OBVIOUS
  <1>3. LastSealer(s) /\ n \in Nat /\ n > 0
    <2>1. Sealer
      BY <1>1 DEF SessionOK, SessionIs
    <2>2. log[Max({q \in 1..Len(log) : log[q].kind = "seal"})].by = s
      BY DEF Write
    <2> QED BY <1>1, <1>2, <2>1, <2>2, WriterIs, Types
  <1>4. EndAt(e, n) /\ e \in Nat /\ x \in Proc
    BY <1>1, <1>2, <1>3, Types DEF OpenOK, Proc
  <1>5. e <= n
    BY <1>1, <1>2, <1>3, <1>4, EndIsSmall
  <1>6. PICK d : d = log[n].end /\ d \in 0..MaxSeq /\ d = DigAt(n)
    BY <1>1, <1>2, <1>3, Types, SegmentIs DEF DigAt
  <1>7. PICK o : o = [kind |-> "landing", prev |-> d, end |-> e + 1, by |-> s]
    OBVIOUS
  <1>8. e + 1 \in 0..MaxSeq /\ 1 <= e + 1 /\ e + 1 <= n + 1
    BY <1>1, <1>2, <1>3, <1>4, <1>5, RoundsAssumption
  <1>9. o \in Segment /\ o.kind = "landing" /\ o.end = e + 1 /\ o.prev = d /\ o.by = s
    BY <1>6, <1>7, <1>8 DEF Segment
  <1>10. PICK m : m = [x EXCEPT !.end = e + 1]
    OBVIOUS
  <1>11. m \in Proc /\ m.pc = "open" /\ m.end = e + 1 /\ m.view = x.view
    BY <1>1, <1>2, <1>4, <1>8, <1>10 DEF Proc
  <1>12. /\ log' = Append(log, o) /\ obj' = [obj EXCEPT ![Len(log) + 1] = o] /\ Step(s, m)
         /\ UNCHANGED <<man, index, sealed, wait, cur, due, crashes>>
    BY <1>2, <1>6, <1>7, <1>10 DEF Write, Digest
  <1>13. TypeOK'
    <2>1. log' \in Seq(Segment) /\ Len(log') = n + 1
      BY <1>1, <1>2, <1>9, <1>12, AppendProperties DEF TypeOK
    <2>2. obj' \in [Seqs -> Segment \cup {None}]
      BY <1>1, <1>9, <1>12 DEF TypeOK
    <2>3. me' \in [Procs -> Proc]
      BY <1>1, <1>11, <1>12, StepTypes
    <2>4. Len(log') <= MaxSeq
      BY <1>1, <1>2, <1>3, <2>1, RoundsAssumption
    <2> QED BY <1>1, <1>12, <2>1, <2>2, <2>3, <2>4 DEF TypeOK, Proc
  <1>14. \A q \in Frames : log[q].end < o.end
    <2>1. \A q \in Frames : q <= n /\ log[q].end \in Nat
      BY <1>1, <1>2, FramesAre
    <2> QED BY <1>4, <1>9, <2>1 DEF EndAt
  <1>15. Advance /\ WaitShrinks /\ Store' /\ Len(log') = n + 1 /\ log'[n + 1] = o
    <2>1. /\ o.prev = DigAt(Len(log)) /\ o.kind # "seal" /\ 1 <= o.end /\ o.end <= Len(log) + 1
      BY <1>2, <1>6, <1>8, <1>9
    <2>2. /\ Advance /\ WaitShrinks /\ Store' /\ Len(log') = Len(log) + 1 /\ log'[Len(log) + 1] = o
      BY <1>1, <1>9, <1>12, <1>13, <1>14, <2>1, GrowStore
    <2> QED BY <1>2, <2>2
  <1>16. Alone(s) /\ me'[s] = m /\ Grace'
    BY <1>1, <1>11, <1>12, StepTypes, GraceSame DEF Busy
  <1>17. Own(s)'
    <2>1. ManifestOK(me[s].view)'
      <3>1. PICK v : v = x.view
        OBVIOUS
      <3>2. v \in ShardManifest /\ ManifestOK(v)
        BY <1>1, <1>2, <3>1 DEF Proc
      <3>3. ManifestOK(v)'
        BY <1>1, <1>13, <1>15, <3>2, KeepManifest DEF Store
      <3> QED BY <1>11, <1>16, <3>1, <3>3 DEF ManifestOK
    <2>2. Sealer'
      <3>1. Sealer /\ n + 1 \in Nat
        BY <1>1, <1>3 DEF SessionOK, SessionIs
      <3> QED BY <1>1, <1>13, <1>15, <3>1, KeepFrames DEF Sealer
    <2>3. SessionOK(s)'
      BY <1>11, <1>16, <2>2 DEF SessionOK, SessionIs
    <2> QED BY <2>1, <2>3, RoundsAssumption DEF Own
  <1>18. ASSUME NEW t \in Sessions PROVE OpenOK(t)'
    <2>1. CASE t = s
      <3>1. EndAt(e + 1, n + 1)'
        <4>1. \A q \in Frames' : q \in 1..(n + 1)
          BY <1>15 DEF Frames
        <4>2. ASSUME NEW q \in Frames' PROVE log'[q].end <= e + 1
          <5>1. CASE q = n + 1
            BY <1>4, <1>9, <1>15, <5>1
          <5>2. CASE q # n + 1
            <6>1. q \in 1..n
              BY <1>3, <4>1, <5>2
            <6>2. q \in Frames /\ log'[q] = log[q]
              BY <1>1, <1>2, <1>13, <1>15, <6>1, KeepFrames
            <6>3. log[q].end \in Nat /\ log[q].end < e + 1
              BY <1>1, <1>9, <1>14, <6>2, FramesAre
            <6> QED BY <1>4, <6>2, <6>3
          <5> QED BY <5>1, <5>2
        <4>3. n + 1 \in Frames' /\ log'[n + 1].end = e + 1 /\ n + 1 <= n + 1
          BY <1>3, <1>9, <1>15 DEF Frames
        <4> QED BY <4>2, <4>3 DEF EndAt
      <3> QED BY <1>11, <1>15, <1>16, <2>1, <3>1 DEF OpenOK
    <2>2. CASE t # s
      <3> SUFFICES ASSUME LastSealer(t)' PROVE FALSE
        BY DEF OpenOK
      <3>1. PICK q \in 1..(n + 1) : /\ log'[q].kind = "seal" /\ log'[q].by = t
                                      /\ \A r \in (q + 1)..(n + 1) : log'[r].kind = "landing"
        BY <1>15 DEF LastSealer
      <3>2. q \in 1..n
        BY <1>3, <1>9, <1>15, <3>1
      <3>3. \A r \in 1..n : log'[r] = log[r]
        BY <1>1, <1>2, <1>13, <1>15, KeepFrames
      <3>4. log[q].kind = "seal" /\ log[q].by = t
        BY <3>1, <3>2, <3>3
      <3>5. \A r \in (q + 1)..n : log[r].kind = "landing"
        <4> SUFFICES ASSUME NEW r \in (q + 1)..n PROVE log[r].kind = "landing"
          OBVIOUS
        <4>1. r \in 1..n /\ r \in (q + 1)..(n + 1)
          BY <1>3, <3>2
        <4> QED BY <3>1, <3>3, <4>1
      <3>6. LastSealer(t)
        BY <1>2, <3>2, <3>4, <3>5 DEF LastSealer
      <3> QED BY <1>1, <1>3, <2>2, <3>6, OneLastSealer
    <2> QED BY <2>1, <2>2
  <1> QED BY <1>1, <1>13, <1>15, <1>16, <1>17, <1>18, Assemble

-----------------------------------------------------------------------------
(* Steps of the folders                                                     *)

\* The parts of the invariant a step of a folder needs.
LEMMA FolderFacts ==
  ASSUME IInv, NEW f \in Folders
  PROVE  /\ TypeOK /\ Store /\ RoundsOK /\ ChainOK /\ ObjOK /\ f \in Procs /\ FolderOK(f)
         /\ ManifestOK(me[f].view) /\ me[f] \in Proc /\ me[f].view \in ShardManifest
         /\ crashes \in 0..MaxCrash /\ man \in ShardManifest /\ ManifestOK(man)
  BY Types DEF IInv, Procs, Own, Store, TypeOK, Proc

LEMMA StartRoundInv == ASSUME IInv, NEW f \in Folders, StartRound(f) PROVE IInv'
  <1>1. crashes \in 0..MaxCrash /\ man \in ShardManifest /\ ManifestOK(man)
    BY FolderFacts
  <1>2. PICK r, m : r = man.last + 1 /\ m = [Rest EXCEPT !.pc = "index", !.view = man, !.rnd = r]
    OBVIOUS
  <1>3. r \in 0..(MaxRound + 1) /\ r <= MaxRound
    BY <1>1, <1>2, ManifestIs, RoundsAssumption DEF StartRound
  <1>4. m \in Proc /\ m.pc = "index" /\ m.view = man /\ m.rnd = r /\ m.got = {}
    BY <1>1, <1>2, <1>3, RestIs DEF Proc, Rest, Pcs
  <1>5. FolderIs(m) /\ ManifestOK(m.view)
    BY <1>1, <1>2, <1>3, <1>4 DEF FolderIs
  <1>6. Step(f, m) /\ store' = store /\ UNCHANGED <<cur, due>> /\ crashes' = crashes /\ wait' = wait
    BY <1>2 DEF StartRound, store
  <1> QED BY <1>1, <1>4, <1>5, <1>6, FolderQuiet

LEMMA StartGcInv == ASSUME IInv, NEW f \in Folders, StartGc(f) PROVE IInv'
  <1>1. crashes \in 0..MaxCrash /\ man \in ShardManifest /\ ManifestOK(man)
    BY FolderFacts
  <1>2. PICK r, m : r = man.gc + 1 /\ m = [Rest EXCEPT !.pc = "gc", !.view = man, !.rnd = r]
    OBVIOUS
  <1>3. r \in 0..(MaxRound + 1) /\ 1 <= r /\ r <= man.last + 1
    BY <1>1, <1>2, ManifestIs, RoundsAssumption DEF StartGc
  <1>4. m \in Proc /\ m.pc = "gc" /\ m.view = man /\ m.rnd = r
    BY <1>1, <1>2, <1>3, RestIs DEF Proc, Rest, Pcs
  <1>5. FolderIs(m) /\ ManifestOK(m.view)
    BY <1>1, <1>2, <1>3, <1>4 DEF FolderIs
  <1>6. Step(f, m) /\ store' = store /\ UNCHANGED <<cur, due>> /\ crashes' = crashes /\ wait' = wait
    BY <1>2 DEF StartGc, store
  <1> QED BY <1>1, <1>4, <1>5, <1>6, FolderQuiet

LEMMA FindIndexInv == ASSUME IInv, NEW f \in Folders, FindIndex(f) PROVE IInv'
  <1>1. PICK y, x, v, r : y = me[f] /\ x = Index(me[f].rnd) /\ v = me[f].view /\ r = me[f].rnd
    OBVIOUS
  <1>2. /\ TypeOK /\ RoundsOK /\ ManifestOK(v) /\ y \in Proc /\ v \in ShardManifest /\ y.view = v /\ y.rnd = r
        /\ crashes \in 0..MaxCrash /\ y.pc = "index"
    BY <1>1, FolderFacts DEF FindIndex
  <1>3. r = v.last + 1 /\ r <= MaxRound /\ r \in Nat /\ v.upto \in Nat /\ v.upto <= Len(log) /\ v.dig = DigAt(v.upto)
        /\ v.upto <= MaxSeq /\ MaxSeq \in Nat /\ v.dig \in 0..MaxSeq /\ Len(log) \in Nat
    <2>1. r = v.last + 1 /\ r <= MaxRound
      BY <1>1, <1>2, FolderFacts DEF FolderOK, FolderIs
    <2>2. v.last \in Nat /\ v.upto \in Nat /\ v.upto <= MaxSeq /\ v.dig \in 0..MaxSeq
      BY <1>2, ManifestIs DEF ShardManifest
    <2>3. v.upto <= Len(log) /\ v.dig = DigAt(v.upto)
      BY <1>2 DEF ManifestOK
    <2> QED BY <1>2, <2>1, <2>2, <2>3, Types
  <1>4. x = index[r] /\ r \in 1..MaxRound /\ x \in RoundIndex
    BY <1>1, <1>2, <1>3, ManifestIs, Types DEF Index
  <1>5. store' = store /\ UNCHANGED <<cur, due>> /\ crashes' = crashes /\ wait' = wait
    BY DEF FindIndex, store
  <1>6. CASE x = NoIndex
    <2>1. PICK m : m = [y EXCEPT !.pc = "tail", !.at = v.upto + 1, !.link = v.dig]
      OBVIOUS
    <2>2. Step(f, m)
      BY <1>1, <1>6, <2>1 DEF FindIndex
    <2>3. v.upto + 1 \in 0..(MaxSeq + 1)
      BY <1>3
    <2>4. m \in Proc /\ m.pc = "tail" /\ m.at = v.upto + 1 /\ m.link = v.dig /\ m.view = v /\ m.rnd = r /\ m.got = y.got
      BY <1>2, <1>3, <2>1, <2>3 DEF Proc, Pcs
    <2>5. m.at - 1 = v.upto
      BY <1>3, <2>4
    <2>6. AtIs(m)
      BY <1>3, <2>4, <2>5 DEF AtIs
    <2>7. Gathers(m)
      <3>1. y.got = {}
        BY <1>1, <1>2, FolderFacts DEF FolderOK, FolderIs
      <3>2. \A q \in Frames : ~(v.upto < q /\ q < v.upto + 1)
        BY <1>2, <1>3, FramesAre
      <3> QED BY <2>4, <3>1, <3>2 DEF Gathers
    <2>8. FolderIs(m) /\ ManifestOK(m.view)
      BY <1>2, <1>3, <2>4, <2>6, <2>7 DEF FolderIs
    <2> QED BY <1>2, <1>5, <2>2, <2>4, <2>8, FolderQuiet
  <1>7. CASE x # NoIndex /\ Adoptable(x, v)
    <2>1. PICK m : m = [y EXCEPT !.pc = "adopt", !.at = x.last]
      OBVIOUS
    <2>2. Step(f, m)
      BY <1>1, <1>7, <2>1 DEF FindIndex
    <2>3. x.last \in 0..(MaxSeq + 1)
      BY <1>3, <1>4 DEF RoundIndex
    <2>4. m \in Proc /\ m.pc = "adopt" /\ m.at = x.last /\ m.view = v /\ m.rnd = r
      BY <1>2, <2>1, <2>3 DEF Proc, Pcs
    <2>5. FolderIs(m) /\ ManifestOK(m.view)
      BY <1>2, <1>3, <1>4, <1>7, <2>4 DEF FolderIs
    <2> QED BY <1>2, <1>5, <2>2, <2>4, <2>5, FolderQuiet
  <1>8. CASE x # NoIndex /\ ~Adoptable(x, v)
    <2>1. Step(f, Rest)
      BY <1>1, <1>8 DEF FindIndex
    <2> QED BY <1>2, <1>5, <2>1, FolderStops
  <1> QED BY <1>6, <1>7, <1>8

LEMMA AdoptInv == ASSUME IInv, NEW f \in Folders, Adopt(f) PROVE IInv'
  <1>1. PICK y, a, r : y = me[f] /\ a = me[f].at /\ r = me[f].rnd
    OBVIOUS
  <1>2. /\ TypeOK /\ ObjOK /\ ManifestOK(y.view) /\ y \in Proc /\ y.at = a /\ y.rnd = r
        /\ crashes \in 0..MaxCrash /\ y.pc = "adopt"
    BY <1>1, FolderFacts DEF Adopt
  <1>3. index[r] # NoIndex /\ a = index[r].last /\ r = y.view.last + 1 /\ r <= MaxRound
    BY <1>1, <1>2, FolderFacts DEF FolderOK, FolderIs
  <1>4. store' = store /\ UNCHANGED <<cur, due>> /\ crashes' = crashes /\ wait' = wait
    BY DEF Adopt, store
  <1>5. CASE ~Present(a)
    <2>1. Step(f, Rest)
      BY <1>1, <1>5 DEF Adopt
    <2> QED BY <1>2, <1>4, <2>1, FolderStops
  <1>6. CASE Present(a)
    <2>1. a \in 1..Len(log) /\ Obj(a) = log[a] /\ log[a] \in Segment
      BY <1>2, <1>6, ObjIs
    <2>2. PICK d, b : d = log[a].end /\ d \in 0..MaxSeq /\ d = DigAt(a) /\ b = a + 1 /\ b \in 0..(MaxSeq + 1) /\ b - 1 = a
      BY <1>2, <2>1, Types, SegmentIs DEF DigAt
    <2>3. PICK m : m = [y EXCEPT !.pc = "publish", !.at = b, !.link = d]
      OBVIOUS
    <2>4. Step(f, m)
      BY <1>1, <1>6, <2>1, <2>2, <2>3 DEF Adopt, Digest
    <2>5. m \in Proc /\ m.pc = "publish" /\ m.at = b /\ m.link = d /\ m.view = y.view /\ m.rnd = r
      BY <1>2, <2>2, <2>3 DEF Proc, Pcs
    <2>6. FolderIs(m) /\ ManifestOK(m.view)
      BY <1>2, <1>3, <2>2, <2>5 DEF FolderIs
    <2> QED BY <1>2, <1>4, <2>4, <2>5, <2>6, FolderQuiet
  <1> QED BY <1>5, <1>6

LEMMA GcRoundInv == ASSUME IInv, NEW f \in Folders, GcRound(f) PROVE IInv'
  <1>1. PICK y, v, r : y = me[f] /\ v = me[f].view /\ r = me[f].rnd
    OBVIOUS
  <1>2. /\ TypeOK /\ RoundsOK /\ ManifestOK(v) /\ v \in ShardManifest /\ y \in Proc /\ y.view = v /\ y.rnd = r
        /\ crashes \in 0..MaxCrash /\ y.pc = "gc"
    BY <1>1, FolderFacts DEF GcRound
  <1>3. /\ 1 <= r /\ r <= v.last + 1 /\ r \in Nat /\ v.last \in Nat /\ v.last <= man.last /\ man.last \in Nat
        /\ man.last <= MaxRound /\ MaxRound \in Nat /\ MaxSeq \in Nat
    BY <1>1, <1>2, FolderFacts, ManifestIs, Types DEF FolderOK, FolderIs, ManifestOK, Proc
  <1>4. store' = store /\ UNCHANGED <<cur, due>> /\ crashes' = crashes /\ wait' = wait
    BY DEF GcRound, store
  <1>5. CASE r <= v.last /\ GraceOver(r) /\ Step(f, [me[f] EXCEPT !.pc = "delete", !.at = index[r].first])
    <2>1. r \in 1..man.last /\ r \in 1..MaxRound
      BY <1>3, <1>5
    <2>2. PICK x : x = index[r] /\ x \in RoundIndex
      BY <1>2, <2>1, Types
    <2>3. x.first <= x.last /\ x.first \in 0..(MaxSeq + 1) /\ x.first \in Nat /\ x.last \in Nat
      BY <1>2, <1>3, <2>1, <2>2 DEF RoundsOK, RoundIndex
    <2>4. PICK m : m = [y EXCEPT !.pc = "delete", !.at = x.first]
      OBVIOUS
    <2>5. Step(f, m)
      BY <1>1, <1>5, <2>2, <2>4
    <2>6. m \in Proc /\ m.pc = "delete" /\ m.at = x.first /\ m.view = v /\ m.rnd = r
      BY <1>2, <2>3, <2>4 DEF Proc, Pcs
    <2>7. Covers(r, x.first)
      BY <2>2, <2>3 DEF Covers
    <2>8. FolderIs(m) /\ ManifestOK(m.view)
      BY <1>2, <1>3, <1>5, <2>6, <2>7 DEF FolderIs, GraceOver
    <2> QED BY <1>2, <1>4, <2>5, <2>6, <2>8, FolderQuiet
  <1>6. CASE Step(f, [me[f] EXCEPT !.pc = "hint"])
    <2>1. PICK m : m = [y EXCEPT !.pc = "hint"]
      OBVIOUS
    <2>2. Step(f, m)
      BY <1>1, <1>6, <2>1
    <2>3. m \in Proc /\ m.pc = "hint" /\ m.view = v /\ m.rnd = r
      BY <1>2, <2>1 DEF Proc, Pcs
    <2>4. FolderIs(m) /\ ManifestOK(m.view)
      BY <1>2, <1>3, <2>3 DEF FolderIs
    <2> QED BY <1>2, <1>4, <2>2, <2>3, <2>4, FolderQuiet
  <1> QED BY <1>1, <1>5, <1>6 DEF GcRound

\* A round keeps every frame it read: none is at or below the watermark, and
\* no two carry the same LSN.
LEMMA KeptIs ==
  ASSUME TypeOK, ChainOK, NEW u \in Nat, NEW b \in Nat, NEW w \in Nat, EndAt(w, u),
         NEW g, g = {q \in Frames : u < q /\ q < b}
  PROVE  Kept(g, w) = g
  <1>1. \A q \in Frames : q \in Nat /\ log[q].end \in Nat
    BY FramesAre
  <1>2. ASSUME NEW q \in g PROVE log[q].end > w
    <2>1. q \in Frames /\ u < q /\ q \in Nat /\ log[q].end \in Nat /\ 1 <= log[q].end
      BY <1>1 DEF ChainOK
    <2>2. CASE w = 0
      BY <2>1, <2>2
    <2>3. CASE w # 0
      <3>1. PICK r \in Frames : r <= u /\ log[r].end = w
        BY <2>3 DEF EndAt
      <3>2. r < q
        BY <1>1, <2>1, <3>1
      <3> QED BY <2>1, <3>1, <3>2 DEF ChainOK, ResumesAtEnd
    <2> QED BY <2>2, <2>3
  <1>3. ASSUME NEW q \in g, NEW r \in g, r < q PROVE log[r].end # log[q].end
    <2>1. log[r].end < log[q].end /\ log[r].end \in Nat /\ log[q].end \in Nat
      BY <1>1, <1>3 DEF ChainOK, ResumesAtEnd
    <2> QED BY <2>1
  <1> QED BY <1>2, <1>3 DEF Kept

\* The watermark a round writes is the last LSN up to its end.
LEMMA NewMarkIs ==
  ASSUME TypeOK, ChainOK, NEW u \in Nat, NEW b \in Nat, u < b, b <= Len(log) + 1,
         NEW w \in Nat, w <= MaxSeq, EndAt(w, u),
         NEW g, g = {q \in Frames : u < q /\ q < b}, NEW k, k = Max({log[q].end : q \in g} \cup {w})
  PROVE  EndAt(k, b - 1) /\ k \in 0..MaxSeq
  <1> DEFINE E == {log[q].end : q \in g} \cup {w}
  <1>1. \A q \in Frames : q \in Nat /\ log[q].end \in Nat /\ log[q].end <= MaxSeq /\ q <= MaxSeq /\ q \in 1..Len(log)
    BY FramesAre, Types, SegmentIs
  <1>2. E \subseteq Nat /\ E # {} /\ MaxSeq \in Nat /\ \A y \in E : y <= MaxSeq
    BY <1>1, Types
  <1>3. k \in E /\ \A y \in E : y <= k
    <2>1. k = Max(E)
      OBVIOUS
    <2> HIDE DEF E
    <2> QED BY <1>2, <2>1, MaxIsGreatest
  <1>4. k \in 0..MaxSeq
    BY <1>2, <1>3
  <1>5. ASSUME NEW q \in Frames, q <= b - 1 PROVE log[q].end <= k
    <2>1. CASE q <= u
      <3>1. log[q].end <= w /\ w <= k
        BY <1>3, <2>1 DEF EndAt
      <3> QED BY <1>1, <1>4, <3>1
    <2>2. CASE ~(q <= u)
      <3>1. q \in g
        BY <1>1, <1>5, <2>2
      <3> QED BY <1>3, <3>1
    <2> QED BY <2>1, <2>2
  <1>6. k = 0 \/ \E q \in Frames : q <= b - 1 /\ log[q].end = k
    <2>1. CASE k = w
      <3>1. w = 0 \/ \E q \in Frames : q <= u /\ log[q].end = w
        BY DEF EndAt
      <3>2. \A q \in Frames : q <= u => q <= b - 1
        BY <1>1
      <3> QED BY <2>1, <3>1, <3>2
    <2>2. CASE k # w
      <3>1. PICK q \in g : log[q].end = k
        BY <1>3, <2>2
      <3>2. q \in Frames /\ q <= b - 1
        BY <1>1, <3>1
      <3> QED BY <3>1, <3>2
    <2> QED BY <2>1, <2>2
  <1> QED BY <1>4, <1>5, <1>6 DEF EndAt

LEMMA WalkRoundInv == ASSUME IInv, NEW f \in Folders, WalkRound(f) PROVE IInv'
  <1>1. PICK y, v, a : y = me[f] /\ v = me[f].view /\ a = me[f].at
    OBVIOUS
  <1>2. /\ TypeOK /\ RoundsOK /\ ChainOK /\ ManifestOK(v) /\ v \in ShardManifest /\ y \in Proc /\ y.view = v /\ y.at = a
        /\ crashes \in 0..MaxCrash /\ y.pc = "tail" /\ f \in Procs
    BY <1>1, FolderFacts DEF WalkRound, WalkGoes, WalkEnds, WalkBreaks
  <1>3. AtOK(f) /\ Gathers(y) /\ y.rnd = v.last + 1 /\ y.rnd <= MaxRound
    BY <1>1, <1>2, FolderFacts DEF FolderOK, FolderIs, AtOK
  <1>4. a \in Nat /\ v.upto \in Nat /\ v.upto < a /\ a <= Len(log) + 1 /\ y.link = DigAt(a - 1) /\ Len(log) \in Nat
    BY <1>1, <1>2, <1>3, ManifestIs, Types DEF AtOK, AtIs, Proc
  <1>5. store' = store /\ UNCHANGED <<cur, due>> /\ crashes' = crashes /\ wait' = wait
    BY DEF WalkRound, store
  <1>6. CASE WalkGoes(f) /\ Step(f, Walked(f))
    <2>1. PICK m : m = Walked(f)
      OBVIOUS
    <2>2. /\ m \in Proc /\ m.pc = "tail" /\ m.view = v /\ m.rnd = y.rnd /\ m.at = a + 1 /\ AtIs(m)
          /\ m.got = {q \in y.got \cup Frames : q \in y.got \/ q = a}
      <3>1. me[f].pc = "tail"
        BY <1>1, <1>2
      <3>2. /\ m \in Proc /\ m.pc = "tail" /\ m.view = me[f].view /\ m.rnd = me[f].rnd /\ m.at = me[f].at + 1
            /\ m.got = {q \in me[f].got \cup Frames : q \in me[f].got \/ q = me[f].at} /\ AtIs(m)
        BY <1>2, <1>3, <1>6, <2>1, <3>1, WalkedIs
      <3> QED BY <1>1, <3>2
    <2>3. Gathers(m)
      <3>1. y.got = {q \in Frames : v.upto < q /\ q < a} /\ \A q \in Frames : q \in Nat
        BY <1>2, <1>3, FramesAre DEF Gathers
      <3>2. \A q : q \in m.got <=> q \in Frames /\ v.upto < q /\ q < a + 1
        BY <1>4, <2>2, <3>1
      <3> QED BY <2>2, <3>2 DEF Gathers
    <2>4. FolderIs(m) /\ ManifestOK(m.view) /\ Step(f, m)
      BY <1>2, <1>3, <1>6, <2>1, <2>2, <2>3 DEF FolderIs
    <2> QED BY <1>2, <1>5, <2>2, <2>4, FolderQuiet
  <1>7. CASE Step(f, Rest)
    BY <1>2, <1>5, <1>7, FolderStops
  <1>8. PICK w : w = Index(v.last).mark
    OBVIOUS
  <1>9. PICK g : g = Kept(y.got, w)
    OBVIOUS
  <1>10. PICK k : k = Max({log[q].end : q \in g} \cup {w})
    OBVIOUS
  <1>11. CASE a # v.upto + 1 /\ Step(f, [y EXCEPT !.pc = "sealed", !.got = g, !.end = k])
    <2>1. w \in 0..MaxSeq /\ EndAt(w, v.upto) /\ w \in Nat /\ w <= MaxSeq
      BY <1>2, <1>8, MarkIs, RoundsAssumption
    <2>2. y.got = {q \in Frames : v.upto < q /\ q < a}
      BY <1>2, <1>3 DEF Gathers
    <2>3. g = y.got
      BY <1>2, <1>4, <1>9, <2>1, <2>2, KeptIs
    <2>4. EndAt(k, a - 1) /\ k \in 0..MaxSeq
      BY <1>2, <1>4, <1>10, <2>1, <2>2, <2>3, NewMarkIs
    <2>5. PICK m : m = [y EXCEPT !.pc = "sealed", !.got = g, !.end = k]
      OBVIOUS
    <2>6. /\ m \in Proc /\ m.pc = "sealed" /\ m.got = y.got /\ m.end = k /\ m.view = v /\ m.at = a /\ m.rnd = y.rnd
          /\ m.link = y.link
      BY <1>2, <2>3, <2>4, <2>5 DEF Proc, Pcs
    <2>7. AtIs(m) /\ Gathers(m)
      BY <1>2, <1>3, <1>4, <2>6 DEF AtIs, Gathers
    <2>8. v.upto + 1 < a
      BY <1>4, <1>11
    <2>9. FolderIs(m) /\ ManifestOK(m.view) /\ Step(f, m)
      BY <1>2, <1>3, <1>11, <2>4, <2>5, <2>6, <2>7, <2>8 DEF FolderIs
    <2> QED BY <1>2, <1>5, <2>6, <2>9, FolderQuiet
  <1>12. \/ WalkGoes(f) /\ Step(f, Walked(f))
         \/ Step(f, Rest)
         \/ a # v.upto + 1 /\ Step(f, [y EXCEPT !.pc = "sealed", !.got = g, !.end = k])
    BY <1>1, <1>8, <1>9, <1>10 DEF WalkRound
  <1> QED BY <1>6, <1>7, <1>11, <1>12

LEMMA PutSealedInv == ASSUME IInv, NEW f \in Folders, PutSealed(f) PROVE IInv'
  <1>1. PICK y, v, a : y = me[f] /\ v = me[f].view /\ a = me[f].at
    OBVIOUS
  <1>2. /\ TypeOK /\ Store /\ ManifestOK(v) /\ v \in ShardManifest /\ y \in Proc /\ y.view = v /\ y.at = a
        /\ y.pc = "sealed" /\ f \in Procs
    BY <1>1, FolderFacts DEF PutSealed
  <1>3. /\ AtIs(y) /\ Gathers(y) /\ EndAt(y.end, a - 1) /\ v.upto + 1 < a /\ y.rnd = v.last + 1 /\ y.rnd <= MaxRound
    BY <1>1, <1>2, FolderFacts DEF FolderOK, FolderIs
  <1>4. /\ a \in Nat /\ v.upto \in Nat /\ v.upto < a /\ a <= Len(log) + 1 /\ y.link = DigAt(a - 1)
        /\ Len(log) \in Nat /\ Len(log) <= MaxSeq /\ MaxSeq \in Nat
    BY <1>2, <1>3, ManifestIs, Types DEF AtIs, Proc
  <1>5. PICK n : n = [first |-> v.upto + 1, last |-> a - 1, frames |-> y.got]
    OBVIOUS
  <1>6. PICK m : m = [y EXCEPT !.pc = "put_index"]
    OBVIOUS
  <1>7. /\ sealed' = IF \E o \in sealed : o.first = v.upto + 1 /\ o.last = a - 1 THEN sealed ELSE sealed \cup {n}
        /\ Step(f, m) /\ UNCHANGED <<log, obj, man, index, wait, cur, due, crashes>>
    BY <1>1, <1>5, <1>6 DEF PutSealed
  <1>8. sealed \subseteq sealed' /\ sealed' \subseteq sealed \cup {n}
        /\ \E o \in sealed' : o.first = v.upto + 1 /\ o.last = a - 1
    BY <1>5, <1>7
  <1>9. /\ m \in Proc /\ m.pc = "put_index" /\ m.got = y.got /\ m.end = y.end /\ m.view = v /\ m.at = a /\ m.rnd = y.rnd
        /\ m.link = y.link
    BY <1>2, <1>6 DEF Proc, Pcs
  <1>10. n \in [first: Seqs, last: Seqs, frames: SUBSET Seqs]
    <2>1. v.upto + 1 \in Seqs /\ a - 1 \in Seqs
      BY <1>3, <1>4 DEF Seqs
    <2>2. y.got \in SUBSET Seqs
      BY <1>2 DEF Proc
    <2> QED BY <1>5, <2>1, <2>2
  <1>11. TypeOK'
    <2>1. me' \in [Procs -> Proc]
      BY <1>2, <1>7, <1>9, StepTypes
    <2>2. sealed' \subseteq [first: Seqs, last: Seqs, frames: SUBSET Seqs]
      BY <1>2, <1>8, <1>10 DEF TypeOK
    <2> QED BY <1>2, <1>7, <2>1, <2>2 DEF TypeOK, Proc
  <1>12. Advance /\ WaitShrinks
    BY <1>2, <1>4, <1>7, <1>8, Types, ManifestIs DEF Advance, WaitShrinks
  <1>13. /\ Frames' = Frames /\ \A q : DigAt(q)' = DigAt(q)
         /\ \A r, q : Covers(r, q)' <=> Covers(r, q)
         /\ \A r : Index(r)' = Index(r)
    BY <1>7 DEF Frames, DigAt, Covers, Index
  <1>14. \A e, l : EndAt(e, l)' <=> EndAt(e, l)
    BY <1>7, <1>13 DEF EndAt
  <1>15. Store'
    <2>1. ChainOK' /\ ObjOK' /\ ManifestOK(man)'
      BY <1>2, <1>7, <1>13 DEF Store, ChainOK, ResumesAtEnd, ObjOK, ManifestOK
    <2>2. RoundsOK'
      BY <1>2, <1>7, <1>8, <1>13, <1>14 DEF Store, RoundsOK
    <2>3. SealedOK'
      <3> SUFFICES ASSUME NEW o \in sealed'
                   PROVE  o.last <= Len(log) /\ o.frames = {q \in Frames : o.first <= q /\ q <= o.last}
        BY <1>7, <1>13 DEF SealedOK
      <3>1. CASE o \in sealed
        BY <1>2, <3>1 DEF Store, SealedOK
      <3>2. CASE o = n
        <4>1. o.first = v.upto + 1 /\ o.last = a - 1 /\ o.frames = {q \in Frames : v.upto < q /\ q < a}
          BY <1>2, <1>3, <1>5, <3>2 DEF Gathers
        <4>2. \A q \in Frames : (v.upto < q /\ q < a) <=> (v.upto + 1 <= q /\ q <= a - 1)
          BY <1>2, <1>4, FramesAre
        <4> QED BY <1>4, <4>1, <4>2
      <3> QED BY <1>8, <3>1, <3>2
    <2> QED BY <2>1, <2>2, <2>3 DEF Store
  <1>16. Alone(f) /\ me'[f] = m /\ Grace' /\ \A t \in Sessions : OpenOK(t)'
    BY <1>2, <1>7, <1>9, StepTypes, GraceSame, OpenSame
  <1>17. Own(f)'
    <2>1. ManifestOK(v)' /\ AtIs(m)' /\ Gathers(m)' /\ EndAt(m.end, a - 1)'
      BY <1>2, <1>3, <1>7, <1>9, <1>13, <1>14 DEF ManifestOK, AtIs, Gathers
    <2>2. ManifestOK(me[f].view)'
      BY <1>9, <1>16, <2>1 DEF ManifestOK
    <2>3. FolderIs(m)'
      BY <1>3, <1>8, <1>9, <2>1 DEF FolderIs
    <2>4. FolderOK(f)'
      BY <1>16, <2>3 DEF FolderOK, FolderIs, AtIs, Gathers
    <2> QED BY <2>2, <2>4, RoundsAssumption DEF Own
  <1> QED BY <1>2, <1>11, <1>12, <1>15, <1>16, <1>17, Assemble

LEMMA PutIndexInv == ASSUME IInv, LongGrace, NEW f \in Folders, PutIndex(f) PROVE IInv'
  <1>1. PICK y, v, a, r : y = me[f] /\ v = me[f].view /\ a = me[f].at /\ r = me[f].rnd
    OBVIOUS
  <1>2. /\ TypeOK /\ Store /\ RoundsOK /\ ManifestOK(v) /\ ManifestOK(man) /\ v \in ShardManifest /\ man \in ShardManifest
        /\ y \in Proc /\ y.view = v /\ y.at = a /\ y.rnd = r /\ y.pc = "put_index" /\ f \in Procs /\ crashes \in 0..MaxCrash
    BY <1>1, FolderFacts DEF PutIndex
  <1>3. /\ AtIs(y) /\ EndAt(y.end, a - 1) /\ v.upto + 1 < a /\ r = v.last + 1 /\ r <= MaxRound
        /\ \E o \in sealed : o.first = v.upto + 1 /\ o.last = a - 1
    BY <1>1, <1>2, FolderFacts DEF FolderOK, FolderIs
  <1>4. /\ a \in Nat /\ v.upto \in Nat /\ v.upto < a /\ a <= Len(log) + 1 /\ y.link = DigAt(a - 1)
        /\ Len(log) \in Nat /\ Len(log) <= MaxSeq /\ MaxSeq \in Nat /\ MaxRound \in Nat
    BY <1>2, <1>3, ManifestIs, Types DEF AtIs, Proc
  <1>5. /\ v.last \in Nat /\ man.last \in Nat /\ v.last <= man.last /\ man.last <= MaxRound
        /\ v.upto = Index(v.last).last /\ man.upto = Index(man.last).last
    BY <1>2, ManifestIs DEF ManifestOK
  <1>6. r \in 1..MaxRound /\ Index(r) = index[r]
    BY <1>3, <1>4, <1>5 DEF Index
  <1>7. CASE ~IndexFree(f)
    <2>1. Step(f, Rest) /\ store' = store /\ UNCHANGED <<cur, due, crashes, wait>>
      BY <1>7 DEF PutIndex, store
    <2> QED BY <1>2, <2>1, FolderStops
  <1>8. CASE IndexFree(f)
    <2>1. index[r] = NoIndex
      BY <1>1, <1>6, <1>8 DEF IndexFree
    <2>2. r = man.last + 1 /\ v.last = man.last /\ v.upto = man.upto
      <3>1. ~(r \in 1..man.last)
        BY <1>2, <2>1 DEF RoundsOK
      <3> QED BY <1>3, <1>5, <3>1
    <2>3. PICK x, m : x = [first |-> v.upto + 1, last |-> a - 1, mark |-> y.end] /\ m = [y EXCEPT !.pc = "publish"]
      OBVIOUS
    <2>4. /\ index' = [index EXCEPT ![r] = x] /\ Step(f, m)
          /\ UNCHANGED <<log, obj, man, sealed, wait, cur, due, crashes>>
      BY <1>1, <1>8, <2>3 DEF PutIndex
    <2>5. /\ x.first = v.upto + 1 /\ x.last = a - 1 /\ x.mark = y.end /\ x \in RoundIndex /\ x # NoIndex
          /\ 1 <= x.first /\ x.first <= x.last /\ x.last <= Len(log) /\ x.first \in Nat /\ x.last \in Nat
      <3>1. v.upto + 1 \in 0..MaxSeq /\ a - 1 \in 0..MaxSeq /\ y.end \in 0..MaxSeq
        BY <1>2, <1>3, <1>4 DEF Proc
      <3>2. x \in RoundIndex /\ x.first = v.upto + 1 /\ x.last = a - 1 /\ x.mark = y.end
        BY <2>3, <3>1 DEF RoundIndex
      <3>3. x.first # 0
        BY <1>4, <3>2
      <3> QED BY <1>3, <1>4, <3>2, <3>3 DEF NoIndex
    <2>6. /\ m \in Proc /\ m.pc = "publish" /\ m.view = v /\ m.at = a /\ m.rnd = r /\ m.link = y.link
      BY <1>2, <2>3 DEF Proc, Pcs
    <2>7. index'[r] = x /\ \A t \in 1..MaxRound : t # r => index'[t] = index[t]
      BY <1>2, <1>6, <2>4 DEF TypeOK
    <2>8. TypeOK'
      <3>1. me' \in [Procs -> Proc]
        BY <1>2, <2>4, <2>6, StepTypes
      <3>2. index' \in [1..MaxRound -> RoundIndex]
        BY <1>2, <2>4, <2>5 DEF TypeOK
      <3> QED BY <1>2, <2>4, <3>1, <3>2 DEF TypeOK, Proc
    <2>9. Advance /\ WaitShrinks
      BY <1>4, <1>5, <2>1, <2>4, <2>7 DEF Advance, WaitShrinks
    <2>10. /\ Frames' = Frames /\ \A q : DigAt(q)' = DigAt(q)
           /\ \A t \in 1..man.last : index'[t] = index[t] /\ \A q : Covers(t, q)' <=> Covers(t, q)
           /\ Index(man.last)' = Index(man.last)
      <3>1. \A t \in 1..man.last : t \in 1..MaxRound /\ t # r
        BY <1>4, <1>5, <2>2
      <3>2. \A t \in 1..man.last : index'[t] = index[t]
        BY <2>7, <3>1
      <3>3. Frames' = Frames /\ \A q : DigAt(q)' = DigAt(q)
        BY <2>4 DEF Frames, DigAt
      <3>4. Index(man.last)' = Index(man.last)
        BY <1>5, <2>4, <3>2 DEF Index
      <3> QED BY <3>2, <3>3, <3>4 DEF Covers
    <2>11. \A e, l : EndAt(e, l)' <=> EndAt(e, l)
      BY <2>4, <2>10 DEF EndAt
    <2>12. ChainOK' /\ ObjOK' /\ ManifestOK(man)' /\ SealedOK'
      <3>1. ChainOK' /\ SealedOK'
        BY <1>2, <2>4, <2>10 DEF Store, ChainOK, ResumesAtEnd, SealedOK
      <3>2. ObjOK'
        BY <1>2, <2>4, <2>10 DEF Store, ObjOK
      <3>3. ManifestOK(man)'
        BY <1>2, <2>4, <2>10 DEF ManifestOK
      <3> QED BY <3>1, <3>2, <3>3
    <2>13. RoundsOK'
      <3>1. \A t \in 1..MaxRound : index'[t] # NoIndex => t <= man.last + 1
        BY <1>2, <2>2, <2>7 DEF RoundsOK
      <3>2. \A t \in 1..man.last : index'[t] # NoIndex
        BY <1>2, <2>10 DEF RoundsOK
      <3>3. ASSUME NEW t \in 1..MaxRound, index'[t] # NoIndex
            PROVE  /\ 1 <= index'[t].first /\ index'[t].first <= index'[t].last
                   /\ index'[t].last <= Len(log)
                   /\ EndAt(index'[t].mark, index'[t].last)
                   /\ \E o \in sealed : o.first = index'[t].first /\ o.last = index'[t].last
                   /\ index'[t].first = (IF t = 1 THEN 0 ELSE index'[t - 1].last) + 1
        <4>1. CASE t = r
          <5>1. EndAt(x.mark, x.last) /\ \E o \in sealed : o.first = x.first /\ o.last = x.last
            BY <1>3, <2>5
          <5>2. x.first = (IF r = 1 THEN 0 ELSE index'[r - 1].last) + 1
            <6>1. CASE r = 1
              BY <1>5, <2>2, <2>5, <6>1 DEF Index, NoIndex
            <6>2. CASE r # 1
              <7>1. r - 1 = man.last /\ man.last \in 1..man.last /\ man.last \in 1..MaxRound
                BY <1>4, <1>5, <2>2, <6>2
              <7>2. Index(man.last) = index[man.last] /\ index'[r - 1] = index[man.last]
                BY <2>10, <7>1 DEF Index
              <7> QED BY <1>5, <2>2, <2>5, <6>2, <7>2
            <6> QED BY <6>1, <6>2
          <5> QED BY <2>5, <2>7, <4>1, <5>1, <5>2
        <4>2. CASE t # r
          <5>1. index'[t] = index[t] /\ index[t] # NoIndex
            BY <2>7, <3>3, <4>2
          <5>2. t <= man.last
            BY <1>2, <1>5, <2>2, <4>2, <5>1 DEF RoundsOK
          <5>3. t # 1 => index'[t - 1] = index[t - 1]
            <6> SUFFICES ASSUME t # 1 PROVE index'[t - 1] = index[t - 1]
              OBVIOUS
            <6>1. t - 1 \in 1..man.last
              BY <1>5, <4>2, <5>2
            <6> QED BY <2>10, <6>1
          <5> QED BY <1>2, <5>1, <5>3 DEF RoundsOK
        <4> QED BY <4>1, <4>2
      <3>4. ASSUME NEW t \in 1..MaxRound, NEW u \in 1..MaxRound, index'[t] # NoIndex, index'[u] # NoIndex, t < u
            PROVE  index'[t].last < index'[u].first
        <4>1. u <= man.last + 1 /\ t \in 1..man.last /\ index'[t] = index[t] /\ index[t] # NoIndex
          BY <1>2, <1>4, <1>5, <2>10, <3>1, <3>4 DEF RoundsOK
        <4>2. CASE u = r
          <5>1. man.last \in 1..man.last /\ Index(man.last) = index[man.last]
            BY <1>5, <4>1 DEF Index
          <5>2. index[t].last <= man.upto /\ index[t].last \in Nat
            BY <1>2, <1>5, <4>1, <5>1, LastsGrow
          <5>3. PICK i, j, k : i = index[t].last /\ j = man.upto /\ k = index'[u].first
            OBVIOUS
          <5>4. k = j + 1
            BY <2>2, <2>5, <2>7, <4>2, <5>3
          <5>5. i \in Nat /\ j \in Nat /\ i <= j
            BY <1>2, <5>2, <5>3, ManifestIs
          <5>6. i < k
            BY <5>4, <5>5
          <5> QED BY <4>1, <5>3, <5>6
        <4>3. CASE u # r
          <5>1. index'[u] = index[u] /\ index[u] # NoIndex
            BY <2>7, <3>4, <4>3
          <5> QED BY <1>2, <3>4, <4>1, <5>1 DEF RoundsOK
        <4> QED BY <4>2, <4>3
      <3>5. \A q \in 1..man.upto : \E t \in 1..man.last : Covers(t, q)'
        BY <1>2, <2>10 DEF RoundsOK
      <3>6. ASSUME NEW t \in 1..MaxRound, index'[t] # NoIndex
            PROVE  EndAt(index[t].mark, index[t].last)'
        <4>1. PICK e, l : e = index'[t].mark /\ l = index'[t].last
          OBVIOUS
        <4>2. EndAt(e, l)'
          BY <2>11, <3>3, <3>6, <4>1
        <4> QED BY <4>1, <4>2 DEF EndAt
      <3> QED BY <2>4, <3>1, <3>2, <3>3, <3>4, <3>5, <3>6 DEF RoundsOK
    <2>14. Alone(f) /\ me'[f] = m /\ Grace' /\ \A t \in Sessions : OpenOK(t)'
      BY <1>2, <2>4, <2>6, StepTypes, GraceSame, OpenSame
    <2>15. Own(f)'
      <3>1. ManifestOK(v)'
        BY <1>2, <2>8, <2>9, KeepManifest
      <3>2. ManifestOK(me[f].view)'
        BY <2>6, <2>14, <3>1 DEF ManifestOK
      <3>3. m.at = index'[r].last + 1 /\ m.link = DigAt(m.at - 1)'
        BY <1>4, <2>5, <2>6, <2>7, <2>10
      <3>4. FolderIs(m)'
        BY <1>3, <2>5, <2>6, <2>7, <3>3 DEF FolderIs
      <3>5. FolderOK(f)'
        BY <2>14, <3>4 DEF FolderOK, FolderIs, AtIs, Gathers
      <3> QED BY <3>2, <3>5, RoundsAssumption DEF Own
    <2> QED BY <1>2, <2>8, <2>9, <2>12, <2>13, <2>14, <2>15, Assemble DEF Store
  <1> QED BY <1>7, <1>8

LEMMA PublishInv == ASSUME IInv, LongGrace, NEW f \in Folders, Publish(f) PROVE IInv'
  <1>1. PICK y, v, a, r : y = me[f] /\ v = me[f].view /\ a = me[f].at /\ r = me[f].rnd
    OBVIOUS
  <1>2. /\ TypeOK /\ Store /\ RoundsOK /\ ManifestOK(v) /\ ManifestOK(man) /\ v \in ShardManifest /\ man \in ShardManifest
        /\ y \in Proc /\ y.view = v /\ y.at = a /\ y.rnd = r /\ y.pc = "publish" /\ f \in Procs /\ crashes \in 0..MaxCrash
    BY <1>1, FolderFacts DEF Publish
  <1>3. CASE man # v
    <2>1. Step(f, Rest) /\ store' = store /\ UNCHANGED <<cur, due, crashes, wait>>
      BY <1>1, <1>3 DEF Publish, store, Unmoved
    <2> QED BY <1>2, <2>1, FolderStops
  <1>4. CASE man = v
    <2>1. /\ r = man.last + 1 /\ r <= MaxRound /\ index[r] # NoIndex /\ a = index[r].last + 1
          /\ y.link = DigAt(a - 1)
      BY <1>1, <1>2, <1>4, FolderFacts DEF FolderOK, FolderIs
    <2>2. /\ man.last \in Nat /\ MaxRound \in Nat /\ r \in 1..MaxRound /\ r \in Nat /\ MaxSeq \in Nat /\ Len(log) \in Nat
          /\ man.upto \in Nat /\ man.gc <= man.last /\ man.gc \in Nat /\ man.head <= Len(log) /\ Len(log) <= MaxSeq
          /\ man.upto = Index(man.last).last
      <3>1. /\ man.last \in Nat /\ man.upto \in Nat /\ man.gc \in Nat
        BY <1>2, ManifestIs
      <3>2. MaxRound \in Nat /\ MaxSeq \in Nat /\ Len(log) \in Nat /\ Len(log) <= MaxSeq
        BY <1>2, Types
      <3>3. man.gc <= man.last /\ man.head <= Len(log) /\ man.upto = Index(man.last).last
        BY <1>2 DEF ManifestOK
      <3>4. r \in 1..MaxRound /\ r \in Nat
        BY <2>1, <3>1, <3>2
      <3> QED BY <3>1, <3>2, <3>3, <3>4
    <2>3. PICK i, l : i = index[r].first /\ l = index[r].last
      OBVIOUS
    <2>4. /\ i \in Nat /\ l \in Nat /\ 1 <= i /\ i <= l /\ l <= Len(log) /\ a - 1 = l /\ y.link = DigAt(l)
          /\ y.link \in 0..MaxSeq /\ l \in 0..MaxSeq
      <3>1. i \in Nat /\ l \in Nat /\ l \in 0..MaxSeq
        BY <1>2, <2>2, <2>3, Types DEF RoundIndex
      <3>2. 1 <= i /\ i <= l /\ l <= Len(log)
        BY <1>2, <2>1, <2>2, <2>3 DEF RoundsOK
      <3>3. a - 1 = l
        BY <2>1, <2>3, <3>1
      <3> QED BY <1>2, <2>1, <3>1, <3>2, <3>3 DEF Proc
    <2>5. i = man.upto + 1
      <3>1. i = (IF r = 1 THEN 0 ELSE index[r - 1].last) + 1
        BY <1>2, <2>1, <2>2, <2>3 DEF RoundsOK
      <3>2. CASE r = 1
        BY <2>1, <2>2, <3>1, <3>2 DEF Index, NoIndex
      <3>3. CASE r # 1
        <4>1. r - 1 = man.last /\ man.last \in 1..MaxRound
          BY <2>1, <2>2, <3>3
        <4> QED BY <2>2, <3>1, <3>3, <4>1 DEF Index
      <3> QED BY <3>2, <3>3
    <2>6. PICK w : w = [man EXCEPT !.upto = l, !.dig = y.link, !.last = r]
      OBVIOUS
    <2>7. /\ man' = w /\ wait' = [wait EXCEPT ![r] = UnderWay] /\ Step(f, Rest)
          /\ UNCHANGED <<log, obj, index, sealed, cur, due, crashes>>
      BY <1>1, <1>2, <1>4, <2>4, <2>6 DEF Publish, Unmoved, ConsolidatedTo, GraceStarts
    <2>8. /\ w \in ShardManifest /\ w.upto = l /\ w.dig = y.link /\ w.last = r /\ w.gc = man.gc /\ w.head = man.head
      <3>1. PICK u, d : u = man /\ d = y.link
        OBVIOUS
      <3>2. w = [u EXCEPT !.upto = l, !.dig = d, !.last = r]
        BY <2>6, <3>1
      <3>3. u \in ShardManifest /\ d \in 0..MaxSeq /\ l \in 0..MaxSeq /\ r \in 0..MaxRound
        BY <1>2, <2>2, <2>4, <3>1
      <3>4. /\ w \in ShardManifest /\ w.upto = l /\ w.dig = d /\ w.last = r /\ w.gc = u.gc /\ w.head = u.head
        BY <3>2, <3>3 DEF ShardManifest
      <3> QED BY <3>1, <3>4
    <2>9. /\ wait' \in [1..MaxRound -> SUBSET Procs] /\ wait'[r] = UnderWay
          /\ \A t \in 1..man.last : wait'[t] = wait[t]
      <3>1. UnderWay \in SUBSET Procs
        BY DEF UnderWay, Procs
      <3>2. \A t \in 1..man.last : t # r /\ t \in 1..MaxRound
        BY <2>1, <2>2
      <3>3. wait \in [1..MaxRound -> SUBSET Procs]
        BY <1>2 DEF TypeOK
      <3> QED BY <2>2, <2>7, <3>1, <3>2, <3>3
    <2>10. Rest \in Proc /\ Rest.pc = "idle"
      BY RestIs
    <2>11. me' \in [Procs -> Proc] /\ Alone(f) /\ me'[f] = Rest /\ \A p \in Procs \ {f} : me'[p] = me[p]
      BY <1>2, <2>7, <2>10, StepTypes
    <2>12. TypeOK'
      BY <1>2, <2>7, <2>8, <2>9, <2>11 DEF TypeOK, Proc
    <2>13. Advance /\ WaitShrinks
      BY <2>1, <2>2, <2>7, <2>8, <2>9 DEF Advance, WaitShrinks
    <2>14. /\ Frames' = Frames /\ \A q : DigAt(q)' = DigAt(q)
           /\ \A t, q : Covers(t, q)' <=> Covers(t, q)
           /\ \A t : Index(t)' = Index(t)
      BY <2>7 DEF Frames, DigAt, Covers, Index
    <2>15. \A e, n : EndAt(e, n)' <=> EndAt(e, n)
      BY <2>7, <2>14 DEF EndAt
    <2>16. ChainOK' /\ SealedOK'
      BY <1>2, <2>7, <2>14 DEF Store, ChainOK, ResumesAtEnd, SealedOK
    <2>17. ManifestOK(man)'
      <3>1. Index(r) = index[r]
        BY <2>2 DEF Index
      <3>2. DigAt(l)' = DigAt(l) /\ Index(r)' = index[r]
        BY <2>14, <3>1
      <3> QED BY <2>2, <2>1, <2>3, <2>4, <2>7, <2>8, <3>2 DEF ManifestOK
    <2>18. ObjOK'
      <3>1. ASSUME NEW q \in 1..Len(log), obj[q] = None
            PROVE  \E t \in 1..r : Covers(t, q) /\ wait'[t] = {}
        <4>1. PICK t \in 1..man.last : Covers(t, q) /\ wait[t] = {}
          BY <1>2, <3>1 DEF Store, ObjOK
        <4>2. t \in 1..r
          BY <2>1, <2>2
        <4> QED BY <2>9, <4>1, <4>2
      <3> QED BY <1>2, <2>7, <2>8, <2>14, <3>1 DEF Store, ObjOK
    <2>19. RoundsOK'
      <3>1. \A t \in 1..MaxRound : index[t] # NoIndex => t <= r + 1
        BY <1>2, <2>1, <2>2 DEF RoundsOK
      <3>2. \A t \in 1..r : index[t] # NoIndex
        <4> SUFFICES ASSUME NEW t \in 1..r PROVE index[t] # NoIndex
          OBVIOUS
        <4>1. t = r \/ t \in 1..man.last
          BY <2>1, <2>2
        <4> QED BY <1>2, <2>1, <4>1 DEF RoundsOK
      <3>3. ASSUME NEW q \in 1..l PROVE \E t \in 1..r : Covers(t, q)
        <4>1. CASE q <= man.upto
          <5>1. PICK t \in 1..man.last : Covers(t, q)
            BY <1>2, <2>2, <4>1 DEF RoundsOK
          <5>2. t \in 1..r
            BY <2>1, <2>2
          <5> QED BY <5>1, <5>2
        <4>2. CASE ~(q <= man.upto)
          <5>1. i <= q /\ q <= l /\ r \in 1..r
            BY <2>2, <2>4, <2>5, <4>2
          <5> QED BY <2>3, <5>1 DEF Covers
        <4> QED BY <4>1, <4>2
      <3> QED BY <1>2, <2>7, <2>8, <2>14, <2>15, <3>1, <3>2, <3>3 DEF RoundsOK
    <2>20. Grace'
      <3> SUFFICES ASSUME NEW p \in UnderWay', NEW t \in 1..r, me'[p].view.last < t PROVE p \in wait'[t]
        BY <2>7, <2>8 DEF Grace
      <3>1. p \in Procs /\ p # f
        BY RoundsAssumption DEF UnderWay, Procs
      <3>2. p \in UnderWay /\ me'[p] = me[p]
        BY <2>11, <3>1 DEF UnderWay
      <3>3. CASE t = r
        BY <2>9, <3>2, <3>3
      <3>4. CASE t # r
        <4>1. t \in 1..man.last
          BY <2>1, <2>2, <3>4
        <4> QED BY <2>9, <3>2, <4>1 DEF Grace, IInv
      <3> QED BY <3>3, <3>4
    <2>21. \A s \in Sessions : OpenOK(s)'
      BY <1>2, <2>7, <2>10, OpenSame
    <2>22. Own(f)'
      <3>1. ManifestOK(NoManifest)'
        <4>1. PICK n : n = NoManifest
          OBVIOUS
        <4>2. n \in ShardManifest /\ ManifestOK(n)
          BY <1>2, <4>1, NoManifestOK, RestIs
        <4>3. ManifestOK(n)'
          BY <1>2, <2>12, <2>13, <4>2, KeepManifest
        <4> QED BY <4>1, <4>3
      <3>2. ManifestOK(me[f].view)'
        BY <2>11, <3>1, RestIs DEF ManifestOK
      <3>3. FolderOK(f)'
        BY <2>10, <2>11 DEF FolderOK, FolderIs
      <3> QED BY <3>2, <3>3, RoundsAssumption DEF Own
    <2> QED BY <1>2, <2>12, <2>13, <2>16, <2>17, <2>18, <2>19, <2>20, <2>21, <2>22, <2>11, Assemble DEF Store
  <1> QED BY <1>3, <1>4

LEMMA GcDeleteInv == ASSUME IInv, NEW f \in Folders, GcDelete(f) PROVE IInv'
  <1>1. PICK y, v, a, r : y = me[f] /\ v = me[f].view /\ a = me[f].at /\ r = me[f].rnd
    OBVIOUS
  <1>2. /\ TypeOK /\ Store /\ RoundsOK /\ ObjOK /\ ManifestOK(v) /\ v \in ShardManifest /\ man \in ShardManifest
        /\ y \in Proc /\ y.view = v /\ y.at = a /\ y.rnd = r /\ y.pc = "delete" /\ f \in Procs /\ crashes \in 0..MaxCrash
    BY <1>1, FolderFacts DEF GcDelete
  <1>3. 1 <= r /\ r <= v.last /\ wait[r] = {} /\ Covers(r, a)
    BY <1>1, <1>2, FolderFacts DEF FolderOK, FolderIs
  <1>4. /\ r \in Nat /\ v.last \in Nat /\ v.last <= man.last /\ man.last \in Nat /\ man.last <= MaxRound /\ MaxRound \in Nat
        /\ a \in Nat /\ MaxSeq \in Nat /\ Len(log) \in Nat /\ Len(log) <= MaxSeq
    BY <1>2, ManifestIs, Types DEF ManifestOK, Proc
  <1>5. r \in 1..man.last /\ r \in 1..MaxRound
    BY <1>3, <1>4
  <1>6. PICK i, l : i = index[r].first /\ l = index[r].last
    OBVIOUS
  <1>7. i \in Nat /\ l \in Nat /\ 1 <= i /\ l <= Len(log) /\ i <= a /\ a <= l
    <2>1. i \in Nat /\ l \in Nat
      BY <1>2, <1>5, <1>6, Types DEF RoundIndex
    <2>2. index[r] # NoIndex
      BY <1>2, <1>5 DEF RoundsOK
    <2> QED BY <1>2, <1>3, <1>5, <1>6, <2>1, <2>2 DEF RoundsOK, Covers
  <1>8. PICK m : m = IF a = l THEN [y EXCEPT !.pc = "gc", !.at = 0, !.rnd = r + 1] ELSE [y EXCEPT !.at = a + 1]
    OBVIOUS
  <1>9. /\ Step(f, m) /\ obj' = [obj EXCEPT ![a] = None] /\ UNCHANGED <<log, man, index, sealed, wait, cur, due, crashes>>
    BY <1>1, <1>2, <1>6, <1>8 DEF GcDelete, LastToDelete
  <1>10. /\ m \in Proc /\ m.view = v /\ FolderIs(m) /\ m.pc # "open"
    <2>1. CASE a = l
      <3>1. r + 1 \in 0..(MaxRound + 1) /\ 0 \in 0..(MaxSeq + 1)
        BY <1>4, <1>5
      <3>2. m = [y EXCEPT !.pc = "gc", !.at = 0, !.rnd = r + 1]
        BY <1>8, <2>1
      <3>3. m \in Proc /\ m.view = v /\ m.pc = "gc" /\ m.rnd = r + 1
        BY <1>2, <3>1, <3>2 DEF Proc, Pcs
      <3>4. 1 <= m.rnd /\ m.rnd <= m.view.last + 1
        BY <1>3, <1>4, <3>3
      <3> QED BY <3>3, <3>4 DEF FolderIs
    <2>2. CASE a # l
      <3>1. a + 1 \in 0..(MaxSeq + 1)
        BY <1>4, <1>7
      <3>2. m = [y EXCEPT !.at = a + 1]
        BY <1>8, <2>2
      <3>3. m \in Proc /\ m.view = v /\ m.pc = "delete" /\ m.rnd = r /\ m.at = a + 1
        BY <1>2, <3>1, <3>2 DEF Proc
      <3>4. Covers(r, a + 1)
        BY <1>4, <1>6, <1>7, <2>2 DEF Covers
      <3> QED BY <1>3, <3>3, <3>4 DEF FolderIs
    <2> QED BY <2>1, <2>2
  <1>11. me' \in [Procs -> Proc] /\ Alone(f) /\ me'[f] = m
    BY <1>2, <1>9, <1>10, StepTypes
  <1>12. a \in Seqs /\ a \in 1..Len(log)
    BY <1>4, <1>7 DEF Seqs
  <1>13. obj' \in [Seqs -> Segment \cup {None}] /\ obj'[a] = None /\ \A q \in Seqs : q # a => obj'[q] = obj[q]
    BY <1>2, <1>9, <1>12 DEF TypeOK
  <1>14. TypeOK'
    BY <1>2, <1>9, <1>11, <1>13 DEF TypeOK, Proc
  <1>15. Advance /\ WaitShrinks
    BY <1>4, <1>9 DEF Advance, WaitShrinks
  <1>16. /\ Frames' = Frames /\ \A q : DigAt(q)' = DigAt(q)
         /\ \A t, q : Covers(t, q)' <=> Covers(t, q)
         /\ \A t : Index(t)' = Index(t)
    BY <1>9 DEF Frames, DigAt, Covers, Index
  <1>17. \A e, n : EndAt(e, n)' <=> EndAt(e, n)
    BY <1>9, <1>16 DEF EndAt
  <1>18. ChainOK' /\ SealedOK' /\ RoundsOK' /\ ManifestOK(man)'
    <2>1. ChainOK' /\ SealedOK'
      BY <1>2, <1>9, <1>16 DEF Store, ChainOK, ResumesAtEnd, SealedOK
    <2>2. RoundsOK'
      BY <1>2, <1>9, <1>16, <1>17 DEF RoundsOK
    <2>3. ManifestOK(man)'
      BY <1>2, <1>9, <1>16 DEF Store, ManifestOK
    <2> QED BY <2>1, <2>2, <2>3
  <1>19. ObjOK'
    <2>1. \A q \in Seqs : obj'[q] # None => q <= Len(log) /\ obj'[q] = log[q]
      BY <1>2, <1>13 DEF ObjOK
    <2>2. ASSUME NEW q \in 1..Len(log), obj'[q] = None
          PROVE  \E t \in 1..man.last : Covers(t, q) /\ wait[t] = {}
      <3>1. CASE q = a
        BY <1>3, <1>5, <3>1
      <3>2. CASE q # a
        <4>1. q \in Seqs
          BY <1>4 DEF Seqs
        <4> QED BY <1>2, <1>13, <2>2, <3>2, <4>1 DEF ObjOK
      <3> QED BY <3>1, <3>2
    <2> QED BY <1>9, <1>16, <2>1, <2>2 DEF ObjOK
  <1>20. Grace' /\ \A s \in Sessions : OpenOK(s)'
    BY <1>2, <1>9, <1>10, GraceSame, OpenSame
  <1>21. Own(f)'
    <2>1. ManifestOK(v)'
      BY <1>2, <1>14, <1>15, KeepManifest
    <2>2. ManifestOK(me[f].view)'
      BY <1>10, <1>11, <2>1 DEF ManifestOK
    <2>3. FolderIs(m)'
      <3>1. (\A n : AtIs(n)' <=> AtIs(n)) /\ (\A n : Gathers(n)' <=> Gathers(n))
        BY <1>9, <1>16 DEF AtIs, Gathers
      <3> QED BY <1>9, <1>10, <1>16, <1>17, <3>1 DEF FolderIs
    <2>4. FolderOK(f)'
      BY <1>11, <2>3 DEF FolderOK, FolderIs, AtIs, Gathers
    <2> QED BY <2>2, <2>4, RoundsAssumption DEF Own
  <1> QED BY <1>2, <1>11, <1>14, <1>15, <1>18, <1>19, <1>20, <1>21, Assemble DEF Store

LEMMA GcHintInv == ASSUME IInv, NEW f \in Folders, GcHint(f) PROVE IInv'
  <1>1. PICK y, v, r : y = me[f] /\ v = me[f].view /\ r = me[f].rnd
    OBVIOUS
  <1>2. /\ TypeOK /\ Store /\ RoundsOK /\ ManifestOK(v) /\ ManifestOK(man) /\ v \in ShardManifest /\ man \in ShardManifest
        /\ y \in Proc /\ y.view = v /\ y.rnd = r /\ y.pc = "hint" /\ f \in Procs /\ crashes \in 0..MaxCrash
    BY <1>1, FolderFacts DEF GcHint
  <1>3. 1 <= r /\ r <= v.last + 1 /\ r \in Nat /\ v.last \in Nat /\ v.last <= MaxRound /\ MaxRound \in Nat
    BY <1>1, <1>2, FolderFacts, ManifestIs, Types DEF FolderOK, FolderIs, Proc
  <1>4. CASE man # v
    <2>1. Step(f, Rest) /\ store' = store /\ UNCHANGED <<cur, due, crashes, wait>>
      BY <1>1, <1>4 DEF GcHint, store
    <2> QED BY <1>2, <2>1, FolderStops
  <1>5. CASE man = v
    <2>1. PICK g, w : g = r - 1 /\ w = [v EXCEPT !.gc = g]
      OBVIOUS
    <2>2. g \in 0..MaxRound /\ g <= v.last
      BY <1>3, <2>1
    <2>3. man' = w /\ Step(f, Rest) /\ UNCHANGED <<log, obj, index, sealed, wait, cur, due, crashes>>
      BY <1>1, <1>5, <2>1 DEF GcHint, GcUpTo
    <2>4. w \in ShardManifest /\ w.last = v.last /\ w.upto = v.upto /\ w.dig = v.dig /\ w.head = v.head /\ w.gc = g
      BY <1>2, <2>1, <2>2 DEF ShardManifest
    <2>5. Rest \in Proc /\ Rest.pc = "idle" /\ Rest.view = NoManifest
      BY RestIs
    <2>6. me' \in [Procs -> Proc] /\ Alone(f) /\ me'[f] = Rest
      BY <1>2, <2>3, <2>5, StepTypes
    <2>7. TypeOK'
      BY <1>2, <2>3, <2>4, <2>6 DEF TypeOK, Proc
    <2>8. v.head <= Len(log)
      BY <1>2 DEF ManifestOK
    <2>9. Advance /\ WaitShrinks /\ Store'
      BY <1>5, <2>2, <2>3, <2>4, <2>7, <2>8, ManStep
    <2>10. Grace' /\ \A s \in Sessions : OpenOK(s)'
      BY <1>2, <1>5, <2>3, <2>4, <2>5, GraceSame, OpenSame
    <2>11. Own(f)'
      <3>1. PICK n : n = NoManifest
        OBVIOUS
      <3>2. n \in ShardManifest /\ ManifestOK(n)
        BY <1>2, <3>1, NoManifestOK, RestIs
      <3>3. ManifestOK(n)'
        BY <1>2, <2>7, <2>9, <3>2, KeepManifest
      <3>4. ManifestOK(me[f].view)'
        BY <2>5, <2>6, <3>1, <3>3 DEF ManifestOK
      <3>5. FolderOK(f)'
        BY <2>5, <2>6 DEF FolderOK, FolderIs
      <3> QED BY <3>4, <3>5, RoundsAssumption DEF Own
    <2> QED BY <1>2, <2>6, <2>7, <2>9, <2>10, <2>11, Assemble
  <1> QED BY <1>4, <1>5

-----------------------------------------------------------------------------
(* Steps of the readers                                                     *)

\* The parts of the invariant a step of a reader needs.
LEMMA ReaderFacts ==
  ASSUME IInv, NEW p \in Readers
  PROVE  /\ TypeOK /\ Store /\ RoundsOK /\ SealedOK /\ p \in Procs /\ ReaderIs(me[p], cur[p], due[p])
         /\ ManifestOK(me[p].view) /\ me[p] \in Proc /\ me[p].view \in ShardManifest
         /\ cur[p] \in Cursor /\ due[p] \in 0..MaxSeq /\ crashes \in 0..MaxCrash
         /\ man \in ShardManifest /\ ManifestOK(man)
  <1>1. TypeOK /\ Store /\ p \in Procs /\ Own(p)
    BY DEF IInv, Procs
  <1>2. ReaderIs(me[p], cur[p], due[p]) /\ ManifestOK(me[p].view)
    BY <1>1 DEF Own, ReaderOK
  <1> QED BY <1>1, <1>2, Types DEF Store, TypeOK, Proc, Cursor

\* A reader whose step leaves the store alone.
LEMMA ReaderQuiet ==
  ASSUME IInv, NEW p \in Readers, NEW m \in Proc, NEW k \in Cursor, NEW d \in 0..MaxSeq,
         Step(p, m), cur' = [cur EXCEPT ![p] = k], due' = [due EXCEPT ![p] = d],
         store' = store, crashes' = crashes,
         \/ wait' = wait /\ (m.view = man \/ (m.view = me[p].view /\ Busy(me[p])))
         \/ ReadEnds(p) /\ ~Busy(m),
         ManifestOK(m.view), ReaderIs(m, k, d)
  PROVE  IInv'
  <1>1. p \in Procs /\ p \notin Folders /\ p \notin Sessions /\ crashes \in 0..MaxCrash
    BY RoundsAssumption DEF Procs, IInv, TypeOK
  <1>2. me'[p] = m
    BY <1>1, StepTypes
  <1>3. ManifestOK(me[p].view)'
    <2>1. PICK v : v = m.view
      OBVIOUS
    <2>2. ManifestOK(v)'
      BY <2>1, SameStore
    <2> QED BY <1>2, <2>1, <2>2 DEF ManifestOK
  <1>4. /\ cur' \in [Readers -> Cursor] /\ due' \in [Readers -> 0..MaxSeq] /\ cur'[p] = k /\ due'[p] = d
        /\ \A z \in Readers \ {p} : cur'[z] = cur[z] /\ due'[z] = due[z]
    <2>1. cur \in [Readers -> Cursor] /\ due \in [Readers -> 0..MaxSeq]
      BY DEF IInv, TypeOK, Cursor
    <2> QED BY <2>1
  <1>5. ReaderOK(p)'
    <2>1. ReaderIs(m, k, d)'
      BY SameRecords
    <2> QED BY <1>2, <1>4, <2>1 DEF ReaderOK, ReaderIs, AtIs, PlaceOK
  <1>6. Own(p)'
    BY <1>1, <1>3, <1>5 DEF Own
  <1> QED BY <1>1, <1>4, <1>6, QuietStep

LEMMA PollInv == ASSUME IInv, NEW p \in Readers, Poll(p) PROVE IInv'
  <1>1. PICK x, k, d, n : x = me[p] /\ k = cur[p] /\ d = due[p] /\ n = Len(log)
    OBVIOUS
  <1>2. /\ TypeOK /\ ReaderIs(x, k, d) /\ x \in Proc /\ k \in Cursor /\ man \in ShardManifest /\ ManifestOK(man)
        /\ n \in Nat /\ n \in 0..MaxSeq /\ n = Len(log)
    BY <1>1, ReaderFacts, Types
  <1>3. PICK m : m = [Rest EXCEPT !.pc = "rounds", !.view = man, !.got = x.got, !.rnd = k.round, !.at = k.chunk]
    OBVIOUS
  <1>4. m \in Proc /\ m.pc = "rounds" /\ m.view = man /\ m.got = x.got /\ m.rnd = k.round /\ m.at = k.chunk
    <2>1. k.round \in 0..(MaxRound + 1) /\ k.chunk \in 0..(MaxSeq + 1) /\ x.got \in SUBSET Seqs
      BY <1>2, RoundsAssumption DEF Cursor, Proc
    <2> QED BY <1>2, <1>3, <2>1, RestIs DEF Proc, Rest, Pcs
  <1>5. /\ Step(p, m) /\ cur' = [cur EXCEPT ![p] = k] /\ due' = [due EXCEPT ![p] = n]
        /\ store' = store /\ crashes' = crashes /\ wait' = wait
    <2>1. cur \in [Readers -> Cursor]
      BY <1>2 DEF TypeOK, Cursor
    <2>2. cur = [cur EXCEPT ![p] = k]
      BY <1>1, <2>1
    <2> QED BY <1>1, <1>3, <2>2 DEF Poll, store
  <1>6. ReaderIs(m, k, n)
    BY <1>2, <1>4 DEF ReaderIs
  <1>7. ManifestOK(m.view)
    BY <1>2, <1>4
  <1> QED BY <1>2, <1>4, <1>5, <1>6, <1>7, ReaderQuiet

\* The frames of a published round's sealed object are the chain's.
LEMMA SealedIs ==
  ASSUME IInv, NEW r \in 1..man.last
  PROVE  \A q : q \in SealedFrames(r) <=> q \in Frames /\ Covers(r, q)
  <1>1. RoundsOK /\ SealedOK /\ TypeOK /\ man.last \in Nat /\ man.last <= MaxRound /\ MaxRound \in Nat
    BY Types, ManifestIs DEF IInv, Store
  <1>2. r \in 1..MaxRound /\ index[r] # NoIndex
    BY <1>1 DEF RoundsOK
  <1>3. PICK o \in sealed : o.first = index[r].first /\ o.last = index[r].last
    BY <1>1, <1>2 DEF RoundsOK
  <1>4. \A x \in sealed : x.frames = {q \in Frames : x.first <= q /\ q <= x.last}
    BY <1>1 DEF SealedOK
  <1> QED BY <1>3, <1>4 DEF SealedFrames, Covers

\* What a reader in the rounds of its view knows of its place.
LEMMA PlaceIs ==
  ASSUME IInv, NEW p \in Readers, me[p].pc = "rounds", me[p].rnd <= me[p].view.last,
         NEW r, r = me[p].rnd, NEW a, a = me[p].at
  PROVE  /\ r \in 1..man.last /\ r \in Nat /\ a \in Nat /\ r <= MaxRound /\ r <= man.last
         /\ index[r].first \in Nat /\ index[r].last \in Nat /\ 1 <= index[r].first
         /\ index[r].first <= index[r].last /\ index[r].last <= MaxSeq
         /\ index[r].first + a <= index[r].last + 1
         /\ \A q \in Frames : Before(r, a, q) => q \in me[p].got
         /\ me[p].view.last \in Nat /\ man.last \in Nat /\ me[p].view.last <= man.last /\ man.last <= MaxRound
         /\ MaxRound \in Nat /\ MaxSeq \in Nat /\ Busy(me[p])
  <1>1. PICK x, v, l : x = me[p] /\ v = me[p].view /\ l = man.last
    OBVIOUS
  <1>2. /\ TypeOK /\ RoundsOK /\ ReaderIs(x, cur[p], due[p]) /\ ManifestOK(v) /\ v \in ShardManifest /\ man \in ShardManifest
        /\ x \in Proc /\ x.view = v /\ x.rnd = r /\ x.at = a /\ x.pc = "rounds" /\ r <= v.last
    BY <1>1, ReaderFacts
  <1>3. v.last \in Nat /\ l \in Nat /\ v.last <= l /\ l <= MaxRound /\ r \in Nat /\ a \in Nat /\ MaxRound \in Nat /\ MaxSeq \in Nat
    BY <1>1, <1>2, ManifestIs, Types DEF ManifestOK, Proc
  <1>4. PlaceOK(r, a, v.last) /\ \A q \in Frames : Before(r, a, q) => q \in x.got
    BY <1>2 DEF ReaderIs
  <1>5. r \in 1..l /\ r \in 1..MaxRound /\ r <= l /\ r <= MaxRound
    BY <1>2, <1>3, <1>4 DEF PlaceOK
  <1>6. index[r] # NoIndex /\ index[r] \in RoundIndex
    BY <1>1, <1>2, <1>5, Types DEF RoundsOK
  <1>7. index[r].first \in Nat /\ index[r].last \in Nat /\ index[r].last <= MaxSeq
    BY <1>3, <1>6 DEF RoundIndex
  <1>8. 1 <= index[r].first /\ index[r].first <= index[r].last
    BY <1>2, <1>5, <1>6 DEF RoundsOK
  <1> QED BY <1>1, <1>2, <1>3, <1>4, <1>5, <1>7, <1>8 DEF PlaceOK, Busy

LEMMA ReadChunkInv == ASSUME IInv, NEW p \in Readers, ReadChunk(p) PROVE IInv'
  <1>1. PICK x, k, d, r, a : x = me[p] /\ k = cur[p] /\ d = due[p] /\ r = me[p].rnd /\ a = me[p].at
    OBVIOUS
  <1>2. /\ TypeOK /\ ReaderIs(x, k, d) /\ x \in Proc /\ k \in Cursor /\ d \in 0..MaxSeq
        /\ ManifestOK(x.view) /\ ManifestOK(NoManifest) /\ x.rnd = r /\ x.at = a
        /\ x.pc = "rounds" /\ r <= x.view.last
    BY <1>1, ReaderFacts, NoManifestOK DEF ReadChunk
  <1>3. PICK i, l, q : i = index[r].first /\ l = index[r].last /\ q = i + a
    OBVIOUS
  <1>4. /\ r \in 1..man.last /\ r \in Nat /\ a \in Nat /\ r <= MaxRound /\ r <= man.last /\ 1 <= r
        /\ i \in Nat /\ l \in Nat /\ 1 <= i /\ l <= MaxSeq
        /\ \A z \in Frames : Before(r, a, z) => z \in x.got
        /\ x.view.last \in Nat /\ man.last \in Nat /\ MaxRound \in Nat /\ MaxSeq \in Nat /\ Busy(x)
    BY <1>1, <1>2, <1>3, PlaceIs
  <1>5. i + a <= l
    BY <1>1, <1>3 DEF ReadChunk
  <1>6. PICK g : g = x.got \cup (SealedFrames(r) \cap {q})
    OBVIOUS
  <1>7. /\ \A z \in Frames : Before(r, a + 1, z) => z \in g
        /\ PlaceOK(r, a + 1, x.view.last) /\ PlaceOK(r, a + 1, man.last)
        /\ x.got \subseteq g /\ g \subseteq Seqs
    <2>1. ASSUME NEW z \in Frames, Before(r, a + 1, z) PROVE z \in g
      <3>1. z \in Nat
        BY <1>2, FramesAre
      <3>2. PICK t \in 1..man.last : Covers(t, z) /\ (t < r \/ (t = r /\ z < i + (a + 1)))
        BY <1>3, <2>1 DEF Before
      <3>3. CASE t < r \/ z < i + a
        <4>1. Before(r, a, z)
          BY <1>3, <3>2, <3>3 DEF Before
        <4> QED BY <1>4, <1>6, <4>1
      <3>4. CASE ~(t < r \/ z < i + a)
        <4>1. t = r /\ z = q
          BY <1>3, <1>4, <3>1, <3>2, <3>4
        <4>2. z \in SealedFrames(r)
          BY <1>4, <3>2, <4>1, SealedIs
        <4> QED BY <1>6, <4>1, <4>2
      <3> QED BY <3>3, <3>4
    <2>2. i + (a + 1) <= l + 1 /\ r # man.last + 1 /\ r # x.view.last + 1 /\ r <= man.last + 1 /\ r <= x.view.last + 1
      BY <1>2, <1>4, <1>5
    <2>3. PlaceOK(r, a + 1, x.view.last) /\ PlaceOK(r, a + 1, man.last)
      BY <1>3, <1>4, <2>2 DEF PlaceOK
    <2>4. SealedFrames(r) \subseteq Seqs
      BY <1>2, <1>4, SealedIs, FramesAre
    <2>5. x.got \subseteq Seqs
      BY <1>2 DEF Proc
    <2> QED BY <1>6, <2>1, <2>3, <2>4, <2>5
  <1>8. a + 1 \in 0..(MaxSeq + 1) /\ a + 1 \in 0..MaxSeq
    BY <1>4, <1>5
  <1>9. cur \in [Readers -> Cursor] /\ due \in [Readers -> 0..MaxSeq]
    BY <1>2 DEF TypeOK, Cursor
  <1>10. due' = [due EXCEPT ![p] = d] /\ store' = store /\ crashes' = crashes /\ cur = [cur EXCEPT ![p] = k]
    BY <1>1, <1>9 DEF ReadChunk, store
  <1>11. CASE Step(p, [x EXCEPT !.got = g, !.at = a + 1]) /\ UNCHANGED <<wait, cur>>
    <2>1. PICK m : m = [x EXCEPT !.got = g, !.at = a + 1]
      OBVIOUS
    <2>2. m \in Proc /\ m.pc = "rounds" /\ m.view = x.view /\ m.rnd = r /\ m.at = a + 1 /\ m.got = g
      BY <1>2, <1>7, <1>8, <2>1 DEF Proc
    <2>3. ReaderIs(m, k, d)
      BY <1>2, <1>7, <2>2 DEF ReaderIs
    <2>4. Step(p, m) /\ ManifestOK(m.view) /\ cur' = [cur EXCEPT ![p] = k] /\ wait' = wait /\ m.view = me[p].view /\ Busy(me[p])
      BY <1>1, <1>2, <1>4, <1>10, <1>11, <2>1, <2>2
    <2> QED BY <1>2, <1>10, <2>2, <2>3, <2>4, ReaderQuiet
  <1>12. CASE Step(p, [Rest EXCEPT !.got = g]) /\ Stops(p, r, a + 1, k.seq, k.link)
    <2>1. PICK m, c : m = [Rest EXCEPT !.got = g] /\ c = [round |-> r, chunk |-> a + 1, seq |-> k.seq, link |-> k.link]
      OBVIOUS
    <2>2. m \in Proc /\ m.pc = "idle" /\ m.view = NoManifest /\ m.got = g
      BY <1>7, <2>1, RestIs DEF Rest, Proc, Pcs
    <2>3. c \in Cursor /\ c.round = r /\ c.chunk = a + 1 /\ c.seq = k.seq /\ c.link = k.link
      <3>1. r \in 1..(MaxRound + 1)
        BY <1>4
      <3> QED BY <1>2, <1>8, <2>1, <3>1 DEF Cursor
    <2>4. ReaderIs(m, c, d)
      BY <1>2, <1>7, <2>2, <2>3 DEF ReaderIs
    <2>5. Step(p, m) /\ ManifestOK(m.view) /\ cur' = [cur EXCEPT ![p] = c] /\ ReadEnds(p) /\ ~Busy(m)
      BY <1>2, <1>12, <2>1, <2>2 DEF Stops, Busy
    <2> QED BY <1>2, <1>10, <2>2, <2>3, <2>4, <2>5, ReaderQuiet
  <1> QED BY <1>1, <1>3, <1>6, <1>11, <1>12 DEF ReadChunk

LEMMA NextRoundInv == ASSUME IInv, NEW p \in Readers, NextRound(p) PROVE IInv'
  <1>1. PICK x, k, d, r, a : x = me[p] /\ k = cur[p] /\ d = due[p] /\ r = me[p].rnd /\ a = me[p].at
    OBVIOUS
  <1>2. /\ TypeOK /\ RoundsOK /\ ReaderIs(x, k, d) /\ x \in Proc /\ k \in Cursor /\ d \in 0..MaxSeq
        /\ ManifestOK(x.view) /\ ManifestOK(NoManifest) /\ x.rnd = r /\ x.at = a
        /\ x.pc = "rounds" /\ r <= x.view.last
    BY <1>1, ReaderFacts, NoManifestOK DEF NextRound
  <1>3. PICK i, l : i = index[r].first /\ l = index[r].last
    OBVIOUS
  <1>4. /\ r \in 1..man.last /\ r \in Nat /\ a \in Nat /\ r <= MaxRound /\ r <= man.last /\ 1 <= r
        /\ i \in Nat /\ l \in Nat /\ 1 <= i /\ l <= MaxSeq
        /\ \A z \in Frames : Before(r, a, z) => z \in x.got
        /\ x.view.last \in Nat /\ man.last \in Nat /\ MaxRound \in Nat /\ MaxSeq \in Nat /\ Busy(x)
        /\ man.last <= MaxRound /\ x.view.last <= man.last
    BY <1>1, <1>2, <1>3, PlaceIs
  <1>5. i + a > l
    BY <1>1, <1>3 DEF NextRound
  <1>6. /\ \A z \in Frames : Before(r + 1, 0, z) => z \in x.got
        /\ PlaceOK(r + 1, 0, x.view.last) /\ PlaceOK(r + 1, 0, man.last)
    <2>1. ASSUME NEW z \in Frames, Before(r + 1, 0, z) PROVE z \in x.got
      <3>1. z \in Nat
        BY <1>2, FramesAre
      <3>2. PICK t \in 1..man.last : Covers(t, z) /\ (t < r + 1 \/ (t = r + 1 /\ z < index[t].first + 0))
        BY <2>1 DEF Before
      <3>3. index[t].first \in Nat
        BY <1>2, <1>4, Types DEF RoundIndex
      <3>4. t < r \/ (t = r /\ z < i + a)
        <4>1. t < r + 1
          BY <3>1, <3>2, <3>3 DEF Covers
        <4>2. t = r => z <= l
          BY <1>3, <3>2 DEF Covers
        <4> QED BY <1>4, <1>5, <3>1, <4>1, <4>2
      <3>5. Before(r, a, z)
        BY <1>3, <3>2, <3>4 DEF Before
      <3> QED BY <1>4, <3>5
    <2>2. r + 1 <= man.last => index[r + 1].first + 0 <= index[r + 1].last + 1
      <3> SUFFICES ASSUME r + 1 <= man.last PROVE index[r + 1].first + 0 <= index[r + 1].last + 1
        OBVIOUS
      <3>1. PICK t, b, c : t = r + 1 /\ b = index[t].first /\ c = index[t].last
        OBVIOUS
      <3>2. t \in 1..man.last /\ t \in 1..MaxRound
        BY <1>4, <3>1
      <3>3. b \in Nat /\ c \in Nat /\ b <= c
        BY <1>2, <3>1, <3>2, Types DEF RoundIndex, RoundsOK
      <3>4. b + 0 <= c + 1
        BY <3>3
      <3> QED BY <3>1, <3>4
    <2>3. 1 <= r + 1 /\ r + 1 <= man.last + 1 /\ r + 1 <= x.view.last + 1 /\ (r + 1 <= x.view.last => r + 1 <= man.last)
      BY <1>2, <1>4
    <2>4. PlaceOK(r + 1, 0, x.view.last) /\ PlaceOK(r + 1, 0, man.last)
      BY <2>2, <2>3 DEF PlaceOK
    <2> QED BY <2>1, <2>4
  <1>7. r + 1 \in 0..(MaxRound + 1) /\ r + 1 \in 1..(MaxRound + 1) /\ 0 \in 0..MaxSeq /\ 0 \in 0..(MaxSeq + 1)
    BY <1>4
  <1>8. cur \in [Readers -> Cursor] /\ due \in [Readers -> 0..MaxSeq]
    BY <1>2 DEF TypeOK, Cursor
  <1>9. due' = [due EXCEPT ![p] = d] /\ store' = store /\ crashes' = crashes /\ cur = [cur EXCEPT ![p] = k]
    BY <1>1, <1>8 DEF NextRound, store
  <1>10. CASE Step(p, [x EXCEPT !.rnd = r + 1, !.at = 0]) /\ UNCHANGED <<wait, cur>>
    <2>1. PICK m : m = [x EXCEPT !.rnd = r + 1, !.at = 0]
      OBVIOUS
    <2>2. m \in Proc /\ m.pc = "rounds" /\ m.view = x.view /\ m.rnd = r + 1 /\ m.at = 0 /\ m.got = x.got
      BY <1>2, <1>7, <2>1 DEF Proc
    <2>3. ReaderIs(m, k, d)
      BY <1>2, <1>6, <2>2 DEF ReaderIs
    <2>4. Step(p, m) /\ ManifestOK(m.view) /\ cur' = [cur EXCEPT ![p] = k] /\ wait' = wait /\ m.view = me[p].view /\ Busy(me[p])
      BY <1>1, <1>2, <1>4, <1>9, <1>10, <2>1, <2>2
    <2> QED BY <1>2, <1>9, <2>2, <2>3, <2>4, ReaderQuiet
  <1>11. CASE Step(p, [Rest EXCEPT !.got = x.got]) /\ Stops(p, r + 1, 0, k.seq, k.link)
    <2>1. PICK m, c : m = [Rest EXCEPT !.got = x.got] /\ c = [round |-> r + 1, chunk |-> 0, seq |-> k.seq, link |-> k.link]
      OBVIOUS
    <2>2. m \in Proc /\ m.pc = "idle" /\ m.view = NoManifest /\ m.got = x.got
      BY <1>2, <2>1, RestIs DEF Rest, Proc, Pcs
    <2>3. c \in Cursor /\ c.round = r + 1 /\ c.chunk = 0 /\ c.seq = k.seq /\ c.link = k.link
      BY <1>2, <1>7, <2>1 DEF Cursor
    <2>4. ReaderIs(m, c, d)
      BY <1>2, <1>6, <2>2, <2>3 DEF ReaderIs
    <2>5. Step(p, m) /\ ManifestOK(m.view) /\ cur' = [cur EXCEPT ![p] = c] /\ ReadEnds(p) /\ ~Busy(m)
      BY <1>2, <1>11, <2>1, <2>2 DEF Stops, Busy
    <2> QED BY <1>2, <1>9, <2>2, <2>3, <2>4, <2>5, ReaderQuiet
  <1> QED BY <1>1, <1>10, <1>11 DEF NextRound

\* The rounds of a view hold what lies up to its boundary.
LEMMA ViewCovered ==
  ASSUME TypeOK, RoundsOK, ManifestOK(man), NEW v \in ShardManifest, ManifestOK(v),
         NEW q \in Nat, 1 <= q, q <= v.upto
  PROVE  \E t \in 1..man.last : Covers(t, q) /\ t <= v.last
  <1>1. /\ v.upto \in Nat /\ v.last \in Nat /\ v.last <= man.last /\ v.upto = Index(v.last).last
        /\ man.last \in Nat /\ man.last <= MaxRound /\ MaxRound \in Nat /\ man.upto \in Nat
        /\ man.upto = Index(man.last).last
    BY Types, ManifestIs DEF ManifestOK
  <1>2. v.last # 0
    BY <1>1 DEF Index, NoIndex
  <1>3. v.last \in 1..man.last /\ man.last \in 1..man.last /\ v.last \in 1..MaxRound /\ man.last \in 1..MaxRound
    BY <1>1, <1>2
  <1>4. v.upto = index[v.last].last /\ man.upto = index[man.last].last
    BY <1>1, <1>3 DEF Index
  <1>5. index[v.last].last <= index[man.last].last
    BY <1>1, <1>3, LastsGrow
  <1>6. q \in 1..man.upto
    BY <1>1, <1>4, <1>5
  <1>7. PICK t \in 1..man.last : Covers(t, q)
    BY <1>6 DEF RoundsOK
  <1>8. t <= v.last
    <2> SUFFICES ASSUME v.last < t PROVE FALSE
      BY <1>1
    <2>1. t \in 1..MaxRound /\ index[t] # NoIndex /\ index[v.last] # NoIndex
      BY <1>1, <1>3 DEF RoundsOK
    <2>2. index[v.last].last < index[t].first
      BY <1>3, <2>1 DEF RoundsOK
    <2>3. index[t].first \in Nat /\ index[t].first <= q
      BY <1>7, <2>1, Types DEF RoundIndex, Covers
    <2> QED BY <1>1, <1>4, <2>2, <2>3
  <1> QED BY <1>7, <1>8

LEMMA StartTailInv == ASSUME IInv, NEW p \in Readers, StartTail(p) PROVE IInv'
  <1>1. PICK x, k, d, r, a, v : x = me[p] /\ k = cur[p] /\ d = due[p] /\ r = me[p].rnd /\ a = me[p].at /\ v = me[p].view
    OBVIOUS
  <1>2. /\ TypeOK /\ RoundsOK /\ ManifestOK(man) /\ ReaderIs(x, k, d) /\ x \in Proc /\ k \in Cursor /\ d \in 0..MaxSeq
        /\ ManifestOK(v) /\ x.rnd = r /\ x.at = a /\ x.view = v /\ v \in ShardManifest /\ man \in ShardManifest
        /\ x.pc = "rounds" /\ r > v.last /\ Busy(x)
    BY <1>1, ReaderFacts DEF StartTail, Busy
  <1>3. /\ r \in Nat /\ a \in Nat /\ v.last \in Nat /\ man.last \in Nat /\ v.last <= man.last /\ man.last <= MaxRound
        /\ v.upto \in Nat /\ v.upto <= Len(log) /\ v.dig = DigAt(v.upto) /\ v.dig \in 0..MaxSeq
        /\ Len(log) \in Nat /\ Len(log) <= MaxSeq /\ MaxSeq \in Nat /\ MaxRound \in Nat
    <2>1. r \in Nat /\ a \in Nat
      BY <1>2 DEF Proc
    <2>2. v.last \in Nat /\ man.last \in Nat /\ man.last <= MaxRound /\ v.upto \in Nat
      BY <1>2, ManifestIs
    <2>3. v.last <= man.last /\ v.upto <= Len(log) /\ v.dig = DigAt(v.upto)
      BY <1>2 DEF ManifestOK
    <2>4. v.dig \in 0..MaxSeq
      BY <1>2 DEF ShardManifest
    <2>5. Len(log) \in Nat /\ Len(log) <= MaxSeq /\ MaxSeq \in Nat /\ MaxRound \in Nat
      BY <1>2, Types
    <2> QED BY <2>1, <2>2, <2>3, <2>4, <2>5
  <1>4. /\ PlaceOK(r, a, v.last) /\ (\A q \in Frames : Before(r, a, q) => q \in x.got)
        /\ (k.seq > 0 => k.link = DigAt(k.seq - 1)) /\ k.seq <= Len(log) + 1 /\ d <= Len(log)
        /\ \A q \in Frames : q < k.seq => q \in x.got
    BY <1>2 DEF ReaderIs
  <1>5. r = v.last + 1 /\ a = 0
    BY <1>2, <1>3, <1>4 DEF PlaceOK
  <1>6. k.seq \in 0..(MaxSeq + 1) /\ k.link \in 0..MaxSeq /\ k.seq \in Nat
    BY <1>2, <1>3 DEF Cursor
  <1>7. PICK s, l : s = TailStart(p).seq /\ l = TailStart(p).link
    OBVIOUS
  <1>8. /\ s = IF k.seq > v.upto THEN k.seq ELSE v.upto + 1
        /\ l = IF k.seq > v.upto THEN k.link ELSE v.dig
    BY <1>1, <1>7 DEF TailStart
  <1>9. /\ v.upto < s /\ s <= Len(log) + 1 /\ l = DigAt(s - 1) /\ s \in 0..(MaxSeq + 1) /\ l \in 0..MaxSeq
        /\ \A q \in Frames : q < s => q \in x.got
    <2>1. CASE k.seq > v.upto
      BY <1>3, <1>4, <1>6, <1>8, <2>1
    <2>2. CASE ~(k.seq > v.upto)
      <3>1. s = v.upto + 1 /\ l = v.dig /\ s - 1 = v.upto
        BY <1>3, <1>8, <2>2
      <3>2. ASSUME NEW q \in Frames, q < s PROVE q \in x.got
        <4>1. q \in Nat /\ 1 <= q /\ q <= v.upto
          BY <1>2, <1>3, <3>1, <3>2, FramesAre
        <4>2. PICK t \in 1..man.last : Covers(t, q) /\ t <= v.last
          BY <1>2, <4>1, ViewCovered
        <4>3. t < r
          BY <1>3, <1>5, <4>2
        <4>4. Before(r, a, q)
          BY <4>2, <4>3 DEF Before
        <4> QED BY <1>4, <4>4
      <3> QED BY <1>3, <3>1, <3>2
    <2> QED BY <2>1, <2>2
  <1>10. PICK m, c : /\ m = [x EXCEPT !.pc = "tail", !.at = s, !.link = l]
                     /\ c = [k EXCEPT !.round = r, !.chunk = 0]
    OBVIOUS
  <1>11. m \in Proc /\ m.pc = "tail" /\ m.view = v /\ m.at = s /\ m.link = l /\ m.got = x.got
    BY <1>2, <1>9, <1>10 DEF Proc, Pcs
  <1>12. c \in Cursor /\ c.round = r /\ c.chunk = 0 /\ c.seq = k.seq /\ c.link = k.link
    <2>1. r \in 1..(MaxRound + 1) /\ 0 \in 0..MaxSeq
      BY <1>3, <1>5
    <2> QED BY <1>2, <1>10, <2>1 DEF Cursor
  <1>13. PlaceOK(r, 0, man.last)
    <2>1. 1 <= r /\ r <= man.last + 1
      BY <1>3, <1>5
    <2>2. ASSUME r <= man.last PROVE index[r].first + 0 <= index[r].last + 1
      <3>1. PICK b, e : b = index[r].first /\ e = index[r].last
        OBVIOUS
      <3>2. r \in 1..man.last /\ r \in 1..MaxRound
        BY <1>3, <2>1, <2>2
      <3>3. b \in Nat /\ e \in Nat /\ b <= e
        BY <1>2, <3>1, <3>2, Types DEF RoundIndex, RoundsOK
      <3>4. b + 0 <= e + 1
        BY <3>3
      <3> QED BY <3>1, <3>4
    <2> QED BY <2>1, <2>2 DEF PlaceOK
  <1>14. AtIs(m)
    BY <1>9, <1>11 DEF AtIs
  <1>15. ReaderIs(m, c, d)
    BY <1>4, <1>5, <1>9, <1>11, <1>12, <1>13, <1>14 DEF ReaderIs
  <1>16. cur' = [cur EXCEPT ![p] = c] /\ due' = [due EXCEPT ![p] = d]
    <2>1. cur \in [Readers -> Cursor] /\ due \in [Readers -> 0..MaxSeq]
      BY <1>2 DEF TypeOK, Cursor
    <2>2. cur' = [cur EXCEPT ![p].round = r, ![p].chunk = 0] /\ due' = due
      BY <1>1 DEF StartTail
    <2> QED BY <1>1, <1>10, <2>1, <2>2
  <1>17. Step(p, m) /\ store' = store /\ crashes' = crashes /\ wait' = wait
    BY <1>1, <1>7, <1>10 DEF StartTail, store
  <1> QED BY <1>1, <1>2, <1>11, <1>12, <1>15, <1>16, <1>17, ReaderQuiet

LEMMA WalkReaderInv == ASSUME IInv, NEW p \in Readers, WalkReader(p) PROVE IInv'
  <1>1. PICK x, k, d, a : x = me[p] /\ k = cur[p] /\ d = due[p] /\ a = me[p].at
    OBVIOUS
  <1>2. /\ TypeOK /\ ReaderIs(x, k, d) /\ x \in Proc /\ k \in Cursor /\ d \in 0..MaxSeq /\ p \in Procs
        /\ ManifestOK(x.view) /\ ManifestOK(NoManifest) /\ x.at = a /\ x.pc = "tail" /\ Busy(x) /\ p \in UnderWay
    BY <1>1, ReaderFacts, NoManifestOK DEF WalkReader, WalkGoes, WalkBreaks, WalkEnds, Busy, UnderWay
  <1>3. AtOK(p) /\ AtIs(x) /\ (\A q \in Frames : q < a => q \in x.got) /\ d <= Len(log)
    BY <1>1, <1>2 DEF ReaderIs, AtOK
  <1>4. /\ ~WalkBreaks(p) /\ a \in Nat /\ a <= Len(log) + 1 /\ a > 0
        /\ WalkGoes(p) => a \in 1..Len(log)
        /\ WalkEnds(p) => a = Len(log) + 1
        /\ MaxSeq \in Nat /\ Len(log) \in Nat /\ Len(log) <= MaxSeq /\ d \in Nat
    BY <1>1, <1>2, <1>3, WalkIs, Types
  <1>5. cur \in [Readers -> Cursor] /\ due \in [Readers -> 0..MaxSeq]
    BY <1>2 DEF TypeOK, Cursor
  <1>6. due' = [due EXCEPT ![p] = d] /\ store' = store /\ crashes' = crashes /\ cur = [cur EXCEPT ![p] = k]
    BY <1>1, <1>5 DEF WalkReader, store
  <1>7. CASE WalkGoes(p)
    <2>1. PICK w : w = Walked(p)
      OBVIOUS
    <2>2. /\ w \in Proc /\ w.pc = "tail" /\ w.view = x.view /\ w.at = a + 1 /\ w.link = DigAt(a)
          /\ w.got = {q \in x.got \cup Frames : q \in x.got \/ q = a} /\ AtIs(w)
      <3>1. me[p].pc = "tail"
        BY <1>1, <1>2
      <3>2. /\ w \in Proc /\ w.pc = "tail" /\ w.view = me[p].view /\ w.at = me[p].at + 1 /\ w.link = DigAt(me[p].at)
            /\ w.got = {q \in me[p].got \cup Frames : q \in me[p].got \/ q = me[p].at} /\ AtIs(w)
        BY <1>2, <1>3, <1>7, <2>1, <3>1, WalkedIs
      <3> QED BY <1>1, <3>2
    <2>3. x.got \subseteq w.got /\ \A q \in Frames : q < a + 1 => q \in w.got
      <3>1. ASSUME NEW q \in Frames, q < a + 1 PROVE q \in w.got
        <4>1. q \in Nat
          BY <1>2, FramesAre
        <4>2. q < a \/ q = a
          BY <1>4, <3>1, <4>1
        <4> QED BY <1>3, <2>2, <4>2
      <3> QED BY <2>2, <3>1
    <2>4. CASE Step(p, [w EXCEPT !.end = 0]) /\ UNCHANGED <<wait, cur>>
      <3>1. PICK m : m = [w EXCEPT !.end = 0]
        OBVIOUS
      <3>2. m \in Proc /\ m.pc = "tail" /\ m.view = w.view /\ m.at = w.at /\ m.link = w.link /\ m.got = w.got
        <4>1. 0 \in 0..MaxSeq
          BY <1>4
        <4> QED BY <2>2, <3>1, <4>1 DEF Proc
      <3>3. AtIs(m)
        BY <2>2, <3>2 DEF AtIs
      <3>4. ReaderIs(m, k, d)
        BY <1>2, <2>2, <2>3, <3>2, <3>3 DEF ReaderIs
      <3>5. Step(p, m) /\ ManifestOK(m.view) /\ cur' = [cur EXCEPT ![p] = k] /\ wait' = wait /\ m.view = me[p].view /\ Busy(me[p])
        BY <1>1, <1>2, <1>6, <2>2, <2>4, <3>1, <3>2
      <3> QED BY <1>2, <1>6, <3>2, <3>4, <3>5, ReaderQuiet
    <2>5. CASE Step(p, [Rest EXCEPT !.got = w.got]) /\ Stops(p, k.round, k.chunk, w.at, w.link)
      <3>1. PICK m, c : /\ m = [Rest EXCEPT !.got = w.got]
                        /\ c = [round |-> k.round, chunk |-> k.chunk, seq |-> w.at, link |-> w.link]
        OBVIOUS
      <3>2. m \in Proc /\ m.pc = "idle" /\ m.view = NoManifest /\ m.got = w.got
        BY <2>2, <3>1, RestIs DEF Rest, Proc, Pcs
      <3>3. c \in Cursor /\ c.round = k.round /\ c.chunk = k.chunk /\ c.seq = a + 1 /\ c.link = DigAt(a)
        BY <1>2, <2>2, <3>1 DEF Cursor, Proc
      <3>4. a + 1 <= Len(log) + 1 /\ a + 1 - 1 = a
        BY <1>4, <1>7
      <3>5. ReaderIs(m, c, d)
        <4>1. c.seq <= Len(log) + 1 /\ c.link = DigAt(c.seq - 1) /\ \A q \in Frames : q < c.seq => q \in m.got
          <5>1. c.seq - 1 = a
            BY <1>4, <3>3
          <5>2. c.link = DigAt(c.seq - 1)
            BY <3>3, <5>1
          <5> QED BY <2>3, <3>2, <3>3, <3>4, <5>2
        <4>2. PlaceOK(c.round, c.chunk, man.last) /\ (\A q \in Frames : Before(c.round, c.chunk, q) => q \in m.got) /\ d <= Len(log)
          BY <1>2, <2>3, <3>2, <3>3 DEF ReaderIs
        <4> QED BY <3>2, <4>1, <4>2 DEF ReaderIs
      <3>6. Step(p, m) /\ ManifestOK(m.view) /\ cur' = [cur EXCEPT ![p] = c] /\ ReadEnds(p) /\ ~Busy(m)
        BY <1>2, <2>5, <3>1, <3>2 DEF Stops, Busy
      <3> QED BY <1>2, <1>6, <3>2, <3>3, <3>5, <3>6, ReaderQuiet
    <2>6. ~WalkEnds(p)
      BY <1>7 DEF WalkEnds
    <2> QED BY <1>1, <1>4, <2>1, <2>4, <2>5, <2>6 DEF WalkReader
  <1>8. CASE WalkEnds(p)
    <2>1. PICK m, c : /\ m = [Rest EXCEPT !.pc = "caught", !.got = x.got]
                      /\ c = [round |-> k.round, chunk |-> k.chunk, seq |-> a, link |-> x.link]
      OBVIOUS
    <2>2. m \in Proc /\ m.pc = "caught" /\ m.view = NoManifest /\ m.got = x.got
      BY <1>2, <2>1, RestIs DEF Rest, Proc, Pcs
    <2>3. c \in Cursor /\ c.round = k.round /\ c.chunk = k.chunk /\ c.seq = a /\ c.link = DigAt(a - 1)
      BY <1>2, <1>3, <2>1 DEF Cursor, Proc, AtIs
    <2>4. \A q \in Frames : q <= d => q \in x.got
      <3> SUFFICES ASSUME NEW q \in Frames, q <= d PROVE q \in x.got
        OBVIOUS
      <3>1. q \in Nat
        BY <1>2, FramesAre
      <3>2. q < a
        BY <1>3, <1>4, <1>8, <3>1
      <3> QED BY <1>3, <3>2
    <2>5. ReaderIs(m, c, d)
      BY <1>2, <1>3, <1>4, <2>2, <2>3, <2>4 DEF ReaderIs
    <2>6. Step(p, m) /\ Stops(p, k.round, k.chunk, a, x.link)
      BY <1>1, <1>4, <1>8, <2>1 DEF WalkReader, WalkEnds
    <2>7. ManifestOK(m.view) /\ cur' = [cur EXCEPT ![p] = c] /\ ReadEnds(p) /\ ~Busy(m)
      BY <1>2, <2>1, <2>2, <2>6 DEF Stops, Busy
    <2> QED BY <1>2, <1>6, <2>2, <2>3, <2>5, <2>6, <2>7, ReaderQuiet
  <1> QED BY <1>4, <1>7, <1>8 DEF WalkReader

-----------------------------------------------------------------------------
(* The theorems                                                             *)

\* The invariant holds at first,
LEMMA InitInv == ASSUME Init PROVE IInv
  <1>1. MaxSeq \in Nat /\ MaxRound \in Nat /\ MaxCrash \in Nat /\ log = << >> /\ Len(log) = 0 /\ Frames = {}
    BY RoundsAssumption DEF Init, Frames
  <1>2. TypeOK
    <2>1. log \in Seq(Segment) /\ Len(log) <= MaxSeq
      BY <1>1
    <2>2. obj \in [Seqs -> Segment \cup {None}] /\ man \in ShardManifest /\ sealed = {} /\ crashes \in 0..MaxCrash
      BY <1>1, RestIs DEF Init
    <2>3. index \in [1..MaxRound -> RoundIndex] /\ wait \in [1..MaxRound -> SUBSET Procs]
      BY <1>1 DEF Init, NoIndex, RoundIndex
    <2>4. me \in [Procs -> Proc]
      BY RestIs DEF Init
    <2>5. cur \in [Readers -> Cursor] /\ due \in [Readers -> 0..MaxSeq]
      BY <1>1 DEF Init, Cursor
    <2> QED BY <2>1, <2>2, <2>3, <2>4, <2>5 DEF TypeOK, Proc, Cursor
  <1>3. man = NoManifest /\ man.last = 0 /\ man.upto = 0 /\ ManifestOK(NoManifest)
    BY <1>2, NoManifestOK DEF Init, NoManifest
  <1>4. \A r \in 1..MaxRound : index[r] = NoIndex
    BY DEF Init
  <1>5. \A q \in Seqs : obj[q] = None
    BY DEF Init
  <1>6. Store
    <2>1. ChainOK
      BY <1>1 DEF ChainOK, ResumesAtEnd
    <2>2. RoundsOK
      BY <1>1, <1>3, <1>4 DEF RoundsOK
    <2>3. SealedOK /\ ObjOK
      BY <1>1, <1>5 DEF Init, SealedOK, ObjOK
    <2> QED BY <1>3, <2>1, <2>2, <2>3 DEF Store
  <1>7. \A p \in Procs : me[p] = Rest
    BY DEF Init
  <1>8. Grace /\ \A s \in Sessions : OpenOK(s)
    BY <1>3, <1>7, RestIs DEF Grace, OpenOK, Procs
  <1>9. ASSUME NEW p \in Procs PROVE Own(p)
    <2>1. me[p] = Rest
      BY <1>7
    <2>2. ManifestOK(me[p].view) /\ SessionOK(p) /\ FolderOK(p)
      BY <1>3, <2>1, RestIs DEF SessionOK, SessionIs, FolderOK, FolderIs
    <2>3. ASSUME p \in Readers PROVE ReaderOK(p)
      <3>1. PICK k : k = cur[p] /\ k.round = 1 /\ k.chunk = 0 /\ k.seq = 0 /\ due[p] = 0
        BY <2>3 DEF Init
      <3>2. PlaceOK(1, 0, man.last) /\ \A q \in Frames : FALSE
        BY <1>1, <1>3 DEF PlaceOK
      <3> QED BY <1>1, <2>1, <3>1, <3>2, RestIs DEF ReaderOK, ReaderIs
    <2> QED BY <2>2, <2>3 DEF Own
  <1> QED BY <1>2, <1>6, <1>8, <1>9 DEF IInv

\* when nothing changes,
LEMMA StutterInv == ASSUME IInv, UNCHANGED vars PROVE IInv'
  <1>1. /\ log' = log /\ obj' = obj /\ man' = man /\ index' = index /\ sealed' = sealed /\ wait' = wait
        /\ me' = me /\ cur' = cur /\ due' = due /\ crashes' = crashes
    BY DEF vars
  <1>2. store' = store
    BY <1>1 DEF store
  <1>3. TypeOK' /\ Store' /\ Grace'
    <2>1. TypeOK' /\ Grace'
      BY <1>1 DEF IInv, TypeOK, Grace, UnderWay
    <2>2. ManifestOK(man)'
      BY <1>1, <1>2, SameStore DEF IInv, Store, ManifestOK, DigAt, Index
    <2>3. ObjOK'
      BY <1>1, <1>2, SameStore DEF IInv, Store, ObjOK
    <2> QED BY <1>2, <2>1, <2>2, <2>3, SameStore DEF IInv, Store
  <1>4. TypeOK /\ RoundsOK' /\ RoundsOK /\ Advance /\ WaitShrinks
    <2>1. man.last \in Nat /\ Len(log) \in Nat /\ TypeOK
      BY Types, ManifestIs DEF IInv
    <2>2. Advance /\ WaitShrinks
      BY <1>1, <2>1 DEF Advance, WaitShrinks
    <2> QED BY <1>3, <2>1, <2>2 DEF IInv, Store
  <1>5. ASSUME NEW p \in Procs PROVE Own(p)'
    <2>1. ManifestOK(me[p].view)'
      <3>1. PICK v : v = me[p].view
        OBVIOUS
      <3>2. v \in ShardManifest /\ ManifestOK(v)
        BY <1>4, <3>1, Types DEF IInv, Own, Proc
      <3>3. ManifestOK(v)'
        BY <1>3, <1>4, <3>2, KeepManifest
      <3> QED BY <1>1, <3>1, <3>3 DEF ManifestOK
    <2>2. p \in Sessions => SessionOK(p)'
      BY <1>1, <1>3, <1>4, KeepSession
    <2>3. p \in Folders => FolderOK(p)'
      BY <1>1, <1>3, <1>4, KeepFolder
    <2>4. p \in Readers => ReaderOK(p)'
      BY <1>1, <1>3, <1>4, KeepReader
    <2> QED BY <2>1, <2>2, <2>3, <2>4 DEF Own
  <1>6. ASSUME NEW s \in Sessions PROVE OpenOK(s)'
    BY <1>1 DEF IInv, OpenOK, LastSealer, EndAt, Frames
  <1> QED BY <1>3, <1>5, <1>6 DEF IInv

\* and after every step, if the grace outlasts every read.
LEMMA StepInv == ASSUME IInv, LongGrace, Next PROVE IInv'
  <1>1. ASSUME NEW s \in Sessions, Session(s) PROVE IInv'
    BY <1>1, LoadInv, ProbeInv, SealInv, CasInv, StreamEndInv, WalkSessionInv DEF Session
  <1>2. ASSUME NEW s \in Sessions, Write(s) PROVE IInv'
    BY <1>2, WriteInv
  <1>3. ASSUME NEW f \in Folders, Consolidate(f) PROVE IInv'
    BY <1>3, StartRoundInv, FindIndexInv, AdoptInv, WalkRoundInv, PutSealedInv, PutIndexInv, PublishInv DEF Consolidate
  <1>4. ASSUME NEW f \in Folders, GcLanding(f) PROVE IInv'
    BY <1>4, StartGcInv, GcRoundInv, GcDeleteInv, GcHintInv DEF GcLanding
  <1>5. ASSUME NEW p \in Readers, CatchUp(p) PROVE IInv'
    BY <1>5, PollInv, ReadChunkInv, NextRoundInv, StartTailInv, WalkReaderInv DEF CatchUp
  <1>6. ASSUME NEW p \in Procs, Crash(p) PROVE IInv'
    BY <1>6, CrashInv
  <1> QED BY <1>1, <1>2, <1>3, <1>4, <1>5, <1>6 DEF Next

\* So it always holds.
LEMMA Inductive == LongGrace => (Spec => []IInv)
  <1> SUFFICES ASSUME LongGrace PROVE Spec => []IInv
    OBVIOUS
  <1>1. Init => IInv
    BY InitInv
  <1>2. IInv /\ [Next]_vars => IInv'
    BY StepInv, StutterInv
  <1> QED BY <1>1, <1>2, PTL DEF Spec

\* Every variable keeps its type, the chain its bound and every process a
\* record of its kind, whatever sessions, folders and readers do to the shard.
THEOREM TypeCorrect == LongGrace => (Spec => []TypeOK)
  <1>1. IInv => TypeOK
    BY DEF IInv
  <1> QED BY <1>1, Inductive, PTL

\* Consolidation loses no window: with a grace that outlasts every read,
\* publish and gc_landing leave each frame in a published round's sealed object
\* or in its landing segment above the boundary.
THEOREM NothingIsLost == LongGrace => (Spec => []NothingLost)
  <1>1. ASSUME IInv PROVE NothingLost
    <2>1. TypeOK /\ RoundsOK /\ ObjOK /\ man.last \in Nat /\ man.upto \in Nat /\ Len(log) \in Nat
      BY <1>1, Types, ManifestIs DEF IInv, Store
    <2> SUFFICES ASSUME NEW q \in Frames
                 PROVE  \/ q > man.upto /\ obj[q] = log[q]
                        \/ \E r \in 1..man.last :
                             q \in index[r].first..index[r].last /\ q \in SealedFrames(r)
      BY DEF NothingLost
    <2>2. q \in Nat /\ q \in 1..Len(log) /\ q \in Seqs
      BY <2>1, FramesAre
    <2>3. ASSUME NEW r \in 1..man.last, Covers(r, q)
          PROVE  q \in index[r].first..index[r].last /\ q \in SealedFrames(r)
      <3>1. index[r] \in RoundIndex
        BY <2>1, Types, ManifestIs
      <3>2. q \in index[r].first..index[r].last
        BY <2>2, <2>3, <3>1 DEF Covers, RoundIndex
      <3> QED BY <1>1, <2>3, <3>2, SealedIs
    <2>4. CASE q <= man.upto
      BY <2>1, <2>2, <2>3, <2>4 DEF RoundsOK
    <2>5. CASE ~(q <= man.upto)
      <3>1. CASE obj[q] = None
        BY <2>1, <2>2, <2>3, <3>1 DEF ObjOK
      <3>2. CASE obj[q] # None
        BY <2>1, <2>2, <2>5, <3>2 DEF ObjOK
      <3> QED BY <3>1, <3>2
    <2> QED BY <2>4, <2>5
  <1> QED BY <1>1, Inductive, PTL

\* The published rounds tile the chain up to the boundary, and an index a
\* crashed folder left starts where they end: the BadRound arms of consolidate
\* cannot be reached.
THEOREM RoundsAlwaysTile == LongGrace => (Spec => []RoundsTile)
  <1>1. ASSUME IInv PROVE RoundsTile
    <2>1. TypeOK /\ RoundsOK /\ ManifestOK(man) /\ man.last \in Nat /\ man.last <= MaxRound /\ MaxRound \in Nat /\ Len(log) \in Nat
      BY <1>1, Types, ManifestIs DEF IInv, Store
    <2>2. ASSUME NEW r \in 1..MaxRound
          PROVE  /\ index[r] # NoIndex <=> r <= man.last \/ (r = man.last + 1 /\ index[r].first > 0)
                 /\ index[r] # NoIndex =>
                      /\ index[r].first = (IF r = 1 THEN 0 ELSE index[r - 1].last) + 1
                      /\ index[r].last \in index[r].first..Len(log)
      <3>1. index[r].first \in Nat /\ index[r].last \in Nat
        BY <2>1, Types DEF RoundIndex
      <3>2. ASSUME index[r] # NoIndex
            PROVE  /\ r <= man.last + 1 /\ 1 <= index[r].first
                   /\ index[r].first = (IF r = 1 THEN 0 ELSE index[r - 1].last) + 1
                   /\ index[r].first <= index[r].last /\ index[r].last <= Len(log)
        BY <2>1, <3>2 DEF RoundsOK
      <3>3. r <= man.last => index[r] # NoIndex
        BY <2>1 DEF RoundsOK
      <3>4. index[r].first > 0 => index[r] # NoIndex
        BY DEF NoIndex
      <3>5. index[r] # NoIndex => r <= man.last \/ (r = man.last + 1 /\ index[r].first > 0)
        BY <2>1, <3>1, <3>2
      <3>6. index[r] # NoIndex => index[r].last \in index[r].first..Len(log)
        BY <2>1, <3>1, <3>2
      <3> QED BY <3>2, <3>3, <3>4, <3>5, <3>6
    <2>3. man.upto = Index(man.last).last
      BY <2>1 DEF ManifestOK
    <2> QED BY <2>2, <2>3 DEF RoundsTile
  <1> QED BY <1>1, Inductive, PTL

\* A session opens exactly at the end of the durable stream: however folds and
\* deletions race its stream_end, no two windows of the chain carry the same
\* frames.
THEOREM AlwaysResumesAtEnd == LongGrace => (Spec => []ResumesAtEnd)
  <1>1. IInv => ResumesAtEnd
    BY DEF IInv, Store, ChainOK
  <1> QED BY <1>1, Inductive, PTL

\* A poll of catch_up_resuming that ends caught up has delivered every frame
\* that was durable when it began, across the cursors it resumed from and the
\* folds and deletions in between.
THEOREM AlwaysCaughtUp == LongGrace => (Spec => []CaughtUp)
  <1>1. ASSUME IInv PROVE CaughtUp
    <2> SUFFICES ASSUME NEW p \in Readers, me[p].pc = "caught", NEW q \in Frames, q \in 1..due[p]
                 PROVE  q \in me[p].got
      BY DEF CaughtUp
    <2>1. ReaderIs(me[p], cur[p], due[p]) /\ due[p] \in 0..MaxSeq
      BY <1>1, ReaderFacts
    <2>2. q <= due[p]
      BY <2>1
    <2> QED BY <2>1, <2>2 DEF ReaderIs
  <1> QED BY <1>1, Inductive, PTL
=============================================================================
