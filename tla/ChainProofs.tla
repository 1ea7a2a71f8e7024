---------------------------- MODULE ChainProofs ----------------------------
(* Theorems about the landing chain, for any number of sessions, any depth *)
(* of the pipeline, any sizes of windows and any number of faults.         *)
EXTENDS Chain, NaturalsInduction, WellFoundedInduction, TLAPS

-----------------------------------------------------------------------------
(* Facts about numbers and sets                                             *)

LEMMA LeastElement ==
  ASSUME NEW T, T \subseteq Nat, T # {}
  PROVE  \E x \in T : \A y \in T : x <= y
<1>1. PICK x \in T : \A y \in T : ~(<<y, x>> \in OpToRel(<, Nat))
  <2> DEFINE R == OpToRel(<, Nat)
  <2>1. IsWellFoundedOn(R, Nat)
    BY NatLessThanWellFounded
  <2> HIDE DEF R
  <2>2. \E x \in T : \A y \in T : ~(<<y, x>> \in R)
    BY <2>1, WFMin
  <2> QED BY <2>2 DEF R
<1>2. \A y \in T : ~(y < x)
  BY <1>1 DEF OpToRel
<1> QED BY <1>2

LEMMA MinIsLeast ==
  ASSUME NEW T, T \subseteq Nat, T # {}
  PROVE  Min(T) \in T /\ \A y \in T : Min(T) <= y
BY LeastElement DEF Min

LEMMA MaxIsGreatest ==
  ASSUME NEW T, T \subseteq Nat, T # {}, NEW b \in Nat, \A y \in T : y <= b
  PROVE  Max(T) \in T /\ \A y \in T : y <= Max(T)
<1>1. \E x \in T : \A y \in T : y <= x
  <2> DEFINE U == {m \in Nat : \A y \in T : y <= m}
  <2>1. b \in U /\ U \subseteq Nat
    OBVIOUS
  <2>2. PICK x \in U : \A m \in U : x <= m
    <3> HIDE DEF U
    <3> QED BY <2>1, LeastElement
  <2>3. CASE x \in T
    BY <2>2, <2>3
  <2>4. CASE x \notin T
    <3>1. \A y \in T : y \in Nat /\ y < x
      BY <2>2, <2>4
    <3>2. x \in Nat /\ x # 0
      <4>1. PICK y \in T : y \in Nat /\ y < x
        BY <3>1
      <4>2. x \in Nat
        BY <2>2
      <4> QED BY <4>1, <4>2
    <3>3. x - 1 \in Nat /\ \A y \in T : y <= x - 1
      BY <3>1, <3>2
    <3>4. x - 1 \in U
      BY <3>3
    <3> QED BY <2>2, <3>2, <3>4
  <2> QED BY <2>3, <2>4
<1> QED BY <1>1 DEF Max

\* Finitely many numbers have a largest.
LEMMA Bounded ==
  ASSUME NEW f, NEW n \in Nat, \A q \in 1..n : f[q] \in Nat
  PROVE  \E b \in Nat : \A q \in 1..n : f[q] <= b
<1> DEFINE T == {m \in 0..n : \A b \in Nat : \E q \in 1..m : ~(f[q] <= b)}
<1>1. T \subseteq Nat
  OBVIOUS
<1>2. CASE T = {}
  <2>1. n \in 0..n
    OBVIOUS
  <2>2. n \notin T
    BY <1>2
  <2> QED BY <2>1, <2>2
<1>3. CASE T # {}
  <2>1. PICK x \in T : \A y \in T : x <= y
    <3> HIDE DEF T
    <3> QED BY <1>1, <1>3, LeastElement
  <2>2. x \in 0..n /\ \A b \in Nat : \E q \in 1..x : ~(f[q] <= b)
    BY <2>1
  <2>3. x # 0
    BY <2>2
  <2>4. x - 1 \in 0..n /\ x - 1 \notin T
    <3>1. x \in Nat /\ x - 1 \in 0..n /\ ~(x <= x - 1)
      BY <2>2, <2>3
    <3> HIDE DEF T
    <3> QED BY <2>1, <3>1
  <2>5. PICK b \in Nat : \A q \in 1..(x - 1) : f[q] <= b
    BY <2>4
  <2>6. f[x] \in Nat
    BY <2>2, <2>3
  <2>7. PICK e : e = f[x]
    OBVIOUS
  <2>8. PICK c \in Nat : b <= c /\ e <= c
    <3>1. b + e \in Nat /\ b <= b + e /\ e <= b + e
      BY <2>6, <2>7
    <3> QED BY <3>1
  <2>9. \A q \in 1..x : f[q] <= c
    <3> SUFFICES ASSUME NEW q \in 1..x PROVE f[q] <= c
      OBVIOUS
    <3>1. CASE q = x
      BY <2>7, <2>8, <3>1
    <3>2. CASE q # x
      <4>1. q \in 1..(x - 1) /\ f[q] \in Nat
        BY <2>2, <3>2
      <4>2. f[q] <= b
        BY <2>5, <4>1
      <4> QED BY <2>8, <4>1, <4>2
    <3> QED BY <3>1, <3>2
  <2> QED BY <2>2, <2>9
<1> QED BY <1>2, <1>3

-----------------------------------------------------------------------------
(* Type correctness                                                        *)

\* Where the walk of the chain ends.
LEMMA WalkEndIs ==
  ASSUME TypeOK
  PROVE  WalkEnd \in 0..MaxSeq /\ Linked(WalkEnd) /\ \A q \in 0..MaxSeq : Linked(q) => q <= WalkEnd
<1> DEFINE T == {q \in 0..MaxSeq : Linked(q)}
<1>1. Linked(0)
  BY DEF Linked
<1>2. T \subseteq Nat /\ T # {} /\ MaxSeq \in Nat /\ \A y \in T : y <= MaxSeq
  BY <1>1, ChainAssumption
<1>3. Max(T) \in T /\ \A y \in T : y <= Max(T)
  <2> HIDE DEF T
  <2> QED BY <1>2, MaxIsGreatest
<1> QED BY <1>3 DEF WalkEnd

LEMMA StreamEndIs ==
  ASSUME TypeOK
  PROVE  Max({seg[q].end : q \in 1..WalkEnd} \cup {0}) \in Nat
<1>1. PICK n \in 0..MaxSeq : n = WalkEnd
  BY WalkEndIs
<1>2. \A q \in 1..n : seg[q].end \in Nat
  BY <1>1, ChainAssumption DEF TypeOK, Segment, None, Seqs
<1> DEFINE f == [q \in 1..n |-> seg[q].end]
<1>3. PICK b \in Nat : \A q \in 1..n : f[q] <= b
  <2>1. n \in Nat /\ \A q \in 1..n : f[q] \in Nat
    BY <1>1, <1>2, ChainAssumption
  <2> HIDE DEF f
  <2> QED BY <2>1, Bounded
<1> DEFINE T == {seg[q].end : q \in 1..n} \cup {0}
<1>4. T \subseteq Nat /\ T # {} /\ \A y \in T : y <= b
  BY <1>2, <1>3
<1>5. Max(T) \in T
  <2> HIDE DEF T
  <2> QED BY <1>4, MaxIsGreatest
<1> QED BY <1>1, <1>4, <1>5

LEMMA DiesTyped ==
  ASSUME TypeOK, NEW s \in Sessions, Dies(s)
  PROVE  /\ pc' \in [Sessions -> Pcs] /\ view' \in [Sessions -> ShardManifest]
         /\ head' \in [Sessions -> 0..MaxSeq]
         /\ dig' \in [Sessions -> Nat] /\ end' \in [Sessions -> Nat]
         /\ todo' \in [Sessions -> SUBSET Seqs] /\ seen' \in [Sessions -> SUBSET Seqs]
         /\ next' \in [Sessions -> 0..(MaxSeq + 1)] /\ ack' \in [Sessions -> 0..(MaxSeq + 1)]
         /\ win' \in [Sessions -> [Seqs -> Window \cup {NoWin}]]
<1>1. [epoch |-> 0, head |-> 0] \in ShardManifest /\ "dead" \in Pcs
  BY ChainAssumption DEF ShardManifest, Pcs
<1>2. [q \in Seqs |-> NoWin] \in [Seqs -> Window \cup {NoWin}]
  OBVIOUS
<1>3. 0 \in 0..MaxSeq /\ 0 \in 0..(MaxSeq + 1)
  BY ChainAssumption
<1> QED BY <1>1, <1>2, <1>3 DEF TypeOK, Dies, GoTo

\* The windows of the other sessions and the other windows of this one stay.
LEMMA WinBecomes ==
  ASSUME TypeOK, NEW s \in Sessions, NEW q \in Seqs, NEW at \in WinAt,
         win[s][q].at # "none", Becomes(s, q, at)
  PROVE  /\ win' \in [Sessions -> [Seqs -> Window \cup {NoWin}]]
         /\ win'[s][q].at = at /\ win'[s][q].seg = win[s][q].seg
         /\ \A r \in Seqs : r # q => win'[s][r] = win[s][r]
         /\ \A t \in Sessions : t # s => win'[t] = win[t]
<1>1. win[s][q] \in Window
  BY DEF TypeOK, NoWin
<1>2. PICK w : w = [win[s][q] EXCEPT !.at = at]
  OBVIOUS
<1>3. w \in Window /\ w.at = at /\ w.seg = win[s][q].seg
  BY <1>1, <1>2 DEF Window
<1>4. win' = [win EXCEPT ![s][q] = w]
  BY <1>2 DEF Becomes
<1> QED BY <1>3, <1>4 DEF TypeOK

\* A window that is out is one of the session's dispatched segments.
LEMMA WinTyped ==
  ASSUME TypeOK, NEW s \in Sessions, NEW q \in Seqs, win[s][q].at # "none"
  PROVE  win[s][q].at \in WinAt /\ win[s][q].seg \in Segment
BY DEF TypeOK, NoWin, Window

\* What the sweep does with the next position it found present.
LEMMA FetchSteps ==
  ASSUME TypeOK, NEW s \in Sessions, SweepFetch(s)
  PROVE  \/ /\ GoTo(s, "recover")
            /\ seen' = [seen EXCEPT ![s] = {}]
         \/ /\ GoTo(s, "sweep")
            /\ seen' = [seen EXCEPT ![s] = @ \ {Min(seen[s])}]
         \/ /\ GoTo(s, "delete") /\ seen[s] # {} /\ seg[Min(seen[s])].kind = "landing"
            /\ seen' = [seen EXCEPT ![s] = @]
<1>0. pc[s] = "sweep" /\ seen = [seen EXCEPT ![s] = @] /\ pc = [pc EXCEPT ![s] = "sweep"]
  BY DEF SweepFetch, TypeOK
<1>1. CASE seen[s] = {}
  BY <1>0, <1>1 DEF SweepFetch
<1>2. CASE seen[s] # {}
  <2>1. PICK q : q = Min(seen[s])
    OBVIOUS
  <2>2. q \in Seqs
    <3>1. seen[s] \subseteq Nat /\ seen[s] \subseteq Seqs
      BY DEF TypeOK, Seqs
    <3> QED BY <1>2, <2>1, <3>1, MinIsLeast
  <2>3. PICK k : k = seg[q].kind
    OBVIOUS
  <2>4. k \in {"none", "seal", "landing"}
    BY <2>2, <2>3 DEF TypeOK, Segment, None
  <2>5. /\ k = "none" => seen' = [seen EXCEPT ![s] = @ \ {q}] /\ UNCHANGED pc
        /\ k = "seal" => seen' = [seen EXCEPT ![s] = {}] /\ GoTo(s, "recover")
        /\ k = "landing" => GoTo(s, "delete") /\ UNCHANGED seen
    BY <1>2, <2>1, <2>3, <2>4 DEF SweepFetch
  <2> QED BY <1>0, <1>2, <2>1, <2>3, <2>4, <2>5 DEF GoTo
<1> QED BY <1>1, <1>2

LEMMA TypeInit == Init => TypeOK
BY ChainAssumption DEF Init, TypeOK, ShardManifest, Pcs, Seqs

LEMMA TypeTakeOver ==
  ASSUME TypeOK, NEW s \in Sessions, TakeOver(s) \/ SealRetried(s) \/ CasRetried(s)
  PROVE  TypeOK'
<1> USE ChainAssumption
<1>0. {"dead", "load", "probe", "digest", "seal", "cas", "sweep", "delete", "recover", "open"} \subseteq Pcs
  BY DEF Pcs
<1>s. SealSegment(s) \in Segment
  BY DEF SealSegment, Segment, TypeOK
<1>h. head[s] \in 0..MaxSeq /\ view[s] \in ShardManifest
  BY DEF TypeOK
<1>1. CASE Load(s)
  <2>1. man.head \in 0..MaxSeq
    BY DEF TypeOK, ShardManifest
  <2> QED BY <1>0, <1>1, <2>1 DEF Load, TypeOK, GoTo
<1>2. CASE Probe(s)
  <2>1. head[s] + 1 \in 0..MaxSeq
    BY <1>2, <1>h DEF Probe
  <2> QED BY <1>0, <1>2, <2>1 DEF Probe, TypeOK, GoTo
<1>3. CASE ReadDigest(s)
  <2>1. Digest(head[s]) \in Nat \/ ~(head[s] = 0 \/ Present(head[s]))
    BY DEF Digest, Present, None, TypeOK, Segment, Seqs
  <2>2. CASE Dies(s)
    BY <1>3, <2>2, DiesTyped DEF ReadDigest, TypeOK
  <2>3. CASE ~Dies(s)
    BY <1>0, <1>3, <2>1, <2>3 DEF ReadDigest, TypeOK, GoTo
  <2> QED BY <2>2, <2>3
<1>4. CASE Seal(s) \/ SealRetried(s)
  <2>1. SealAt(s) => head[s] + 1 \in Seqs /\ head[s] + 1 \in 0..MaxSeq
    BY DEF SealAt, Seqs
  <2>2. faults < MaxFaults => faults + 1 \in 0..MaxFaults
    BY DEF TypeOK
  <2>3. seg' \in [Seqs -> Segment \cup {None}]
    BY <1>4, <1>s, <2>1 DEF Seal, SealRetried, TypeOK, Put
  <2>4. head' \in [Sessions -> 0..MaxSeq]
    BY <1>4, <2>1 DEF Seal, SealRetried, TypeOK
  <2>5. pc' \in [Sessions -> Pcs]
    BY <1>0, <1>4 DEF Seal, SealRetried, TypeOK, GoTo, AfterOccupied
  <2>6. faults' \in 0..MaxFaults
    BY <1>4, <2>2 DEF Seal, SealRetried, TypeOK
  <2> QED BY <1>4, <2>3, <2>4, <2>5, <2>6 DEF Seal, SealRetried, TypeOK
<1>5. CASE Cas(s) \/ CasRetried(s)
  <2>1. NextManifest(s) \in ShardManifest
    BY <1>h DEF NextManifest, ShardManifest
  <2>2. (head[s] + 1)..MaxSeq \subseteq Seqs
    BY <1>h DEF Seqs
  <2>3. faults < MaxFaults => faults + 1 \in 0..MaxFaults
    BY DEF TypeOK
  <2> HIDE ChainAssumption
  <2> QED BY <1>0, <1>5, <2>1, <2>2, <2>3 DEF Cas, CasRetried, TypeOK, GoTo
<1>6. CASE \E q \in Seqs : SweepProbe(s, q)
  BY <1>6 DEF SweepProbe, TypeOK
<1>7. CASE SweepFetch(s) \/ SweepDelete(s)
  <2>1. CASE SweepFetch(s)
    <3>1. \E S \in SUBSET seen[s], to \in Pcs : seen' = [seen EXCEPT ![s] = S] /\ GoTo(s, to)
      BY <1>0, <2>1, FetchSteps
    <3> QED BY <2>1, <3>1 DEF SweepFetch, TypeOK, GoTo
  <2>2. CASE SweepDelete(s)
    <3>1. PICK q : q = Min(seen[s])
      OBVIOUS
    <3>2. None \in Segment \cup {None}
      OBVIOUS
    <3> QED BY <1>0, <2>2, <3>1, <3>2 DEF SweepDelete, TypeOK, GoTo, Put
  <2> QED BY <1>7, <2>1, <2>2
<1>8. CASE Recover(s)
  <2>1. PICK e \in Nat : e = Max({seg[q].end : q \in 1..WalkEnd} \cup {0})
    BY StreamEndIs
  <2>2. head[s] + 1 \in 0..(MaxSeq + 1)
    BY <1>h
  <2>3. CASE Dies(s)
    BY <1>8, <2>3, DiesTyped DEF Recover, TypeOK
  <2>4. CASE ~Dies(s)
    <3>1. /\ end' = [end EXCEPT ![s] = e] /\ dig' = [dig EXCEPT ![s] = 0]
          /\ next' = [next EXCEPT ![s] = head[s] + 1] /\ ack' = [ack EXCEPT ![s] = head[s] + 1]
          /\ GoTo(s, "open")
          /\ UNCHANGED <<view, head, todo, seen, win, seg, man, faults, acked>>
      BY <1>8, <2>1, <2>4 DEF Recover
    <3> QED BY <1>0, <2>2, <3>1 DEF TypeOK, GoTo
  <2> QED BY <2>3, <2>4
<1> QED BY <1>1, <1>2, <1>3, <1>4, <1>5, <1>6, <1>7, <1>8 DEF TakeOver

LEMMA TypeWriter ==
  ASSUME TypeOK, NEW s \in Sessions,
         Send(s) \/ Crash(s) \/ \E q \in Seqs : PutWorker(s, q) \/ LandRetried(s, q) \/ Resolve(s, q)
  PROVE  TypeOK'
<1> USE ChainAssumption
<1>1. CASE Crash(s)
  BY <1>1, DiesTyped DEF Crash, TypeOK
<1>2. CASE Send(s)
  <2>1. PICK size \in Sizes :
          /\ win' = [win EXCEPT ![s][next[s]] = [at |-> "put", seg |-> LandingSegment(s, size)]]
          /\ end' = [end EXCEPT ![s] = @ + size]
          /\ dig' = [dig EXCEPT ![s] = end[s] + size]
    BY <1>2 DEF Send
  <2>2. end[s] + size \in Nat /\ dig[s] \in Nat
    BY DEF TypeOK
  <2>3. next[s] + 1 \in 0..(MaxSeq + 1)
    BY <1>2 DEF Send, TypeOK
  <2>4. [at |-> "put", seg |-> LandingSegment(s, size)] \in Window
    BY <2>2 DEF LandingSegment, Window, WinAt, Segment
  <2>5. win' \in [Sessions -> [Seqs -> Window \cup {NoWin}]]
    BY <2>1, <2>4 DEF TypeOK
  <2>6. end' \in [Sessions -> Nat] /\ dig' \in [Sessions -> Nat] /\ next' \in [Sessions -> 0..(MaxSeq + 1)]
    BY <1>2, <2>1, <2>2, <2>3 DEF Send, TypeOK
  <2> QED BY <1>2, <2>5, <2>6 DEF Send, TypeOK
<1>3. ASSUME NEW q \in Seqs, PutWorker(s, q) \/ LandRetried(s, q)
      PROVE  TypeOK'
  <2>1. \E at \in WinAt : Becomes(s, q, at) /\ win[s][q].at # "none"
    BY <1>3 DEF PutWorker, Land, LandRetried, Taken, CheckKind, CheckHead, Clear, At, WinAt, AfterTaken
  <2>2. win' \in [Sessions -> [Seqs -> Window \cup {NoWin}]]
    BY <2>1, WinBecomes
  <2>3. seg' \in [Seqs -> Segment \cup {None}]
    BY <1>3, <2>1, WinTyped DEF PutWorker, Land, LandRetried, Taken, CheckKind, CheckHead, Clear, Put, TypeOK
  <2>4. faults' \in 0..MaxFaults
    BY <1>3 DEF PutWorker, Land, LandRetried, Taken, CheckKind, CheckHead, Clear, TypeOK
  <2>5. Worker
    BY <1>3 DEF PutWorker, Land, LandRetried, Taken, CheckKind, CheckHead, Clear
  <2> QED BY <2>2, <2>3, <2>4, <2>5 DEF Worker, TypeOK
<1>4. ASSUME NEW q \in Seqs, Resolve(s, q)
      PROVE  TypeOK'
  <2>1. win[s][q].at # "none"
    BY <1>4 DEF Resolve, Ready
  <2>2. [seq |-> q, seg |-> win[s][q].seg] \in [seq: Seqs, seg: Segment]
    BY <2>1, WinTyped
  <2>3. ack[s] + 1 \in 0..(MaxSeq + 1)
    BY <1>4 DEF Resolve, Ready, Seqs
  <2>4. acked' \subseteq [seq: Seqs, seg: Segment] /\ pc' \in [Sessions -> Pcs]
    <3>1. acked' \subseteq acked \cup {[seq |-> q, seg |-> win[s][q].seg]}
      BY <1>4 DEF Resolve
    <3>2. acked \subseteq [seq: Seqs, seg: Segment]
      BY DEF TypeOK
    <3>3. pc' \in [Sessions -> Pcs]
      BY <1>4 DEF Resolve, TypeOK, GoTo, Pcs
    <3> QED BY <2>2, <3>1, <3>2, <3>3
  <2>5. win' \in [Sessions -> [Seqs -> Window \cup {NoWin}]] /\ ack' \in [Sessions -> 0..(MaxSeq + 1)]
    BY <1>4, <2>3 DEF Resolve, TypeOK
  <2> QED BY <1>4, <2>4, <2>5 DEF Resolve, TypeOK
<1> QED BY <1>1, <1>2, <1>3, <1>4

LEMMA TypeStep ==
  ASSUME TypeOK, [Next]_vars
  PROVE  TypeOK'
<1>1. CASE UNCHANGED vars
  BY <1>1 DEF vars, session, TypeOK
<1>2. CASE Next
  BY <1>2, TypeTakeOver, TypeWriter DEF Next
<1> QED BY <1>1, <1>2

\* Every variable keeps its type: positions stay within the chain, a window
\* on its way carries a segment, and stream_end finds a number to resume at.
THEOREM TypeCorrect == Spec => []TypeOK
BY TypeInit, TypeStep, PTL DEF Spec

-----------------------------------------------------------------------------
(* The inductive invariant                                                 *)

\* Between the swap that recorded the session's seal and the session's end.
Reigning == {"sweep", "delete", "recover", "open", "poisoned"}
Serving == {"open", "poisoned"}

OwnSeal(s) ==
  head[s] \in Seqs /\ seg[head[s]].kind = "seal" /\ seg[head[s]].by = s /\ seg[head[s]].end = 0

\* No hole below the recorded head.
Holds == \A q \in 1..man.head : Present(q)

\* While a sweep may delete, no takeover that could still win is under way.
Fenced ==
  \A s, t \in Sessions :
    pc[s] \in {"sweep", "delete"} /\ pc[t] \in Claiming => view[t].epoch < man.epoch

\* A takeover whose manifest is still the present one has walked past every
\* hole, and past everything acknowledged.
Claims(s) ==
  /\ pc[s] \in Claiming => view[s].epoch <= man.epoch /\ view[s].head <= head[s]
  /\ pc[s] \in Claiming /\ view[s] = man => \A q \in 1..head[s] : Present(q)
  /\ pc[s] = "cas" => view[s].head < head[s] /\ OwnSeal(s)
  /\ pc[s] = "cas" /\ view[s] = man => \A a \in acked : a.seq < head[s]

Reigns(s) == pc[s] \in Reigning => head[s] <= man.head /\ OwnSeal(s)

\* The sweep visits only what is above the head, and nothing there is
\* acknowledged until its session serves.
Sweeps(s) ==
  /\ pc[s] \in {"sweep", "delete"} =>
       head[s] = man.head /\ \A q \in todo[s] \cup seen[s] : q > head[s]
  /\ pc[s] = "delete" => seen[s] # {} /\ seg[Min(seen[s])].kind = "landing"
  /\ pc[s] \in {"sweep", "delete", "recover"} /\ head[s] = man.head =>
       \A a \in acked : a.seq <= head[s]

\* The windows out are those from next_ack to next_seq; one that landed is
\* still there, or a rival's seal has cut it off.
Windows(s) ==
  /\ pc[s] \notin Serving => \A q \in Seqs : win[s][q].at = "none"
  /\ pc[s] \in Serving =>
       /\ head[s] < ack[s] /\ ack[s] <= next[s]
       /\ \A q \in Seqs : win[s][q].at # "none" <=> q \in ack[s]..(next[s] - 1)
       /\ \A q \in Seqs : win[s][q].at # "none" => win[s][q].seg.kind = "landing"
       /\ head[s] = man.head => \A a \in acked : a.seq < ack[s]
  /\ \A q \in Seqs :
       /\ win[s][q].at \in {"landing", "litter"} /\ head[s] = man.head => seg[q].kind = "landing"
       /\ win[s][q].at = "ok" =>
            seg[q] = win[s][q].seg \/ \E r \in (head[s] + 1)..(q - 1) : seg[r].kind = "seal"

\* What an open session has acknowledged links up from its seal, and each
\* window out links to the one before it.
Streams(s) ==
  pc[s] = "open" =>
    /\ Linked(head[s])
    /\ \A q \in (head[s] + 1)..(ack[s] - 1) : seg[q].kind = "landing" /\ seg[q].prev = Digest(q - 1)
    /\ \A q \in ack[s]..(next[s] - 1) :
         win[s][q].seg.prev = IF q = ack[s] THEN Digest(q - 1) ELSE win[s][q - 1].seg.end
    /\ dig[s] = IF next[s] = ack[s] THEN Digest(ack[s] - 1) ELSE win[s][next[s] - 1].seg.end

Own(s) == Claims(s) /\ Reigns(s) /\ Sweeps(s) /\ Windows(s) /\ Streams(s)

IInv == TypeOK /\ Holds /\ Fenced /\ (\A s \in Sessions : Own(s)) /\ AckedReachable

-----------------------------------------------------------------------------
(* What a step of one session leaves alone                                 *)

Same(t) ==
  /\ pc'[t] = pc[t] /\ view'[t] = view[t] /\ head'[t] = head[t] /\ dig'[t] = dig[t]
  /\ todo'[t] = todo[t] /\ seen'[t] = seen[t] /\ next'[t] = next[t] /\ ack'[t] = ack[t]
  /\ win'[t] = win[t]

\* The store is as it was: the step read it, or touched the session only.
Quiet == seg' = seg /\ man' = man /\ acked' = acked

\* A put_if_absent that applied.
Puts(p, x) ==
  ~Present(p) /\ seg' = [seg EXCEPT ![p] = x] /\ man' = man /\ acked' = acked

\* A delete above the head of the session that reigns.
Cuts(o, p) ==
  /\ seg[p].kind = "landing" /\ p > man.head
  /\ seg' = [seg EXCEPT ![p] = None] /\ man' = man /\ acked' = acked
  /\ pc[o] \in Reigning /\ head[o] = man.head
  /\ \A t \in Sessions \ {o} : pc[t] \in Claiming => view[t] # man
  /\ \A a \in acked : a.seq < p

Swaps(o) ==
  /\ pc[o] = "cas" /\ view[o] = man /\ man' = NextManifest(o)
  /\ seg' = seg /\ acked' = acked

\* An acknowledgement of the window at q.
Acks(o, q) ==
  /\ pc[o] = "open" /\ q = ack[o] /\ win[o][q].at = "ok"
  /\ acked' = acked \cup {[seq |-> q, seg |-> win[o][q].seg]}
  /\ seg' = seg /\ man' = man

-----------------------------------------------------------------------------
(* What each kind of step does to the sessions that do not take it         *)

LEMMA SessionTyped ==
  ASSUME TypeOK, NEW s \in Sessions
  PROVE  /\ head[s] \in 0..MaxSeq /\ next[s] \in 0..(MaxSeq + 1) /\ ack[s] \in 0..(MaxSeq + 1)
         /\ view[s].epoch \in Nat /\ view[s].head \in 0..MaxSeq
         /\ man.epoch \in Nat /\ man.head \in 0..MaxSeq
         /\ MaxSeq \in Nat
BY ChainAssumption DEF TypeOK, ShardManifest

LEMMA LinkedStays ==
  ASSUME TypeOK, NEW q \in 0..MaxSeq, Linked(q), \A r \in 1..q : seg'[r] = seg[r]
  PROVE  Linked(q)'
<1> SUFFICES ASSUME NEW r \in 1..q
             PROVE  Present(r)' /\ seg'[r].prev = Digest(r - 1)'
  BY DEF Linked
<1>1. Present(r) /\ seg[r].prev = Digest(r - 1) /\ MaxSeq \in Nat
  BY ChainAssumption DEF Linked
<1>2. r - 1 = 0 \/ r - 1 \in 1..q
  BY <1>1
<1> QED BY <1>1, <1>2 DEF Present, Digest

\* Two reigning sessions do not share a seal.
LEMMA OneSeal ==
  ASSUME NEW s, NEW t, OwnSeal(s), OwnSeal(t), head[s] = head[t]
  PROVE  s = t
BY DEF OwnSeal

LEMMA QuietBystander ==
  ASSUME IInv, Quiet, NEW t \in Sessions, Same(t)
  PROVE  Own(t)'
<1>1. Own(t)
  BY DEF IInv
<1>2. Claims(t)' /\ Reigns(t)' /\ Sweeps(t)'
  BY <1>1 DEF Own, Same, Quiet, Claims, Reigns, Sweeps, OwnSeal, Present
<1>3. Windows(t)'
  BY <1>1 DEF Own, Same, Quiet, Windows
<1>4. Streams(t)'
  BY <1>1 DEF Own, Same, Quiet, Streams, Linked, Digest, Present
<1> QED BY <1>2, <1>3, <1>4 DEF Own

LEMMA PutsKeep ==
  ASSUME TypeOK, NEW p \in Seqs, NEW x \in Segment, Puts(p, x), NEW q, Present(q), q \in Seqs
  PROVE  seg'[q] = seg[q] /\ Present(q)'
BY DEF Puts, Present, TypeOK

LEMMA LandingPresent ==
  \A q : seg[q].kind \in {"landing", "seal"} => Present(q)
BY DEF Present

\* An open session's chain has no hole below the window it acknowledges next.
LEMMA StreamPresent ==
  ASSUME TypeOK, NEW t \in Sessions, Own(t), pc[t] = "open"
  PROVE  /\ head[t] \in 1..(ack[t] - 1)
         /\ \A q \in 1..(ack[t] - 1) : q \in Seqs /\ seg[q].kind \in {"landing", "seal"}
<1>1. /\ OwnSeal(t) /\ head[t] < ack[t] /\ Linked(head[t])
      /\ \A q \in (head[t] + 1)..(ack[t] - 1) : seg[q].kind = "landing"
  BY DEF Own, Reigns, Windows, Streams, Reigning, Serving
<1>2. head[t] \in 0..MaxSeq /\ ack[t] \in 0..(MaxSeq + 1) /\ MaxSeq \in Nat
  BY SessionTyped
<1>3. head[t] \in 1..(ack[t] - 1)
  BY <1>1, <1>2 DEF OwnSeal, Seqs
<1>4. ASSUME NEW q \in 1..(ack[t] - 1)
      PROVE  q \in Seqs /\ seg[q].kind \in {"landing", "seal"}
  <2>1. q \in Seqs
    BY <1>2 DEF Seqs
  <2>2. q \in 1..head[t] \/ q \in (head[t] + 1)..(ack[t] - 1)
    BY <1>2
  <2>3. Present(q)
    BY <1>1, <2>2 DEF Linked, Present
  <2> QED BY <2>1, <2>3 DEF TypeOK, Present, Segment, None
<1> QED BY <1>3, <1>4

SameStream(t) ==
  /\ pc'[t] = pc[t] /\ head'[t] = head[t] /\ dig'[t] = dig[t]
  /\ next'[t] = next[t] /\ ack'[t] = ack[t]
  /\ \A q \in Seqs : win'[t][q].seg = win[t][q].seg

LEMMA SameIsSameStream ==
  ASSUME NEW t, Same(t)
  PROVE  SameStream(t)
BY DEF Same, SameStream

\* A session's stream is sound while the chain below its next_ack stands.
LEMMA StreamsStay ==
  ASSUME TypeOK, NEW t \in Sessions, Own(t), SameStream(t),
         pc[t] = "open" => \A q \in 1..(ack[t] - 1) : seg'[q] = seg[q]
  PROVE  Streams(t)'
<1> SUFFICES ASSUME pc[t] = "open"
             PROVE  Streams(t)'
  BY DEF Streams, SameStream
<1>1. PICK h, a, n : h = head[t] /\ a = ack[t] /\ n = next[t]
  OBVIOUS
<1>2. h \in 1..(a - 1) /\ a \in Nat /\ n \in Nat /\ h \in 0..MaxSeq /\ n \in 0..(MaxSeq + 1) /\ MaxSeq \in Nat
  BY <1>1, SessionTyped, StreamPresent
<1>3. \A q \in 1..(a - 1) : seg'[q] = seg[q]
  BY <1>1
<1>4. \A q \in 0..(a - 1) : Digest(q)' = Digest(q)
  <2> SUFFICES ASSUME NEW q \in 0..(a - 1) PROVE Digest(q)' = Digest(q)
    OBVIOUS
  <2>1. q = 0 \/ q \in 1..(a - 1)
    BY <1>2
  <2> QED BY <1>3, <2>1 DEF Digest
<1>5. /\ Linked(h)
      /\ \A q \in (h + 1)..(a - 1) : seg[q].kind = "landing" /\ seg[q].prev = Digest(q - 1)
      /\ \A q \in a..(n - 1) : win[t][q].seg.prev = IF q = a THEN Digest(q - 1) ELSE win[t][q - 1].seg.end
      /\ dig[t] = IF n = a THEN Digest(a - 1) ELSE win[t][n - 1].seg.end
  BY <1>1 DEF Own, Streams
<1>6. Linked(h)'
  <2>1. \A r \in 1..h : seg'[r] = seg[r]
    BY <1>2, <1>3
  <2> QED BY <1>2, <1>5, <2>1, LinkedStays
<1>7. \A q \in (h + 1)..(a - 1) : seg'[q].kind = "landing" /\ seg'[q].prev = Digest(q - 1)'
  <2> SUFFICES ASSUME NEW q \in (h + 1)..(a - 1)
               PROVE  seg'[q].kind = "landing" /\ seg'[q].prev = Digest(q - 1)'
    OBVIOUS
  <2>1. q \in 1..(a - 1) /\ q - 1 \in 0..(a - 1)
    BY <1>2
  <2>2. Digest(q - 1)' = Digest(q - 1)
    BY <1>4, <2>1
  <2> QED BY <1>3, <1>5, <2>1, <2>2
<1>8. Digest(a - 1)' = Digest(a - 1)
  <2>1. a - 1 \in 0..(a - 1)
    BY <1>2
  <2> QED BY <1>4, <2>1
<1>9. \A q \in a..(n - 1) : q \in Seqs
  BY <1>2 DEF Seqs
<1>10. \A q \in a..(n - 1) :
         win'[t][q].seg.prev = IF q = a THEN Digest(q - 1)' ELSE win'[t][q - 1].seg.end
  <2> SUFFICES ASSUME NEW q \in a..(n - 1)
               PROVE  win'[t][q].seg.prev = IF q = a THEN Digest(q - 1)' ELSE win'[t][q - 1].seg.end
    OBVIOUS
  <2>1. win'[t][q].seg = win[t][q].seg
    BY <1>9 DEF SameStream
  <2>2. CASE q = a
    BY <1>5, <1>8, <2>1, <2>2
  <2>3. CASE q # a
    <3>1. q - 1 \in a..(n - 1)
      BY <1>2, <2>3
    <3>2. win'[t][q - 1].seg = win[t][q - 1].seg
      BY <1>9, <3>1 DEF SameStream
    <3> QED BY <1>5, <2>1, <2>3, <3>2
  <2> QED BY <2>2, <2>3
<1>11. dig[t] = IF n = a THEN Digest(a - 1)' ELSE win'[t][n - 1].seg.end
  <2>1. CASE n = a
    BY <1>5, <1>8, <2>1
  <2>2. CASE n # a
    <3>1. a <= n
      BY <1>1 DEF Own, Windows, Serving
    <3>2. n - 1 \in a..(n - 1)
      BY <1>2, <2>2, <3>1
    <3>3. win'[t][n - 1].seg = win[t][n - 1].seg
      BY <1>9, <3>2 DEF SameStream
    <3> QED BY <1>5, <2>2, <3>3
  <2> QED BY <2>1, <2>2
<1>12. head'[t] = h /\ ack'[t] = a /\ next'[t] = n /\ dig'[t] = dig[t]
  BY <1>1 DEF SameStream
<1> QED BY <1>6, <1>7, <1>10, <1>11, <1>12 DEF Streams

LEMMA PutsBystander ==
  ASSUME IInv, NEW p \in Seqs, NEW x \in Segment, Puts(p, x), NEW t \in Sessions, Same(t)
  PROVE  Own(t)'
<1>1. Own(t) /\ TypeOK
  BY DEF IInv
<1>2. \A q \in Seqs : Present(q) => seg'[q] = seg[q] /\ Present(q)'
  BY <1>1, PutsKeep
<1>3. man' = man /\ acked' = acked
  BY DEF Puts
<1>4. OwnSeal(t) => OwnSeal(t)'
  BY <1>2 DEF OwnSeal, Same, Present
<1>5. Claims(t)'
  <2>1. (1..head[t]) \subseteq Seqs
    BY <1>1, SessionTyped DEF Seqs
  <2> QED BY <1>1, <1>2, <1>3, <1>4, <2>1 DEF Own, Same, Claims
<1>6. Reigns(t)'
  BY <1>1, <1>3, <1>4 DEF Own, Same, Reigns
<1>7. Sweeps(t)'
  <2>1. pc[t] = "delete" => Min(seen[t]) \in Seqs
    <3>1. seen[t] \subseteq Nat /\ seen[t] \subseteq Seqs
      BY <1>1 DEF TypeOK, Seqs
    <3> QED BY <1>1, <3>1, MinIsLeast DEF Own, Sweeps
  <2>2. PICK m : m = Min(seen[t])
    OBVIOUS
  <2>3. pc[t] = "delete" => seen[t] # {} /\ seg[m].kind = "landing" /\ m \in Seqs
    BY <1>1, <2>1, <2>2 DEF Own, Sweeps
  <2>4. pc[t] = "delete" => seg'[m].kind = "landing"
    BY <1>2, <2>3 DEF Present
  <2> QED BY <1>1, <1>3, <2>2, <2>3, <2>4 DEF Own, Same, Sweeps
<1>8. Windows(t)'
  <2>1. ASSUME NEW q \in Seqs
        PROVE  /\ (win[t][q].at \in {"landing", "litter"} /\ head[t] = man.head => seg'[q].kind = "landing")
               /\ (win[t][q].at = "ok" =>
                     seg'[q] = win[t][q].seg \/ \E r \in (head[t] + 1)..(q - 1) : seg'[r].kind = "seal")
    <3>1. win[t][q].at \in {"landing", "litter"} /\ head[t] = man.head => seg'[q].kind = "landing"
      BY <1>1, <1>2 DEF Own, Windows, Present
    <3>2. ASSUME win[t][q].at = "ok", seg[q] = win[t][q].seg
          PROVE  seg'[q] = win[t][q].seg
      <4>1. win[t][q].seg \in Segment
        BY <1>1, <3>2, WinTyped
      <4> QED BY <1>2, <3>2, <4>1 DEF Segment, Present
    <3>3. ASSUME NEW r \in (head[t] + 1)..(q - 1), seg[r].kind = "seal"
          PROVE  seg'[r].kind = "seal"
      <4>1. r \in Seqs
        BY <1>1, SessionTyped DEF Seqs
      <4> QED BY <1>2, <3>3, <4>1 DEF Present
    <3>4. win[t][q].at = "ok" =>
            seg[q] = win[t][q].seg \/ \E r \in (head[t] + 1)..(q - 1) : seg[r].kind = "seal"
      BY <1>1 DEF Own, Windows
    <3> QED BY <3>1, <3>2, <3>3, <3>4
  <2> QED BY <1>1, <1>3, <2>1 DEF Own, Same, Windows
<1>9. Streams(t)'
  <2> SUFFICES ASSUME pc[t] = "open" PROVE \A q \in 1..(ack[t] - 1) : seg'[q] = seg[q]
    BY <1>1, StreamsStay, SameIsSameStream
  <2>1. \A q \in 1..(ack[t] - 1) : q \in Seqs /\ Present(q)
    BY <1>1, StreamPresent DEF Present
  <2> QED BY <1>2, <2>1
<1> QED BY <1>5, <1>6, <1>7, <1>8, <1>9 DEF Own

\* A reigning session other than the one that cuts has its seal below it.
LEMMA CutsAbove ==
  ASSUME IInv, NEW o \in Sessions, NEW p \in Seqs, Cuts(o, p),
         NEW t \in Sessions, t # o, pc[t] \in Reigning
  PROVE  head[t] < man.head /\ man.head \in Seqs /\ seg[man.head].kind = "seal"
<1>1. OwnSeal(o) /\ OwnSeal(t) /\ head[t] <= man.head /\ head[o] = man.head
  BY DEF IInv, Own, Reigns, Cuts
<1>2. head[t] # man.head
  BY <1>1, OneSeal
<1>3. head[t] \in 0..MaxSeq /\ man.head \in 0..MaxSeq
  BY SessionTyped DEF IInv
<1> QED BY <1>1, <1>2, <1>3 DEF OwnSeal

LEMMA CutsBystander ==
  ASSUME IInv, NEW o \in Sessions, NEW p \in Seqs, Cuts(o, p),
         NEW t \in Sessions, t # o, Same(t)
  PROVE  Own(t)'
<1>1. Own(t) /\ TypeOK
  BY DEF IInv
<1>2. \A q \in Seqs : q # p => seg'[q] = seg[q]
  BY <1>1 DEF Cuts, TypeOK
<1>3. man' = man /\ acked' = acked /\ seg[p].kind = "landing" /\ p > man.head
  BY DEF Cuts
<1>4. OwnSeal(t) => OwnSeal(t)'
  BY <1>2, <1>3 DEF OwnSeal, Same
<1>5. Claims(t)'
  <2>1. pc[t] \in Claiming => view[t] # man
    BY DEF Cuts
  <2>2. "cas" \in Claiming
    BY DEF Claiming
  <2> QED BY <1>1, <1>3, <1>4, <2>1, <2>2 DEF Own, Same, Claims
<1>6. Reigns(t)'
  BY <1>1, <1>3, <1>4 DEF Own, Same, Reigns
<1>0. p \in Nat /\ man.head \in 0..MaxSeq /\ head[t] \in 0..MaxSeq /\ MaxSeq \in Nat
  BY <1>1, SessionTyped DEF Seqs
<1>7. Sweeps(t)'
  <2>1. pc[t] \in {"sweep", "delete", "recover"} => head[t] # man.head
    BY <1>0, CutsAbove DEF Reigning
  <2>2. pc[t] \notin {"sweep", "delete"}
    BY <1>1, <2>1 DEF Own, Sweeps
  <2> QED BY <1>3, <2>1, <2>2 DEF Same, Sweeps
<1>8. Windows(t)'
  <2>1. ASSUME NEW q \in Seqs
        PROVE  /\ (win[t][q].at \in {"landing", "litter"} => head[t] # man.head)
               /\ (win[t][q].at = "ok" =>
                     seg'[q] = win[t][q].seg \/ \E r \in (head[t] + 1)..(q - 1) : seg'[r].kind = "seal")
    <3> SUFFICES ASSUME win[t][q].at # "none"
                 PROVE  /\ head[t] # man.head
                        /\ (win[t][q].at = "ok" =>
                              seg'[q] = win[t][q].seg \/ \E r \in (head[t] + 1)..(q - 1) : seg'[r].kind = "seal")
      OBVIOUS
    <3>1. pc[t] \in Reigning
      BY <1>1 DEF Own, Windows, Reigning, Serving
    <3>2. head[t] < man.head /\ man.head \in Seqs /\ seg[man.head].kind = "seal"
      BY <3>1, CutsAbove
    <3>3. CASE q = p
      <4>1. man.head \in (head[t] + 1)..(q - 1) /\ man.head # p
        BY <1>0, <1>3, <3>2, <3>3
      <4>2. seg'[man.head].kind = "seal"
        BY <1>2, <3>2, <4>1
      <4> QED BY <1>0, <3>2, <4>1, <4>2
    <3>4. CASE q # p
      <4>1. ASSUME NEW r \in (head[t] + 1)..(q - 1), seg[r].kind = "seal"
            PROVE  seg'[r].kind = "seal"
        <5>1. r \in Seqs /\ r # p
          BY <1>0, <1>3, <4>1 DEF Seqs
        <5> QED BY <1>2, <4>1, <5>1
      <4>2. win[t][q].at = "ok" =>
              seg[q] = win[t][q].seg \/ \E r \in (head[t] + 1)..(q - 1) : seg[r].kind = "seal"
        BY <1>1 DEF Own, Windows
      <4>3. head[t] # man.head
        BY <1>0, <3>2
      <4>4. seg'[q] = seg[q]
        BY <1>2, <3>4
      <4> QED BY <4>1, <4>2, <4>3, <4>4
    <3> QED BY <3>3, <3>4
  <2> QED BY <1>1, <1>3, <2>1 DEF Own, Same, Windows
<1>9. Streams(t)'
  <2> SUFFICES ASSUME pc[t] = "open" PROVE \A q \in 1..(ack[t] - 1) : seg'[q] = seg[q]
    BY <1>1, StreamsStay, SameIsSameStream
  <2>1. head[t] < man.head /\ man.head \in Seqs /\ seg[man.head].kind = "seal"
    BY CutsAbove DEF Reigning
  <2>2. \A q \in (head[t] + 1)..(ack[t] - 1) : seg[q].kind = "landing"
    BY <1>1 DEF Own, Streams
  <2>3. ack[t] \in Nat
    BY <1>1, SessionTyped
  <2>4. ~(man.head <= ack[t] - 1)
    BY <1>0, <2>1, <2>2, <2>3
  <2>5. \A q \in 1..(ack[t] - 1) : q \in Seqs /\ q # p
    BY <1>0, <1>1, <1>3, <2>3, <2>4, StreamPresent
  <2> QED BY <1>2, <2>5
<1> QED BY <1>5, <1>6, <1>7, <1>8, <1>9 DEF Own

LEMMA SwapsBystander ==
  ASSUME IInv, NEW o \in Sessions, Swaps(o), NEW t \in Sessions, t # o, Same(t)
  PROVE  Own(t)'
<1>1. Own(t) /\ Own(o) /\ TypeOK
  BY DEF IInv
<1>2. /\ man'.epoch = man.epoch + 1 /\ man'.head = head[o]
      /\ man.head < head[o] /\ OwnSeal(o) /\ seg' = seg /\ acked' = acked
  BY <1>1 DEF Swaps, NextManifest, Own, Claims
<1>3. /\ head[o] \in 0..MaxSeq /\ head[t] \in 0..MaxSeq /\ man.head \in 0..MaxSeq
      /\ man.epoch \in Nat /\ view[t].epoch \in Nat
  BY <1>1, SessionTyped
<1>4. pc[t] \in Claiming => view[t].epoch <= man.epoch
  BY <1>1 DEF Own, Claims
<1>5. Claims(t)'
  <2>1. pc[t] \in Claiming => view[t] # man' /\ view[t].epoch <= man'.epoch
    BY <1>2, <1>3, <1>4
  <2>2. "cas" \in Claiming
    BY DEF Claiming
  <2>3. OwnSeal(t)' <=> OwnSeal(t)
    BY <1>2 DEF OwnSeal, Same
  <2> QED BY <1>1, <2>1, <2>2, <2>3 DEF Own, Same, Claims
<1>6. pc[t] \in Reigning => head[t] < man'.head
  BY <1>1, <1>2, <1>3 DEF Own, Reigns
<1>7. Reigns(t)'
  BY <1>1, <1>2, <1>3, <1>6 DEF Own, Reigns, OwnSeal, Same
<1>8. Sweeps(t)'
  <2>1. pc[t] \notin {"sweep", "delete"}
    <3>1. pc[o] \in Claiming /\ view[o] = man
      BY DEF Swaps, Claiming
    <3> QED BY <1>3, <3>1 DEF IInv, Fenced
  <2>2. pc[t] \in {"sweep", "delete", "recover"} => head[t] # man'.head
    BY <1>2, <1>3, <1>6 DEF Reigning
  <2> QED BY <2>1, <2>2 DEF Same, Sweeps
<1>9. Windows(t)'
  <2>1. pc[t] \in Serving => head[t] # man'.head
    BY <1>2, <1>3, <1>6 DEF Reigning, Serving
  <2>2. \A q \in Seqs : win[t][q].at # "none" => pc[t] \in Serving
    BY <1>1 DEF Own, Windows
  <2> QED BY <1>1, <1>2, <2>1, <2>2 DEF Own, Same, Windows
<1>10. Streams(t)'
  BY <1>1, <1>2, StreamsStay, SameIsSameStream
<1> QED BY <1>5, <1>7, <1>8, <1>9, <1>10 DEF Own

\* A window that is acknowledged is in the chain as it was sent, and so is
\* everything below it.
LEMMA AckLands ==
  ASSUME TypeOK, NEW o \in Sessions, Own(o), NEW q \in Seqs, Acks(o, q)
  PROVE  seg[q] = win[o][q].seg /\ seg[q].kind = "landing" /\ Linked(q)
<1>1. PICK h : h = head[o]
  OBVIOUS
<1>2. pc[o] = "open" /\ ack[o] = q /\ win[o][q].at = "ok"
  BY DEF Acks
<1>3. h \in 1..(q - 1) /\ q \in Nat /\ next[o] \in Nat
  BY <1>1, <1>2, StreamPresent, SessionTyped DEF Seqs
<1>4. /\ Linked(h)
      /\ \A r \in (h + 1)..(q - 1) : seg[r].kind = "landing" /\ seg[r].prev = Digest(r - 1)
  BY <1>1, <1>2 DEF Own, Streams
<1>5. seg[q] = win[o][q].seg
  <2>1. seg[q] = win[o][q].seg \/ \E r \in (h + 1)..(q - 1) : seg[r].kind = "seal"
    BY <1>1, <1>2 DEF Own, Windows
  <2> QED BY <1>4, <2>1
<1>6. win[o][q].seg.kind = "landing" /\ q \in q..(next[o] - 1)
  BY <1>2 DEF Own, Windows, Serving
<1>7. seg[q].prev = Digest(q - 1)
  BY <1>2, <1>5, <1>6 DEF Own, Streams
<1>8. Linked(q)
  <2> SUFFICES ASSUME NEW r \in 1..q PROVE Present(r) /\ seg[r].prev = Digest(r - 1)
    BY DEF Linked
  <2>1. r \in 1..h \/ r \in (h + 1)..(q - 1) \/ r = q
    BY <1>3
  <2>2. CASE r \in 1..h
    BY <1>4, <2>2 DEF Linked
  <2>3. CASE r \in (h + 1)..(q - 1)
    BY <1>4, <2>3 DEF Present
  <2>4. CASE r = q
    BY <1>5, <1>6, <1>7, <2>4 DEF Present
  <2> QED BY <2>1, <2>2, <2>3, <2>4
<1> QED BY <1>5, <1>6, <1>8

\* A window that is acknowledged is below every seal put after its session's.
LEMMA AcksBelow ==
  ASSUME IInv, NEW o \in Sessions, NEW q \in Seqs, Acks(o, q),
         NEW p \in Seqs, head[o] < p, seg[p].kind = "seal"
  PROVE  q < p
<1>1. Own(o) /\ TypeOK /\ pc[o] = "open" /\ ack[o] = q
  BY DEF IInv, Acks
<1>2. \A r \in (head[o] + 1)..(q - 1) : seg[r].kind = "landing"
  BY <1>1 DEF Own, Streams
<1>3. head[o] \in 0..MaxSeq /\ p \in Nat /\ q \in Nat
  BY <1>1, SessionTyped DEF Seqs
<1>4. seg[q].kind = "landing"
  BY <1>1, AckLands DEF IInv
<1> QED BY <1>2, <1>3, <1>4

LEMMA AcksBystander ==
  ASSUME IInv, NEW o \in Sessions, NEW q \in Seqs, Acks(o, q),
         NEW t \in Sessions, t # o, Same(t)
  PROVE  Own(t)'
<1>1. Own(t) /\ Own(o) /\ TypeOK
  BY DEF IInv
<1>2. seg' = seg /\ man' = man /\ \A a \in acked' : a \in acked \/ a.seq = q
  BY DEF Acks
<1>3. /\ head[o] \in 0..MaxSeq /\ head[t] \in 0..MaxSeq /\ man.head \in 0..MaxSeq
      /\ view[t].head \in 0..MaxSeq /\ ack[t] \in Nat /\ q \in Nat
  BY <1>1, SessionTyped DEF Seqs
<1>4. head[o] <= man.head /\ OwnSeal(o)
  BY <1>1 DEF Acks, Own, Reigns, Reigning
<1>5. pc[t] = "cas" /\ view[t] = man => q < head[t]
  BY <1>1, <1>3, <1>4, AcksBelow DEF Own, Claims, OwnSeal
<1>6. pc[t] \in Reigning /\ head[t] = man.head => q < head[t]
  <2> SUFFICES ASSUME pc[t] \in Reigning, head[t] = man.head PROVE q < head[t]
    OBVIOUS
  <2>1. OwnSeal(t)
    BY <1>1 DEF Own, Reigns
  <2>2. head[o] < head[t]
    BY <1>3, <1>4, <2>1, OneSeal
  <2> QED BY <2>1, <2>2, AcksBelow DEF OwnSeal
<1>7. Claims(t)'
  <2>1. pc[t] = "cas" /\ view[t] = man => \A a \in acked' : a.seq < head[t]
    BY <1>1, <1>2, <1>5 DEF Own, Claims
  <2> QED BY <1>1, <1>2, <2>1 DEF Own, Same, Claims, OwnSeal, Present
<1>8. Reigns(t)'
  BY <1>1, <1>2 DEF Own, Reigns, OwnSeal, Same
<1>9. Sweeps(t)'
  <2>1. pc[t] \in {"sweep", "delete", "recover"} /\ head[t] = man.head => \A a \in acked' : a.seq <= head[t]
    BY <1>1, <1>2, <1>3, <1>6 DEF Own, Sweeps, Reigning
  <2> QED BY <1>1, <1>2, <2>1 DEF Own, Same, Sweeps
<1>10. Windows(t)'
  <2>1. pc[t] \in Serving /\ head[t] = man.head => \A a \in acked' : a.seq < ack[t]
    <3>1. pc[t] \in Serving => head[t] < ack[t]
      BY <1>1 DEF Own, Windows
    <3>2. pc[t] \in Serving /\ head[t] = man.head => q < ack[t]
      BY <1>3, <1>6, <3>1 DEF Reigning, Serving
    <3> QED BY <1>1, <1>2, <3>2 DEF Own, Windows
  <2> QED BY <1>1, <1>2, <2>1 DEF Own, Same, Windows
<1>11. Streams(t)'
  BY <1>1, <1>2, StreamsStay, SameIsSameStream
<1> QED BY <1>7, <1>8, <1>9, <1>10, <1>11 DEF Own

-----------------------------------------------------------------------------
(* What each kind of step does to the whole                                *)

Others(o) == \A t \in Sessions \ {o} : Same(t)

\* The session neither begins to sweep nor begins to claim.
Keeps(o) ==
  /\ pc'[o] \in {"sweep", "delete"} => pc[o] \in {"sweep", "delete"}
  /\ pc'[o] \in Claiming => pc[o] \in Claiming /\ view'[o] = view[o]

LEMMA FencedStays ==
  ASSUME Fenced, NEW o \in Sessions, Others(o), Keeps(o), man' = man
  PROVE  Fenced'
<1> SUFFICES ASSUME NEW s \in Sessions, NEW t \in Sessions,
                    pc'[s] \in {"sweep", "delete"}, pc'[t] \in Claiming
             PROVE  view'[t].epoch < man'.epoch
  BY DEF Fenced, Claiming
<1>1. pc[s] \in {"sweep", "delete"}
  BY DEF Others, Same, Keeps
<1>2. pc[t] \in Claiming /\ view'[t] = view[t]
  BY DEF Others, Same, Keeps
<1> QED BY <1>1, <1>2 DEF Fenced

LEMMA AckedStays ==
  ASSUME TypeOK, AckedReachable, acked' = acked,
         \A a \in acked : \A r \in 1..a.seq : seg'[r] = seg[r]
  PROVE  AckedReachable'
<1> SUFFICES ASSUME NEW a \in acked PROVE Linked(a.seq)' /\ seg'[a.seq] = a.seg
  BY DEF AckedReachable
<1>1. Linked(a.seq) /\ seg[a.seq] = a.seg /\ a.seq \in Seqs
  BY DEF AckedReachable, TypeOK
<1>2. a.seq \in 0..MaxSeq /\ a.seq \in 1..a.seq /\ a' = a
  BY <1>1, ChainAssumption DEF Seqs
<1>3. PICK n : n = a.seq
  OBVIOUS
<1>4. Linked(n)'
  BY <1>1, <1>2, <1>3, LinkedStays
<1> QED BY <1>1, <1>2, <1>3, <1>4

LEMMA QuietStep ==
  ASSUME IInv, TypeOK', NEW o \in Sessions, Others(o), Quiet, Own(o)', Fenced'
  PROVE  IInv'
<1>1. \A t \in Sessions : Own(t)'
  <2> SUFFICES ASSUME NEW t \in Sessions PROVE Own(t)'
    OBVIOUS
  <2>1. CASE t # o
    BY <2>1, QuietBystander DEF Others
  <2> QED BY <2>1
<1>2. Holds' /\ AckedReachable'
  BY DEF IInv, Quiet, Holds, AckedReachable, Linked, Present, Digest
<1> QED BY <1>1, <1>2 DEF IInv

LEMMA PutsStep ==
  ASSUME IInv, TypeOK', NEW o \in Sessions, Others(o), NEW p \in Seqs, NEW x \in Segment,
         Puts(p, x), Own(o)', Keeps(o)
  PROVE  IInv'
<1>1. \A t \in Sessions : Own(t)'
  <2> SUFFICES ASSUME NEW t \in Sessions PROVE Own(t)'
    OBVIOUS
  <2>1. CASE t # o
    BY <2>1, PutsBystander DEF Others
  <2> QED BY <2>1
<1>2. \A q \in Seqs : Present(q) => seg'[q] = seg[q] /\ Present(q)'
  BY PutsKeep DEF IInv
<1>3. Holds'
  <2>1. man' = man /\ (1..man.head) \subseteq Seqs
    BY ChainAssumption DEF IInv, TypeOK, ShardManifest, Seqs, Puts
  <2> QED BY <1>2, <2>1 DEF IInv, Holds
<1>4. AckedReachable'
  <2>1. ASSUME NEW a \in acked, NEW r \in 1..a.seq PROVE seg'[r] = seg[r]
    <3>1. Linked(a.seq) /\ a.seq \in 1..MaxSeq /\ MaxSeq \in Nat
      BY ChainAssumption DEF IInv, AckedReachable, TypeOK, Seqs
    <3>2. Present(r) /\ r \in Seqs
      BY <3>1 DEF Linked, Seqs
    <3> QED BY <1>2, <3>2
  <2> QED BY <2>1, AckedStays DEF IInv, Puts
<1>5. Fenced'
  BY FencedStays DEF IInv, Puts
<1> QED BY <1>1, <1>3, <1>4, <1>5 DEF IInv

LEMMA CutsStep ==
  ASSUME IInv, TypeOK', NEW o \in Sessions, Others(o), NEW p \in Seqs,
         Cuts(o, p), Own(o)', Keeps(o)
  PROVE  IInv'
<1>1. \A t \in Sessions : Own(t)'
  <2> SUFFICES ASSUME NEW t \in Sessions PROVE Own(t)'
    OBVIOUS
  <2>1. CASE t # o
    BY <2>1, CutsBystander DEF Others
  <2> QED BY <2>1
<1>2. \A q \in Seqs : q # p => seg'[q] = seg[q]
  BY DEF Cuts, IInv, TypeOK
<1>3. Holds'
  <2>0. man' = man /\ p > man.head
    BY DEF Cuts
  <2>1. \A q \in 1..man.head : q \in Seqs /\ q # p
    BY <2>0, SessionTyped DEF IInv, Seqs
  <2> QED BY <1>2, <2>0, <2>1 DEF IInv, Holds, Present
<1>4. AckedReachable'
  <2>1. ASSUME NEW a \in acked, NEW r \in 1..a.seq PROVE seg'[r] = seg[r]
    <3>1. a.seq < p /\ a.seq \in 1..MaxSeq /\ MaxSeq \in Nat /\ p \in Nat
      BY ChainAssumption DEF IInv, Cuts, TypeOK, Seqs
    <3>2. r # p /\ r \in Seqs
      BY <3>1 DEF Seqs
    <3> QED BY <1>2, <3>2
  <2> QED BY <2>1, AckedStays DEF IInv, Cuts
<1>5. Fenced'
  BY FencedStays DEF IInv, Cuts
<1> QED BY <1>1, <1>3, <1>4, <1>5 DEF IInv

LEMMA SwapsStep ==
  ASSUME IInv, TypeOK', NEW o \in Sessions, Others(o), Swaps(o), Own(o)',
         pc'[o] \notin Claiming
  PROVE  IInv'
<1>1. \A t \in Sessions : Own(t)'
  <2> SUFFICES ASSUME NEW t \in Sessions PROVE Own(t)'
    OBVIOUS
  <2>1. CASE t # o
    BY <2>1, SwapsBystander DEF Others
  <2> QED BY <2>1
<1>2. man'.epoch = man.epoch + 1 /\ man'.head = head[o] /\ seg' = seg /\ acked' = acked
  BY DEF Swaps, NextManifest
<1>3. Holds'
  <2>1. \A q \in 1..head[o] : Present(q)
    BY DEF IInv, Own, Claims, Swaps, Claiming
  <2> QED BY <1>2, <2>1 DEF Holds, Present
<1>4. AckedReachable'
  BY <1>2, AckedStays DEF IInv
<1>5. Fenced'
  <2> SUFFICES ASSUME NEW t \in Sessions, pc'[t] \in Claiming
               PROVE  view'[t].epoch < man'.epoch
    BY DEF Fenced
  <2>1. t # o /\ pc[t] \in Claiming /\ view'[t] = view[t]
    BY DEF Others, Same
  <2>2. view[t].epoch <= man.epoch
    BY <2>1 DEF IInv, Own, Claims
  <2>3. view[t].epoch \in Nat /\ man.epoch \in Nat
    BY SessionTyped DEF IInv
  <2> QED BY <1>2, <2>1, <2>2, <2>3
<1> QED BY <1>1, <1>3, <1>4, <1>5 DEF IInv

LEMMA AcksStep ==
  ASSUME IInv, TypeOK', NEW o \in Sessions, Others(o), NEW q \in Seqs, Acks(o, q),
         Own(o)', Keeps(o)
  PROVE  IInv'
<1>1. \A t \in Sessions : Own(t)'
  <2> SUFFICES ASSUME NEW t \in Sessions PROVE Own(t)'
    OBVIOUS
  <2>1. CASE t # o
    BY <2>1, AcksBystander DEF Others
  <2> QED BY <2>1
<1>2. seg' = seg /\ man' = man
  BY DEF Acks
<1>3. Holds'
  BY <1>2 DEF IInv, Holds, Present
<1>4. AckedReachable'
  <2>1. seg[q] = win[o][q].seg /\ Linked(q)
    BY AckLands DEF IInv
  <2>2. \A a \in acked' : Linked(a.seq) /\ seg[a.seq] = a.seg
    BY <2>1 DEF IInv, AckedReachable, Acks
  <2> QED BY <1>2, <2>2 DEF AckedReachable, Linked, Present, Digest
<1>5. Fenced'
  BY <1>2, FencedStays DEF IInv
<1> QED BY <1>1, <1>3, <1>4, <1>5 DEF IInv

-----------------------------------------------------------------------------
(* What its own step does to a session                                     *)

NoWindows(o) == \A q \in Seqs : win[o][q].at = "none"

LEMMA OwnOut ==
  ASSUME NEW o, pc'[o] \in {"load", "dead"}, NoWindows(o)'
  PROVE  Own(o)'
BY DEF Own, NoWindows, Claims, Reigns, Sweeps, Windows, Streams, Claiming, Reigning, Serving

LEMMA OwnClaiming ==
  ASSUME NEW o, pc'[o] \in Claiming, NoWindows(o)', Claims(o)'
  PROVE  Own(o)'
BY DEF Own, NoWindows, Reigns, Sweeps, Windows, Streams, Claiming, Reigning, Serving

LEMMA OwnSweeping ==
  ASSUME NEW o, pc'[o] \in {"sweep", "delete", "recover"}, NoWindows(o)', Reigns(o)', Sweeps(o)'
  PROVE  Own(o)'
BY DEF Own, NoWindows, Claims, Windows, Streams, Claiming, Serving

LEMMA OwnServing ==
  ASSUME NEW o, pc'[o] \in Serving, Reigns(o)', Windows(o)', Streams(o)'
  PROVE  Own(o)'
BY DEF Own, Claims, Sweeps, Claiming, Serving

LEMMA DiesOut ==
  ASSUME TypeOK, NEW s \in Sessions, Dies(s), Quiet
  PROVE  Own(s)' /\ Others(s) /\ Keeps(s)
<1>1. pc'[s] = "dead" /\ NoWindows(s)'
  BY DEF Dies, GoTo, TypeOK, NoWindows, NoWin
<1>2. Own(s)'
  BY <1>1, OwnOut
<1>3. Others(s)
  BY DEF Dies, GoTo, TypeOK, Others, Same
<1>4. Keeps(s)
  BY <1>1 DEF Keeps, Claiming
<1> QED BY <1>2, <1>3, <1>4

LEMMA LoadStep ==
  ASSUME TimelySweep, IInv, TypeOK', NEW s \in Sessions, Load(s)
  PROVE  IInv'
<1>1. TypeOK /\ Own(s) /\ Holds
  BY DEF IInv
<1>2. /\ pc'[s] = "probe" /\ view'[s] = man /\ head'[s] = man.head /\ win' = win
      /\ Quiet
  BY <1>1 DEF Load, GoTo, TypeOK, Quiet
<1>3. Others(s)
  BY <1>1 DEF Load, GoTo, TypeOK, Others, Same
<1>4. NoWindows(s)'
  BY <1>1, <1>2 DEF Own, Windows, NoWindows, Serving, Load
<1>5. Claims(s)'
  <2>1. man.epoch \in Nat /\ man.head \in 0..MaxSeq
    BY <1>1, SessionTyped
  <2> QED BY <1>1, <1>2, <2>1 DEF Claims, Holds, Quiet, Present
<1>6. Own(s)'
  BY <1>2, <1>4, <1>5, OwnClaiming DEF Claiming
<1>7. Fenced'
  <2> SUFFICES ASSUME NEW a \in Sessions, NEW b \in Sessions,
                      pc'[a] \in {"sweep", "delete"}, pc'[b] \in Claiming
               PROVE  view'[b].epoch < man'.epoch
    BY DEF Fenced
  <2>1. a # s /\ pc[a] \in {"sweep", "delete"}
    BY <1>2, <1>3 DEF Others, Same
  <2>2. FALSE
    BY <2>1 DEF Load
  <2> QED BY <2>2
<1> QED BY <1>2, <1>3, <1>6, <1>7, QuietStep

LEMMA ProbeStep ==
  ASSUME IInv, TypeOK', NEW s \in Sessions, Probe(s)
  PROVE  IInv'
<1>1. TypeOK /\ Own(s) /\ pc[s] = "probe"
  BY DEF IInv, Probe
<1>2. Quiet /\ win' = win /\ view' = view
  BY DEF Probe, Quiet
<1>3. \/ pc'[s] = "probe" /\ head'[s] = head[s] + 1 /\ Present(head[s] + 1)
      \/ pc'[s] = "digest" /\ head'[s] = head[s]
  BY <1>1 DEF Probe, GoTo, TypeOK
<1>4. Others(s)
  BY <1>1 DEF Probe, GoTo, TypeOK, Others, Same
<1>5. NoWindows(s)'
  BY <1>1, <1>2 DEF Own, Windows, NoWindows, Serving
<1>6. Claims(s)'
  <2>1. view[s].head \in 0..MaxSeq /\ head[s] \in 0..MaxSeq
    BY <1>1, SessionTyped
  <2>2. /\ view[s].epoch <= man.epoch /\ view[s].head <= head[s]
        /\ view[s] = man => \A q \in 1..head[s] : Present(q)
    BY <1>1 DEF Own, Claims, Claiming
  <2>3. view[s].head <= head'[s]
    BY <1>3, <2>1, <2>2
  <2>4. view[s] = man => \A q \in 1..head'[s] : Present(q)
    <3>1. \A q \in 1..(head[s] + 1) : q \in 1..head[s] \/ q = head[s] + 1
      BY <2>1
    <3> QED BY <1>3, <2>2, <3>1
  <2> QED BY <1>2, <1>3, <2>2, <2>3, <2>4 DEF Claims, Quiet, Present
<1>7. Own(s)'
  BY <1>3, <1>5, <1>6, OwnClaiming DEF Claiming
<1>8. Keeps(s)
  BY <1>1, <1>2, <1>3 DEF Keeps, Claiming
<1> QED BY <1>2, <1>4, <1>7, <1>8, QuietStep, FencedStays DEF IInv, Quiet

LEMMA ReadDigestStep ==
  ASSUME IInv, TypeOK', NEW s \in Sessions, ReadDigest(s)
  PROVE  IInv'
<1>1. TypeOK /\ Own(s) /\ pc[s] = "digest" /\ Quiet
  BY DEF IInv, ReadDigest, Quiet
<1>2. CASE Dies(s)
  BY <1>1, <1>2, DiesOut, QuietStep, FencedStays DEF IInv, Quiet
<1>3. CASE ~Dies(s)
  <2>1. pc'[s] = "seal" /\ view' = view /\ head' = head /\ win' = win
    BY <1>1, <1>3 DEF ReadDigest, GoTo, TypeOK
  <2>2. Others(s)
    BY <1>1, <1>3 DEF ReadDigest, GoTo, TypeOK, Others, Same
  <2>3. NoWindows(s)'
    BY <1>1, <2>1 DEF Own, Windows, NoWindows, Serving
  <2>4. Claims(s)'
    BY <1>1, <2>1 DEF Own, Claims, Quiet, Claiming, Present
  <2>5. Own(s)' /\ Keeps(s)
    BY <1>1, <2>1, <2>3, <2>4, OwnClaiming DEF Claiming, Keeps
  <2> QED BY <1>1, <2>2, <2>5, QuietStep, FencedStays DEF IInv, Quiet
<1> QED BY <1>2, <1>3

LEMMA SealStep ==
  ASSUME IInv, TypeOK', NEW s \in Sessions, Seal(s) \/ SealRetried(s)
  PROVE  IInv'
<1>1. TypeOK /\ Own(s) /\ pc[s] = "seal"
  BY DEF IInv, Seal, SealRetried
<1>2. Others(s) /\ win' = win /\ view' = view
  BY <1>1 DEF Seal, SealRetried, GoTo, TypeOK, Others, Same
<1>3. NoWindows(s)'
  BY <1>1, <1>2 DEF Own, Windows, NoWindows, Serving
<1>4. CASE Quiet /\ pc'[s] = "load"
  <2>1. Own(s)' /\ Keeps(s)
    BY <1>3, <1>4, OwnOut DEF Keeps, Claiming
  <2> QED BY <1>2, <1>4, <2>1, QuietStep, FencedStays DEF IInv, Quiet
<1>5. CASE SealAt(s)
  <2>1. PICK p, x : p = head[s] + 1 /\ x = SealSegment(s)
    OBVIOUS
  <2>2. p \in Seqs /\ x \in Segment /\ Puts(p, x)
    BY <1>1, <1>5, <2>1 DEF SealAt, Seal, SealRetried, Put, Puts, SealSegment, Segment, TypeOK
  <2>3. CASE pc'[s] = "load"
    <3>1. Own(s)' /\ Keeps(s)
      BY <1>3, <2>3, OwnOut DEF Keeps, Claiming
    <3> QED BY <1>2, <2>2, <3>1, PutsStep
  <2>4. CASE pc'[s] # "load"
    <3>1. pc'[s] = "cas" /\ head'[s] = p
      BY <1>1, <1>5, <2>1, <2>4 DEF Seal, SealRetried, GoTo, AfterOccupied, TypeOK
    <3>2. seg'[p] = x /\ man' = man /\ acked' = acked
      BY <1>1, <2>2 DEF Puts, TypeOK
    <3>3. OwnSeal(s)'
      BY <2>1, <2>2, <3>1, <3>2 DEF OwnSeal, SealSegment
    <3>4. view[s].head \in 0..MaxSeq /\ head[s] \in 0..MaxSeq /\ p = head[s] + 1
      BY <1>1, <2>1, SessionTyped
    <3>5. /\ view[s].epoch <= man.epoch /\ view[s].head <= head[s]
          /\ view[s] = man => \A q \in 1..head[s] : Present(q)
      BY <1>1 DEF Own, Claims, Claiming
    <3>6. view[s].head < p
      BY <3>4, <3>5
    <3>7. view[s] = man => \A q \in 1..p : Present(q)'
      <4>1. \A q \in 1..p : q \in Seqs /\ (q \in 1..head[s] \/ q = p)
        <5>1. p \in 1..MaxSeq /\ MaxSeq \in Nat
          BY <2>2, ChainAssumption DEF Seqs
        <5> QED BY <3>4, <5>1 DEF Seqs
      <4>2. \A q \in Seqs : Present(q) => Present(q)'
        BY <1>1, <2>2, PutsKeep
      <4>3. Present(p)'
        BY <2>1, <3>2 DEF Present, SealSegment
      <4> QED BY <3>5, <4>1, <4>2, <4>3
    <3>8. \A a \in acked : a.seq < p
      <4> SUFFICES ASSUME NEW a \in acked, ~(a.seq < p) PROVE FALSE
        OBVIOUS
      <4>1. Linked(a.seq) /\ a.seq \in Nat /\ p \in 1..MaxSeq
        BY <1>1, <2>2 DEF IInv, AckedReachable, TypeOK, Seqs
      <4>2. p \in 1..a.seq
        BY <4>1
      <4>3. ~Present(p)
        BY <2>2 DEF Puts
      <4> QED BY <4>1, <4>2, <4>3 DEF Linked
    <3>9. Claims(s)'
      <4>1. view[s].head <= p
        BY <3>4, <3>6, <2>2 DEF Seqs
      <4> QED BY <1>2, <3>1, <3>2, <3>3, <3>5, <3>6, <3>7, <3>8, <4>1 DEF Claims
    <3>10. Own(s)' /\ Keeps(s)
      BY <1>1, <1>2, <1>3, <3>1, <3>9, OwnClaiming DEF Keeps, Claiming
    <3> QED BY <1>2, <2>2, <3>10, PutsStep
  <2> QED BY <2>3, <2>4
<1>6. CASE ~SealAt(s)
  BY <1>1, <1>4, <1>6 DEF Seal, SealRetried, GoTo, AfterOccupied, Quiet, TypeOK
<1> QED BY <1>5, <1>6

LEMMA CasStep ==
  ASSUME IInv, TypeOK', NEW s \in Sessions, Cas(s) \/ CasRetried(s)
  PROVE  IInv'
<1>1. TypeOK /\ Own(s) /\ pc[s] = "cas"
  BY DEF IInv, Cas, CasRetried
<1>2. Others(s) /\ win' = win /\ view' = view /\ head' = head /\ seg' = seg /\ acked' = acked
  BY <1>1 DEF Cas, CasRetried, GoTo, TypeOK, Others, Same
<1>3. NoWindows(s)'
  BY <1>1, <1>2 DEF Own, Windows, NoWindows, Serving
<1>4. CASE man # view[s]
  <2>1. pc'[s] = "load" /\ Quiet
    BY <1>1, <1>4 DEF Cas, CasRetried, GoTo, TypeOK, Quiet
  <2>2. Own(s)' /\ Keeps(s)
    BY <1>3, <2>1, OwnOut DEF Keeps, Claiming
  <2> QED BY <1>2, <2>1, <2>2, QuietStep, FencedStays DEF IInv, Quiet
<1>5. CASE man = view[s]
  <2>1. Swaps(s)
    BY <1>1, <1>2, <1>5 DEF Swaps, Cas, CasRetried
  <2>2. CASE CasRetried(s)
    <3>1. pc'[s] = "load"
      BY <1>1, <2>2 DEF CasRetried, GoTo, TypeOK
    <3>2. Own(s)' /\ pc'[s] \notin Claiming
      BY <1>3, <3>1, OwnOut DEF Claiming
    <3> QED BY <1>2, <2>1, <3>2, SwapsStep
  <2>3. CASE Cas(s)
    <3>1. pc'[s] = "sweep" /\ todo'[s] = (head[s] + 1)..MaxSeq /\ seen'[s] = {} /\ man'.head = head[s]
      BY <1>1, <1>5, <2>3 DEF Cas, GoTo, TypeOK, NextManifest
    <3>2. OwnSeal(s) /\ \A a \in acked : a.seq < head[s]
      BY <1>1, <1>5 DEF Own, Claims
    <3>3. head[s] \in 0..MaxSeq /\ \A a \in acked : a.seq \in Nat
      BY <1>1, SessionTyped DEF TypeOK, Seqs
    <3>4. Reigns(s)'
      BY <1>2, <3>1, <3>2, <3>3 DEF Reigns, OwnSeal
    <3>5. Sweeps(s)'
      <4>1. \A q \in todo'[s] \cup seen'[s] : q > head[s]
        BY <3>1, <3>3
      <4>2. \A a \in acked : a.seq <= head[s]
        BY <3>2, <3>3
      <4> QED BY <1>2, <3>1, <4>1, <4>2 DEF Sweeps
    <3>6. Own(s)' /\ pc'[s] \notin Claiming
      BY <1>3, <3>1, <3>4, <3>5, OwnSweeping DEF Claiming
    <3> QED BY <1>2, <2>1, <3>6, SwapsStep
  <2> QED BY <2>2, <2>3
<1> QED BY <1>4, <1>5

LEMMA SweepProbeStep ==
  ASSUME IInv, TypeOK', NEW s \in Sessions, NEW q \in Seqs, SweepProbe(s, q)
  PROVE  IInv'
<1>1. TypeOK /\ Own(s) /\ pc[s] = "sweep" /\ q \in todo[s]
  BY DEF IInv, SweepProbe
<1>2. Others(s) /\ win' = win /\ pc' = pc /\ head' = head /\ view' = view /\ Quiet
  BY <1>1 DEF SweepProbe, TypeOK, Others, Same, Quiet
<1>3. NoWindows(s)'
  BY <1>1, <1>2 DEF Own, Windows, NoWindows, Serving
<1>4. todo'[s] \cup seen'[s] \subseteq todo[s] \cup seen[s]
  BY <1>1 DEF SweepProbe, TypeOK
<1>5. Reigns(s)' /\ Sweeps(s)'
  BY <1>1, <1>2, <1>4 DEF Own, Reigns, Sweeps, OwnSeal, Quiet
<1>6. Own(s)' /\ Keeps(s)
  BY <1>1, <1>2, <1>3, <1>5, OwnSweeping DEF Keeps
<1> QED BY <1>2, <1>6, QuietStep, FencedStays DEF IInv, Quiet

LEMMA SweepFetchStep ==
  ASSUME IInv, TypeOK', NEW s \in Sessions, SweepFetch(s)
  PROVE  IInv'
<1>1. TypeOK /\ Own(s) /\ pc[s] = "sweep"
  BY DEF IInv, SweepFetch
<1>2. /\ win' = win /\ head' = head /\ view' = view /\ dig' = dig /\ todo' = todo /\ next' = next /\ ack' = ack
      /\ Quiet
  BY DEF SweepFetch, Quiet
<1>3. PICK to \in {"recover", "sweep", "delete"}, S \in SUBSET seen[s] :
         /\ GoTo(s, to) /\ seen' = [seen EXCEPT ![s] = S]
         /\ to = "delete" => seen[s] # {} /\ S = seen[s] /\ seg[Min(seen[s])].kind = "landing"
  <2>1. seen[s] \subseteq seen[s] /\ {} \subseteq seen[s] /\ seen[s] \ {Min(seen[s])} \subseteq seen[s]
    OBVIOUS
  <2>2. CASE GoTo(s, "recover") /\ seen' = [seen EXCEPT ![s] = {}]
    BY <2>1, <2>2
  <2>3. CASE GoTo(s, "sweep") /\ seen' = [seen EXCEPT ![s] = @ \ {Min(seen[s])}]
    BY <2>1, <2>3
  <2>4. CASE /\ GoTo(s, "delete") /\ seen[s] # {} /\ seg[Min(seen[s])].kind = "landing"
             /\ seen' = [seen EXCEPT ![s] = @]
    BY <2>1, <2>4
  <2> QED BY <1>1, <2>2, <2>3, <2>4, FetchSteps
<1>4. pc'[s] = to /\ seen'[s] = S
  BY <1>1, <1>3 DEF GoTo, TypeOK
<1>5. Others(s)
  BY <1>1, <1>2, <1>3 DEF Others, Same, GoTo, TypeOK
<1>6. NoWindows(s)'
  BY <1>1, <1>2 DEF Own, Windows, NoWindows, Serving
<1>7. Reigns(s)'
  BY <1>1, <1>2, <1>4 DEF Own, Reigns, OwnSeal, Quiet, Reigning
<1>8. Sweeps(s)'
  <2>1. \A q \in todo'[s] \cup seen'[s] : q \in todo[s] \cup seen[s]
    BY <1>2, <1>3, <1>4
  <2>2. pc'[s] = "delete" => seen'[s] # {} /\ seg'[Min(seen'[s])].kind = "landing"
    BY <1>2, <1>3, <1>4 DEF Quiet
  <2> QED BY <1>1, <1>2, <2>1, <2>2 DEF Own, Sweeps, Quiet
<1>9. Own(s)' /\ Keeps(s)
  BY <1>1, <1>3, <1>4, <1>6, <1>7, <1>8, OwnSweeping DEF Keeps, Claiming
<1> QED BY <1>2, <1>5, <1>9, QuietStep, FencedStays DEF IInv, Quiet

LEMMA SweepDeleteStep ==
  ASSUME IInv, TypeOK', NEW s \in Sessions, SweepDelete(s)
  PROVE  IInv'
<1>1. TypeOK /\ Own(s) /\ pc[s] = "delete"
  BY DEF IInv, SweepDelete
<1>2. PICK p : p = Min(seen[s])
  OBVIOUS
<1>3. /\ seg' = [seg EXCEPT ![p] = None] /\ seen' = [seen EXCEPT ![s] = @ \ {p}]
      /\ pc' = [pc EXCEPT ![s] = "sweep"]
      /\ win' = win /\ head' = head /\ view' = view /\ dig' = dig /\ todo' = todo /\ next' = next /\ ack' = ack
      /\ man' = man /\ acked' = acked
  BY <1>2 DEF SweepDelete, Put, GoTo
<1>4. /\ head[s] = man.head /\ \A q \in todo[s] \cup seen[s] : q > head[s]
      /\ seen[s] # {} /\ seg[p].kind = "landing" /\ \A a \in acked : a.seq <= head[s]
  BY <1>1, <1>2 DEF Own, Sweeps
<1>5. p \in seen[s] /\ p \in Seqs
  <2>1. seen[s] \subseteq Nat /\ seen[s] \subseteq Seqs
    BY <1>1 DEF TypeOK, Seqs
  <2> QED BY <1>2, <1>4, <2>1, MinIsLeast
<1>6. Others(s)
  BY <1>1, <1>3 DEF Others, Same, TypeOK
<1>7. Cuts(s, p)
  <2>1. p > man.head
    BY <1>4, <1>5
  <2>2. \A t \in Sessions : pc[t] \in Claiming => view[t] # man
    <3> SUFFICES ASSUME NEW t \in Sessions, pc[t] \in Claiming PROVE view[t].epoch < man.epoch
      BY SessionTyped DEF IInv
    <3> QED BY <1>1 DEF IInv, Fenced
  <2>3. \A a \in acked : a.seq < p
    <3>1. p \in Nat /\ man.head \in 0..MaxSeq
      BY <1>1, <1>5, SessionTyped DEF Seqs
    <3>2. \A a \in acked : a.seq \in Nat
      BY <1>1 DEF TypeOK, Seqs
    <3> QED BY <1>4, <2>1, <3>1, <3>2
  <2> QED BY <1>1, <1>3, <1>4, <2>1, <2>2, <2>3 DEF Cuts, Reigning
<1>8. NoWindows(s)'
  BY <1>1, <1>3 DEF Own, Windows, NoWindows, Serving
<1>9. Reigns(s)'
  <2>1. OwnSeal(s) /\ head[s] <= man.head
    BY <1>1 DEF Own, Reigns, Reigning
  <2>2. seg'[head[s]] = seg[head[s]]
    BY <1>1, <1>3, <1>4, <2>1 DEF OwnSeal, TypeOK
  <2> QED BY <1>3, <2>1, <2>2 DEF Reigns, OwnSeal
<1>10. Sweeps(s)'
  <2>1. pc'[s] = "sweep" /\ seen'[s] \subseteq seen[s]
    BY <1>1, <1>3 DEF TypeOK
  <2> QED BY <1>3, <1>4, <2>1 DEF Sweeps
<1>11. Own(s)' /\ Keeps(s)
  <2>1. pc'[s] = "sweep"
    BY <1>1, <1>3 DEF TypeOK
  <2> QED BY <1>1, <1>8, <1>9, <1>10, <2>1, OwnSweeping DEF Keeps, Claiming
<1> QED BY <1>5, <1>6, <1>7, <1>11, CutsStep

\* A session that finds no break below the recorded head has a chain that
\* links up to its own seal.
LEMMA RecoverStep ==
  ASSUME IInv, TypeOK', NEW s \in Sessions, Recover(s)
  PROVE  IInv'
<1>1. TypeOK /\ Own(s) /\ pc[s] = "recover" /\ Quiet
  BY DEF IInv, Recover, Quiet
<1>2. CASE Dies(s)
  BY <1>1, <1>2, DiesOut, QuietStep, FencedStays DEF IInv, Quiet
<1>3. CASE ~Dies(s)
  <2>1. PICK h, w : h = head[s] /\ w = WalkEnd
    OBVIOUS
  <2>2. /\ ~(w + 1 <= man.head /\ Present(w + 1))
        /\ dig' = [dig EXCEPT ![s] = 0] /\ next' = [next EXCEPT ![s] = h + 1] /\ ack' = [ack EXCEPT ![s] = h + 1]
        /\ pc' = [pc EXCEPT ![s] = "open"]
        /\ UNCHANGED <<view, head, todo, seen, win>>
    BY <1>3, <2>1 DEF Recover, GoTo
  <2>3. /\ pc'[s] = "open" /\ dig'[s] = 0 /\ next'[s] = h + 1 /\ ack'[s] = h + 1 /\ head'[s] = h
        /\ win'[s] = win[s]
    BY <1>1, <2>1, <2>2 DEF TypeOK
  <2>4. Others(s)
    BY <1>1, <2>2 DEF Others, Same, TypeOK
  <2>5. OwnSeal(s) /\ h <= man.head
    BY <1>1, <2>1 DEF Own, Reigns, Reigning
  <2>6. w \in 0..MaxSeq /\ h \in 1..MaxSeq /\ man.head \in 0..MaxSeq /\ MaxSeq \in Nat
    BY <1>1, <2>1, <2>5, WalkEndIs, SessionTyped DEF OwnSeal, Seqs
  <2>7. Linked(h)
    <3>1. man.head <= w
      <4> SUFFICES ASSUME ~(man.head <= w) PROVE FALSE
        OBVIOUS
      <4>1. w + 1 \in 1..man.head
        BY <2>6
      <4>2. Present(w + 1) /\ w + 1 <= man.head
        BY <4>1 DEF IInv, Holds
      <4> QED BY <2>2, <4>2
    <3>2. (1..h) \subseteq 1..w
      BY <2>5, <2>6, <3>1
    <3> QED BY <1>1, <2>1, <3>2, WalkEndIs DEF Linked
  <2>8. Reigns(s)'
    BY <1>1, <2>1, <2>3, <2>5 DEF Reigns, OwnSeal, Quiet
  <2>9. NoWindows(s) /\ NoWindows(s)'
    BY <1>1, <2>3 DEF Own, Windows, NoWindows, Serving
  <2>10. Windows(s)'
    <3>1. PICK a : a = h + 1
      OBVIOUS
    <3>2. h < a /\ a <= a /\ \A q \in Seqs : q \notin a..(a - 1)
      BY <2>6, <3>1 DEF Seqs
    <3>3. h = man.head => \A b \in acked : b.seq < a
      <4>1. h = man.head => \A b \in acked : b.seq <= h
        BY <1>1, <2>1 DEF Own, Sweeps
      <4>2. \A b \in acked : b.seq \in Nat
        BY <1>1 DEF TypeOK, Seqs
      <4> QED BY <2>6, <3>1, <4>1, <4>2
    <3>4. \A q \in Seqs : win'[s][q].at = "none"
      BY <2>9 DEF NoWindows
    <3>5. head'[s] = h /\ ack'[s] = a /\ next'[s] = a /\ man' = man /\ acked' = acked
      BY <1>1, <2>3, <3>1 DEF Quiet
    <3>6. pc'[s] \in Serving =>
            /\ head'[s] < ack'[s] /\ ack'[s] <= next'[s]
            /\ \A q \in Seqs : win'[s][q].at # "none" <=> q \in ack'[s]..(next'[s] - 1)
            /\ \A q \in Seqs : win'[s][q].at # "none" => win'[s][q].seg.kind = "landing"
            /\ head'[s] = man'.head => \A b \in acked' : b.seq < ack'[s]
      BY <3>2, <3>3, <3>4, <3>5
    <3> QED BY <3>4, <3>6 DEF Windows
  <2>11. Streams(s)'
    <3>1. Linked(h)'
      BY <1>1, <2>7 DEF Linked, Quiet, Digest, Present
    <3>2. Digest(h)' = 0
      BY <1>1, <2>1, <2>5 DEF Digest, Quiet, OwnSeal
    <3>3. PICK a : a = h + 1
      OBVIOUS
    <3>4. a - 1 = h /\ \A q : q \notin (h + 1)..(a - 1) /\ q \notin a..(a - 1)
      BY <2>6, <3>3
    <3>5. head'[s] = h /\ ack'[s] = a /\ next'[s] = a /\ dig'[s] = 0
      BY <2>3, <3>3
    <3>6. dig'[s] = IF next'[s] = ack'[s] THEN Digest(ack[s] - 1)' ELSE win'[s][next'[s] - 1].seg.end
      <4>1. ack'[s] - 1 = h
        BY <3>4, <3>5
      <4> QED BY <3>2, <3>5, <4>1 DEF Digest
    <3> QED BY <3>1, <3>4, <3>5, <3>6 DEF Streams
  <2>12. Own(s)' /\ Keeps(s)
    BY <2>3, <2>8, <2>10, <2>11, OwnServing DEF Keeps, Serving, Claiming
  <2> QED BY <1>1, <2>4, <2>12, QuietStep, FencedStays DEF IInv, Quiet
<1> QED BY <1>2, <1>3

-----------------------------------------------------------------------------
(* The writer's steps                                                      *)

\* A put worker's step keeps its session sound when it takes away nothing but
\* a landing segment at its own position.
LEMMA WorkerOwn ==
  ASSUME IInv, NEW s \in Sessions, NEW q \in Seqs, NEW at \in WinAt,
         pc[s] \in Serving, win[s][q].at # "none", Becomes(s, q, at), Worker,
         \A r \in Seqs : Present(r) /\ (r # q \/ seg[r].kind = "seal") => seg'[r] = seg[r],
         at \in {"landing", "litter"} /\ head[s] = man.head => seg'[q].kind = "landing",
         at = "ok" => seg'[q] = win[s][q].seg
  PROVE  Own(s)' /\ Others(s) /\ Keeps(s)
<1>1. TypeOK /\ Own(s)
  BY DEF IInv
<1>2. /\ win'[s][q].at = at /\ win'[s][q].seg = win[s][q].seg
      /\ \A r \in Seqs : r # q => win'[s][r] = win[s][r]
      /\ \A t \in Sessions : t # s => win'[t] = win[t]
  BY <1>1, WinBecomes
<1>3. /\ man' = man /\ pc' = pc /\ view' = view /\ head' = head /\ dig' = dig /\ todo' = todo
      /\ seen' = seen /\ next' = next /\ ack' = ack /\ acked' = acked
  BY DEF Worker
<1>4. Others(s) /\ Keeps(s)
  BY <1>2, <1>3 DEF Others, Same, Keeps
<1>5. at # "none"
  BY DEF WinAt
<1>6. OwnSeal(s) /\ Reigns(s)
  BY <1>1 DEF Own, Reigns, Reigning, Serving
<1>7. Reigns(s)'
  BY <1>3, <1>6 DEF Reigns, OwnSeal, Present
<1>8. Windows(s)'
  <2>1. \A r \in Seqs : (win'[s][r].at # "none" <=> win[s][r].at # "none") /\ win'[s][r].seg = win[s][r].seg
    BY <1>2, <1>5
  <2>2. ASSUME NEW r \in Seqs
        PROVE  /\ win'[s][r].at \in {"landing", "litter"} /\ head[s] = man.head => seg'[r].kind = "landing"
               /\ win'[s][r].at = "ok" =>
                    seg'[r] = win[s][r].seg \/ \E z \in (head[s] + 1)..(r - 1) : seg'[z].kind = "seal"
    <3>1. CASE r = q
      BY <1>2, <3>1
    <3>2. CASE r # q
      <4>1. win'[s][r] = win[s][r]
        BY <1>2, <3>2
      <4>2. win[s][r].at \in {"landing", "litter"} /\ head[s] = man.head => seg'[r].kind = "landing"
        BY <1>1, <3>2 DEF Own, Windows, Present
      <4>3. ASSUME win[s][r].at = "ok", seg[r] = win[s][r].seg
            PROVE  seg'[r] = win[s][r].seg
        <5>1. win[s][r].seg \in Segment
          BY <1>1, <4>3, WinTyped
        <5> QED BY <3>2, <4>3, <5>1 DEF Segment, Present
      <4>4. ASSUME NEW z \in (head[s] + 1)..(r - 1), seg[z].kind = "seal"
            PROVE  seg'[z].kind = "seal"
        <5>1. z \in Seqs
          BY <1>1, SessionTyped DEF Seqs
        <5> QED BY <4>4, <5>1 DEF Present
      <4>5. win[s][r].at = "ok" =>
              seg[r] = win[s][r].seg \/ \E z \in (head[s] + 1)..(r - 1) : seg[z].kind = "seal"
        BY <1>1 DEF Own, Windows
      <4> QED BY <4>1, <4>2, <4>3, <4>4, <4>5
    <3> QED BY <3>1, <3>2
  <2>3. /\ head[s] < ack[s] /\ ack[s] <= next[s]
        /\ \A r \in Seqs : win[s][r].at # "none" <=> r \in ack[s]..(next[s] - 1)
        /\ \A r \in Seqs : win[s][r].at # "none" => win[s][r].seg.kind = "landing"
        /\ head[s] = man.head => \A a \in acked : a.seq < ack[s]
    BY <1>1 DEF Own, Windows
  <2>4. pc'[s] \in Serving =>
          /\ head'[s] < ack'[s] /\ ack'[s] <= next'[s]
          /\ \A r \in Seqs : win'[s][r].at # "none" <=> r \in ack'[s]..(next'[s] - 1)
          /\ \A r \in Seqs : win'[s][r].at # "none" => win'[s][r].seg.kind = "landing"
          /\ head'[s] = man'.head => \A a \in acked' : a.seq < ack'[s]
    BY <1>3, <2>1, <2>3
  <2>5. \A r \in Seqs :
          /\ win'[s][r].at \in {"landing", "litter"} /\ head'[s] = man'.head => seg'[r].kind = "landing"
          /\ win'[s][r].at = "ok" =>
               seg'[r] = win'[s][r].seg \/ \E z \in (head'[s] + 1)..(r - 1) : seg'[z].kind = "seal"
    BY <1>3, <2>1, <2>2
  <2>6. pc'[s] \in Serving
    BY <1>3
  <2> QED BY <2>4, <2>5, <2>6 DEF Windows
<1>9. Streams(s)'
  <2> SUFFICES ASSUME pc[s] = "open" PROVE \A r \in 1..(ack[s] - 1) : seg'[r] = seg[r]
    <3>1. SameStream(s)
      BY <1>2, <1>3 DEF SameStream
    <3> QED BY <1>1, <3>1, StreamsStay
  <2>1. q \in ack[s]..(next[s] - 1) /\ ack[s] \in Nat
    BY <1>1, SessionTyped DEF Own, Windows
  <2>2. \A r \in 1..(ack[s] - 1) : r \in Seqs /\ Present(r) /\ r # q
    BY <1>1, <2>1, StreamPresent DEF Present
  <2> QED BY <2>2
<1>10. pc'[s] \in Serving
  BY <1>3
<1> QED BY <1>4, <1>7, <1>8, <1>9, <1>10, OwnServing

LEMMA WorkerStep ==
  ASSUME TimelyClear, IInv, TypeOK', NEW s \in Sessions, NEW q \in Seqs,
         PutWorker(s, q) \/ LandRetried(s, q)
  PROVE  IInv'
<1>1. TypeOK /\ Own(s)
  BY DEF IInv
<1>2. Worker /\ pc[s] \in Serving /\ win[s][q].at # "none"
  BY DEF PutWorker, Land, LandRetried, Taken, CheckKind, CheckHead, Clear, At, Serving
<1>3. win[s][q].seg \in Segment
  BY <1>1, <1>2, WinTyped
<1>4. CASE Taken(s, q) \/ CheckKind(s, q) \/ CheckHead(s, q)
  <2>1. PICK at \in WinAt :
           /\ Becomes(s, q, at) /\ at # "ok"
           /\ at \in {"landing", "litter"} /\ head[s] = man.head => seg[q].kind = "landing"
    <3>1. CASE Taken(s, q)
      <4>1. Becomes(s, q, AfterTaken(s, q)) /\ AfterTaken(s, q) \in {"taken", "failed"}
        BY <3>1 DEF Taken, AfterTaken
      <4> QED BY <4>1 DEF WinAt
    <3>2. CASE CheckKind(s, q)
      BY <3>2 DEF CheckKind, IsLitter, WinAt
    <3>3. CASE CheckHead(s, q)
      <4>1. win[s][q].at = "landing"
        BY <3>3 DEF CheckHead, At
      <4>2. head[s] = man.head => seg[q].kind = "landing"
        BY <1>1, <4>1 DEF Own, Windows
      <4> QED BY <3>3, <4>2 DEF CheckHead, WinAt
    <3> QED BY <1>4, <3>1, <3>2, <3>3
  <2>2. Quiet
    BY <1>2, <1>4 DEF Quiet, Taken, CheckKind, CheckHead, Worker
  <2>3. Own(s)' /\ Others(s) /\ Keeps(s)
    BY <1>2, <2>1, <2>2, WorkerOwn DEF Quiet
  <2> QED BY <2>2, <2>3, QuietStep, FencedStays DEF IInv, Quiet
<1>5. CASE Land(s, q) \/ LandRetried(s, q)
  <2>1. PICK at \in WinAt : Becomes(s, q, at) /\ at \in {"ok", "taken", "failed"}
    BY <1>5 DEF Land, LandRetried, AfterTaken, WinAt
  <2>2. Puts(q, win[s][q].seg)
    BY <1>2, <1>5 DEF Land, LandRetried, Puts, Put, Free, Worker
  <2>3. seg'[q] = win[s][q].seg /\ \A r \in Seqs : Present(r) => seg'[r] = seg[r]
    BY <1>1, <2>2 DEF Puts, TypeOK
  <2>4. Own(s)' /\ Others(s) /\ Keeps(s)
    BY <1>2, <2>1, <2>3, WorkerOwn
  <2> QED BY <1>3, <2>2, <2>4, PutsStep
<1>6. CASE Clear(s, q)
  <2>1. /\ Becomes(s, q, "reput") /\ "reput" \in WinAt /\ win[s][q].at = "litter"
        /\ head[s] = man.head /\ \A t \in Sessions \ {s} : pc[t] \notin Claiming
        /\ seg' = [seg EXCEPT ![q] = None]
    BY <1>6 DEF Clear, StillOwner, At, WinAt, Put
  <2>2. seg[q].kind = "landing"
    BY <1>1, <2>1 DEF Own, Windows
  <2>3. \A r \in Seqs : Present(r) /\ (r # q \/ seg[r].kind = "seal") => seg'[r] = seg[r]
    BY <1>1, <2>1, <2>2 DEF TypeOK
  <2>4. Own(s)' /\ Others(s) /\ Keeps(s)
    BY <1>2, <2>1, <2>3, WorkerOwn
  <2>5. Cuts(s, q)
    <3>1. /\ head[s] < ack[s] /\ q \in ack[s]..(next[s] - 1)
          /\ \A a \in acked : a.seq < ack[s]
      BY <1>1, <1>2, <2>1 DEF Own, Windows
    <3>2. /\ q \in Nat /\ ack[s] \in Nat /\ head[s] \in 0..MaxSeq /\ next[s] \in Nat
          /\ \A a \in acked : a.seq \in Nat
      BY <1>1, SessionTyped DEF TypeOK, Seqs
    <3>3. q > head[s] /\ \A a \in acked : a.seq < q
      BY <3>1, <3>2
    <3>4. pc[s] \in Reigning
      BY <1>2 DEF Serving, Reigning
    <3>5. man' = man /\ acked' = acked
      BY <1>2 DEF Worker
    <3> QED BY <2>1, <2>2, <3>3, <3>4, <3>5 DEF Cuts
  <2> QED BY <2>4, <2>5, CutsStep
<1> QED BY <1>4, <1>5, <1>6 DEF PutWorker

\* A new window links to the last one sent, or to what the chain ends with.
LEMMA SendStep ==
  ASSUME IInv, TypeOK', NEW s \in Sessions, Send(s)
  PROVE  IInv'
<1>1. TypeOK /\ Own(s) /\ pc[s] = "open"
  BY DEF IInv, Send
<1>2. PICK h, a, n : h = head[s] /\ a = ack[s] /\ n = next[s]
  OBVIOUS
<1>3. PICK size \in Sizes :
        /\ win' = [win EXCEPT ![s][n] = [at |-> "put", seg |-> LandingSegment(s, size)]]
        /\ end' = [end EXCEPT ![s] = @ + size]
        /\ dig' = [dig EXCEPT ![s] = end[s] + size]
  BY <1>2 DEF Send
<1>4. PICK x : x = LandingSegment(s, size)
  OBVIOUS
<1>5. x.kind = "landing" /\ x.prev = dig[s] /\ x.end = end[s] + size
  BY <1>4 DEF LandingSegment
<1>6. /\ h < a /\ a <= n
      /\ \A r \in Seqs : win[s][r].at # "none" <=> r \in a..(n - 1)
      /\ \A r \in Seqs : win[s][r].at # "none" => win[s][r].seg.kind = "landing"
      /\ h = man.head => \A b \in acked : b.seq < a
  BY <1>1, <1>2 DEF Own, Windows, Serving
<1>7. h \in 1..(a - 1) /\ a \in Nat /\ n \in Nat /\ n <= MaxSeq /\ MaxSeq \in Nat
  BY <1>1, <1>2, StreamPresent, SessionTyped DEF Send
<1>m. PICK m : m = n + 1
  OBVIOUS
<1>8. n \in Seqs /\ m \in Nat /\ m - 1 = n /\ a <= m /\ m # a
  BY <1>6, <1>7, <1>m DEF Seqs
<1>9. /\ win'[s][n].at = "put" /\ win'[s][n].seg = x
      /\ \A r \in Seqs : r # n => win'[s][r] = win[s][r]
  BY <1>1, <1>3, <1>4, <1>8 DEF TypeOK
<1>10. /\ dig'[s] = x.end /\ next'[s] = m /\ ack'[s] = a /\ head'[s] = h /\ pc'[s] = "open"
       /\ Quiet
  BY <1>1, <1>2, <1>3, <1>5, <1>m DEF Send, Quiet, TypeOK
<1>11. Others(s)
  BY <1>1, <1>3 DEF Send, Others, Same, TypeOK
<1>12. Reigns(s)'
  BY <1>1, <1>2, <1>10 DEF Own, Reigns, Reigning, OwnSeal, Quiet
<1>13. Windows(s)'
  <2>1. \A r \in Seqs : win'[s][r].at # "none" <=> r \in a..(m - 1)
    <3> SUFFICES ASSUME NEW r \in Seqs
                 PROVE  win'[s][r].at # "none" <=> r \in a..(m - 1)
      OBVIOUS
    <3>1. CASE r = n
      BY <1>6, <1>7, <1>8, <1>9, <3>1
    <3>2. CASE r # n
      <4>1. r \in a..(n - 1) <=> r \in a..(m - 1)
        BY <1>7, <1>8, <3>2 DEF Seqs
      <4> QED BY <1>6, <1>9, <3>2, <4>1
    <3> QED BY <3>1, <3>2
  <2>2. \A r \in Seqs : win'[s][r].at # "none" => win'[s][r].seg.kind = "landing"
    BY <1>5, <1>6, <1>9
  <2>3. h < a /\ a <= m
    BY <1>6, <1>8
  <2>4. pc'[s] \in Serving =>
          /\ head'[s] < ack'[s] /\ ack'[s] <= next'[s]
          /\ \A r \in Seqs : win'[s][r].at # "none" <=> r \in ack'[s]..(next'[s] - 1)
          /\ \A r \in Seqs : win'[s][r].at # "none" => win'[s][r].seg.kind = "landing"
          /\ head'[s] = man'.head => \A b \in acked' : b.seq < ack'[s]
    BY <1>6, <1>10, <2>1, <2>2, <2>3 DEF Quiet
  <2>5. \A r \in Seqs :
          /\ win'[s][r].at \in {"landing", "litter"} /\ head'[s] = man'.head => seg'[r].kind = "landing"
          /\ win'[s][r].at = "ok" =>
               seg'[r] = win'[s][r].seg \/ \E z \in (head'[s] + 1)..(r - 1) : seg'[z].kind = "seal"
    <3> SUFFICES ASSUME NEW r \in Seqs, r # n
                 PROVE  /\ win'[s][r].at \in {"landing", "litter"} /\ head'[s] = man'.head => seg'[r].kind = "landing"
                        /\ win'[s][r].at = "ok" =>
                             seg'[r] = win'[s][r].seg \/ \E z \in (head'[s] + 1)..(r - 1) : seg'[z].kind = "seal"
      BY <1>9
    <3>1. win'[s][r] = win[s][r] /\ head'[s] = head[s]
      BY <1>2, <1>9, <1>10
    <3> QED BY <1>1, <1>10, <3>1 DEF Own, Windows, Quiet
  <2>6. pc'[s] \in Serving
    BY <1>10 DEF Serving
  <2> QED BY <2>4, <2>5, <2>6 DEF Windows
<1>14. Streams(s)'
  <2>1. /\ Linked(h)
        /\ \A q \in (h + 1)..(a - 1) : seg[q].kind = "landing" /\ seg[q].prev = Digest(q - 1)
        /\ \A q \in a..(n - 1) : win[s][q].seg.prev = IF q = a THEN Digest(q - 1) ELSE win[s][q - 1].seg.end
        /\ dig[s] = IF n = a THEN Digest(a - 1) ELSE win[s][n - 1].seg.end
    BY <1>1, <1>2 DEF Own, Streams
  <2>2. Linked(h)' /\ \A q : Digest(q)' = Digest(q)
    BY <1>10, <2>1 DEF Quiet, Linked, Digest, Present
  <2>3. \A q \in a..n : q \in Seqs
    BY <1>7 DEF Seqs
  <2>4. \A q \in a..(m - 1) :
          win'[s][q].seg.prev = IF q = a THEN Digest(q - 1)' ELSE win'[s][q - 1].seg.end
    <3> SUFFICES ASSUME NEW q \in a..(m - 1)
                 PROVE  win'[s][q].seg.prev = IF q = a THEN Digest(q - 1) ELSE win'[s][q - 1].seg.end
      BY <2>2
    <3>1. q \in a..n /\ q \in Seqs
      BY <1>7, <1>8, <2>3
    <3>2. q # a => q - 1 \in a..(n - 1) /\ q - 1 \in Seqs /\ q - 1 # n
      BY <1>7, <2>3, <3>1
    <3>3. q # a => win'[s][q - 1] = win[s][q - 1]
      BY <1>9, <3>2
    <3>4. CASE q = n
      BY <1>5, <1>9, <2>1, <3>3, <3>4
    <3>5. CASE q # n
      <4>1. q \in a..(n - 1)
        BY <1>7, <3>1, <3>5
      <4>2. win'[s][q] = win[s][q]
        BY <1>9, <3>1, <3>5
      <4> QED BY <2>1, <3>3, <4>1, <4>2
    <3> QED BY <3>4, <3>5
  <2>5. dig'[s] = win'[s][m - 1].seg.end /\ m # a
    BY <1>8, <1>9, <1>10
  <2>6. \A q \in (h + 1)..(a - 1) : seg'[q].kind = "landing" /\ seg'[q].prev = Digest(q - 1)'
    BY <1>10, <2>1, <2>2 DEF Quiet
  <2>7. dig'[s] = IF m = a THEN Digest(a - 1)' ELSE win'[s][m - 1].seg.end
    BY <2>5
  <2> QED BY <1>10, <2>2, <2>4, <2>6, <2>7 DEF Streams
<1>15. Own(s)' /\ Keeps(s)
  BY <1>1, <1>10, <1>12, <1>13, <1>14, OwnServing DEF Keeps, Serving, Claiming
<1> QED BY <1>10, <1>11, <1>15, QuietStep, FencedStays DEF IInv, Quiet

\* What resolving a window does to the session, whichever way it resolves.
LEMMA ResolveOwn ==
  ASSUME IInv, NEW s \in Sessions, NEW q \in Seqs, Resolve(s, q)
  PROVE  /\ Others(s) /\ Keeps(s) /\ seg' = seg /\ man' = man
         /\ head'[s] = head[s] /\ next'[s] = next[s] /\ ack'[s] = q + 1 /\ dig'[s] = dig[s]
         /\ win'[s][q] = NoWin /\ \A r \in Seqs : r # q => win'[s][r] = win[s][r]
         /\ q = ack[s] /\ q < next[s]
         /\ Reigns(s)' /\ Windows(s)'
<1>1. TypeOK /\ Own(s) /\ pc[s] \in Serving /\ q = ack[s] /\ win[s][q].at \in {"ok", "failed"}
  BY DEF IInv, Resolve, Ready, Serving
<1>2. /\ head' = head /\ view' = view /\ next'[s] = next[s] /\ ack'[s] = q + 1 /\ dig'[s] = dig[s]
      /\ win'[s][q] = NoWin /\ \A r \in Seqs : r # q => win'[s][r] = win[s][r]
      /\ seg' = seg /\ man' = man
  BY <1>1 DEF Resolve, TypeOK
<1>3. pc'[s] \in Serving /\ \A t \in Sessions : t # s => pc'[t] = pc[t]
  BY <1>1 DEF Resolve, GoTo, TypeOK, Serving
<1>4. Others(s) /\ Keeps(s)
  <2>1. Others(s)
    BY <1>1, <1>3 DEF Resolve, Others, Same, TypeOK
  <2> QED BY <1>3, <2>1 DEF Keeps, Serving, Claiming
<1>5. Reigns(s)'
  BY <1>1, <1>2 DEF Own, Reigns, Reigning, Serving, OwnSeal
<1>6. PICK h, n : h = head[s] /\ n = next[s]
  OBVIOUS
<1>7. /\ h < q /\ q <= n
      /\ \A r \in Seqs : win[s][r].at # "none" <=> r \in q..(n - 1)
      /\ \A r \in Seqs : win[s][r].at # "none" => win[s][r].seg.kind = "landing"
      /\ h = man.head => \A b \in acked : b.seq < q
  BY <1>1, <1>6 DEF Own, Windows
<1>8. h \in Nat /\ n \in Nat /\ q \in Nat /\ \A b \in acked : b.seq \in Nat
  BY <1>1, <1>6, SessionTyped DEF TypeOK, Seqs
<1>9. q < n
  <2>1. q \in q..(n - 1)
    BY <1>1, <1>7
  <2> QED BY <1>8, <2>1
<1>10. Windows(s)'
  <2>1. \A r \in Seqs : win'[s][r].at # "none" <=> r \in (q + 1)..(n - 1)
    <3> SUFFICES ASSUME NEW r \in Seqs
                 PROVE  win'[s][r].at # "none" <=> r \in (q + 1)..(n - 1)
      OBVIOUS
    <3>1. CASE r = q
      BY <1>2, <1>8, <3>1 DEF NoWin
    <3>2. CASE r # q
      <4>1. r \in q..(n - 1) <=> r \in (q + 1)..(n - 1)
        BY <1>8, <3>2 DEF Seqs
      <4> QED BY <1>2, <1>7, <3>2, <4>1
    <3> QED BY <3>1, <3>2
  <2>2. \A r \in Seqs : win'[s][r].at # "none" => r # q /\ win'[s][r] = win[s][r]
    BY <1>2 DEF NoWin
  <2>3. \A r \in Seqs : win'[s][r].at # "none" => win'[s][r].seg.kind = "landing"
    BY <1>7, <2>2
  <2>4. h < q + 1 /\ q + 1 <= n
    BY <1>7, <1>8, <1>9
  <2>5. h = man.head => \A b \in acked' : b.seq < q + 1
    <3>1. \A b \in acked' : b \in acked \/ b.seq = q
      BY DEF Resolve
    <3> QED BY <1>7, <1>8, <3>1
  <2>6. pc'[s] \in Serving =>
          /\ head'[s] < ack'[s] /\ ack'[s] <= next'[s]
          /\ \A r \in Seqs : win'[s][r].at # "none" <=> r \in ack'[s]..(next'[s] - 1)
          /\ \A r \in Seqs : win'[s][r].at # "none" => win'[s][r].seg.kind = "landing"
          /\ head'[s] = man'.head => \A b \in acked' : b.seq < ack'[s]
    BY <1>2, <1>6, <2>1, <2>3, <2>4, <2>5
  <2>7. \A r \in Seqs :
          /\ win'[s][r].at \in {"landing", "litter"} /\ head'[s] = man'.head => seg'[r].kind = "landing"
          /\ win'[s][r].at = "ok" =>
               seg'[r] = win'[s][r].seg \/ \E z \in (head'[s] + 1)..(r - 1) : seg'[z].kind = "seal"
    <3> SUFFICES ASSUME NEW r \in Seqs, win'[s][r].at # "none"
                 PROVE  /\ win'[s][r].at \in {"landing", "litter"} /\ head'[s] = man'.head => seg'[r].kind = "landing"
                        /\ win'[s][r].at = "ok" =>
                             seg'[r] = win'[s][r].seg \/ \E z \in (head'[s] + 1)..(r - 1) : seg'[z].kind = "seal"
      OBVIOUS
    <3>1. win'[s][r] = win[s][r]
      BY <2>2
    <3> QED BY <1>1, <1>2, <3>1 DEF Own, Windows
  <2> QED BY <1>3, <2>6, <2>7 DEF Windows
<1> QED BY <1>1, <1>2, <1>4, <1>5, <1>6, <1>9, <1>10

LEMMA ResolveStep ==
  ASSUME IInv, TypeOK', NEW s \in Sessions, NEW q \in Seqs, Resolve(s, q)
  PROVE  IInv'
<1>1. TypeOK /\ Own(s)
  BY DEF IInv
<1>2. CASE ~Durable(s, q)
  <2>1. pc'[s] = "poisoned" /\ Quiet
    BY <1>1, <1>2 DEF Resolve, GoTo, TypeOK, Quiet
  <2>2. Own(s)'
    BY <2>1, ResolveOwn, OwnServing DEF Serving, Streams
  <2> QED BY <2>1, <2>2, ResolveOwn, QuietStep, FencedStays DEF IInv, Quiet
<1>3. CASE Durable(s, q)
  <2>1. PICK h, n : h = head[s] /\ n = next[s]
    OBVIOUS
  <2>2. /\ pc[s] = "open" /\ pc'[s] = "open" /\ q = ack[s] /\ Acks(s, q)
    BY <1>3 DEF Resolve, Ready, Durable, Acks
  <2>3. /\ seg' = seg /\ head'[s] = h /\ next'[s] = n /\ ack'[s] = q + 1 /\ dig'[s] = dig[s]
        /\ \A r \in Seqs : r # q => win'[s][r] = win[s][r]
        /\ q < n
    BY <2>1, ResolveOwn
  <2>4. /\ Linked(h)
        /\ \A r \in (h + 1)..(q - 1) : seg[r].kind = "landing" /\ seg[r].prev = Digest(r - 1)
        /\ \A r \in q..(n - 1) : win[s][r].seg.prev = IF r = q THEN Digest(r - 1) ELSE win[s][r - 1].seg.end
        /\ dig[s] = IF n = q THEN Digest(q - 1) ELSE win[s][n - 1].seg.end
    BY <1>1, <2>1, <2>2 DEF Own, Streams
  <2>5. /\ h \in 1..(q - 1) /\ q \in 1..MaxSeq /\ n \in 0..(MaxSeq + 1) /\ MaxSeq \in Nat
    BY <1>1, <2>1, <2>2, StreamPresent, SessionTyped DEF Seqs
  <2>6. seg[q] = win[s][q].seg /\ seg[q].kind = "landing"
    BY <1>1, <2>2, AckLands
  <2>7. seg[q].prev = Digest(q - 1) /\ Digest(q) = win[s][q].seg.end
    <3>1. q \in q..(n - 1) /\ q # 0
      BY <2>3, <2>5
    <3> QED BY <2>4, <2>6, <3>1 DEF Digest
  <2>8. Linked(h)' /\ \A r : Digest(r)' = Digest(r)
    BY <2>3, <2>4 DEF Linked, Digest, Present
  <2>9. PICK b : b = q + 1
    OBVIOUS
  <2>10. b - 1 = q /\ b \in Nat
    BY <2>5, <2>9
  <2>11. \A r \in (h + 1)..(b - 1) : seg'[r].kind = "landing" /\ seg'[r].prev = Digest(r - 1)'
    <3>1. \A r \in (h + 1)..(b - 1) : r \in (h + 1)..(q - 1) \/ r = q
      BY <2>5, <2>10
    <3> QED BY <2>3, <2>4, <2>6, <2>7, <2>8, <3>1
  <2>12. \A r \in b..(n - 1) : win'[s][r].seg.prev = IF r = b THEN Digest(r - 1)' ELSE win'[s][r - 1].seg.end
    <3> SUFFICES ASSUME NEW r \in b..(n - 1)
                 PROVE  win'[s][r].seg.prev = IF r = b THEN Digest(r - 1) ELSE win'[s][r - 1].seg.end
      BY <2>8
    <3>1. r \in Seqs /\ r # q /\ r \in q..(n - 1)
      BY <2>5, <2>9 DEF Seqs
    <3>2. win'[s][r].seg.prev = win[s][r - 1].seg.end
      BY <2>3, <2>4, <3>1
    <3>3. CASE r = b
      <4>1. r - 1 = q
        BY <2>10, <3>3
      <4> QED BY <2>7, <3>2, <3>3, <4>1
    <3>4. CASE r # b
      <4>1. r - 1 \in Seqs /\ r - 1 # q
        BY <2>5, <2>9, <3>4 DEF Seqs
      <4> QED BY <2>3, <3>2, <3>4, <4>1
    <3> QED BY <3>3, <3>4
  <2>13. dig'[s] = IF n = b THEN Digest(b - 1)' ELSE win'[s][n - 1].seg.end
    <3>1. dig'[s] = win[s][n - 1].seg.end
      BY <2>3, <2>4, <2>5
    <3>2. CASE n = b
      BY <2>7, <2>8, <2>10, <3>1, <3>2
    <3>3. CASE n # b
      <4>1. n - 1 \in Seqs /\ n - 1 # q
        BY <2>3, <2>5, <2>9, <3>3 DEF Seqs
      <4> QED BY <2>3, <3>1, <3>3, <4>1
    <3> QED BY <3>2, <3>3
  <2>14. Streams(s)'
    <3>1. ack'[s] = b
      BY <2>3, <2>9
    <3> QED BY <2>3, <2>8, <2>11, <2>12, <2>13, <3>1 DEF Streams
  <2>15. Own(s)'
    BY <2>2, <2>14, ResolveOwn, OwnServing DEF Serving
  <2> QED BY <2>2, <2>15, ResolveOwn, AcksStep
<1> QED BY <1>2, <1>3

LEMMA CrashStep ==
  ASSUME IInv, TypeOK', NEW s \in Sessions, Crash(s)
  PROVE  IInv'
<1>1. TypeOK /\ Quiet /\ Dies(s)
  BY DEF IInv, Crash, Quiet
<1> QED BY <1>1, DiesOut, QuietStep, FencedStays DEF IInv, Quiet

-----------------------------------------------------------------------------
LEMMA IInvInit == Init => IInv
<1> SUFFICES ASSUME Init PROVE IInv
  OBVIOUS
<1>1. TypeOK
  BY TypeInit
<1>2. Holds /\ Fenced
  BY ChainAssumption DEF Init, Holds, Fenced
<1>3. \A s \in Sessions : Own(s)
  BY DEF Init, Own, Claims, Reigns, Sweeps, Windows, Streams, Claiming, Reigning, Serving, NoWin
<1> QED BY <1>1, <1>2, <1>3 DEF IInv, Init, AckedReachable

LEMMA IInvStep ==
  ASSUME TimelySweep, TimelyClear, IInv, [Next]_vars
  PROVE  IInv'
<1>0. TypeOK'
  BY TypeStep DEF IInv
<1>1. CASE UNCHANGED vars
  <2>1. Quiet /\ \A s \in Sessions : Same(s)
    BY <1>1 DEF vars, session, Quiet, Same
  <2>2. \A s \in Sessions : Own(s)'
    BY <2>1, QuietBystander
  <2>3. Holds' /\ Fenced'
    BY <1>1 DEF vars, session, IInv, Holds, Fenced, Present
  <2>4. AckedReachable'
    BY <2>1, AckedStays DEF IInv, Quiet
  <2> QED BY <1>0, <2>2, <2>3, <2>4 DEF IInv
<1>2. ASSUME NEW s \in Sessions, TakeOver(s) PROVE IInv'
  BY <1>0, <1>2, LoadStep, ProbeStep, ReadDigestStep, SealStep, CasStep, SweepProbeStep, SweepFetchStep,
     SweepDeleteStep, RecoverStep DEF TakeOver
<1>3. ASSUME NEW s \in Sessions, SealRetried(s) \/ CasRetried(s) \/ Send(s) \/ Crash(s) PROVE IInv'
  BY <1>0, <1>3, SealStep, CasStep, SendStep, CrashStep
<1>4. ASSUME NEW s \in Sessions, NEW q \in Seqs, PutWorker(s, q) \/ LandRetried(s, q) \/ Resolve(s, q)
      PROVE  IInv'
  BY <1>0, <1>4, WorkerStep, ResolveStep
<1> QED BY <1>1, <1>2, <1>3, <1>4 DEF Next

\* No acknowledged window is lost: whatever crashes, whichever rivals take the
\* shard over, whatever PUTs are answered wrongly and however late they land,
\* the window is in the chain a recovery reads, as it was written and with
\* everything below it.  What it takes is that no DELETE, of a sweep or of
\* put_segment, outlives its session's lease.
THEOREM NothingAckedIsLost == TimelySweep /\ TimelyClear => (Spec => []AckedReachable)
<1> SUFFICES ASSUME TimelySweep, TimelyClear PROVE Spec => []AckedReachable
  OBVIOUS
<1>1. IInv /\ [Next]_vars => IInv'
  BY IInvStep
<1>2. IInv => AckedReachable
  BY DEF IInv
<1> QED BY IInvInit, <1>1, <1>2, PTL DEF Spec
=============================================================================
