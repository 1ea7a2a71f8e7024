--------------------------- MODULE SequencerProofs ---------------------------
(* Theorems about the sequencer of a WAL shard, for any calls of append, any *)
(* epochs and any width of the inflight window.                              *)
EXTENDS Sequencer, FiniteSetTheorems, SequenceTheorems, TLAPS

-----------------------------------------------------------------------------
(* Facts about numbers and sets that the lander's prefix rests on.          *)

LEMMA LeastElement ==
  ASSUME NEW T, T \subseteq Nat, T # {}
  PROVE  \E x \in T : \A y \in T : x <= y
<1>1. PICK x \in T : \A y \in T : ~(<<y, x>> \in OpToRel(<, Nat))
  <2> DEFINE R == OpToRel(<, Nat)
  <2>1. IsWellFoundedOn(R, Nat)
    BY NatLessThanWellFounded
  <2> HIDE DEF R
  <2>2. \E x \in T : \A y \in T : ~(<<y, x>> \in R)
    BY <2>1, WFMin
  <2> QED BY <2>2 DEF R
<1>2. \A y \in T : ~(y < x)
  BY <1>1 DEF OpToRel
<1> QED BY <1>2

LEMMA MinIsLeast ==
  ASSUME NEW T, T \subseteq Nat, T # {}
  PROVE  Min(T) \in T /\ \A y \in T : Min(T) <= y
BY LeastElement DEF Min

LEMMA MaxIs ==
  ASSUME NEW T, T \subseteq Nat, NEW x \in T, \A y \in T : y <= x
  PROVE  Max(T) = x
<1>1. Max(T) \in T /\ \A y \in T : Max(T) >= y
  BY DEF Max
<1>2. Max(T) \in Nat /\ x \in Nat /\ Max(T) <= x /\ Max(T) >= x
  BY <1>1
<1> QED BY <1>2

-----------------------------------------------------------------------------
(* The inductive invariant                                                  *)

HasHeld == flusher \in {"build", "admit"}

\* The position the next dispatch takes.
Top == IF HasHeld THEN held.seq ELSE next_seq

Out == flying \cup parked

\* The appends of a window, or of the one the flusher holds: all still staged,
\* and none in two windows.
Carries(appends, seq) ==
  appends # {} /\ \A a \in appends : ticket[a] = "staged" /\ seq_of[a] = seq

\* What the committers and the flusher keep: an append is in no window until
\* its batch is closed.
Staging ==
  /\ next_seq >= 1
  /\ flusher = "build" => held.seq = next_seq
  /\ flusher = "admit" => held.seq + 1 = next_seq
  /\ HasHeld => held.seq >= 1 /\ Carries(held.appends, held.seq)
  /\ \A a \in batch : ticket[a] = "staged" /\ seq_of[a] = 0
  /\ \A a \in Appends : ticket[a] = "new" => seq_of[a] = 0
  /\ \A a \in Appends : seq_of[a] < next_seq + (IF flusher = "build" THEN 1 ELSE 0)

\* The windows out are one for each position from next_ack up.
Tiled ==
  /\ 1 <= next_ack /\ next_ack <= Top
  /\ flying \cap parked = {}
  /\ \A w \in Out : w.seq \in next_ack..(Top - 1) /\ Carries(w.appends, w.seq)
  /\ \A v, w \in Out : v.seq = w.seq => v = w
  /\ \A q \in next_ack..(Top - 1) : \E w \in Out : w.seq = q
  /\ \A w \in parked : w.at # "put"
  /\ outstanding = Top - next_ack

\* What has landed, and what the tee knows.
Landing ==
  /\ \A w \in Out : w.at = "ok" => w.seq \in landed
  /\ \A q \in landed : 1 <= q /\ q < Top
  /\ \A i \in 1..Len(teed) : teed[i] = i /\ i \in landed
  /\ failed = poisoned
  /\ Len(teed) < next_ack
  /\ ~failed => next_ack = Len(teed) + 1
  /\ failed => Top + (IF HasHeld THEN 1 ELSE 0) <= Len(teed) + 2 + Inflight

\* An append is acknowledged exactly when its window has been handed to the tee.
Acked ==
  /\ \A a \in Appends : ticket[a] = "ok" => seq_of[a] \in 1..Len(teed)
  /\ \A i \in 1..Len(teed) : \E a \in Appends : ticket[a] = "ok" /\ seq_of[a] = i

\* The epochs of the open batch are above those of every closed window.
Epochs ==
  /\ \A a \in Appends : 0 < seq_of[a] \/ a \in batch => EpochOf[a] <= epoch
  /\ \A a \in batch, b \in Appends : 0 < seq_of[b] => EpochOf[b] <= EpochOf[a]
  /\ EpochsInChainOrder

IInv == TypeOK /\ Staging /\ Tiled /\ Landing /\ Acked /\ Epochs

-----------------------------------------------------------------------------
(* What Lander::complete resolves                                           *)

Park(d) == parked \cup {d}
DoneSet(d) == {w \in Park(d) : w.seq \in Prefix(Park(d))}
OkSet(d) == {w \in DoneSet(d) : w.at = "ok" /\ ~Behind(DoneSet(d), w.seq)}
BadSet(d) == {w \in DoneSet(d) : w.at = "failed" /\ ~Behind(DoneSet(d), w.seq)}

\* Windows with one for each position from m up to n are n - m windows.
LEMMA WindowCount ==
  ASSUME NEW S, NEW m \in Nat, NEW n \in Nat, m <= n,
         \A w \in S : w.seq \in m..(n - 1),
         \A v, w \in S : v.seq = w.seq => v = w,
         \A q \in m..(n - 1) : \E w \in S : w.seq = q
  PROVE  Cardinality(S) = n - m
<1> DEFINE I == m..(n - 1)
           f == [q \in I |-> CHOOSE w \in S : w.seq = q]
<1>1. \A q \in I : f[q] \in S /\ f[q].seq = q
  OBVIOUS
<1>2. \A w \in S : w.seq \in I /\ f[w.seq] = w
  BY <1>1
<1>3. f \in [I -> S]
  BY <1>1
<1> HIDE DEF f, I
<1>4. f \in Bijection(I, S)
  <2>1. f \in Injection(I, S)
    BY <1>1, <1>3 DEF Injection, IsInjective
  <2>2. f \in Surjection(I, S)
    BY <1>2, <1>3 DEF Surjection
  <2> QED BY <2>1, <2>2 DEF Bijection
<1>5. ExistsBijection(I, S)
  BY <1>4 DEF ExistsBijection
<1>6. IsFiniteSet(I) /\ Cardinality(I) = n - m
  BY FS_Interval DEF I
<1> QED BY <1>5, <1>6, FS_Bijection

\* The prefix that a completed window lets go: it ends at the first position
\* g with no outcome yet.
LEMMA PrefixEnds ==
  ASSUME IInv, NEW d \in flying
  PROVE  \E g \in next_ack..Top :
           /\ \A w \in Park(d) : w \in DoneSet(d) <=> w.seq < g
           /\ \A q \in next_ack..(g - 1) : \E w \in DoneSet(d) : w.seq = q
<1> DEFINE T == {r \in Nat : r >= next_ack /\ \A w \in Park(d) : w.seq # r}
<1>1. /\ next_ack \in Nat /\ Top \in Nat /\ next_ack <= Top
      /\ \A w \in Park(d) : w.seq \in next_ack..(Top - 1) /\ w.seq \in Nat
  BY DEF IInv, Tiled, TypeOK, Out, Park, Windows, Top, HasHeld
<1>2. Top \in T
  BY <1>1
<1>3. PICK g \in T : \A r \in T : g <= r
  <2>1. T \subseteq Nat /\ T # {}
    BY <1>2
  <2> HIDE DEF T
  <2> QED BY <2>1, LeastElement
<1>4. g \in next_ack..Top
  BY <1>1, <1>2, <1>3
<1>5. \A r \in next_ack..(g - 1) : \E w \in Park(d) : w.seq = r
  BY <1>1, <1>3, <1>4
<1>6. \A w \in Park(d) : w.seq \in Prefix(Park(d)) <=> w.seq < g
  <2> SUFFICES ASSUME NEW w \in Park(d)
               PROVE  w.seq \in Prefix(Park(d)) <=> w.seq < g
    OBVIOUS
  <2>1. w.seq \in Prefix(Park(d)) <=>
          \A r \in next_ack..w.seq : \E v \in Park(d) : v.seq = r
    BY DEF Prefix
  <2>2. ASSUME w.seq < g PROVE \A r \in next_ack..w.seq : \E v \in Park(d) : v.seq = r
    BY <1>1, <1>4, <1>5, <2>2
  <2>3. ASSUME w.seq >= g PROVE g \in next_ack..w.seq /\ \A v \in Park(d) : v.seq # g
    BY <1>1, <1>3, <1>4, <2>3
  <2> QED BY <1>1, <1>4, <2>1, <2>2, <2>3
<1>7. \A q \in next_ack..(g - 1) : \E w \in DoneSet(d) : w.seq = q
  BY <1>1, <1>4, <1>5, <1>6 DEF DoneSet
<1> QED BY <1>4, <1>6, <1>7 DEF DoneSet

\* The completion of d resolves the positions before g and acknowledges those
\* before h.
Resolves(d, g, h) ==
  /\ \A w \in Park(d) : w \in DoneSet(d) <=> w.seq < g
  /\ \A q \in next_ack..(g - 1) : \E w \in DoneSet(d) : w.seq = q
  /\ Cardinality(DoneSet(d)) = g - next_ack
  /\ g = IF DoneSet(d) = {} THEN next_ack ELSE Max({w.seq : w \in DoneSet(d)}) + 1
  /\ \A w \in DoneSet(d) : w \in OkSet(d) <=> w.seq < h
  /\ \A w \in OkSet(d) : w.at = "ok"
  /\ Cardinality(OkSet(d)) = h - next_ack
  /\ failed => h = next_ack /\ BadSet(d) = {}
  /\ ~failed => (BadSet(d) = {} <=> h = g)

\* Of that prefix, the positions up to h are acknowledged: h is the first one
\* that failed, or its end; nothing is once a window has failed before.
LEMMA ResolveFacts ==
  ASSUME IInv, NEW d \in flying, d.at \in {"ok", "failed"}
  PROVE  \E g \in next_ack..Top : \E h \in next_ack..g : Resolves(d, g, h)
<1>1. PICK g \in next_ack..Top :
           /\ \A w \in Park(d) : w \in DoneSet(d) <=> w.seq < g
           /\ \A q \in next_ack..(g - 1) : \E w \in DoneSet(d) : w.seq = q
  BY PrefixEnds
<1>2. /\ next_ack \in Nat /\ g \in Nat /\ next_ack <= g
      /\ DoneSet(d) \subseteq Park(d)
      /\ \A w \in DoneSet(d) : w.seq \in next_ack..(g - 1) /\ w.seq \in Nat /\ w.at \in {"ok", "failed"}
      /\ \A v, w \in DoneSet(d) : v.seq = w.seq => v = w
  <2>1. next_ack \in Nat /\ Top \in Nat /\ g \in Nat /\ next_ack <= g
    BY <1>1 DEF IInv, TypeOK, Top, HasHeld
  <2>2. DoneSet(d) \subseteq Park(d) /\ Park(d) \subseteq Out /\ Out \subseteq Windows
    BY DEF IInv, TypeOK, Park, Out, DoneSet
  <2>3. \A w \in Park(d) : w.at # "put"
    BY DEF IInv, Tiled, Park
  <2>4. \A w \in DoneSet(d) : w.seq \in next_ack..(g - 1)
    BY <1>1, <2>1, <2>2 DEF IInv, Tiled
  <2>5. \A w \in DoneSet(d) : w.seq \in Nat /\ w.at \in {"ok", "failed"}
    BY <2>2, <2>3 DEF Windows
  <2>6. \A v, w \in DoneSet(d) : v.seq = w.seq => v = w
    BY <2>2 DEF IInv, Tiled
  <2> QED BY <2>1, <2>2, <2>4, <2>5, <2>6
<1>3. Cardinality(DoneSet(d)) = g - next_ack
  BY <1>1, <1>2, WindowCount
<1>4. g = IF DoneSet(d) = {} THEN next_ack ELSE Max({w.seq : w \in DoneSet(d)}) + 1
  <2>1. CASE DoneSet(d) = {}
    BY <1>1, <1>2, <2>1
  <2>2. CASE DoneSet(d) # {}
    <3> DEFINE T == {w.seq : w \in DoneSet(d)}
    <3>1. T \subseteq Nat /\ g - 1 \in T /\ \A y \in T : y <= g - 1
      BY <1>1, <1>2, <2>2
    <3> HIDE DEF T
    <3>2. Max(T) = g - 1
      BY <3>1, MaxIs
    <3> QED BY <1>2, <2>2, <3>2 DEF T
  <2> QED BY <2>1, <2>2
<1>5. PICK h \in next_ack..g :
        /\ failed => h = next_ack
        /\ ~failed => /\ \A w \in DoneSet(d) : w.at = "failed" => h <= w.seq
                      /\ h < g => \E w \in DoneSet(d) : w.seq = h /\ w.at = "failed"
  <2>1. CASE failed
    BY <1>2, <2>1
  <2>2. CASE ~failed
    <3> DEFINE T == {r \in Nat : r = g \/ \E w \in DoneSet(d) : w.seq = r /\ w.at = "failed"}
    <3>1. T \subseteq Nat /\ g \in T
      BY <1>2
    <3>2. PICK h \in T : \A r \in T : h <= r
      <4> HIDE DEF T
      <4> QED BY <3>1, LeastElement
    <3>3. h \in next_ack..g
      BY <1>2, <3>1, <3>2
    <3> QED BY <1>2, <2>2, <3>2, <3>3
  <2> QED BY <2>1, <2>2
<1>6. \A w \in DoneSet(d) : w \in OkSet(d) <=> w.seq < h
  <2> SUFFICES ASSUME NEW w \in DoneSet(d) PROVE w \in OkSet(d) <=> w.seq < h
    OBVIOUS
  <2>1. CASE failed
    BY <1>2, <1>5, <2>1 DEF OkSet, Behind
  <2>2. CASE ~failed
    <3>1. ASSUME w.seq < h PROVE w \in OkSet(d)
      BY <1>2, <1>5, <2>2, <3>1 DEF OkSet, Behind
    <3>2. ASSUME w \in OkSet(d), w.seq >= h PROVE FALSE
      <4>1. PICK v \in DoneSet(d) : v.seq = h /\ v.at = "failed"
        BY <1>2, <1>5, <2>2, <3>2
      <4>2. v.seq # w.seq
        BY <1>2, <3>2, <4>1 DEF OkSet
      <4> QED BY <1>2, <3>2, <4>1, <4>2 DEF OkSet, Behind
    <3> QED BY <1>2, <1>5, <3>1, <3>2
  <2> QED BY <2>1, <2>2
<1>7. \A w \in OkSet(d) : w.at = "ok"
  BY DEF OkSet
<1>8. Cardinality(OkSet(d)) = h - next_ack
  <2>1. OkSet(d) \subseteq DoneSet(d)
    BY DEF OkSet
  <2>2. h \in Nat /\ next_ack <= h
    BY <1>2
  <2>3. \A w \in OkSet(d) : w.seq \in next_ack..(h - 1)
    BY <1>2, <1>6, <2>1, <2>2
  <2>4. \A q \in next_ack..(h - 1) : \E w \in OkSet(d) : w.seq = q
    BY <1>1, <1>2, <1>6, <2>2
  <2> QED BY <1>2, <2>1, <2>2, <2>3, <2>4, WindowCount
<1>9. failed => h = next_ack /\ BadSet(d) = {}
  BY <1>5 DEF BadSet, Behind
<1>10. ~failed => (BadSet(d) = {} <=> h = g)
  <2> SUFFICES ASSUME ~failed PROVE BadSet(d) = {} <=> h = g
    OBVIOUS
  <2>1. ASSUME h < g PROVE BadSet(d) # {}
    <3>1. PICK v \in DoneSet(d) : v.seq = h /\ v.at = "failed"
      BY <1>5, <2>1
    <3>2. v \in BadSet(d)
      BY <1>2, <1>5, <3>1 DEF BadSet, Behind
    <3> QED BY <3>2
  <2>2. ASSUME h = g PROVE BadSet(d) = {}
    BY <1>2, <1>5, <2>2 DEF BadSet
  <2> QED BY <1>2, <2>1, <2>2
<1> QED BY <1>1, <1>3, <1>4, <1>6, <1>7, <1>8, <1>9, <1>10 DEF Resolves

-----------------------------------------------------------------------------
(* Every step keeps the invariant                                           *)

LEMMA InitInv == Init => IInv
<1> SUFFICES ASSUME Init PROVE IInv
  OBVIOUS
<1> teed \in Seq(Nat) /\ Len(teed) = 0
  BY EmptySeq DEF Init
<1>1. TypeOK
  <2>1. held \in [seq: Nat, appends: SUBSET Appends]
    BY DEF Init, NoWindow
  <2>2. ticket \in [Appends -> Tickets] /\ seq_of \in [Appends -> Nat]
    BY DEF Init, Tickets
  <2>3. outstanding \in 0..Inflight
    BY SequencerAssumption DEF Init
  <2> QED BY <2>1, <2>2, <2>3 DEF Init, TypeOK
<1>2. Staging /\ Tiled
  BY DEF Init, Staging, Tiled, HasHeld, Top, Out, NoWindow
<1>3. Landing
  <2>1. Out = {} /\ landed = {} /\ failed = FALSE /\ poisoned = FALSE /\ next_ack = 1
    BY DEF Init, Out
  <2>2. \A i \in 1..Len(teed) : teed[i] = i /\ i \in landed
    OBVIOUS
  <2>3. Len(teed) < next_ack /\ next_ack = Len(teed) + 1
    BY <2>1
  <2> QED BY <2>1, <2>2, <2>3, Zenon DEF Landing
<1>4. Acked /\ Epochs
  BY DEF Init, Acked, Epochs, EpochsInChainOrder
<1> QED BY <1>1, <1>2, <1>3, <1>4 DEF IInv

\* append: a fresh call takes an answer or joins the batch, and no window sees
\* it.
LEMMA AppendInv == ASSUME IInv, NEW a \in Appends, Append_(a) PROVE IInv'
<1>1. /\ ticket[a] = "new" /\ seq_of[a] = 0 /\ a \notin batch
      /\ ticket \in [Appends -> Tickets] /\ epoch \in Nat /\ EpochOf[a] \in Nat
  BY SequencerAssumption DEF IInv, TypeOK, Staging, Append_
<1>2. PICK how \in Tickets \ {"new", "ok"} :
        /\ Answer({a}, how)
        /\ \/ UNCHANGED <<batch, epoch, flusher>>
           \/ /\ how = "staged" /\ ~Stale(a)
              /\ batch' = batch \cup {a}
              /\ epoch' = Max({epoch, EpochOf[a]})
              /\ flusher' = Wake
  BY DEF Append_, Tickets
<1>3. UNCHANGED <<next_seq, poisoned, shutdown, held, flying, lander, seq_of, landed, teed>>
  BY DEF Append_
<1>4. /\ ticket' \in [Appends -> Tickets]
      /\ \A b \in Appends : b # a => ticket'[b] = ticket[b]
      /\ ticket'[a] = how
  BY <1>1, <1>2 DEF Answer
<1>5. \/ batch' = batch /\ epoch' = epoch
      \/ batch' = batch \cup {a} /\ epoch' = EpochOf[a] /\ epoch <= EpochOf[a] /\ how = "staged"
  <2>1. epoch <= EpochOf[a] => Max({epoch, EpochOf[a]}) = EpochOf[a]
    BY <1>1, MaxIs
  <2> QED BY <1>1, <1>2, <2>1 DEF Stale
<1>6. /\ flusher' \in {"loop", "asleep", "build", "admit", "drain", "gone"}
      /\ HasHeld' = HasHeld /\ Top' = Top /\ Out' = Out
      /\ flusher' = "build" <=> flusher = "build"
      /\ flusher' = "admit" <=> flusher = "admit"
  BY <1>2, <1>3 DEF IInv, TypeOK, Wake, HasHeld, Top, Out, lander
<1>7. TypeOK'
  BY <1>3, <1>4, <1>5, <1>6, SequencerAssumption DEF IInv, TypeOK, lander
<1>8. \A S \in SUBSET Appends : \A q : Carries(S, q) => Carries(S, q)'
  BY <1>1, <1>3, <1>4 DEF Carries
<1>9. Staging'
  BY <1>1, <1>3, <1>4, <1>5, <1>6, <1>8 DEF IInv, TypeOK, Staging, HasHeld
<1>10. Tiled'
  <2>1. \A w \in Out : w.appends \in SUBSET Appends
    BY DEF IInv, TypeOK, Out, Windows
  <2> QED BY <1>3, <1>6, <1>8, <2>1 DEF IInv, Tiled, lander
<1>11. Landing' /\ Acked'
  BY <1>1, <1>3, <1>4, <1>6 DEF IInv, Landing, Acked, lander
<1>12. Epochs'
  <2>1. EpochOf \in [Appends -> Nat] /\ seq_of' = seq_of
    BY <1>3, SequencerAssumption
  <2>2. EpochsInChainOrder'
    BY <2>1 DEF IInv, Epochs, EpochsInChainOrder
  <2>3. CASE batch' = batch /\ epoch' = epoch
    BY <2>1, <2>2, <2>3 DEF IInv, Epochs
  <2>4. CASE batch' = batch \cup {a} /\ epoch' = EpochOf[a] /\ epoch <= EpochOf[a]
    <3>1. ASSUME NEW b \in Appends, 0 < seq_of[b] \/ b \in batch PROVE EpochOf[b] <= EpochOf[a]
      <4>1. EpochOf[b] <= epoch /\ EpochOf[b] \in Nat
        BY <2>1, <3>1 DEF IInv, Epochs
      <4> QED BY <1>1, <2>4, <4>1
    <3>2. ASSUME NEW b \in batch, NEW c \in Appends, 0 < seq_of[c] PROVE EpochOf[c] <= EpochOf[b]
      BY <3>2 DEF IInv, Epochs
    <3> QED BY <1>1, <2>1, <2>2, <2>4, <3>1, <3>2 DEF Epochs
  <2> QED BY <1>5, <2>3, <2>4
<1> QED BY <1>7, <1>9, <1>10, <1>11, <1>12 DEF IInv

\* Steps that move only the flusher's place: shutdown, the idle loop and the
\* end of the drain.
LEMMA FlusherMoves ==
  ASSUME IInv, ~HasHeld, flusher' \in {"loop", "asleep", "drain", "gone"},
         shutdown' \in BOOLEAN,
         UNCHANGED <<ticket, batch, epoch, next_seq, poisoned, held, flying, lander,
                     seq_of, landed, teed>>
  PROVE  IInv'
<1>1. ~HasHeld' /\ Top' = Top /\ Out' = Out /\ flusher # "build" /\ flusher # "admit"
  BY DEF HasHeld, Top, Out, lander
<1>2. TypeOK'
  BY DEF IInv, TypeOK, lander
<1>3. Staging'
  BY <1>1 DEF IInv, Staging, Carries, HasHeld
<1>4. Tiled'
  BY <1>1 DEF IInv, Tiled, Carries, lander
<1>5. Landing' /\ Acked' /\ Epochs'
  BY <1>1 DEF IInv, Landing, Acked, Epochs, EpochsInChainOrder, lander
<1> QED BY <1>2, <1>3, <1>4, <1>5 DEF IInv

LEMMA ShutdownInv == ASSUME IInv, BeginShutdown PROVE IInv'
<1>1. CASE HasHeld
  <2>1. flusher' = flusher /\ HasHeld' /\ Top' = Top /\ Out' = Out
    BY <1>1 DEF BeginShutdown, ShutdownWake, Wake, HasHeld, Top, Out, lander
  <2>2. TypeOK'
    BY <2>1 DEF BeginShutdown, IInv, TypeOK, lander
  <2>3. Staging' /\ Tiled'
    BY <1>1, <2>1 DEF BeginShutdown, IInv, Staging, Tiled, Carries, lander
  <2>4. Landing' /\ Acked' /\ Epochs'
    BY <1>1, <2>1 DEF BeginShutdown, IInv, Landing, Acked, Epochs, EpochsInChainOrder, lander
  <2> QED BY <2>2, <2>3, <2>4 DEF IInv
<1>2. CASE ~HasHeld
  <2>1. flusher' \in {"loop", "asleep", "drain", "gone"}
    BY <1>2 DEF BeginShutdown, ShutdownWake, Wake, HasHeld, IInv, TypeOK
  <2> QED BY <1>2, <2>1, FlusherMoves DEF BeginShutdown
<1> QED BY <1>1, <1>2

LEMMA IdleInv == ASSUME IInv, Idle PROVE IInv'
BY FlusherMoves DEF Idle, HasHeld, state, IInv, TypeOK

LEMMA DrainedInv == ASSUME IInv, Drained PROVE IInv'
BY FlusherMoves DEF Drained, HasHeld, state, IInv, TypeOK

\* The batch becomes a window at next_seq, unless the shard is poisoned.
LEMMA CloseInv == ASSUME IInv, CloseWindow PROVE IInv'
<1>1. /\ flusher = "loop" /\ ~HasHeld /\ Top = next_seq /\ Out' = Out
      /\ batch' = {} /\ batch # {} /\ batch \subseteq Appends
      /\ UNCHANGED <<epoch, next_seq, poisoned, shutdown, flying, lander, landed, teed>>
  BY DEF CloseWindow, IInv, TypeOK, HasHeld, Top, Out, lander
<1>2. CASE poisoned
  <2>1. Answer(batch, "poisoned") /\ UNCHANGED <<flusher, held, seq_of>>
    BY <1>2 DEF CloseWindow
  <2>2. /\ ticket' \in [Appends -> Tickets]
        /\ \A b \in Appends : b \notin batch => ticket'[b] = ticket[b]
        /\ \A b \in batch : ticket'[b] = "poisoned" /\ ticket[b] = "staged" /\ seq_of[b] = 0
    BY <1>1, <2>1 DEF Answer, IInv, TypeOK, Tickets, Staging
  <2>3. HasHeld' = HasHeld /\ Top' = Top
    BY <1>1, <2>1 DEF HasHeld, Top
  <2>4. TypeOK'
    BY <1>1, <2>1, <2>2 DEF IInv, TypeOK, lander
  <2>5. Staging'
    BY <1>1, <2>1, <2>2, <2>3 DEF IInv, Staging
  <2>6. Tiled'
    <3>1. ASSUME NEW w \in Out PROVE Carries(w.appends, w.seq)'
      <4>1. w.appends \subseteq Appends /\ w.seq >= 1 /\ Carries(w.appends, w.seq) /\ w.seq \in Nat
        BY DEF IInv, TypeOK, Tiled, Out, Windows
      <4> QED BY <2>1, <2>2, <4>1 DEF Carries
    <3> QED BY <1>1, <2>3, <3>1 DEF IInv, Tiled, lander
  <2>7. Landing'
    BY <1>1, <2>3 DEF IInv, Landing, lander
  <2>8. Acked'
    BY <1>1, <2>1, <2>2 DEF IInv, Acked
  <2>9. Epochs'
    BY <1>1, <2>1 DEF IInv, Epochs, EpochsInChainOrder
  <2> QED BY <2>4, <2>5, <2>6, <2>7, <2>8, <2>9 DEF IInv
<1>3. CASE ~poisoned
  <2>1. /\ held' = [seq |-> next_seq, appends |-> batch] /\ flusher' = "build"
        /\ seq_of' = [a \in Appends |-> IF a \in batch THEN next_seq ELSE seq_of[a]]
        /\ UNCHANGED ticket
    BY <1>3 DEF CloseWindow
  <2>2. /\ held'.seq = next_seq /\ held'.appends = batch /\ HasHeld' /\ Top' = Top
        /\ next_seq \in Nat /\ next_seq >= 1
    BY <1>1, <2>1 DEF HasHeld, Top, IInv, TypeOK, Staging
  <2>3. /\ seq_of' \in [Appends -> Nat] /\ seq_of \in [Appends -> Nat]
        /\ \A a \in batch : seq_of[a] = 0 /\ seq_of'[a] = next_seq /\ ticket[a] = "staged"
        /\ \A a \in Appends : a \notin batch => seq_of'[a] = seq_of[a]
        /\ \A a \in Appends : seq_of[a] < next_seq
    BY <1>1, <2>1, <2>2 DEF IInv, TypeOK, Staging
  <2>4. TypeOK'
    BY <1>1, <2>1, <2>2, <2>3 DEF IInv, TypeOK, lander
  <2>5. Staging'
    <3>1. Carries(held.appends, held.seq)'
      BY <1>1, <2>1, <2>2, <2>3 DEF Carries
    <3> QED BY <1>1, <2>1, <2>2, <2>3, <3>1 DEF IInv, Staging, HasHeld
  <2>6. Tiled'
    <3>1. ASSUME NEW w \in Out PROVE Carries(w.appends, w.seq)'
      <4>1. w.appends \subseteq Appends /\ w.seq >= 1 /\ Carries(w.appends, w.seq) /\ w.seq \in Nat
        BY DEF IInv, TypeOK, Tiled, Out, Windows
      <4> QED BY <2>1, <2>3, <4>1 DEF Carries
    <3> QED BY <1>1, <2>2, <3>1 DEF IInv, Tiled, lander
  <2>7. Landing'
    BY <1>1, <1>3, <2>2 DEF IInv, Landing, lander
  <2>8. Acked'
    BY <1>1, <2>1, <2>3 DEF IInv, Acked
  <2>9. Epochs'
    <3>1. EpochOf \in [Appends -> Nat]
      BY SequencerAssumption
    <3>2. ASSUME NEW a \in Appends, 0 < seq_of'[a] PROVE EpochOf[a] <= epoch
      BY <1>1, <2>3, <3>2 DEF IInv, Epochs
    <3>3. ASSUME NEW a \in Appends, NEW b \in Appends, 0 < seq_of'[a], seq_of'[a] < seq_of'[b]
          PROVE  EpochOf[a] <= EpochOf[b]
      <4>1. a \notin batch
        BY <2>2, <2>3, <3>3
      <4>2. CASE b \in batch
        BY <2>3, <3>3, <4>1, <4>2 DEF IInv, Epochs
      <4>3. CASE b \notin batch
        BY <2>3, <3>3, <4>1, <4>3 DEF IInv, Epochs, EpochsInChainOrder
      <4> QED BY <4>2, <4>3
    <3> QED BY <1>1, <3>2, <3>3 DEF Epochs, EpochsInChainOrder
  <2> QED BY <2>4, <2>5, <2>6, <2>7, <2>8, <2>9 DEF IInv
<1> QED BY <1>2, <1>3

\* The segment is built: the position moves past the window in hand.
LEMMA BuildInv == ASSUME IInv, Build PROVE IInv'
<1>1. /\ flusher = "build" /\ flusher' = "admit" /\ HasHeld /\ HasHeld' /\ Top' = Top /\ Out' = Out
      /\ held.seq = next_seq /\ next_seq' = next_seq + 1 /\ next_seq \in Nat
      /\ UNCHANGED <<ticket, batch, epoch, poisoned, shutdown, held, flying, lander, seq_of, landed, teed>>
  BY DEF Build, IInv, TypeOK, Staging, HasHeld, Top, Out, lander
<1>2. TypeOK'
  BY <1>1 DEF IInv, TypeOK, lander
<1>3. Staging'
  BY <1>1 DEF IInv, TypeOK, Staging, Carries
<1>4. Tiled'
  BY <1>1 DEF IInv, Tiled, Carries, lander
<1>5. Landing' /\ Acked'
  BY <1>1 DEF IInv, Landing, Acked, lander
<1>6. Epochs'
  BY <1>1 DEF IInv, Epochs, EpochsInChainOrder
<1> QED BY <1>2, <1>3, <1>4, <1>5, <1>6 DEF IInv

\* An admitted window leaves the flusher's hands and takes a slot.
LEMMA DispatchInv == ASSUME IInv, Dispatch PROVE IInv'
<1> DEFINE n == [seq |-> held.seq, appends |-> held.appends, at |-> "put"]
<1>1. /\ flusher = "admit" /\ flusher' = "loop" /\ HasHeld /\ ~HasHeld'
      /\ Top = held.seq /\ Top' = held.seq + 1 /\ next_seq = held.seq + 1
      /\ held.seq \in Nat /\ held.seq >= 1 /\ held.appends \in SUBSET Appends
      /\ UNCHANGED <<ticket, state, parked, next_ack, failed, seq_of, landed, teed>>
  BY DEF Dispatch, IInv, TypeOK, Staging, HasHeld, Top, state
<1>2. n \in Windows /\ n.seq = Top /\ n.at = "put" /\ Carries(n.appends, n.seq)
  BY <1>1 DEF IInv, Staging, Windows
<1>3. flying' = flying \cup {n} /\ Out' = Out \cup {n}
  BY <1>1 DEF Dispatch, Out
<1>4. outstanding' = outstanding + 1 /\ outstanding < Inflight
  BY DEF Dispatch, HasSlot
<1>5. n \notin Out /\ \A w \in Out : w.seq < n.seq /\ w.seq \in Nat
  <2>1. \A w \in Out : w.seq \in next_ack..(Top - 1) /\ w.seq \in Nat
    BY DEF IInv, TypeOK, Tiled, Out, Windows
  <2> QED BY <1>1, <1>2, <2>1 DEF IInv, TypeOK
<1> HIDE DEF n
<1>6. TypeOK'
  <2>1. held' \in [seq: Nat, appends: SUBSET Appends]
    BY DEF Dispatch, NoWindow
  <2>2. outstanding' \in 0..Inflight
    BY <1>4, SequencerAssumption DEF IInv, TypeOK
  <2> QED BY <1>1, <1>2, <1>3, <2>1, <2>2 DEF IInv, TypeOK, state
<1>7. Staging'
  BY <1>1 DEF IInv, Staging, state
<1>8. Tiled'
  <2>1. next_ack \in Nat /\ next_ack <= Top /\ 1 <= next_ack /\ Top \in Nat /\ Top' = Top + 1
    BY <1>1 DEF IInv, TypeOK, Tiled
  <2>2. \A w \in Out' : w.seq \in next_ack..Top /\ Carries(w.appends, w.seq)'
    BY <1>1, <1>2, <1>3, <2>1 DEF IInv, Tiled, Carries
  <2>3. \A v, w \in Out' : v.seq = w.seq => v = w
    BY <1>2, <1>3, <1>5, <2>1 DEF IInv, Tiled
  <2>4. \A q \in next_ack..Top : \E w \in Out' : w.seq = q
    BY <1>2, <1>3, <2>1 DEF IInv, Tiled
  <2>5. flying' \cap parked' = {} /\ \A w \in parked' : w.at # "put"
    BY <1>1, <1>3, <1>5 DEF IInv, Tiled, Out
  <2>6. outstanding' = Top' - next_ack'
    BY <1>1, <1>4, <2>1 DEF IInv, Tiled
  <2> QED BY <1>1, <2>1, <2>2, <2>3, <2>4, <2>5, <2>6 DEF Tiled
<1>9. Landing'
  <2>1. \A w \in Out' : w.at = "ok" => w.seq \in landed
    BY <1>2, <1>3 DEF IInv, Landing
  <2>2. \A q \in landed : 1 <= q /\ q < Top'
    BY <1>1 DEF IInv, TypeOK, Landing
  <2>3. failed => Top' + (IF HasHeld' THEN 1 ELSE 0) <= Len(teed) + 2 + Inflight
    <3>1. failed => Top + 1 <= Len(teed) + 2 + Inflight
      BY <1>1 DEF IInv, Landing
    <3> QED BY <1>1, <3>1
  <2> QED BY <1>1, <2>1, <2>2, <2>3 DEF IInv, Landing, state
<1>10. Acked' /\ Epochs'
  BY <1>1 DEF IInv, Acked, Epochs, EpochsInChainOrder, state
<1> QED BY <1>6, <1>7, <1>8, <1>9, <1>10 DEF IInv

\* The store answers a PUT: the window keeps its place, whichever way.
LEMMA PutInv == ASSUME IInv, NEW d \in flying, PutAnswer(d) PROVE IInv'
<1>1. PICK at \in {"ok", "failed"} :
        /\ flying' = (flying \ {d}) \cup {[d EXCEPT !.at = at]}
        /\ landed' \in {landed, landed \cup {d.seq}}
        /\ at = "ok" => landed' = landed \cup {d.seq}
  BY DEF PutAnswer
<1> DEFINE n == [d EXCEPT !.at = at]
<1>2. /\ d \in Windows /\ n \in Windows /\ n.seq = d.seq /\ n.appends = d.appends /\ n.at = at
      /\ d \in Out /\ d.seq \in Nat
  BY <1>1 DEF IInv, TypeOK, Windows, Out
<1>3. d.at = "put" /\ d \notin parked
      /\ UNCHANGED <<ticket, state, flusher, held, lander, seq_of, teed>>
  BY DEF PutAnswer, IInv, Tiled
<1>4. /\ HasHeld' = HasHeld /\ Top' = Top /\ flying' = (flying \ {d}) \cup {n}
      /\ Out' = (Out \ {d}) \cup {n} /\ Top \in Nat
  BY <1>1, <1>3 DEF HasHeld, Top, Out, state, lander, IInv, TypeOK
<1>5. \A w \in Out \ {d} : w.seq # d.seq
  BY <1>2 DEF IInv, Tiled
<1> HIDE DEF n
<1>6. TypeOK'
  <2>1. landed' \subseteq Nat
    BY <1>1, <1>2 DEF IInv, TypeOK
  <2> QED BY <1>2, <1>3, <1>4, <2>1 DEF IInv, TypeOK, state, lander
<1>7. Staging'
  BY <1>3, <1>4 DEF IInv, Staging, Carries, state
<1>8. Tiled'
  <2>1. \A w \in Out' : w.seq \in next_ack..(Top - 1) /\ Carries(w.appends, w.seq)'
    BY <1>2, <1>3, <1>4 DEF IInv, Tiled, Carries
  <2>2. \A v, w \in Out' : v.seq = w.seq => v = w
    BY <1>2, <1>4, <1>5 DEF IInv, Tiled
  <2>3. \A q \in next_ack..(Top - 1) : \E w \in Out' : w.seq = q
    BY <1>2, <1>4 DEF IInv, Tiled
  <2>4. n \notin parked
    BY <1>2, <1>3, <1>5 DEF Out
  <2>5. flying' \cap parked' = {} /\ \A w \in parked' : w.at # "put"
    BY <1>3, <1>4, <2>4 DEF IInv, Tiled, lander
  <2> QED BY <1>3, <1>4, <2>1, <2>2, <2>3, <2>5 DEF IInv, Tiled, lander
<1>9. Landing'
  <2>1. \A w \in Out' : w.at = "ok" => w.seq \in landed'
    BY <1>1, <1>2, <1>4 DEF IInv, Landing
  <2>2. \A q \in landed' : 1 <= q /\ q < Top
    <3>1. 1 <= d.seq /\ d.seq < Top
      BY <1>2, <1>4 DEF IInv, TypeOK, Tiled
    <3> QED BY <1>1, <3>1 DEF IInv, Landing
  <2>3. landed \subseteq landed'
    BY <1>1
  <2> QED BY <1>3, <1>4, <2>1, <2>2, <2>3 DEF IInv, Landing, state, lander
<1>10. Acked' /\ Epochs'
  BY <1>3 DEF IInv, Acked, Epochs, EpochsInChainOrder, state
<1> QED BY <1>6, <1>7, <1>8, <1>9, <1>10 DEF IInv

\* What the tee holds once the acks of a resolved run are appended to it.
LEMMA Appended ==
  ASSUME NEW s \in Seq(Nat), NEW m \in Seq(Nat), NEW t, t = s \o m
  PROVE  /\ t \in Seq(Nat) /\ Len(t) = Len(s) + Len(m)
         /\ \A i \in 1..(Len(s) + Len(m)) : t[i] = IF i <= Len(s) THEN s[i] ELSE m[i - Len(s)]
  BY ConcatProperties, Zenon

\* Lander::complete in the terms of the lemmas above.
LEMMA CompleteIs ==
  ASSUME NEW d, Complete(d)
  PROVE  /\ d.at \in {"ok", "failed"}
         /\ flying' = flying \ {d}
         /\ parked' = Park(d) \ DoneSet(d)
         /\ next_ack' = IF DoneSet(d) = {} THEN next_ack ELSE Max({w.seq : w \in DoneSet(d)}) + 1
         /\ outstanding' = outstanding - Cardinality(DoneSet(d))
         /\ failed' = (failed \/ BadSet(d) # {})
         /\ poisoned' = (poisoned \/ BadSet(d) # {})
         /\ ticket' = [a \in Appends |->
              CASE \E w \in OkSet(d) : a \in w.appends  -> "ok"
                [] \E w \in BadSet(d) : a \in w.appends -> "store"
                [] \E w \in DoneSet(d) \ (OkSet(d) \cup BadSet(d)) : a \in w.appends -> "poisoned"
                [] OTHER -> ticket[a]]
         /\ teed' = teed \o ToTee(OkSet(d), DoneSet(d))
         /\ UNCHANGED <<batch, epoch, next_seq, shutdown, flusher, held, seq_of, landed>>
BY DEF Complete, Park, DoneSet, OkSet, BadSet

\* The prefix resolves: acknowledged up to the first failure, and never again
\* after one.
LEMMA CompleteInv == ASSUME IInv, NEW d \in flying, Complete(d) PROVE IInv'
<1>1. /\ d.at \in {"ok", "failed"}
      /\ flying' = flying \ {d}
      /\ parked' = Park(d) \ DoneSet(d)
      /\ UNCHANGED <<batch, epoch, next_seq, shutdown, flusher, held, seq_of, landed>>
      /\ failed' = (failed \/ BadSet(d) # {})
      /\ poisoned' = (poisoned \/ BadSet(d) # {})
  BY CompleteIs
<1>2. PICK g \in next_ack..Top : \E h \in next_ack..g : Resolves(d, g, h)
  BY <1>1, ResolveFacts
<1>3. PICK h \in next_ack..g : Resolves(d, g, h)
  BY <1>2
<1>4. /\ \A w \in Park(d) : w \in DoneSet(d) <=> w.seq < g
      /\ \A q \in next_ack..(g - 1) : \E w \in DoneSet(d) : w.seq = q
      /\ Cardinality(DoneSet(d)) = g - next_ack
      /\ g = IF DoneSet(d) = {} THEN next_ack ELSE Max({w.seq : w \in DoneSet(d)}) + 1
      /\ \A w \in DoneSet(d) : w \in OkSet(d) <=> w.seq < h
      /\ \A w \in OkSet(d) : w.at = "ok"
      /\ Cardinality(OkSet(d)) = h - next_ack
  BY <1>3 DEF Resolves
<1>5. /\ next_ack' = g /\ outstanding' = outstanding - (g - next_ack)
      /\ next_ack \in Nat /\ Top \in Nat /\ g \in Nat /\ h \in Nat
      /\ next_ack <= h /\ h <= g /\ g <= Top /\ outstanding = Top - next_ack /\ 1 <= next_ack
      /\ Top' = Top /\ HasHeld' = HasHeld
  <2>1. next_ack' = g /\ outstanding' = outstanding - (g - next_ack)
    BY <1>4, CompleteIs
  <2>2. next_ack \in Nat /\ Top \in Nat /\ outstanding = Top - next_ack /\ 1 <= next_ack
    BY DEF IInv, TypeOK, Tiled, Top, HasHeld
  <2>3. Top' = Top /\ HasHeld' = HasHeld
    BY <1>1 DEF Top, HasHeld
  <2> QED BY <1>4, <2>1, <2>2, <2>3
<1>6. /\ Park(d) \subseteq Out /\ Out \subseteq Windows
      /\ OkSet(d) \subseteq DoneSet(d) /\ BadSet(d) \subseteq DoneSet(d) /\ DoneSet(d) \subseteq Park(d)
      /\ \A w \in Out : w.seq \in Nat /\ w.appends \in SUBSET Appends
      /\ \A w \in Out : w.seq \in next_ack..(Top - 1) /\ Carries(w.appends, w.seq)
      /\ \A v, w \in Out : v.seq = w.seq => v = w
  BY DEF IInv, TypeOK, Tiled, Out, Park, Windows, OkSet, BadSet, DoneSet
<1>7. Out' = Out \ DoneSet(d) /\ flying' \cap parked' = {}
  <2>1. flying \cap parked = {}
    BY DEF IInv, Tiled
  <2>2. flying' \cap DoneSet(d) = {} /\ flying' \cap Park(d) = {}
    BY <1>1, <1>6, <2>1 DEF Park
  <2> QED BY <1>1, <1>6, <2>2 DEF Out, Park
<1>8. \A w \in Out : w \in DoneSet(d) <=> w.seq < g
  <2> SUFFICES ASSUME NEW w \in Out, w.seq < g PROVE w \in DoneSet(d)
    BY <1>4, <1>6
  <2>1. PICK v \in DoneSet(d) : v.seq = w.seq
    BY <1>4, <1>5, <1>6
  <2> QED BY <1>6, <2>1
<1>9. /\ ticket \in [Appends -> Tickets] /\ ticket' \in [Appends -> Tickets]
      /\ \A a \in Appends : (\E w \in OkSet(d) : a \in w.appends) => ticket'[a] = "ok"
      /\ \A a \in Appends : ticket'[a] = "ok" =>
            ticket[a] = "ok" \/ \E w \in OkSet(d) : a \in w.appends
      /\ \A a \in Appends : ticket'[a] = "new" => ticket[a] = "new"
      /\ \A a \in Appends : (\A w \in DoneSet(d) : a \notin w.appends) => ticket'[a] = ticket[a]
  <2>1. ticket' = [a \in Appends |->
              CASE \E w \in OkSet(d) : a \in w.appends  -> "ok"
                [] \E w \in BadSet(d) : a \in w.appends -> "store"
                [] \E w \in DoneSet(d) \ (OkSet(d) \cup BadSet(d)) : a \in w.appends -> "poisoned"
                [] OTHER -> ticket[a]]
    BY CompleteIs
  <2>2. ticket \in [Appends -> Tickets]
    BY DEF IInv, TypeOK
  <2>3. ASSUME NEW a \in Appends
        PROVE  /\ (\E w \in OkSet(d) : a \in w.appends) => ticket'[a] = "ok"
               /\ \/ (\E w \in OkSet(d) : a \in w.appends) /\ ticket'[a] = "ok"
                  \/ (\E w \in DoneSet(d) : a \in w.appends) /\ ticket'[a] \in {"store", "poisoned"}
                  \/ ticket'[a] = ticket[a]
               /\ (\A w \in DoneSet(d) : a \notin w.appends) => ticket'[a] = ticket[a]
    <3> DEFINE inOk == \E w \in OkSet(d) : a \in w.appends
               inBad == \E w \in BadSet(d) : a \in w.appends
               inRest == \E w \in DoneSet(d) \ (OkSet(d) \cup BadSet(d)) : a \in w.appends
               inDone == \E w \in DoneSet(d) : a \in w.appends
    <3>1. ticket'[a] = CASE inOk -> "ok" [] inBad -> "store" [] inRest -> "poisoned"
                         [] OTHER -> ticket[a]
      BY <2>1, Zenon
    <3>2. inDone <=> inOk \/ inBad \/ inRest
      BY <1>6
    <3>3. inOk \in BOOLEAN /\ inBad \in BOOLEAN /\ inRest \in BOOLEAN /\ inDone \in BOOLEAN
      OBVIOUS
    <3>4. ~(inOk /\ inBad) /\ ~(inOk /\ inRest) /\ ~(inBad /\ inRest)
      <4>1. OkSet(d) \cap BadSet(d) = {}
        BY DEF OkSet, BadSet
      <4>2. \A v, w \in DoneSet(d) : a \in v.appends /\ a \in w.appends => v = w
        BY <1>6 DEF Carries
      <4> QED BY <1>6, <4>1, <4>2
    <3> HIDE DEF inOk, inBad, inRest, inDone
    <3>5. inOk => ticket'[a] = "ok"
      BY <3>1, <3>3, <3>4
    <3>6. \/ inOk /\ ticket'[a] = "ok"
          \/ inDone /\ ticket'[a] \in {"store", "poisoned"}
          \/ ~inDone /\ ticket'[a] = ticket[a]
      BY <3>1, <3>2, <3>3, <3>4
    <3> QED BY <3>2, <3>5, <3>6, Zenon DEF inOk, inDone
  <2>4. \A a \in Appends : ticket'[a] \in Tickets
    BY <2>2, <2>3 DEF Tickets
  <2> QED BY <2>1, <2>2, <2>3, <2>4
<1>10. \A w \in Out' : Carries(w.appends, w.seq)'
  <2> SUFFICES ASSUME NEW w \in Out' PROVE Carries(w.appends, w.seq)'
    OBVIOUS
  <2>1. w \in Out /\ w \notin DoneSet(d)
    BY <1>7
  <2>2. \A a \in w.appends : \A v \in DoneSet(d) : a \notin v.appends
    BY <1>6, <2>1 DEF Carries
  <2> QED BY <1>1, <1>6, <1>9, <2>1, <2>2 DEF Carries
<1>11. /\ teed' \in Seq(Nat) /\ Len(teed') = Len(teed) + (h - next_ack) /\ Len(teed) \in Nat
       /\ \A i \in 1..Len(teed') : teed'[i] = i
       /\ failed => h = next_ack
       /\ ~failed => next_ack = Len(teed) + 1
       /\ Len(teed) < next_ack
  <2> DEFINE more == ToTee(OkSet(d), DoneSet(d))
             c == h - next_ack
  <2>1. c \in Nat /\ more = [i \in 1..c |-> next_ack + i - 1]
    BY <1>4, <1>5 DEF ToTee
  <2>2. \A i \in 1..c : next_ack + i - 1 \in Nat
    BY <1>5, <2>1
  <2>3. more \in Seq(Nat) /\ Len(more) = c /\ \A i \in 1..c : more[i] = next_ack + i - 1
    BY <2>1, <2>2, IsASeq
  <2>4. teed' = teed \o more /\ teed \in Seq(Nat) /\ Len(teed) \in Nat
    BY CompleteIs, LenProperties DEF IInv, TypeOK
  <2> HIDE DEF more
  <2>5. /\ teed' \in Seq(Nat) /\ Len(teed') = Len(teed) + c
        /\ \A i \in 1..(Len(teed) + c) : teed'[i] = IF i <= Len(teed) THEN teed[i] ELSE more[i - Len(teed)]
    <3>1. /\ teed' \in Seq(Nat) /\ Len(teed') = Len(teed) + Len(more)
          /\ \A i \in 1..(Len(teed) + Len(more)) :
                teed'[i] = IF i <= Len(teed) THEN teed[i] ELSE more[i - Len(teed)]
      BY <2>3, <2>4, Appended, Zenon
    <3>2. Len(more) = c
      BY <2>3
    <3> HIDE DEF c
    <3> QED BY <3>1, <3>2, Zenon
  <2>8. (failed => h = next_ack) /\ (~failed => next_ack = Len(teed) + 1)
    BY <1>3, Zenon DEF IInv, Landing, Resolves
  <2>9. Len(teed) < next_ack
    BY DEF IInv, Landing
  <2>6. c = 0 \/ next_ack = Len(teed) + 1
    BY <1>5, <2>8
  <2>7. \A i \in 1..Len(teed) : teed[i] = i
    BY DEF IInv, Landing
  <2>10. \A i \in 1..Len(teed') : teed'[i] = i
    BY <2>1, <2>3, <2>4, <2>5, <2>6, <2>7
  <2> QED BY <2>4, <2>5, <2>8, <2>9, <2>10
<1>12. TypeOK'
  <2>1. outstanding' \in 0..Inflight /\ next_ack' \in Nat
    BY <1>5, SequencerAssumption DEF IInv, TypeOK
  <2>2. flying' \subseteq Windows /\ parked' \subseteq Windows
    BY <1>1, <1>6 DEF IInv, TypeOK
  <2>3. failed' \in BOOLEAN /\ poisoned' \in BOOLEAN
    BY <1>1
  <2> QED BY <1>1, <1>9, <1>11, <2>1, <2>2, <2>3 DEF IInv, TypeOK
<1>13. Staging'
  <2>1. ASSUME NEW a \in Appends, NEW w \in DoneSet(d), a \in w.appends
        PROVE  seq_of[a] = w.seq /\ 0 < w.seq /\ w.seq < Top
    BY <1>5, <1>6, <2>1 DEF Carries
  <2>2. HasHeld => Carries(held.appends, held.seq)'
    <3> SUFFICES ASSUME HasHeld PROVE Carries(held.appends, held.seq)'
      OBVIOUS
    <3>1. held.seq = Top /\ Carries(held.appends, held.seq) /\ held.appends \subseteq Appends
      BY DEF IInv, TypeOK, Staging, Top
    <3> QED BY <1>1, <1>5, <1>6, <1>9, <2>1, <3>1 DEF Carries
  <2>3. \A a \in batch : ticket'[a] = "staged" /\ seq_of[a] = 0
    <3>1. ASSUME NEW a \in batch
          PROVE  /\ a \in Appends /\ ticket[a] = "staged" /\ seq_of[a] = 0
                 /\ \A w \in DoneSet(d) : a \notin w.appends
      <4>1. a \in Appends /\ ticket[a] = "staged" /\ seq_of[a] = 0
        BY DEF IInv, TypeOK, Staging
      <4>2. ASSUME NEW w \in DoneSet(d), a \in w.appends PROVE FALSE
        BY <1>6, <2>1, <4>1, <4>2
      <4> QED BY <4>1, <4>2
    <3> QED BY <1>9, <3>1
  <2>4. \A a \in Appends : ticket'[a] = "new" => seq_of[a] = 0
    BY <1>9 DEF IInv, Staging
  <2> QED BY <1>1, <1>5, <2>2, <2>3, <2>4 DEF IInv, Staging
<1>14. Tiled'
  <2>1. \A w \in Out' : w.seq \in g..(Top - 1)
    BY <1>5, <1>6, <1>7, <1>8
  <2>2. \A v, w \in Out' : v.seq = w.seq => v = w
    BY <1>6, <1>7
  <2>3. \A q \in g..(Top - 1) : \E w \in Out' : w.seq = q
    BY <1>5, <1>6, <1>7, <1>8 DEF IInv, Tiled
  <2>4. \A w \in parked' : w.at # "put"
    BY <1>1 DEF IInv, Tiled, Park
  <2> QED BY <1>5, <1>7, <1>10, <2>1, <2>2, <2>3, <2>4 DEF Tiled
<1>15. Landing'
  <2>1. \A w \in Out' : w.at = "ok" => w.seq \in landed
    BY <1>7 DEF IInv, Landing
  <2>2. \A i \in 1..Len(teed') : i \in landed
    <3> SUFFICES ASSUME NEW i \in 1..Len(teed'), i > Len(teed) PROVE i \in landed
      BY <1>11 DEF IInv, Landing
    <3>1. i \in next_ack..(h - 1)
      BY <1>5, <1>11
    <3>2. PICK w \in DoneSet(d) : w.seq = i
      <4>1. i \in next_ack..(g - 1)
        BY <1>5, <3>1
      <4> QED BY <1>4, <4>1
    <3>3. w \in OkSet(d) /\ w.at = "ok" /\ w \in Out
      BY <1>4, <1>5, <1>6, <3>1, <3>2
    <3> QED BY <3>2, <3>3 DEF IInv, Landing
  <2>3. failed' = poisoned'
    BY <1>1 DEF IInv, Landing
  <2>4. Len(teed') < g
    BY <1>5, <1>11
  <2>5. ~failed' => g = Len(teed') + 1
    <3>1. ~failed' => ~failed /\ h = g
      BY <1>1, <1>3 DEF Resolves
    <3> QED BY <1>5, <1>11, <3>1
  <2>6. failed' => Top + (IF HasHeld THEN 1 ELSE 0) <= Len(teed') + 2 + Inflight
    <3>1. CASE failed
      BY <1>5, <1>11, <3>1 DEF IInv, Landing
    <3>2. CASE ~failed
      <4>1. next_ack = Len(teed) + 1
        BY <3>2 DEF IInv, Landing
      <4>2. Top <= next_ack + Inflight /\ Inflight \in Nat
        BY <1>5, SequencerAssumption DEF IInv, TypeOK
      <4> QED BY <1>5, <1>11, <4>1, <4>2
    <3> QED BY <3>1, <3>2
  <2> QED BY <1>1, <1>5, <1>11, <2>1, <2>2, <2>3, <2>4, <2>5, <2>6 DEF IInv, Landing
<1>16. Acked'
  <2>1. ASSUME NEW a \in Appends, ticket'[a] = "ok" PROVE seq_of[a] \in 1..Len(teed')
    <3>1. CASE ticket[a] = "ok"
      BY <1>5, <1>11, <3>1 DEF IInv, Acked
    <3>2. ASSUME NEW w \in OkSet(d), a \in w.appends PROVE seq_of[a] \in 1..Len(teed')
      <4>1. seq_of[a] = w.seq /\ w.seq \in next_ack..(h - 1) /\ w.seq \in Nat
        BY <1>4, <1>5, <1>6, <3>2 DEF Carries
      <4> QED BY <1>5, <1>11, <4>1
    <3> QED BY <1>9, <2>1, <3>1, <3>2
  <2>2. ASSUME NEW i \in 1..Len(teed') PROVE \E a \in Appends : ticket'[a] = "ok" /\ seq_of[a] = i
    <3>1. CASE i <= Len(teed)
      <4>1. PICK a \in Appends : ticket[a] = "ok" /\ seq_of[a] = i
        BY <1>11, <3>1 DEF IInv, Acked
      <4>2. \A w \in DoneSet(d) : a \notin w.appends
        BY <1>6, <4>1 DEF Carries
      <4> QED BY <1>9, <4>1, <4>2
    <3>2. CASE i > Len(teed)
      <4>1. i \in next_ack..(h - 1)
        BY <1>5, <1>11, <3>2
      <4>2. PICK w \in DoneSet(d) : w.seq = i
        <5>1. i \in next_ack..(g - 1)
          BY <1>5, <4>1
        <5> QED BY <1>4, <5>1
      <4>3. w \in OkSet(d) /\ w \in Out
        BY <1>4, <1>5, <1>6, <4>1, <4>2
      <4>4. PICK a \in w.appends : seq_of[a] = i
        BY <1>6, <4>2, <4>3 DEF Carries
      <4> QED BY <1>6, <1>9, <4>3, <4>4
    <3> QED BY <1>11, <3>1, <3>2
  <2> QED BY <1>1, <2>1, <2>2 DEF Acked
<1>17. Epochs'
  BY <1>1 DEF IInv, Epochs, EpochsInChainOrder
<1> QED BY <1>12, <1>13, <1>14, <1>15, <1>16, <1>17 DEF IInv

LEMMA Step == IInv /\ [Next]_vars => IInv'
<1> SUFFICES ASSUME IInv, [Next]_vars PROVE IInv'
  OBVIOUS
<1>1. ASSUME NEW a \in Appends, Append_(a) PROVE IInv'
  BY <1>1, AppendInv
<1>2. CASE BeginShutdown
  BY <1>2, ShutdownInv
<1>3. CASE Flusher
  BY <1>3, IdleInv, CloseInv, BuildInv, DispatchInv, DrainedInv DEF Flusher
<1>4. ASSUME NEW d \in flying, PutAnswer(d) \/ Complete(d) PROVE IInv'
  BY <1>4, PutInv, CompleteInv
<1>5. CASE UNCHANGED vars
  <2>1. UNCHANGED <<ticket, batch, epoch, next_seq, poisoned, shutdown, flusher, held, flying,
                    parked, next_ack, failed, outstanding, seq_of, landed, teed>>
    BY <1>5 DEF vars, state, lander
  <2> QED BY <2>1 DEF IInv, TypeOK, Staging, Tiled, Landing, Acked, Epochs, EpochsInChainOrder,
                      HasHeld, Top, Out, Carries
<1> QED BY <1>1, <1>2, <1>3, <1>4, <1>5 DEF Next

LEMMA Inductive == Spec => []IInv
BY InitInv, Step, PTL DEF Spec

-----------------------------------------------------------------------------
(* Theorems                                                                 *)

\* A committer is told Ok only when its window and every window before it are
\* in the store: Lander::complete acknowledges along the chain, so a PUT that
\* overtakes another waits for it.
THEOREM AcksDurable == Spec => []AcksAreDurable
<1>1. IInv => AcksAreDurable
  <2> SUFFICES ASSUME IInv, NEW a \in Appends, ticket[a] = "ok", NEW q \in 1..seq_of[a]
               PROVE  q \in landed
    BY DEF AcksAreDurable
  <2>1. seq_of[a] \in 1..Len(teed) /\ seq_of[a] \in Nat /\ Len(teed) \in Nat
    BY LenProperties DEF IInv, TypeOK, Acked
  <2>2. q \in 1..Len(teed)
    BY <2>1
  <2> QED BY <2>2 DEF IInv, Landing
<1> QED BY <1>1, Inductive, PTL

\* The tee hears of every acknowledged window, once and in chain order, and of
\* no other: what complete publishes is what it answers Ok.
THEOREM TeeInOrder == Spec => []TeeFollowsAcks
<1>1. IInv => TeeFollowsAcks
  <2> SUFFICES ASSUME IInv PROVE TeeFollowsAcks
    OBVIOUS
  <2>1. \A i \in 1..Len(teed) : teed[i] = i
    BY DEF IInv, Landing
  <2>2. \A a \in Appends : ticket[a] = "ok" => seq_of[a] \in 1..Len(teed)
    BY DEF IInv, Acked
  <2>3. \A i \in 1..Len(teed) : \E a \in Appends : ticket[a] = "ok" /\ seq_of[a] = i
    BY DEF IInv, Acked
  <2> QED BY <2>1, <2>2, <2>3 DEF TeeFollowsAcks
<1> QED BY <1>1, Inductive, PTL

\* The epoch check of append is enough to order the writers along the chain:
\* no window holds frames of a writer older than one admitted before it.
THEOREM EpochFence == Spec => []EpochsInChainOrder
<1>1. IInv => EpochsInChainOrder
  BY DEF IInv, Epochs
<1> QED BY <1>1, Inductive, PTL

\* No object lies more than inflight positions past the first hole, whatever
\* fails and however late the poison is seen: what chain_head's backscan over
\* inflight positions relies on.
THEOREM Stragglers == Spec => []StragglersBounded
<1>1. IInv => StragglersBounded
  <2> SUFFICES ASSUME IInv, NEW q \in landed
               PROVE  q <= Min({r \in 1..next_seq : r \notin landed}) + Inflight
    BY DEF StragglersBounded
  <2> DEFINE T == {r \in 1..next_seq : r \notin landed}
             hole == Min(T)
  <2>1. /\ next_seq \in Nat /\ next_seq >= 1 /\ Top \in Nat /\ Top <= next_seq
        /\ Len(teed) \in Nat /\ q \in Nat /\ Inflight \in Nat /\ next_ack \in Nat
    BY LenProperties, SequencerAssumption DEF IInv, TypeOK, Staging, Top, HasHeld
  <2>2. next_seq \in T
    BY <2>1 DEF IInv, Landing
  <2>3. hole \in T
    <3>1. T \subseteq Nat
      BY <2>1
    <3> HIDE DEF T
    <3> QED BY <2>2, <3>1, MinIsLeast
  <2>4. hole \in Nat /\ hole >= 1 /\ hole \notin landed
    BY <2>1, <2>3
  <2> HIDE DEF hole, T
  <2>5. hole > Len(teed)
    BY <2>1, <2>4 DEF IInv, Landing
  <2>6. q < Top
    BY DEF IInv, Landing
  <2>7. Top <= Len(teed) + 2 + Inflight
    <3>1. CASE failed
      BY <2>1, <3>1 DEF IInv, Landing
    <3>2. CASE ~failed
      BY <2>1, <3>2 DEF IInv, TypeOK, Landing, Tiled
    <3> QED BY <3>1, <3>2
  <2>8. q <= hole + Inflight
    BY <2>1, <2>4, <2>5, <2>6, <2>7
  <2> QED BY <2>8 DEF hole, T
<1> QED BY <1>1, Inductive, PTL
=============================================================================
