----------------------------- MODULE MediaProofs -----------------------------
(***************************************************************************)
(* Two of three media make one position, for any number of writers,        *)
(* sealers, readers and faults: the invariant that ties every answer to    *)
(* the bytes on the media, and the refinement of Slot.                     *)
(***************************************************************************)
EXTENDS Media, TLAPS

\* Two pairs out of three media meet, so a position has one owner.
LEMMA HoldsOne ==
  ASSUME NEW o, NEW p, Holds(o), Holds(p)
  PROVE  o = p
BY DEF Holds, Media, Az

\* Whoever holds two media is the owner.
LEMMA HolderOwns ==
  ASSUME NEW o \in Objects, Holds(o)
  PROVE  Owner = o
<1>1. Holds(CHOOSE p \in Objects : Holds(p))
  OBVIOUS
<1> QED
  BY <1>1, HoldsOne DEF Owner

\* An owner holds two media.
LEMMA OwnerHolds ==
  ASSUME Owner # Nothing
  PROVE  Owner \in Objects /\ Holds(Owner)
BY DEF Owner

\* What every step does to the media: an object stays where it is.
Fills == \A m \in Media : held[m] # Nothing => held'[m] = held[m]

LEMMA NothingIsNoObject == Nothing \notin Objects
BY MediaAssumption DEF Objects

LEMMA HoldsStays ==
  ASSUME Fills, NEW o \in Objects, Holds(o)
  PROVE  Holds(o)'
BY NothingIsNoObject DEF Fills, Holds

LEMMA MediaInit == Init => MediaInv
BY MediaAssumption
DEF Init, MediaInv, TypeOK, OkIsHeld, AckedHolds, WinsAreHeld, ReadIsHeld, Media, Az,
    Objects, PutAt, Answers

\* The types of what the steps compute.
LEMMA MediaTypes == Az \subseteq Media /\ "standard" \in Media /\ Writers \subseteq Objects
BY DEF Az, Media, Objects

\* A step that fills media and changes only writers and their PUTs leaves the
\* other parts of the invariant as they were.
LEMMA OthersKeep ==
  ASSUME MediaInv, Fills, UNCHANGED <<sealer, wins, visit, read>>
  PROVE  WinsAreHeld' /\ ReadIsHeld'
<1>1. Holds("seal") => Holds("seal")'
  BY HoldsStays DEF Objects
<1>2. ReadIsHeld'
  BY DEF MediaInv, ReadIsHeld, Fills
<1>3. \A m \in Media : held[m] = "seal" => held'[m] = "seal"
  BY NothingIsNoObject DEF Fills, Objects
<1>4. WinsAreHeld'
  BY <1>1, <1>3 DEF MediaInv, WinsAreHeld, Media, Az
<1> QED
  BY <1>2, <1>4

\* Likewise a step that leaves writers and their PUTs alone.
LEMMA WritersKeep ==
  ASSUME MediaInv, Fills, UNCHANGED <<put, writer>>
  PROVE  OkIsHeld' /\ AckedHolds'
<1>1. \A w \in Writers : Holds(w) => Holds(w)'
  BY HoldsStays, MediaTypes
<1>2. OkIsHeld'
  BY NothingIsNoObject, MediaTypes DEF MediaInv, OkIsHeld, Fills
<1> QED
  BY <1>1, <1>2 DEF MediaInv, AckedHolds

LEMMA WriterStep ==
  ASSUME MediaInv, NEW w \in Writers, PutQuorum(w)
  PROVE  MediaInv' /\ Fills
<1> USE MediaTypes
<1>1. CASE Start(w)
  <2>1. Fills
    BY <1>1 DEF Start, Fills
  <2>2. TypeOK'
    BY <1>1 DEF MediaInv, TypeOK, Start, PutAt
  <2>3. OkIsHeld' /\ AckedHolds'
    BY <1>1 DEF MediaInv, TypeOK, Start, OkIsHeld, AckedHolds, Holds
  <2> QED
    BY <1>1, <2>1, <2>2, <2>3, OthersKeep DEF MediaInv, Start
<1>2. CASE Hedge(w)
  <2>1. Fills
    BY <1>2 DEF Hedge, Fills
  <2>2. TypeOK'
    BY <1>2 DEF MediaInv, TypeOK, Hedge, Launched, PutAt
  <2>3. OkIsHeld' /\ AckedHolds'
    BY <1>2 DEF MediaInv, TypeOK, Hedge, Launched, OkIsHeld, AckedHolds, Holds
  <2> QED
    BY <1>2, <2>1, <2>2, <2>3, OthersKeep DEF MediaInv, Hedge
<1>3. CASE \E m \in Media : Arrive(w, m) \/ ArriveFails(w, m)
  <2>0. PICK m \in Media : Arrive(w, m) \/ ArriveFails(w, m)
    BY <1>3
  <2>1. Fills
    BY <2>0 DEF MediaInv, TypeOK, Arrive, ArriveFails, Fills
  <2>2. TypeOK'
    <3>1. held' \in [Media -> Objects \cup {Nothing}]
      BY <2>0 DEF MediaInv, TypeOK, Arrive, ArriveFails
    <3>2. put' \in [Writers -> [Media -> PutAt]]
      <4>1. \E a \in Answers : put' = [put EXCEPT ![w] = [put[w] EXCEPT ![m] = a]]
        BY <2>0 DEF Arrive, ArriveFails, Answers
      <4>2. PICK a \in Answers : put' = [put EXCEPT ![w] = [put[w] EXCEPT ![m] = a]]
        BY <4>1
      <4>3. [put[w] EXCEPT ![m] = a] \in [Media -> PutAt]
        BY DEF MediaInv, TypeOK, PutAt
      <4> QED
        BY <4>2, <4>3 DEF MediaInv, TypeOK
    <3>3. faults' \in 0..MaxFaults
      BY <2>0, MediaAssumption DEF MediaInv, TypeOK, Arrive, ArriveFails, Fault
    <3> QED
      BY <2>0, <3>1, <3>2, <3>3 DEF MediaInv, TypeOK, Arrive, ArriveFails
  <2>3. OkIsHeld'
    BY <2>0, <2>1, NothingIsNoObject
    DEF MediaInv, TypeOK, Arrive, ArriveFails, OkIsHeld, Fills
  <2>4. AckedHolds'
    BY <2>0, <2>1, HoldsStays DEF MediaInv, Arrive, ArriveFails, AckedHolds
  <2> QED
    BY <2>0, <2>1, <2>2, <2>3, <2>4, OthersKeep DEF MediaInv, Arrive, ArriveFails
<1>4. CASE \E m \in Media : ReceiveOk(w, m)
  <2>0. PICK m \in Media : ReceiveOk(w, m)
    BY <1>4
  <2> DEFINE p == [put[w] EXCEPT ![m] = "received_ok"]
  <2>1. Fills
    BY <2>0 DEF ReceiveOk, Fills
  <2>2. TypeOK'
    BY <2>0 DEF MediaInv, TypeOK, ReceiveOk, PutAt, Answers
  <2>3. OkIsHeld'
    BY <2>0 DEF MediaInv, TypeOK, ReceiveOk, OkIsHeld
  <2>4. Enough(p) => Holds(w)
    BY <2>0 DEF MediaInv, TypeOK, ReceiveOk, OkIsHeld, Enough, Holds
  <2>5. AckedHolds'
    BY <2>0, <2>4 DEF MediaInv, TypeOK, ReceiveOk, AckedHolds, Holds
  <2> QED
    BY <2>0, <2>1, <2>2, <2>3, <2>5, OthersKeep DEF MediaInv, ReceiveOk
<1>5. CASE \E m \in Media : ReceiveTaken(w, m)
  <2>0. PICK m \in Media : ReceiveTaken(w, m)
    BY <1>5
  <2>1. Fills
    BY <2>0 DEF ReceiveTaken, Fills
  <2>2. TypeOK'
    BY <2>0 DEF MediaInv, TypeOK, ReceiveTaken
  <2>3. OkIsHeld' /\ AckedHolds'
    BY <2>0 DEF MediaInv, TypeOK, ReceiveTaken, OkIsHeld, AckedHolds, Holds
  <2> QED
    BY <2>0, <2>1, <2>2, <2>3, OthersKeep DEF MediaInv, ReceiveTaken
<1>6. CASE \E m \in Media : ReceiveError(w, m)
  <2>0. PICK m \in Media : ReceiveError(w, m)
    BY <1>6
  <2> DEFINE q == IF hedged[w] THEN put[w] ELSE Launched(w)
             p == [q EXCEPT ![m] = "received_error"]
  <2>1. Fills
    BY <2>0 DEF ReceiveError, Fills
  <2>2. q \in [Media -> PutAt]
    BY DEF MediaInv, TypeOK, Launched, PutAt
  <2>3. p \in [Media -> PutAt]
    BY <2>2 DEF PutAt
  <2>4. \A n \in Media : p[n] \in {"ok", "received_ok"} => put[w][n] = p[n]
    BY <2>2 DEF MediaInv, TypeOK, Launched
  <2>5. /\ put' = [put EXCEPT ![w] = p] /\ hedged' = [hedged EXCEPT ![w] = TRUE]
        /\ writer' = [writer EXCEPT ![w] = IF Outstanding(p) = {} THEN "failed" ELSE "waits"]
        /\ UNCHANGED <<held, sealer, wins, visit, read, faults>>
    BY <2>0 DEF ReceiveError
  <2> HIDE DEF p, q
  <2>6. TypeOK'
    BY <2>3, <2>5 DEF MediaInv, TypeOK
  <2>7. OkIsHeld' /\ AckedHolds'
    BY <2>4, <2>5 DEF MediaInv, TypeOK, OkIsHeld, AckedHolds, Holds
  <2> QED
    BY <2>1, <2>5, <2>6, <2>7, OthersKeep DEF MediaInv
<1> QED
  BY <1>1, <1>2, <1>3, <1>4, <1>5, <1>6 DEF PutQuorum

\* A sealer's PUT: its count of wins stands for media that hold the seal.
LEMMA SealerStep ==
  ASSUME MediaInv, NEW s \in Sealers, SealPut(s) \/ SealFails(s)
  PROVE  MediaInv' /\ Fills
<1>1. Fills
  BY DEF MediaInv, TypeOK, SealPut, SealFails, Fills
<1>2. TypeOK'
  <2>1. CASE SealPut(s)
    <3>1. held' \in [Media -> Objects \cup {Nothing}]
      BY <2>1 DEF MediaInv, TypeOK, SealPut, Objects
    <3>2. wins'[s] \in 0..2 /\ sealer'[s] \in Media \cup {"sealed", "occupied", "failed"}
      BY <2>1 DEF MediaInv, TypeOK, SealPut, WinsAreHeld, AfterSeal, AfterAz2, Media, Az
    <3> QED
      BY <2>1, <3>1, <3>2 DEF MediaInv, TypeOK, SealPut
  <2>2. CASE SealFails(s)
    <3>1. held' \in [Media -> Objects \cup {Nothing}]
      BY <2>2 DEF MediaInv, TypeOK, SealFails, Objects
    <3>2. faults' \in 0..MaxFaults
      BY <2>2, MediaAssumption DEF MediaInv, TypeOK, SealFails, Fault
    <3> QED
      BY <2>2, <3>1, <3>2 DEF MediaInv, TypeOK, SealFails
  <2> QED
    BY <2>1, <2>2
<1>3. ReadIsHeld'
  BY <1>1 DEF MediaInv, ReadIsHeld, Fills, SealPut, SealFails
<1>4. \A m \in Media : held[m] = "seal" => held'[m] = "seal"
  BY <1>1, NothingIsNoObject DEF Fills, Objects
<1>5. Holds("seal") => Holds("seal")'
  BY <1>1, HoldsStays DEF Objects
<1>6. WinsAreHeld'
  <2> SUFFICES ASSUME NEW t \in Sealers
               PROVE  /\ sealer'[t] = "az1" => wins'[t] = 0
                      /\ sealer'[t] = "az2" =>
                           wins'[t] \in {0, 1} /\ (wins'[t] = 1 => held'["az1"] = "seal")
                      /\ sealer'[t] = "standard" =>
                           wins'[t] = 1 /\ (held'["az1"] = "seal" \/ held'["az2"] = "seal")
                      /\ sealer'[t] = "sealed" => Holds("seal")'
    BY DEF WinsAreHeld
  <2>1. CASE t # s
    BY <2>1, <1>4, <1>5 DEF MediaInv, TypeOK, WinsAreHeld, SealPut, SealFails, Media, Az
  <2>2. CASE t = s /\ SealFails(s)
    BY <2>2 DEF MediaInv, TypeOK, SealFails
  <2>3. CASE t = s /\ SealPut(s)
    <3> DEFINE m == sealer[s]
               won == held[m] = Nothing
               n == wins[s] + (IF won THEN 1 ELSE 0)
    <3>1. /\ m \in Media /\ wins'[s] = n /\ sealer'[s] = AfterSeal(m, n, won)
          /\ won => held'[m] = "seal"
      BY <2>3 DEF MediaInv, TypeOK, SealPut
    <3>2. CASE m = "az1"
      BY <3>1, <3>2, <2>3 DEF MediaInv, TypeOK, WinsAreHeld, AfterSeal
    <3>3. CASE m = "az2"
      BY <3>1, <3>3, <2>3, <1>4
      DEF MediaInv, TypeOK, WinsAreHeld, AfterSeal, AfterAz2, Holds, Media, Az
    <3>4. CASE m = "standard"
      BY <3>1, <3>4, <2>3, <1>4
      DEF MediaInv, TypeOK, WinsAreHeld, AfterSeal, Holds, Media, Az
    <3> QED
      BY <3>1, <3>2, <3>3, <3>4 DEF Media, Az
  <2> QED
    BY <2>1, <2>2, <2>3
<1> QED
  BY <1>1, <1>2, <1>3, <1>6, WritersKeep DEF MediaInv, SealPut, SealFails

LEMMA ReaderStep ==
  ASSUME MediaInv, NEW r \in Readers, Fetch(r)
  PROVE  MediaInv' /\ Fills
<1>1. Fills
  BY DEF Fetch, Fills
<1>2. visit'[r] \in Media \cup {"done"}
  BY DEF MediaInv, TypeOK, Fetch, Media, Az
<1>3. TypeOK'
  BY <1>2 DEF MediaInv, TypeOK, Fetch
<1>4. ReadIsHeld'
  BY DEF MediaInv, TypeOK, Fetch, ReadIsHeld
<1>5. WinsAreHeld'
  BY DEF MediaInv, Fetch, WinsAreHeld, Holds
<1> QED
  BY <1>1, <1>3, <1>4, <1>5, WritersKeep DEF MediaInv, Fetch

LEMMA MediaStep ==
  ASSUME MediaInv, [Next]_vars
  PROVE  MediaInv' /\ Fills
<1>1. CASE UNCHANGED vars
  BY <1>1
  DEF vars, MediaInv, TypeOK, OkIsHeld, AckedHolds, WinsAreHeld, ReadIsHeld, Holds, Fills
<1>2. CASE Next
  BY <1>2, WriterStep, SealerStep, ReaderStep DEF Next
<1> QED
  BY <1>1, <1>2

\* The media's variables keep their types (WalMedia::Dual).
THEOREM MediaTyped == Spec => []TypeOK
<1>1. MediaInv => TypeOK
  BY DEF MediaInv
<1>2. MediaInv /\ [Next]_vars => MediaInv'
  BY MediaStep
<1> QED
  BY <1>1, <1>2, MediaInit, PTL DEF Spec

\* fetch never returns bytes that do not own the position, although it reads
\* the three buckets one after the other.
THEOREM FetchServesOwner == Spec => []FetchIsOwner
<1>1. MediaInv => FetchIsOwner
  <2> SUFFICES ASSUME MediaInv, NEW r \in Readers, Verdict(read[r]) # Nothing
               PROVE  Verdict(read[r]) = Owner
    BY DEF FetchIsOwner
  <2>1. Verdict(read[r]) \in Objects
    BY DEF MediaInv, TypeOK, Verdict, Media, Az
  <2>2. Holds(Verdict(read[r]))
    BY DEF MediaInv, ReadIsHeld, Verdict, Holds, Media, Az
  <2> QED
    BY <2>1, <2>2, HolderOwns
<1>2. MediaInv /\ [Next]_vars => MediaInv'
  BY MediaStep
<1> QED
  BY <1>1, <1>2, MediaInit, PTL DEF Spec

\* At most one object is told of in a step, and it then holds the position.
LEMMA ToldGrows ==
  ASSUME MediaInv, MediaInv', [Next]_vars
  PROVE  Told' = Told \/ \E o \in Objects : Told' = Told \cup {o} /\ Holds(o)'
<1>1. CASE UNCHANGED <<writer, sealer>>
  BY <1>1 DEF Told
<1>2. CASE \E w \in Writers : PutQuorum(w)
  <2>1. PICK w \in Writers : PutQuorum(w)
    BY <1>2
  <2>2. /\ sealer' = sealer
        /\ \A v \in Writers : v # w => writer'[v] = writer[v]
        /\ writer[w] = "acked" => writer'[w] = "acked"
    <3>1. writer \in [Writers -> {"idle", "waits", "acked", "fenced", "failed"}]
      BY DEF MediaInv, TypeOK
    <3>2. CASE Start(w)
      BY <3>1, <3>2 DEF Start
    <3>3. CASE Hedge(w)
      BY <3>3 DEF Hedge
    <3>4. ASSUME NEW m \in Media, Arrive(w, m) \/ ArriveFails(w, m)
          PROVE  sealer' = sealer /\ writer' = writer
      BY <3>4 DEF Arrive, ArriveFails
    <3>5. ASSUME NEW m \in Media, ReceiveOk(w, m)
          PROVE  sealer' = sealer /\ writer[w] = "waits"
                   /\ \A v \in Writers : v # w => writer'[v] = writer[v]
      BY <3>1, <3>5 DEF ReceiveOk
    <3>6. ASSUME NEW m \in Media, ReceiveTaken(w, m)
          PROVE  sealer' = sealer /\ writer[w] = "waits"
                   /\ \A v \in Writers : v # w => writer'[v] = writer[v]
      BY <3>1, <3>6 DEF ReceiveTaken
    <3>7. ASSUME NEW m \in Media, ReceiveError(w, m)
          PROVE  sealer' = sealer /\ writer[w] = "waits"
                   /\ \A v \in Writers : v # w => writer'[v] = writer[v]
      BY <3>1, <3>7 DEF ReceiveError
    <3> QED
      BY <2>1, <3>2, <3>3, <3>4, <3>5, <3>6, <3>7 DEF PutQuorum
  <2>4. CASE writer'[w] = "acked"
    <3>1. Told' = Told \cup {w}
      BY <2>2, <2>4 DEF Told
    <3> QED
      BY <3>1, <2>4, MediaTypes DEF MediaInv, AckedHolds
  <2>5. CASE writer'[w] # "acked"
    BY <2>2, <2>5 DEF Told
  <2> QED
    BY <2>4, <2>5
<1>3. CASE \E s \in Sealers : SealPut(s) \/ SealFails(s)
  <2>1. PICK s \in Sealers : SealPut(s) \/ SealFails(s)
    BY <1>3
  <2>2. /\ writer' = writer /\ sealer[s] \in Media
        /\ \A t \in Sealers : t # s => sealer'[t] = sealer[t]
    BY <2>1 DEF MediaInv, TypeOK, SealPut, SealFails
  <2>3. sealer[s] # "sealed"
    BY <2>2 DEF Media, Az
  <2>4. CASE sealer'[s] = "sealed"
    <3>1. Told' = Told \cup {"seal"}
      BY <2>2, <2>4 DEF Told
    <3> QED
      BY <3>1, <2>4 DEF MediaInv, WinsAreHeld, Objects
  <2>5. CASE sealer'[s] # "sealed"
    BY <2>2, <2>3, <2>5 DEF Told
  <2> QED
    BY <2>4, <2>5
<1>4. CASE \E r \in Readers : Fetch(r)
  BY <1>4, <1>1 DEF Fetch
<1> QED
  BY <1>1, <1>2, <1>3, <1>4 DEF Next, vars

\* The three buckets are one position: a run of the media is a run of Slot.
THEOREM MediaIsSlot == Spec => ImplementsSlot
<1>1. Init => TheSlot!Init
  <2> SUFFICES ASSUME Init PROVE Owner = Nothing /\ Told = {}
    BY DEF TheSlot!Init
  <2>1. \A o \in Objects : ~Holds(o)
    BY NothingIsNoObject DEF Init, Holds
  <2>2. Owner = Nothing
    BY <2>1 DEF Owner
  <2>3. Told = {}
    BY DEF Init, Told
  <2> QED
    BY <2>2, <2>3
<1>2. ASSUME MediaInv, MediaInv', [Next]_vars
      PROVE  [TheSlot!Next]_<<Owner, Told>>
  <2>1. Fills
    BY <1>2, MediaStep
  <2>2. Owner # Nothing => Owner' = Owner
    <3> SUFFICES ASSUME Owner # Nothing PROVE Owner' = Owner
      OBVIOUS
    <3>1. Owner \in Objects /\ Holds(Owner)
      BY OwnerHolds
    <3>2. PICK o \in Objects : o = Owner
      BY <3>1
    <3>3. Holds(o)'
      BY <3>1, <3>2, <2>1, HoldsStays
    <3>4. Owner' = o
      <4>1. (\E p \in Objects : Holds(p))'
        BY <3>3
      <4>2. (\A p \in Objects : Holds(p) => p = o)'
        BY <3>3 DEF Holds, Media, Az
      <4> QED
        BY <4>1, <4>2 DEF Owner
    <3> QED
      BY <3>2, <3>4
  <2>3. Owner' # Nothing => Owner' \in Objects
    BY DEF Owner
  <2>4. ASSUME NEW o \in Objects, Holds(o)' PROVE Owner' = o
    <3>1. (\A p \in Objects : Holds(p) => p = o)'
      BY <2>4 DEF Holds, Media, Az
    <3> QED
      BY <2>4, <3>1 DEF Owner
  <2>5. CASE Told' = Told
    BY <2>2, <2>3, <2>5 DEF TheSlot!Next, TheSlot!Take
  <2>6. CASE \E o \in Objects : Told' = Told \cup {o} /\ Holds(o)'
    <3>1. PICK o \in Objects : Told' = Told \cup {o} /\ Holds(o)'
      BY <2>6
    <3>2. Owner' = o
      BY <3>1, <2>4
    <3> QED
      BY <3>1, <3>2, <2>2 DEF TheSlot!Next, TheSlot!Tell, TheSlot!TakeAndTell
  <2> QED
    BY <1>2, <2>5, <2>6, ToldGrows
<1>3. MediaInv /\ [Next]_vars => MediaInv'
  BY MediaStep
<1> QED
  BY <1>1, <1>2, <1>3, MediaInit, PTL DEF Spec, ImplementsSlot, TheSlot!Spec
=============================================================================
