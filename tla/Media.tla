-------------------------------- MODULE Media --------------------------------
(***************************************************************************)
(* One chain position on the media of express-dual durability              *)
(* (crates/zou-log/src/media.rs, WalMedia::Dual): two Express buckets and  *)
(* the Standard bucket, each with a put_if_absent of its own.  A writer    *)
(* (put_quorum) needs two of the three, hedging to Standard when it is     *)
(* kept waiting or a PUT fails; a sealer (seal) tries the two and then the *)
(* third; a reader (fetch, and present by the same rule) takes what two    *)
(* media agree on.                                                         *)
(*                                                                         *)
(* The threads put_quorum launches outlive its return, and its process: a  *)
(* PUT once sent may reach its medium at any later time.                   *)
(***************************************************************************)
EXTENDS Integers

CONSTANTS
  Writers,     \* sequencers that put a landing segment at the position
  Sealers,     \* takeovers that seal it
  Readers,
  Nothing,     \* no object
  MaxFaults    \* bound: PUTs answered with an io error, and crashes

ASSUME MediaAssumption ==
  /\ MaxFaults \in Nat
  /\ Writers \cap Sealers = {} /\ Nothing \notin Writers
  /\ "seal" \notin Writers /\ Nothing # "seal"

VARIABLES
  held,     \* the object on each medium
  put,      \* a writer's PUT to each medium: its thread, then its answer
  hedged,   \* put_quorum's flag
  writer,   \* how each writer's put_segment returned
  sealer,   \* what each sealer is doing, then what seal returned
  wins,     \* media each sealer won
  visit,    \* the medium each reader is at
  read,     \* what it has read
  faults

vars == <<held, put, hedged, writer, sealer, wins, visit, read, faults>>

Az == {"az1", "az2"}

Media == Az \cup {"standard"}

\* Two seals of one position are the same bytes, a writer's segment is its own.
Objects == Writers \cup {"seal"}

\* A thread's answer waits in the channel until the loop receives it.
Answers == {"ok", "taken", "error"}

PutAt == {"unsent", "sent", "received_ok", "received_error"} \cup Answers

Fault == faults < MaxFaults /\ faults' = faults + 1

-----------------------------------------------------------------------------
(* put_quorum                                                              *)

Start(w) ==
  /\ writer[w] = "idle"
  /\ writer' = [writer EXCEPT ![w] = "waits"]
  /\ put' = [put EXCEPT ![w] = [m \in Media |-> IF m \in Az THEN "sent" ELSE "unsent"]]
  /\ UNCHANGED <<held, hedged, sealer, wins, visit, read, faults>>

\* put_if_absent at one medium.
Arrive(w, m) ==
  /\ put[w][m] = "sent"
  /\ held' = IF held[m] = Nothing THEN [held EXCEPT ![m] = w] ELSE held
  /\ put' = [put EXCEPT ![w][m] = IF held[m] = Nothing THEN "ok" ELSE "taken"]
  /\ UNCHANGED <<hedged, writer, sealer, wins, visit, read, faults>>

\* An io error, whether or not the PUT was applied.
ArriveFails(w, m) ==
  /\ put[w][m] = "sent" /\ Fault
  /\ held' \in {held, IF held[m] = Nothing THEN [held EXCEPT ![m] = w] ELSE held}
  /\ put' = [put EXCEPT ![w][m] = "error"]
  /\ UNCHANGED <<hedged, writer, sealer, wins, visit, read>>

Launched(w) == [put[w] EXCEPT !["standard"] = "sent"]

\* The hedge delay is over.
Hedge(w) ==
  /\ writer[w] = "waits" /\ ~hedged[w]
  /\ put' = [put EXCEPT ![w] = Launched(w)]
  /\ hedged' = [hedged EXCEPT ![w] = TRUE]
  /\ UNCHANGED <<held, writer, sealer, wins, visit, read, faults>>

\* Mutant of Enough: the first success is enough.
EnoughAtOne(p) == \E m \in Media : p[m] = "received_ok"

\* Two media hold the segment.
Enough(p) == \E m, n \in Media : m # n /\ p[m] = "received_ok" /\ p[n] = "received_ok"

\* PUTs whose answer the loop has yet to receive.
Outstanding(p) == {m \in Media : p[m] = "sent" \/ p[m] \in Answers}

ReceiveOk(w, m) ==
  LET p == [put[w] EXCEPT ![m] = "received_ok"] IN
  /\ writer[w] = "waits" /\ put[w][m] = "ok"
  /\ put' = [put EXCEPT ![w] = p]
  /\ writer' = [writer EXCEPT ![w] = IF Enough(p) THEN "acked"
                                     ELSE IF Outstanding(p) = {} THEN "failed" ELSE "waits"]
  /\ UNCHANGED <<held, hedged, sealer, wins, visit, read, faults>>

\* AlreadyExists fails at once.
ReceiveTaken(w, m) ==
  /\ writer[w] = "waits" /\ put[w][m] = "taken"
  /\ writer' = [writer EXCEPT ![w] = "fenced"]
  /\ UNCHANGED <<held, put, hedged, sealer, wins, visit, read, faults>>

\* An io error hedges, if nothing has yet.
ReceiveError(w, m) ==
  LET q == IF hedged[w] THEN put[w] ELSE Launched(w)
      p == [q EXCEPT ![m] = "received_error"]
  IN
  /\ writer[w] = "waits" /\ put[w][m] = "error"
  /\ put' = [put EXCEPT ![w] = p]
  /\ hedged' = [hedged EXCEPT ![w] = TRUE]
  /\ writer' = [writer EXCEPT ![w] = IF Outstanding(p) = {} THEN "failed" ELSE "waits"]
  /\ UNCHANGED <<held, sealer, wins, visit, read, faults>>

PutQuorum(w) ==
  \/ Start(w) \/ Hedge(w)
  \/ \E m \in Media :
       Arrive(w, m) \/ ArriveFails(w, m) \/ ReceiveOk(w, m) \/ ReceiveTaken(w, m)
         \/ ReceiveError(w, m)

-----------------------------------------------------------------------------
(* seal                                                                    *)

\* The verdict after the two Express buckets, or the tie breaker.
AfterAz2(n) == IF n = 2 THEN "sealed" ELSE IF n = 1 THEN "standard" ELSE "occupied"

\* Where a sealer goes once medium m has answered and it holds n wins.
AfterSeal(m, n, won) ==
  CASE m = "az1"      -> "az2"
    [] m = "az2"      -> AfterAz2(n)
    [] m = "standard" -> IF won THEN "sealed" ELSE "occupied"

SealPut(s) ==
  LET m == sealer[s]
      won == held[m] = Nothing
      n == wins[s] + (IF won THEN 1 ELSE 0)
  IN
  /\ m \in Media
  /\ held' = IF won THEN [held EXCEPT ![m] = "seal"] ELSE held
  /\ wins' = [wins EXCEPT ![s] = n]
  /\ sealer' = [sealer EXCEPT ![s] = AfterSeal(m, n, won)]
  /\ UNCHANGED <<put, hedged, writer, visit, read, faults>>

\* An io error, or a crash, ends the seal where it is.
SealFails(s) ==
  LET m == sealer[s] IN
  /\ m \in Media /\ Fault
  /\ held' \in {held, IF held[m] = Nothing THEN [held EXCEPT ![m] = "seal"] ELSE held}
  /\ sealer' = [sealer EXCEPT ![s] = "failed"]
  /\ UNCHANGED <<put, hedged, writer, wins, visit, read>>

-----------------------------------------------------------------------------
(* fetch                                                                   *)

\* Mutant of Verdict: what the first bucket holds is served.
FirstSeen(x) == IF x["az1"] # Nothing THEN x["az1"] ELSE x["standard"]

\* The bytes two media agree on.
Verdict(x) ==
  IF x["az1"] = x["az2"] THEN x["az1"]
  ELSE IF x["standard"] \in {x["az1"], x["az2"]} THEN x["standard"]
  ELSE Nothing

\* The media are read one after the other; the third only to break a tie.
Fetch(r) ==
  LET m == visit[r] IN
  /\ m \in Media
  /\ read' = [read EXCEPT ![r][m] = held[m]]
  /\ visit' = [visit EXCEPT ![r] =
       CASE m = "az1" -> "az2"
         [] m = "az2" -> IF read[r]["az1"] = held[m] THEN "done" ELSE "standard"
         [] m = "standard" -> "done"]
  /\ UNCHANGED <<held, put, hedged, writer, sealer, wins, faults>>

-----------------------------------------------------------------------------
Init ==
  /\ held = [m \in Media |-> Nothing]
  /\ put = [w \in Writers |-> [m \in Media |-> "unsent"]]
  /\ hedged = [w \in Writers |-> FALSE]
  /\ writer = [w \in Writers |-> "idle"]
  /\ sealer = [s \in Sealers |-> "az1"]
  /\ wins = [s \in Sealers |-> 0]
  /\ visit = [r \in Readers |-> "az1"]
  /\ read = [r \in Readers |-> [m \in Media |-> Nothing]]
  /\ faults = 0

Next ==
  \/ \E w \in Writers : PutQuorum(w)
  \/ \E s \in Sealers : SealPut(s) \/ SealFails(s)
  \/ \E r \in Readers : Fetch(r)

Spec == Init /\ [][Next]_vars

\* A PUT that was sent is answered and a call under way goes on; nobody is
\* obliged to write.
FairSpec ==
  /\ Spec
  /\ \A w \in Writers : WF_vars(writer[w] # "idle" /\ PutQuorum(w))
  /\ \A s \in Sealers : WF_vars(SealPut(s))

-----------------------------------------------------------------------------
(* Properties                                                              *)

TypeOK ==
  /\ held \in [Media -> Objects \cup {Nothing}]
  /\ put \in [Writers -> [Media -> PutAt]]
  /\ hedged \in [Writers -> BOOLEAN]
  /\ writer \in [Writers -> {"idle", "waits", "acked", "fenced", "failed"}]
  /\ sealer \in [Sealers -> Media \cup {"sealed", "occupied", "failed"}]
  /\ wins \in [Sealers -> 0..2]
  /\ visit \in [Readers -> Media \cup {"done"}]
  /\ read \in [Readers -> [Media -> Objects \cup {Nothing}]]
  /\ faults \in 0..MaxFaults

Holds(o) == \E m, n \in Media : m # n /\ held[m] = o /\ held[n] = o

\* The owner of the position, as a reader that saw all media at once has it.
Owner == IF \E o \in Objects : Holds(o) THEN CHOOSE o \in Objects : Holds(o) ELSE Nothing

\* Those who were told that their object holds the position.
Told ==
  {w \in Writers : writer[w] = "acked"}
    \cup (IF \E s \in Sealers : sealer[s] = "sealed" THEN {"seal"} ELSE {})

TheSlot == INSTANCE Slot WITH owner <- Owner, told <- Told

\* The three buckets are one position: it is taken once and for ever, and
\* neither an acknowledgement nor a fence is answered for an object that does
\* not hold it, however PUTs are late, hedged or lost.
ImplementsSlot == TheSlot!Spec

\* A recovery is never given bytes that do not own the position, although it
\* reads the buckets one after the other while PUTs arrive.
FetchIsOwner ==
  \A r \in Readers :
    visit[r] = "done" /\ Verdict(read[r]) # Nothing => Verdict(read[r]) = Owner

\* A sealer that could not get two media lost the position to an object that
\* holds it, so the takeover can adopt that one and go on.
OccupiedIsOwned ==
  \A s \in Sealers : sealer[s] = "occupied" ~> Owner # Nothing

-----------------------------------------------------------------------------
(* The inductive invariant                                                 *)

\* A PUT answered Ok put the object there, for good.
OkIsHeld ==
  \A w \in Writers, m \in Media : put[w][m] \in {"ok", "received_ok"} => held[m] = w

AckedHolds == \A w \in Writers : writer[w] = "acked" => Holds(w)

\* What a sealer's count of wins stands for at each medium.
WinsAreHeld ==
  \A s \in Sealers :
    /\ sealer[s] = "az1" => wins[s] = 0
    /\ sealer[s] = "az2" => wins[s] \in {0, 1} /\ (wins[s] = 1 => held["az1"] = "seal")
    /\ sealer[s] = "standard" =>
         wins[s] = 1 /\ (held["az1"] = "seal" \/ held["az2"] = "seal")
    /\ sealer[s] = "sealed" => Holds("seal")

ReadIsHeld ==
  \A r \in Readers, m \in Media : read[r][m] # Nothing => held[m] = read[r][m]

MediaInv == TypeOK /\ OkIsHeld /\ AckedHolds /\ WinsAreHeld /\ ReadIsHeld
=============================================================================
