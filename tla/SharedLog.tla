------------------------------- MODULE SharedLog -------------------------------
(***************************************************************************)
(* What the landing chain promises: one log that only grows, that one      *)
(* writer at a time grows, and that keeps what was acknowledged.  A writer *)
(* takes the log over by appending its seal; from then on only its windows *)
(* are appended, until the next seal.                                      *)
(***************************************************************************)
EXTENDS Integers, Sequences, FiniteSets, FiniteSetsExt

CONSTANT Writers

VARIABLES
  log,    \* the entries a recovery reads, oldest first: [kind, by]
  acked   \* positions whose writer was told they are durable

\* The position of l's last seal, 0 when there is none.
LastSeal(l) == Max({i \in 1..Len(l) : l[i].kind = "seal"} \cup {0})

\* Window i of l is w's.
WrittenBy(l, i, w) == l[i] = [kind |-> "landing", by |-> w]

\* The writer whose seal is l's last grows it to m.  Windows that landed out
\* of order join together, and with them a seal put above them meanwhile.
Grown(l, m, w) ==
  /\ LastSeal(l) > 0 /\ l[LastSeal(l)].by = w
  /\ Len(m) > Len(l)
  /\ SubSeq(m, 1, Len(l)) = l
  /\ \E k \in (Len(l) + 1)..Len(m) :
       /\ \A i \in (Len(l) + 1)..k : WrittenBy(m, i, w)
       /\ \A i \in (k + 1)..Len(m) : m[i].kind = "seal"

Init == log = << >> /\ acked = {}

Seal(w) ==
  /\ log' = Append(log, [kind |-> "seal", by |-> w])
  /\ UNCHANGED acked

Write(w) ==
  /\ Grown(log, log', w)
  /\ UNCHANGED acked

\* An acknowledgement may come after the writer was fenced, of what it wrote
\* before.
Ack(w) ==
  /\ \E i \in 1..Len(log) : WrittenBy(log, i, w) /\ acked' = acked \cup {i}
  /\ UNCHANGED log

Next == \E w \in Writers : Seal(w) \/ Write(w) \/ Ack(w)

Spec == Init /\ [][Next]_<<log, acked>>
=============================================================================
