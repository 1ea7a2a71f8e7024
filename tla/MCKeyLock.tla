----------------------------- MODULE MCKeyLock -----------------------------
(* Two threads of one process and one of another on the same key.            *)
EXTENDS KeyLock, TLC

CONSTANTS t1, t2, t3, p1, p2, v1, v2

TwoAndOne == t1 :> p1 @@ t2 :> p1 @@ t3 :> p2
=============================================================================
