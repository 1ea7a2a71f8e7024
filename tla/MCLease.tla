------------------------------- MODULE MCLease -------------------------------
(* Model values for the runs of Lease: a life of node a and one of node b.  *)
EXTENDS Lease

CONSTANTS a, b, a1, b1

MCHolderOf == [s \in Sessions |-> IF s = b1 THEN b ELSE a]

\* Node b's clock runs a second ahead.
MCSkewOf == [s \in Sessions |-> IF s = b1 THEN 1 ELSE 0]
=============================================================================
