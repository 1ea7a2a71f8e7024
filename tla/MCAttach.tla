------------------------------ MODULE MCAttach ------------------------------
(* A small instance of Attach for TLC. *)
EXTENDS Attach

CONSTANTS t1, t2, c1, c2

Budget(calls, faults, deploys, first) ==
    [call |-> calls, fault |-> faults, deploy |-> deploys, head |-> first]
MCBudgets == {Budget(3, 0, 0, 0), Budget(2, 1, 0, 0), Budget(2, 0, 1, 0), Budget(2, 0, 1, 1)}
=============================================================================
