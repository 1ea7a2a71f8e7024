----------------------------- MODULE MCSequencer -----------------------------
(* Instances of Sequencer for TLC.                                          *)
EXTENDS Sequencer

CONSTANTS a1, a2, a3, b1

\* b1 comes from a writer that took the lease over.
MCEpochOf == [a \in Appends |-> IF a = b1 THEN 2 ELSE 1]
=============================================================================
