------------------------------- MODULE MCMedia -------------------------------
(* Instances of Media for TLC.                                               *)
EXTENDS Media

CONSTANTS w1, w2, t1, r1
=============================================================================
