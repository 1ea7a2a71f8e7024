------------------------------- MODULE MCChain -------------------------------
(* Instances of Chain for TLC.                                              *)
EXTENDS Chain

CONSTANTS o, n   \* an owner and the rival that takes the shard over from it
=============================================================================
