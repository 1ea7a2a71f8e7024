------------------------------ MODULE MCRounds ------------------------------
(* Instances of Rounds for TLC.                                              *)
EXTENDS Rounds, TLC

CONSTANTS s1, s2, f1, f2, r1

\* Sessions are alike, and so are folders.
Alike == Permutations(Sessions) \cup Permutations(Folders)
=============================================================================
