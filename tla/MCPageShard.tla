---------------------------- MODULE MCPageShard ----------------------------
(* Small instances of PageShard for TLC. *)
EXTENDS PageShard

CONSTANTS w1, w2

MCKeys == 1..3
MCLogs == {<<2, 1, 3>>, <<1, 2, 1>>}
MCNoBase == {{}, {2}}
Zero == [b \in Bounded |-> 0]
MCBudgets == {
  [Zero EXCEPT !.fold = 2, !.merge = 1, !.crash = 1],
  [Zero EXCEPT !.fold = 2, !.merge = 1, !.ckpt = 1],
  [Zero EXCEPT !.fold = 1, !.sweep = 1, !.merge = 1],
  [Zero EXCEPT !.fold = 1, !.merge = 1, !.branch = 1, !.ckpt = 1, !.expire = 1],
  [Zero EXCEPT !.fold = 1, !.gc = 2, !.fail = 1],
  [Zero EXCEPT !.gc = 2, !.fail = 1, !.crash = 1],
  [Zero EXCEPT !.merge = 1, !.branch = 1, !.ckpt = 1, !.gc = 2]}
MergeBudgets == {[Zero EXCEPT !.merge = 1]}
=============================================================================
