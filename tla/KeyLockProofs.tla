--------------------------- MODULE KeyLockProofs ---------------------------
(* Theorems about the local filesystem's key lock, for any threads,          *)
(* processes, values and number of operations.                               *)
EXTENDS KeyLock, TLAPS

-----------------------------------------------------------------------------
(* Types, and which operation is at which step                              *)

\* What a key's use and a thread's step say about the operation it is in.
Shape(t) ==
    /\ pc[t] \in {"idle", "dead"} => op[t] = None
    /\ pc[t] \notin {"idle", "dead"} => op[t] \in Ops
    /\ pc[t] \in {"link", "compare", "check", "rename"} => op[t] \in Matches
    /\ pc[t] = "remove" => op[t] \in Deletes
    /\ op[t] \in Matches => /\ mode # "swap" => op[t].base = None
                            /\ mode = "link" <=> pc[t] = "link"
    /\ op[t] \in Deletes => mode # "swap"

TypeInv == TypeOK /\ \A t \in Threads : Shape(t)

LEMMA KindsDiffer == /\ Matches \cap Deletes = {}
                     /\ \A o \in Ops : o.kind = "match" <=> o \in Matches
                     /\ \A o \in Ops : o.kind = "delete" <=> o \in Deletes
                     /\ None \notin Ops
BY NoneAssumption DEF Ops, Matches, Deletes

LEMMA FreshType == \A s \in SUBSET Stamps : Fresh(s) \in Locks
BY DEF Fresh, Locks

\* A step that moves t on within its operation, to a step that suits it.
LEMMA GotoKeeps ==
  ASSUME TypeInv, NEW t \in Threads, NEW l \in Steps \ {"idle", "dead", "link"}, Goto(t, l),
         pc[t] \notin {"idle", "dead", "link"}, UNCHANGED <<mode, op>>,
         l \in {"compare", "check", "rename"} => op[t] \in Matches,
         l = "remove" => op[t] \in Deletes
  PROVE  pc' \in [Threads -> Steps] /\ \A u \in Threads : Shape(u)'
<1>1. pc' \in [Threads -> Steps]
  BY DEF TypeInv, TypeOK, Goto
<1>2. ASSUME NEW u \in Threads PROVE Shape(u)'
  <2>1. CASE u = t
    BY <2>1, KindsDiffer DEF TypeInv, TypeOK, Goto, Shape
  <2>2. CASE u # t
    BY <2>2 DEF TypeInv, TypeOK, Goto, Shape
  <2> QED BY <2>1, <2>2
<1> QED BY <1>1, <1>2

\* A step that ends t's operation.
LEMMA EndsKeeps ==
  ASSUME TypeInv, NEW t \in Threads, Ends(t), UNCHANGED mode
  PROVE  /\ pc' \in [Threads -> Steps] /\ op' \in [Threads -> Ops \cup {None}]
         /\ \A u \in Threads : Shape(u)'
<1>1. pc' \in [Threads -> Steps] /\ op' \in [Threads -> Ops \cup {None}]
  BY DEF TypeInv, TypeOK, Ends, Goto, Steps
<1>2. ASSUME NEW u \in Threads PROVE Shape(u)'
  <2>1. CASE u = t
    BY <2>1, KindsDiffer DEF TypeInv, TypeOK, Ends, Goto, Shape, Ops
  <2>2. CASE u # t
    BY <2>2 DEF TypeInv, TypeOK, Ends, Goto, Shape
  <2> QED BY <2>1, <2>2
<1> QED BY <1>1, <1>2

\* Every call a thread makes keeps the types: none writes a directory, a file
\* or an operation that is not one.
LEMMA ThreadTypes ==
  ASSUME TypeInv, NEW t \in Threads, Call(t) \/ GiveUp(t) \/ Step(t)
  PROVE  TypeInv'
<1> USE DEF Steps
<1>1. CASE Call(t)
  <2>1. calls' \in 0..MaxCalls
    BY <1>1, KeyLockAssumption DEF Call, TypeInv, TypeOK
  <2>2. PICK o \in Ops :
          /\ o.kind = "match" => o.base = IF mode = "swap" THEN val ELSE None
          /\ o.kind = "delete" => mode # "swap"
          /\ op' = [op EXCEPT ![t] = o]
          /\ Goto(t, IF mode = "link" /\ o.kind = "match" THEN "link" ELSE "wait")
    BY <1>1 DEF Call
  <2>3. op' \in [Threads -> Ops \cup {None}] /\ pc' \in [Threads -> Steps]
    BY <2>2 DEF TypeInv, TypeOK, Goto
  <2>4. ASSUME NEW u \in Threads PROVE Shape(u)'
    <3>1. CASE u = t
      BY <1>1, <2>2, <3>1, KindsDiffer DEF Call, TypeInv, TypeOK, Goto, Shape
    <3>2. CASE u # t
      BY <1>1, <2>2, <3>2 DEF Call, TypeInv, TypeOK, Goto, Shape
    <3> QED BY <3>1, <3>2
  <2> QED BY <1>1, <2>1, <2>3, <2>4 DEF Call, TypeInv, TypeOK
<1>2. CASE GiveUp(t)
  BY <1>2, EndsKeeps DEF GiveUp, TypeInv, TypeOK
<1>3. CASE Publish(t)
  <2>1. val' \in Values \cup {None}
    BY <1>3 DEF Publish, TypeInv, TypeOK, At, Shape, Matches
  <2> QED BY <1>3, <2>1, EndsKeeps DEF Publish, TypeInv, TypeOK
<1>4. CASE Mkdir(t)
  <2>1. lock' \in Locks
    BY <1>4, FreshType DEF Mkdir
  <2> QED BY <1>4, <2>1, GotoKeeps DEF Mkdir, At, TypeInv, TypeOK
<1>5. CASE Stamp(t)
  <2>1. lock' \in Locks \cup {None}
    <3>1. ASSUME lock # None PROVE Fresh(lock.stamps \cup {StampOf(t)}) \in Locks
      BY <3>1, FreshType DEF TypeInv, TypeOK, Locks, Stamps
    <3> QED BY <1>5, <3>1 DEF Stamp, TypeInv, TypeOK
  <2>2. op[t] \in Ops
    BY <1>5 DEF Stamp, At, TypeInv, Shape
  <2> QED BY <1>5, <2>1, <2>2, GotoKeeps, KindsDiffer DEF Stamp, At, TypeInv, TypeOK, Ops
<1>6. CASE Break(t)
  <2>1. CASE UNCHANGED pc
    BY <1>6, <2>1 DEF Break, TypeInv, TypeOK, Shape
  <2>2. CASE Goto(t, "recheck") \/ Goto(t, "clear")
    BY <1>6, <2>2, GotoKeeps DEF Break, At, TypeInv, TypeOK
  <2> QED BY <1>6, <2>1, <2>2 DEF Break
<1>7. CASE ClearBreaker(t) \/ Unbreak(t)
  BY <1>7, GotoKeeps DEF ClearBreaker, Unbreak, At, TypeInv, TypeOK
<1>8. CASE Recheck(t)
  BY <1>8, GotoKeeps DEF Recheck, At, TypeInv, TypeOK
<1>9. CASE ClearLock(t)
  BY <1>9, GotoKeeps DEF ClearLock, At, TypeInv, TypeOK
<1>10. CASE Compare(t)
  BY <1>10, GotoKeeps DEF Compare, At, TypeInv, TypeOK, Shape
<1>11. CASE Check(t)
  BY <1>11, GotoKeeps DEF Check, AfterCheck, At, TypeInv, TypeOK, Shape
<1>12. CASE Rename(t)
  <2>1. val' \in Values
    BY <1>12 DEF Rename, TypeInv, TypeOK, At, Shape, Matches
  <2> QED BY <1>12, <2>1, GotoKeeps DEF Rename, At, TypeInv, TypeOK
<1>13. CASE Remove(t)
  BY <1>13, GotoKeeps DEF Remove, At, TypeInv, TypeOK
<1>14. CASE Unstamp(t)
  <2>1. ASSUME lock # None PROVE Fresh(lock.stamps \ {StampOf(t)}) \in Locks
    BY <2>1, FreshType DEF TypeInv, TypeOK, Locks
  <2> QED BY <1>14, <2>1, GotoKeeps DEF Unstamp, StillMine, At, TypeInv, TypeOK
<1>15. CASE Rmdir(t)
  BY <1>15, EndsKeeps DEF Rmdir, TypeInv, TypeOK
<1> QED
  BY <1>1, <1>2, <1>3, <1>4, <1>5, <1>6, <1>7, <1>8, <1>9, <1>10, <1>11, <1>12,
     <1>13, <1>14, <1>15 DEF Step

LEMMA TypeStep == TypeInv /\ [Next]_vars => TypeInv'
<1> SUFFICES ASSUME TypeInv, [Next]_vars PROVE TypeInv'
  OBVIOUS
<1>1. CASE \E t \in Threads : Call(t) \/ GiveUp(t) \/ Step(t)
  BY <1>1, ThreadTypes
<1>2. CASE AgeLock
  <2>1. lock' \in Locks
    BY <1>2 DEF AgeLock, TypeInv, TypeOK, Locks
  <2> QED BY <1>2, <2>1 DEF AgeLock, TypeInv, TypeOK, Shape
<1>3. CASE AgeBreaker
  BY <1>3 DEF AgeBreaker, TypeInv, TypeOK, Shape
<1>4. ASSUME NEW p \in Procs, Crash(p) PROVE TypeInv'
  <2>1. TypeOK'
    BY <1>4 DEF Crash, TypeInv, TypeOK, Steps
  <2>2. ASSUME NEW u \in Threads PROVE Shape(u)'
    BY <1>4, <2>2, KindsDiffer DEF Crash, TypeInv, TypeOK, Shape, Ops
  <2> QED BY <2>1, <2>2 DEF TypeInv
<1>5. CASE UNCHANGED vars
  BY <1>5 DEF vars, TypeInv, TypeOK, Shape
<1> QED BY <1>1, <1>2, <1>3, <1>4, <1>5 DEF Next

LEMMA TypeInit == Init => TypeInv
BY KindsDiffer, KeyLockAssumption DEF Init, TypeInv, TypeOK, Shape, Steps, Ops, Modes

\* The file, the two directories and the threads' operations stay what the
\* code can make of them, however locks are broken and processes die.
THEOREM LockTypes == Spec => []TypeOK
<1>1. TypeInv => TypeOK
  BY DEF TypeInv
<1> QED BY <1>1, TypeInit, TypeStep, PTL DEF Spec

-----------------------------------------------------------------------------
(* One owner                                                                *)

\* Where a thread can be whose stamp is in the directory.
Holding == {"compare", "check", "rename", "remove", "unstamp", "dead"}

\* A directory waiting for its stamp is empty and somebody's, a stamp is there
\* for a thread inside the operation or a dead one, and for one thread alone.
OwnerInv ==
    /\ \A t \in Threads : pc[t] = "stamp" => lock # None /\ lock.stamps = {}
    /\ \A t, u \in Threads : pc[t] = "stamp" /\ pc[u] = "stamp" => t = u
    /\ \A t \in Threads : StillMine(t) => pc[t] \in Holding
    /\ OneOwner

LEMMA StampsDiffer == \A t, u \in Threads : StampOf(t) = StampOf(u) => t = u
BY DEF StampOf

\* A step that leaves the directory alone and takes no thread out of, and none
\* to, the stretch between the mkdir and the stamp.
LEMMA OwnerQuiet ==
  ASSUME TypeInv, OwnerInv, UNCHANGED lock,
         \A u \in Threads : pc'[u] = "stamp" => pc[u] = "stamp",
         \A u \in Threads : pc[u] \in Holding => pc'[u] \in Holding
  PROVE  OwnerInv'
BY DEF TypeInv, OwnerInv, OneOwner, StillMine

\* A step that removes the directory while nobody is about to stamp it.
LEMMA OwnerGone ==
  ASSUME TypeInv, OwnerInv, lock' = None, ~\E u \in Threads : pc[u] = "stamp",
         \A u \in Threads : pc'[u] = "stamp" => pc[u] = "stamp"
  PROVE  OwnerInv'
BY DEF TypeInv, OwnerInv, OneOwner, StillMine

LEMMA ThreadOwner ==
  ASSUME TypeInv, OwnerInv, PromptStamp, NEW t \in Threads, Call(t) \/ GiveUp(t) \/ Step(t)
  PROVE  OwnerInv'
<1> USE DEF Goto, At, Holding
<1> pc \in [Threads -> Steps]
  BY DEF TypeInv, TypeOK
<1>1. CASE Call(t)
  BY <1>1, OwnerQuiet DEF Call
<1>2. CASE GiveUp(t) \/ Publish(t)
  BY <1>2, OwnerQuiet DEF GiveUp, Publish, Ends
<1>3. CASE Mkdir(t)
  <2>1. lock' # None /\ lock'.stamps = {}
    BY <1>3, NoneAssumption, FreshType DEF Mkdir, Fresh
  <2>2. \A u \in Threads : ~StillMine(u)'
    BY <2>1 DEF StillMine
  <2>3. \A u \in Threads : pc'[u] = "stamp" => u = t
    BY <1>3 DEF Mkdir, OwnerInv
  <2> QED BY <2>1, <2>2, <2>3 DEF OwnerInv, OneOwner
<1>4. CASE Stamp(t)
  <2>1. \A u \in Threads : pc'[u] # "stamp"
    BY <1>4 DEF Stamp, OwnerInv
  <2>2. lock.stamps = {} /\ lock # None
    BY <1>4 DEF Stamp, OwnerInv
  <2>3. \A u \in Threads : StillMine(u)' => u = t
    BY <1>4, <2>2, StampsDiffer DEF Stamp, StillMine, Fresh
  <2>4. pc'[t] \in Holding
    BY <1>4 DEF Stamp
  <2> QED BY <2>1, <2>3, <2>4 DEF OwnerInv, OneOwner
<1>5. CASE Break(t)
  BY <1>5, OwnerQuiet DEF Break
<1>6. CASE ClearBreaker(t) \/ Unbreak(t) \/ Recheck(t)
  BY <1>6, OwnerQuiet DEF ClearBreaker, Unbreak, Recheck
<1>7. CASE ClearLock(t)
  BY <1>7, OwnerGone DEF ClearLock, Stamping
<1>8. CASE Compare(t) \/ Rename(t) \/ Remove(t)
  BY <1>8, OwnerQuiet DEF Compare, Rename, Remove
<1>9. CASE Check(t)
  BY <1>9, OwnerQuiet DEF Check, AfterCheck
<1>10. CASE Unstamp(t)
  <2>1. CASE StillMine(t)
    <3>1. \A u \in Threads : ~StillMine(u)'
      <4>1. lock' = Fresh(lock.stamps \ {StampOf(t)})
        BY <1>10, <2>1 DEF Unstamp
      <4>2. \A u \in Threads : StillMine(u) => u = t
        BY <2>1 DEF OwnerInv, OneOwner
      <4> QED BY <2>1, <4>1, <4>2 DEF StillMine, Fresh
    <3>2. \A u \in Threads : pc'[u] # "stamp"
      BY <1>10, <2>1 DEF Unstamp, OwnerInv, StillMine
    <3> QED BY <3>1, <3>2 DEF OwnerInv, OneOwner
  <2>2. CASE ~StillMine(t)
    <3>1. UNCHANGED lock /\ pc' = [pc EXCEPT ![t] = "rmdir"]
      BY <1>10, <2>2 DEF Unstamp
    <3>2. \A u \in Threads : StillMine(u)' => StillMine(u) /\ u # t
      BY <2>2, <3>1 DEF StillMine
    <3> QED BY <3>1, <3>2 DEF OwnerInv, OneOwner, StillMine
  <2> QED BY <2>1, <2>2
<1>11. CASE Rmdir(t)
  <2>1. pc' = [pc EXCEPT ![t] = "idle"] /\ pc[t] = "rmdir"
    BY <1>11 DEF Rmdir, Ends
  <2>2. CASE lock # None /\ lock.stamps = {}
    BY <1>11, <2>1, <2>2, OwnerGone DEF Rmdir, Stamping
  <2>3. CASE ~(lock # None /\ lock.stamps = {})
    BY <1>11, <2>1, <2>3, OwnerQuiet DEF Rmdir
  <2> QED BY <2>2, <2>3
<1> QED
  BY <1>1, <1>2, <1>3, <1>4, <1>5, <1>6, <1>7, <1>8, <1>9, <1>10, <1>11 DEF Step

LEMMA OwnerStep ==
  ASSUME TypeInv, OwnerInv, PromptStamp, [Next]_vars
  PROVE  OwnerInv'
<1>1. CASE \E t \in Threads : Call(t) \/ GiveUp(t) \/ Step(t)
  BY <1>1, ThreadOwner
<1>2. CASE AgeLock
  <2>1. lock' # None /\ lock'.stamps = lock.stamps
    BY <1>2, NoneAssumption DEF AgeLock, TypeInv, TypeOK, Locks
  <2>2. \A u \in Threads : StillMine(u)' <=> StillMine(u)
    BY <1>2, <2>1 DEF AgeLock, StillMine
  <2> QED BY <1>2, <2>1, <2>2 DEF AgeLock, OwnerInv, OneOwner
<1>3. CASE AgeBreaker
  BY <1>3, OwnerQuiet DEF AgeBreaker
<1>4. ASSUME NEW p \in Procs, Crash(p) PROVE OwnerInv'
  BY <1>4, OwnerQuiet DEF Crash, Holding
<1>5. CASE UNCHANGED vars
  BY <1>5, OwnerQuiet DEF vars
<1> QED BY <1>1, <1>2, <1>3, <1>4, <1>5 DEF Next

LEMMA OwnerInit == Init => OwnerInv
BY DEF Init, OwnerInv, OneOwner, StillMine

LEMMA OwnerInvariant == ASSUME PromptStamp PROVE Spec => [](TypeInv /\ OwnerInv)
<1>1. TypeInv /\ OwnerInv /\ [Next]_vars => (TypeInv /\ OwnerInv)'
  BY TypeStep, OwnerStep
<1> QED BY <1>1, TypeInit, OwnerInit, PTL DEF Spec

\* still_mine says yes to at most one thread, for any number of threads and
\* processes and however many locks were broken under live holders, as long as
\* no removal falls between a mkdir and its stamp.
THEOREM OwnersAreAlone == PromptStamp => (Spec => []OneOwner)
<1> SUFFICES ASSUME PromptStamp PROVE Spec => []OneOwner
  OBVIOUS
<1>1. OwnerInv => OneOwner
  BY DEF OwnerInv
<1> QED BY <1>1, OwnerInvariant, PTL

-----------------------------------------------------------------------------
(* The compare stays good, and a rename is only made by the owner           *)

CompareInv ==
    /\ CompareHolds
    /\ \A t \in Threads : pc[t] = "rename" => StillMine(t)

LEMMA CompareQuiet ==
  ASSUME CompareInv, UNCHANGED val,
         \A u \in Threads : pc'[u] \in {"check", "rename"} =>
             /\ pc'[u] = pc[u] /\ op'[u] = op[u]
             /\ StillMine(u)' => StillMine(u)
             /\ pc[u] = "rename" => StillMine(u)'
  PROVE  CompareInv'
BY DEF CompareInv, CompareHolds

LEMMA ThreadCompare ==
  ASSUME TypeInv, OwnerInv, CompareInv, PromptStamp, PromptRename,
         NEW t \in Threads, Call(t) \/ GiveUp(t) \/ Step(t)
  PROVE  CompareInv'
<1> USE DEF Goto, At
<1> pc \in [Threads -> Steps] /\ op \in [Threads -> Ops \cup {None}]
  BY DEF TypeInv, TypeOK
<1>1. CASE Call(t)
  <2>1. PICK o \in Ops : op' = [op EXCEPT ![t] = o]
    BY <1>1 DEF Call
  <2> QED BY <1>1, <2>1, CompareQuiet DEF Call, StillMine, CompareInv
<1>2. CASE GiveUp(t)
  BY <1>2, CompareQuiet DEF GiveUp, Ends, StillMine, CompareInv
<1>3. CASE Publish(t)
  <2>1. \A u \in Threads : pc'[u] \notin {"check", "rename"}
    BY <1>3 DEF Publish, Ends, TypeInv, Shape
  <2> QED BY <2>1 DEF CompareInv, CompareHolds
<1>4. CASE Mkdir(t)
  <2>1. \A u \in Threads : ~StillMine(u) /\ ~StillMine(u)'
    BY <1>4 DEF Mkdir, StillMine, Fresh
  <2> QED BY <1>4, <2>1, CompareQuiet DEF Mkdir, CompareInv
<1>5. CASE Stamp(t)
  <2>1. \A u \in Threads : ~StillMine(u)
    BY <1>5 DEF Stamp, OwnerInv, StillMine
  <2>2. \A u \in Threads : u # t => ~StillMine(u)'
    BY <1>5, <2>1, StampsDiffer DEF Stamp, OwnerInv, StillMine, Fresh
  <2> QED BY <1>5, <2>1, <2>2, CompareQuiet DEF Stamp, CompareInv
<1>6. CASE Break(t)
  BY <1>6, CompareQuiet DEF Break, StillMine, CompareInv
<1>7. CASE ClearBreaker(t) \/ Unbreak(t) \/ Recheck(t)
  BY <1>7, CompareQuiet DEF ClearBreaker, Unbreak, Recheck, StillMine, CompareInv
<1>8. CASE ClearLock(t)
  <2>1. \A u \in Threads : pc[u] # "rename" /\ ~StillMine(u)'
    BY <1>8 DEF ClearLock, Renaming, CompareInv, StillMine
  <2> QED BY <1>8, <2>1, CompareQuiet DEF ClearLock
<1>9. CASE Compare(t)
  <2>1. \A u \in Threads : StillMine(u)' <=> StillMine(u)
    BY <1>9 DEF Compare, StillMine
  <2> QED BY <1>9, <2>1 DEF Compare, CompareInv, CompareHolds
<1>10. CASE Check(t)
  <2>1. \A u \in Threads : StillMine(u)' <=> StillMine(u)
    BY <1>10 DEF Check, StillMine
  <2> QED BY <1>10, <2>1 DEF Check, AfterCheck, CompareInv, CompareHolds
<1>11. CASE Rename(t)
  <2>1. \A u \in Threads : StillMine(u)' <=> StillMine(u)
    BY <1>11 DEF Rename, StillMine
  <2>2. \A u \in Threads : StillMine(u) => u = t
    BY <1>11 DEF Rename, CompareInv, OwnerInv, OneOwner
  <2> QED BY <1>11, <2>1, <2>2 DEF Rename, CompareInv, CompareHolds
<1>12. CASE Remove(t)
  <2>1. \A u \in Threads : StillMine(u)' <=> StillMine(u)
    BY <1>12 DEF Remove, StillMine
  <2>2. mode # "swap"
    BY <1>12 DEF Remove, TypeInv, Shape
  <2>3. \A u \in Threads : pc[u] \in {"check", "rename"} => op[u].base = None
    BY <2>2 DEF TypeInv, Shape
  <2> QED BY <1>12, <2>1, <2>3 DEF Remove, CompareInv, CompareHolds
<1>13. CASE Unstamp(t)
  <2>1. \A u \in Threads : u # t => (StillMine(u)' <=> StillMine(u))
    <3>1. CASE StillMine(t)
      <4>1. lock' = Fresh(lock.stamps \ {StampOf(t)}) /\ lock # None /\ lock \in Locks
        BY <1>13, <3>1 DEF Unstamp, StillMine, TypeInv, TypeOK
      <4>2. lock' # None /\ lock'.stamps = lock.stamps \ {StampOf(t)}
        <5>1. lock.stamps \ {StampOf(t)} \in SUBSET Stamps
          BY <4>1 DEF Locks
        <5>2. lock' \in Locks
          BY <4>1, <5>1, FreshType
        <5> QED BY <4>1, <5>2, NoneAssumption DEF Fresh
      <4> QED BY <4>1, <4>2, StampsDiffer DEF StillMine
    <3>2. CASE ~StillMine(t)
      BY <1>13, <3>2 DEF Unstamp, StillMine
    <3> QED BY <3>1, <3>2
  <2> QED BY <1>13, <2>1, CompareQuiet DEF Unstamp, CompareInv
<1>14. CASE Rmdir(t)
  <2>1. \A u \in Threads : StillMine(u)' <=> StillMine(u)
    BY <1>14 DEF Rmdir, StillMine
  <2> QED BY <1>14, <2>1, CompareQuiet DEF Rmdir, Ends, CompareInv
<1> QED
  BY <1>1, <1>2, <1>3, <1>4, <1>5, <1>6, <1>7, <1>8, <1>9, <1>10, <1>11, <1>12,
     <1>13, <1>14 DEF Step

LEMMA CompareStep ==
  ASSUME TypeInv, OwnerInv, CompareInv, PromptStamp, PromptRename, [Next]_vars
  PROVE  CompareInv'
<1>1. CASE \E t \in Threads : Call(t) \/ GiveUp(t) \/ Step(t)
  BY <1>1, ThreadCompare
<1>2. CASE AgeLock
  <2>1. lock' # None /\ lock'.stamps = lock.stamps
    BY <1>2, NoneAssumption DEF AgeLock, TypeInv, TypeOK, Locks
  <2>2. \A u \in Threads : StillMine(u)' <=> StillMine(u)
    BY <1>2, <2>1 DEF AgeLock, StillMine
  <2> QED BY <1>2, <2>2, CompareQuiet DEF AgeLock, CompareInv
<1>3. CASE AgeBreaker
  BY <1>3, CompareQuiet DEF AgeBreaker, StillMine, CompareInv
<1>4. ASSUME NEW p \in Procs, Crash(p) PROVE CompareInv'
  BY <1>4, CompareQuiet DEF Crash, StillMine, CompareInv
<1>5. CASE UNCHANGED vars
  BY <1>5, CompareQuiet DEF vars, StillMine, CompareInv
<1> QED BY <1>1, <1>2, <1>3, <1>4, <1>5 DEF Next

LockInv == TypeInv /\ OwnerInv /\ CompareInv

LEMMA LockInvariant == ASSUME PromptStamp, PromptRename PROVE Spec => []LockInv
<1>1. Init => LockInv
  BY TypeInit, OwnerInit DEF Init, LockInv, CompareInv, CompareHolds
<1>2. LockInv /\ [Next]_vars => LockInv'
  BY TypeStep, OwnerStep, CompareStep DEF LockInv
<1> QED BY <1>1, <1>2, PTL DEF Spec

\* A compare that passed is good for as long as still_mine says yes, for any
\* threads and values, given that no removal falls between a mkdir and its
\* stamp or between a still_mine and its rename.
THEOREM ComparesHold == PromptStamp /\ PromptRename => (Spec => []CompareHolds)
<1> SUFFICES ASSUME PromptStamp, PromptRename PROVE Spec => []CompareHolds
  OBVIOUS
<1>1. LockInv => CompareHolds
  BY DEF LockInv, CompareInv
<1> QED BY <1>1, LockInvariant, PTL

-----------------------------------------------------------------------------
(* The lock implements the cell                                             *)

LEMMA AskedType == ASSUME TypeInv PROVE Asked \in [Threads -> Ops \cup {None}]
BY DEF TypeInv, TypeOK, Asked

LEMMA CellOps == Cell!Swaps = Matches /\ Cell!Deletes = Deletes
BY DEF Cell!Swaps, Cell!Deletes, Matches, Deletes

\* A step that writes no file and at most takes operations out of flight.
LEMMA CellDrops ==
  ASSUME TypeInv, TypeInv', UNCHANGED val,
         \A u \in Threads : Asked'[u] = Asked[u] \/ Asked'[u] = None
  PROVE  Cell!Drop
BY AskedType, CellOps DEF Cell!Drop, TypeInv, TypeOK, Asked, Ops

LEMMA ThreadCell ==
  ASSUME LockInv, TypeInv', NEW t \in Threads, Call(t) \/ GiveUp(t) \/ Step(t)
  PROVE  Cell!Next
<1> USE DEF Goto, At
<1> /\ pc \in [Threads -> Steps] /\ op \in [Threads -> Ops \cup {None}]
    /\ TypeInv
  BY DEF LockInv, TypeInv, TypeOK
<1> pc' \in [Threads -> Steps] /\ op' \in [Threads -> Ops \cup {None}]
  BY DEF TypeInv, TypeOK
<1>1. CASE Call(t)
  <2>1. PICK o \in Ops : op' = [op EXCEPT ![t] = o] /\ (Goto(t, "link") \/ Goto(t, "wait"))
    BY <1>1 DEF Call
  <2>2. Asked[t] = None /\ Asked' = [Asked EXCEPT ![t] = o]
    BY <1>1, <2>1 DEF Call, Asked, Pending
  <2>3. Cell!Ask(t)
    BY <1>1, <2>2, AskedType, CellOps DEF Call, Cell!Ask, Ops
  <2> QED BY <2>3 DEF Cell!Next
<1>2. CASE GiveUp(t)
  <2>1. \A u \in Threads : Asked'[u] = Asked[u] \/ Asked'[u] = None
    BY <1>2 DEF GiveUp, Ends, Asked, Pending
  <2> QED BY <1>2, <2>1, CellDrops DEF GiveUp, Cell!Next
<1>3. CASE Publish(t)
  <2>1. Asked' = [Asked EXCEPT ![t] = None]
    BY <1>3 DEF Publish, Ends, Asked, Pending
  <2>2. CASE val = None
    <3>1. Asked[t] = op[t] /\ op[t] \in Matches /\ op[t].base = None
      BY <1>3 DEF Publish, Asked, Pending, TypeInv, Shape
    <3>2. Cell!Swap(t)
      BY <1>3, <2>1, <2>2, <3>1, CellOps DEF Publish, Cell!Swap, Cell!Ends
    <3> QED BY <3>2 DEF Cell!Next
  <2>3. CASE val # None
    BY <1>3, <2>1, <2>3, AskedType, CellDrops DEF Publish, Cell!Next
  <2> QED BY <2>2, <2>3
<1>4. CASE Mkdir(t) \/ Stamp(t)
  <2>1. Asked' = Asked
    BY <1>4 DEF Mkdir, Stamp, Asked, Pending
  <2> QED BY <1>4, <2>1, CellDrops DEF Mkdir, Stamp, Cell!Next
<1>5. CASE Break(t) \/ ClearBreaker(t) \/ Recheck(t) \/ ClearLock(t) \/ Unbreak(t)
  <2>1. Asked' = Asked
    BY <1>5 DEF Break, ClearBreaker, Recheck, ClearLock, Unbreak, Asked, Pending
  <2> QED BY <1>5, <2>1, CellDrops
          DEF Break, ClearBreaker, Recheck, ClearLock, Unbreak, Cell!Next
<1>6. CASE Compare(t) \/ Check(t)
  <2>1. \A u \in Threads : Asked'[u] = Asked[u] \/ Asked'[u] = None
    BY <1>6 DEF Compare, Check, AfterCheck, Asked, Pending
  <2> QED BY <1>6, <2>1, CellDrops DEF Compare, Check, Cell!Next
<1>7. CASE Rename(t)
  <2>1. Asked' = [Asked EXCEPT ![t] = None]
    BY <1>7 DEF Rename, Asked, Pending
  <2>2. Asked[t] = op[t] /\ op[t] \in Matches
    BY <1>7 DEF Rename, Asked, Pending, TypeInv, Shape
  <2>3. val = op[t].base
    BY <1>7 DEF Rename, LockInv, CompareInv, CompareHolds
  <2>4. Cell!Swap(t)
    BY <1>7, <2>1, <2>2, <2>3, CellOps DEF Rename, Cell!Swap, Cell!Ends
  <2> QED BY <2>4 DEF Cell!Next
<1>8. CASE Remove(t)
  <2>1. Asked' = [Asked EXCEPT ![t] = None]
    BY <1>8 DEF Remove, Asked, Pending
  <2>2. Asked[t] \in Deletes
    BY <1>8 DEF Remove, Asked, Pending, TypeInv, Shape
  <2>3. Cell!Empty(t)
    BY <1>8, <2>1, <2>2, CellOps DEF Remove, Cell!Empty, Cell!Ends
  <2> QED BY <2>3 DEF Cell!Next
<1>9. CASE Unstamp(t) \/ Rmdir(t)
  <2>1. Asked' = Asked
    BY <1>9 DEF Unstamp, Rmdir, Ends, Asked, Pending
  <2> QED BY <1>9, <2>1, CellDrops DEF Unstamp, Rmdir, Cell!Next
<1> QED BY <1>1, <1>2, <1>3, <1>4, <1>5, <1>6, <1>7, <1>8, <1>9 DEF Step

LEMMA CellStep == LockInv /\ TypeInv' /\ [Next]_vars => [Cell!Next]_(Cell!vars)
<1> SUFFICES ASSUME LockInv, TypeInv', [Next]_vars PROVE Cell!Next \/ UNCHANGED <<val, Asked>>
  BY DEF Cell!vars
<1> TypeInv
  BY DEF LockInv
<1>1. CASE \E t \in Threads : Call(t) \/ GiveUp(t) \/ Step(t)
  BY <1>1, ThreadCell
<1>2. CASE AgeLock \/ AgeBreaker
  BY <1>2 DEF AgeLock, AgeBreaker, Asked, Pending
<1>3. ASSUME NEW p \in Procs, Crash(p) PROVE Cell!Next
  <2>1. \A u \in Threads : Asked'[u] = Asked[u] \/ Asked'[u] = None
    BY <1>3 DEF Crash, Asked, Pending
  <2> QED BY <1>3, <2>1, CellDrops DEF Crash, Cell!Next
<1>4. CASE UNCHANGED vars
  BY <1>4 DEF vars, Asked, Pending
<1> QED BY <1>1, <1>2, <1>3, <1>4 DEF Next

\* The local filesystem store is an atomic compare-and-swap cell for any
\* threads, processes, values and crashes, given the two short stretches.
THEOREM LockIsCell == PromptStamp /\ PromptRename => (Spec => ImplementsCell)
<1> SUFFICES ASSUME PromptStamp, PromptRename PROVE Spec => Cell!Spec
  BY DEF ImplementsCell
<1>1. Init => Cell!Init
  BY KeyLockAssumption DEF Init, Cell!Init, Asked, Pending
<1>2. LockInv => TypeInv
  BY DEF LockInv
<1> QED BY <1>1, <1>2, CellStep, LockInvariant, PTL DEF Spec, Cell!Spec
=============================================================================
