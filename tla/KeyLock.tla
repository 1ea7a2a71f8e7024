------------------------------ MODULE KeyLock ------------------------------
(***************************************************************************)
(* One key of the local filesystem store (zou-store/src/cas.rs): the lock  *)
(* directory beside it, the breaker directory beside that, and the threads *)
(* of several processes that compare and swap, create and delete the file. *)
(*                                                                         *)
(* Every step is one filesystem call.  A thread may stop between any two   *)
(* of them for as long as it likes; the stale age passes as a step of its  *)
(* own (AgeLock, AgeBreaker), and a process may die anywhere.  Two short   *)
(* stretches of code have nothing behind them but their shortness, and     *)
(* each has a constant that says whether it is taken to be short:          *)
(* PromptStamp, the mkdir and the stamp that goes into the directory, and  *)
(* PromptRename, the still_mine check and the rename it allows.            *)
(***************************************************************************)
EXTENDS Naturals, FiniteSets

CONSTANTS Threads,       \* threads that use the key
          Procs,         \* the processes they belong to
          ProcOf,        \* ProcOf[t]: the process of t
          Values,        \* contents; a version is a hash of them
          Start,         \* what may be at the key to begin with
          None,          \* no object, no directory
          PromptStamp,   \* no removal falls between a mkdir and its stamp
          PromptRename,  \* no removal falls between still_mine and its rename
          MaxCalls       \* bound: operations started in a behaviour

ASSUME KeyLockAssumption ==
    /\ ProcOf \in [Threads -> Procs]
    /\ None \notin Values
    /\ Start \subseteq Values \cup {None}
    /\ PromptStamp \in BOOLEAN
    /\ PromptRename \in BOOLEAN
    /\ MaxCalls \in Nat

VARIABLES
    mode,     \* what the key is used for, see Modes
    val,      \* the file at the key
    lock,     \* the lock directory: its stamps, and whether it is past the stale age
    breaker,  \* the breaker directory: "absent", "fresh" or "old"
    alive,    \* the processes still running
    pc,       \* pc[t]: the filesystem call t makes next
    op,       \* op[t]: the operation t is in, None between two
    calls     \* operations started so far

vars == <<mode, val, lock, breaker, alive, pc, op, calls>>

\* A key swapped by version (a manifest), or one created once and collected
\* later (a segment, a layer), on a filesystem that makes hard links or not.
\* One answer for the store: links_work asks once and keeps it.
Modes == {"swap", "link", "nolink"}

\* put_if_match with its base version, put_if_absent (base None), and delete.
Matches == [kind : {"match"}, base : Values \cup {None}, new : Values]
Deletes == [kind : {"delete"}]
Ops == Matches \cup Deletes

\* Mutant of StampOf: the pid alone.
PidStamp(t) == <<ProcOf[t], ProcOf[t]>>

\* stamp(): the pid, and a counter no other acquisition of the process has.
\* A thread is in one acquisition at a time and its Drop takes the stamp out,
\* so the thread stands for the counter.
StampOf(t) == <<ProcOf[t], t>>
Stamps == {StampOf(t) : t \in Threads}

\* A lock directory: the stamps in it, and whether it is past the stale age.
Locks == [stamps : SUBSET Stamps, old : BOOLEAN]
Fresh(stamps) == [stamps |-> stamps, old |-> FALSE]

ASSUME NoneAssumption == None \notin Ops /\ None \notin Locks

\* lock_owner_dead: stamped, and every stamped pid is gone.
OwnerDead == lock.stamps # {} /\ \A s \in lock.stamps : s[1] \notin alive

\* lock_expired; a directory that is not there has no mtime and no entries.
Expired == lock # None /\ (lock.old \/ OwnerDead)

StillMine(t) == lock # None /\ StampOf(t) \in lock.stamps

\* The timing assumptions, over the threads that are still running.
Stamping == PromptStamp /\ \E t \in Threads : pc[t] = "stamp"
Renaming == PromptRename /\ \E t \in Threads : pc[t] = "rename" /\ StillMine(t)

Goto(t, l) == pc' = [pc EXCEPT ![t] = l]
At(t, l) == pc[t] = l
Ends(t) == /\ op' = [op EXCEPT ![t] = None]
           /\ Goto(t, "idle")

Init == /\ mode \in Modes
        /\ val \in Start
        /\ lock = None
        /\ breaker = "absent"
        /\ alive = Procs
        /\ pc = [t \in Threads |-> "idle"]
        /\ op = [t \in Threads |-> None]
        /\ calls = 0

\* A caller starts an operation: a swap from the version its get just read,
\* a create, or a delete.  put_if_absent goes by hard link where links work.
Call(t) ==
    /\ At(t, "idle")
    /\ calls < MaxCalls
    /\ calls' = calls + 1
    /\ \E o \in Ops :
         /\ o.kind = "match" => o.base = IF mode = "swap" THEN val ELSE None
         /\ o.kind = "delete" => mode # "swap"
         /\ op' = [op EXCEPT ![t] = o]
         /\ Goto(t, IF mode = "link" /\ o.kind = "match" THEN "link" ELSE "wait")
    /\ UNCHANGED <<mode, val, lock, breaker, alive>>

\* Mutant of Publish: a rename, which replaces whatever it lands on.
PublishByRename(t) ==
    /\ At(t, "link")
    /\ val' = op[t].new
    /\ Ends(t)
    /\ UNCHANGED <<mode, lock, breaker, alive, calls>>

\* publish: the hard link fails against whatever is at the key when it runs.
Publish(t) ==
    /\ At(t, "link")
    /\ val' = IF val = None THEN op[t].new ELSE val
    /\ Ends(t)
    /\ UNCHANGED <<mode, lock, breaker, alive, calls>>

-----------------------------------------------------------------------------
(* KeyLock::acquire *)

Mkdir(t) == /\ At(t, "wait")
            /\ lock = None
            /\ lock' = Fresh({})
            /\ Goto(t, "stamp")
            /\ UNCHANGED <<mode, val, breaker, alive, op, calls>>

\* The stamp goes into whatever directory is at the path, and touches its
\* mtime.  A create that fails is ignored.
Stamp(t) == /\ At(t, "stamp")
            /\ \/ lock' = lock
               \/ lock # None /\ lock' = Fresh(lock.stamps \cup {StampOf(t)})
            /\ Goto(t, IF op[t].kind = "delete" THEN "remove" ELSE "compare")
            /\ UNCHANGED <<mode, val, breaker, alive, op, calls>>

\* The deadline is later than the stale age of a lock met at the start.
GiveUp(t) == /\ At(t, "wait")
             /\ lock # None
             /\ Ends(t)
             /\ UNCHANGED <<mode, val, lock, breaker, alive, calls>>

\* Mutant of Break: a breaker found there is somebody else's business.
BreakWhenFree(t) ==
    /\ At(t, "wait")
    /\ Expired
    /\ breaker = "absent"
    /\ breaker' = "fresh"
    /\ Goto(t, "recheck")
    /\ UNCHANGED <<mode, val, lock, alive, op, calls>>

\* lock_expired, then break_stale_lock: take the breaker, or find one there
\* and look at its age.  The first look at the lock only decides whether to
\* try, so it is one step with the breaker's mkdir.
Break(t) ==
    /\ At(t, "wait")
    /\ Expired
    /\ breaker' = IF breaker = "absent" THEN "fresh" ELSE breaker
    /\ \/ breaker = "absent" /\ Goto(t, "recheck")
       \/ breaker = "old" /\ Goto(t, "clear")
       \/ breaker = "fresh" /\ UNCHANGED pc
    /\ UNCHANGED <<mode, val, lock, alive, op, calls>>

\* The breaker removed is the one there now, not the one whose age was read.
ClearBreaker(t) == /\ At(t, "clear")
                   /\ breaker' = "absent"
                   /\ Goto(t, "wait")
                   /\ UNCHANGED <<mode, val, lock, alive, op, calls>>

Recheck(t) == /\ At(t, "recheck")
              /\ Goto(t, IF Expired THEN "clearlock" ELSE "unbreak")
              /\ UNCHANGED <<mode, val, lock, breaker, alive, op, calls>>

\* remove_dir_all: whatever directory is at the path by now, stamps and all.
ClearLock(t) == /\ At(t, "clearlock")
                /\ ~Stamping /\ ~Renaming
                /\ lock' = None
                /\ Goto(t, "unbreak")
                /\ UNCHANGED <<mode, val, breaker, alive, op, calls>>

Unbreak(t) == /\ At(t, "unbreak")
              /\ breaker' = "absent"
              /\ Goto(t, "wait")
              /\ UNCHANGED <<mode, val, lock, alive, op, calls>>

-----------------------------------------------------------------------------
(* put_if_match and delete inside the lock, and Drop *)

\* The read and the compare; what passes writes its tmp file next.
Compare(t) ==
    /\ At(t, "compare")
    /\ Goto(t, IF val = op[t].base THEN "check" ELSE "unstamp")
    /\ UNCHANGED <<mode, val, lock, breaker, alive, op, calls>>

\* Mutant of AfterCheck: the compare is taken to be still good.
NoCheck(t) == "rename"

\* The lock is looked at once more before the rename.
AfterCheck(t) == IF StillMine(t) THEN "rename" ELSE "unstamp"

Check(t) == /\ At(t, "check")
            /\ Goto(t, AfterCheck(t))
            /\ UNCHANGED <<mode, val, lock, breaker, alive, op, calls>>

Rename(t) == /\ At(t, "rename")
             /\ val' = op[t].new
             /\ Goto(t, "unstamp")
             /\ UNCHANGED <<mode, lock, breaker, alive, op, calls>>

\* delete asks nothing of the lock once it has it.
Remove(t) == /\ At(t, "remove")
             /\ val' = None
             /\ Goto(t, "unstamp")
             /\ UNCHANGED <<mode, lock, breaker, alive, op, calls>>

\* Drop takes its own stamp out, then the directory if nothing else is in it.
Unstamp(t) == /\ At(t, "unstamp")
              /\ lock' = IF StillMine(t) THEN Fresh(lock.stamps \ {StampOf(t)}) ELSE lock
              /\ Goto(t, "rmdir")
              /\ UNCHANGED <<mode, val, breaker, alive, op, calls>>

Rmdir(t) == /\ At(t, "rmdir")
            /\ ~Stamping
            /\ lock' = IF lock # None /\ lock.stamps = {} THEN None ELSE lock
            /\ Ends(t)
            /\ UNCHANGED <<mode, val, breaker, alive, calls>>

-----------------------------------------------------------------------------
(* The stale age passes, and processes die *)

AgeLock == /\ lock # None /\ ~lock.old
           /\ ~Stamping /\ ~Renaming
           /\ lock' = [lock EXCEPT !.old = TRUE]
           /\ UNCHANGED <<mode, val, breaker, alive, pc, op, calls>>

AgeBreaker == /\ breaker = "fresh"
              /\ breaker' = "old"
              /\ UNCHANGED <<mode, val, lock, alive, pc, op, calls>>

\* A kill takes every thread of the process and leaves its directories.
Crash(p) == /\ p \in alive
            /\ alive' = alive \ {p}
            /\ pc' = [t \in Threads |-> IF ProcOf[t] = p THEN "dead" ELSE pc[t]]
            /\ op' = [t \in Threads |-> IF ProcOf[t] = p THEN None ELSE op[t]]
            /\ UNCHANGED <<mode, val, lock, breaker, calls>>

\* What a running thread does next, its deadline aside.
Step(t) == \/ Publish(t)
           \/ Mkdir(t) \/ Stamp(t) \/ Break(t)
           \/ ClearBreaker(t) \/ Recheck(t) \/ ClearLock(t) \/ Unbreak(t)
           \/ Compare(t) \/ Check(t) \/ Rename(t) \/ Remove(t)
           \/ Unstamp(t) \/ Rmdir(t)

Next == \/ \E t \in Threads : Call(t) \/ GiveUp(t) \/ Step(t)
        \/ AgeLock \/ AgeBreaker
        \/ \E p \in Procs : Crash(p)

Spec == Init /\ [][Next]_vars

\* A running thread is scheduled, and time passes.
Fairness == /\ \A t \in Threads : WF_vars(Step(t))
            /\ WF_vars(AgeLock) /\ WF_vars(AgeBreaker)

FairSpec == Spec /\ Fairness

-----------------------------------------------------------------------------
Steps == {"idle", "link", "wait", "stamp", "recheck", "clear", "clearlock",
          "unbreak", "compare", "check", "rename", "remove", "unstamp", "rmdir", "dead"}

\* Every variable holds what the code can put there.
TypeOK == /\ mode \in Modes
          /\ val \in Values \cup {None}
          /\ lock \in Locks \cup {None}
          /\ breaker \in {"absent", "fresh", "old"}
          /\ alive \in SUBSET Procs
          /\ pc \in [Threads -> Steps]
          /\ op \in [Threads -> Ops \cup {None}]
          /\ calls \in 0..MaxCalls

\* still_mine says yes to one thread at most, however many locks were broken
\* under live holders.
OneOwner == \A t, u \in Threads : StillMine(t) /\ StillMine(u) => t = u

\* A compare that passed stays good for as long as still_mine says yes: the
\* file a holder is about to rename over is the one it compared with, although
\* the compare, the tmp write and its fsync may have taken longer than the
\* stale age.
CompareHolds == \A t \in Threads :
    pc[t] \in {"check", "rename"} /\ StillMine(t) => val = op[t].base

\* The operation of t has neither taken effect nor been refused.
Pending(t) == pc[t] \notin {"idle", "unstamp", "rmdir", "dead"}

Asked == [t \in Threads |-> IF Pending(t) THEN op[t] ELSE None]

Cell == INSTANCE CasCell WITH cell <- val, asked <- Asked

\* The lock, its breaking and the hard link together give the callers an
\* atomic compare-and-swap cell: no swap is answered ok unless the file held
\* the caller's base version at that instant.
ImplementsCell == Cell!Spec

\* A thread in acquire.
Acquiring(t) == pc[t] \in {"wait", "recheck", "clear", "clearlock", "unbreak"}

\* No crash wedges the key: every thread waiting for the lock gets it (or
\* gives up, or dies), although a holder and a breaker may have died holding their
\* directories.
WaiterGetsIn == (\E t \in Threads : Acquiring(t)) ~> (\A t \in Threads : ~Acquiring(t))
=============================================================================
