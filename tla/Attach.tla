------------------------------- MODULE Attach -------------------------------
(***************************************************************************)
(* The tenants a node has up: the attach manager (zou-server/attach.rs)    *)
(* over the backend that runs one postmaster per tenant (zou/serve.rs).    *)
(*                                                                         *)
(* The manager's map of slots is behind one async lock; a hold, a build    *)
(* and a refresh run outside it.  The backend has a live map, a dying map, *)
(* a reaper thread per postmaster and short lived threads that detach.     *)
(* Each step is a stretch of code between two points where another thread  *)
(* can get in.  A process is a number; pids are not reused.                *)
(*                                                                         *)
(* Four gaps in the code have nothing behind them but their shortness, and *)
(* each has a constant that says whether it is taken to be empty.          *)
(***************************************************************************)
EXTENDS Naturals, Sequences, FiniteSets

CONSTANTS Tenants, Callers, None,
          Ceiling,      \* the ceiling on slots
          Budgets,      \* bound: how many requests (call), postmasters that die or
                        \* hang (fault) and deployments (deploy) there are, and
                        \* the deployment in the store to begin with (head)
          PromptHold,   \* no eviction falls between slot() and Busy::of
          PromptNote,   \* no reap falls between a decision to stop and its note
          PromptInsert, \* no postmaster dies between being ready and live.insert
          QuietDetach   \* no slot is made for a tenant while a detach of it is under way

ASSUME AttachAssumption ==
    /\ Ceiling \in Nat \ {0}
    /\ Budgets \subseteq [{"call", "fault", "deploy", "head"} -> Nat]
    /\ \A b \in {PromptHold, PromptNote, PromptInsert, QuietDetach} : b \in BOOLEAN
    /\ None \notin Nat
    /\ None \notin [by : Callers \cup {"sweeper", "ceiling"}, todo : SUBSET Tenants,
                   hand : Nat \cup {None}]

VARIABLES
    slots,   \* slots[t]: the slot the map has for t, or None
    heap,    \* every slot ever made; a caller may outlast the map's entry
    call,    \* call[c]: where request c is
    procs,   \* the postmasters, by pid
    live,    \* backend: live[t], the process that is meant to be running
    dying,   \* backend: dying[t], the process that was asked to leave
    goers,   \* backend: the detach threads
    ev,      \* the eviction that holds the map's lock, or None
    tick,    \* the sweep timer's task
    clock,   \* uses so far, what `used` is measured in
    head,    \* the deployment in the store
    left     \* what the bounds still allow

vars == <<slots, heap, call, procs, live, dying, goers, ev, tick, clock, head, left>>
backend == <<procs, live, dying, goers>>

Idle == [pc |-> "idle"]
Slots == 1..Len(heap)
Procs == 1..Len(procs)
Sweeper == "sweeper"

Spend(what) == /\ left[what] > 0
               /\ left' = [left EXCEPT ![what] = @ - 1]

Goto(c, pc) == call' = [call EXCEPT ![c].pc = pc]
Hangup(c) == call' = [call EXCEPT ![c] = Idle]

\* Mutant of Inside: the count is let go of when the attach is done.
InsideAttaching(s) == {c \in Callers : call[c].pc \notin {"idle", "got", "held"} /\ call[c].slot = s}

\* Slot::busy counts the callers inside; an attach that fails lets go.
Inside(s) == {c \in Callers : call[c].pc \notin {"idle", "got"} /\ call[c].slot = s}
Free(s) == /\ Inside(s) = {}
           /\ PromptHold => ~\E c \in Callers : call[c].pc = "got" /\ call[c].slot = s

Attached == {t \in Tenants : slots[t] # None}

Init == /\ slots = [t \in Tenants |-> None]
        /\ heap = <<>>
        /\ call = [c \in Callers |-> Idle]
        /\ procs = <<>>
        /\ live = [t \in Tenants |-> None]
        /\ dying = [t \in Tenants |-> None]
        /\ goers = {}
        /\ ev = None
        /\ tick = "idle"
        /\ clock = 0
        /\ left \in Budgets
        /\ head = left.head

-----------------------------------------------------------------------------
(* The backend's bookkeeping.                                              *)

\* State::leaving and stop: the note, then the signal.
Leave(t, p, why) ==
    /\ dying' = [dying EXCEPT ![t] = p]
    /\ procs' = [procs EXCEPT ![p].st = IF @ \in {"starting", "running"} THEN "stopping" ELSE @,
                              ![p].stopped = why]

\* Somebody has taken p to stop it and has not left the note yet.
Unnoted(p) == \/ ev # None /\ ev.hand = p
              \/ \E g \in goers : g.hand = p
              \/ \E c \in Callers : call[c].pc = "giveup" /\ call[c].pid = p

\* State::let_go: a thread of its own will detach the tenant.
LetGo(t) == [t |-> t, pc |-> "detach", hand |-> None,
             n |-> CHOOSE n \in 0..Cardinality(goers) : \A g \in goers : g.n # n]
MayMakeSlot(t) == QuietDetach => \A g \in goers : g.t # t

-----------------------------------------------------------------------------
(* A request: Attached::hold.                                              *)

\* slot(): under the lock, made if absent with no use marked.  The registry
\* entry the request carries may be older than the last deployment.
Ask(c, t) ==
    /\ call[c].pc = "idle"
    /\ ev = None
    /\ Spend("call")
    /\ slots[t] = None => MayMakeSlot(t)
    /\ LET s == IF slots[t] = None THEN Len(heap) + 1 ELSE slots[t]
       IN /\ slots' = [slots EXCEPT ![t] = s]
          /\ heap' = IF slots[t] # None THEN heap
                     ELSE Append(heap, [used |-> 0, up |-> None, building |-> FALSE, deployed |-> 0])
          /\ \E d \in 0..head :
               call' = [call EXCEPT ![c] = [pc |-> "got", t |-> t, slot |-> s,
                                            pid |-> None, dep |-> d]]
    /\ UNCHANGED <<tick, procs, live, dying, goers, ev, clock, head>>

\* The use is marked and the slot held.
Take(c) ==
    /\ call[c].pc = "got"
    /\ clock' = clock + 1
    /\ heap' = [heap EXCEPT ![call[c].slot].used = clock']
    /\ Goto(c, "cell")
    /\ UNCHANGED <<tick, slots, backend, ev, head, left>>

\* The cell is set: nothing to build.
Warm(c) ==
    /\ call[c].pc = "cell"
    /\ heap[call[c].slot].up # None
    /\ call' = [call EXCEPT ![c].pc = "enforce", ![c].pid = heap[call[c].slot].up]
    /\ UNCHANGED <<tick, slots, heap, backend, ev, clock, head, left>>

\* get_or_try_init: one caller at a time builds, and the others wait on it.
\* Backend::up looks up the process it has to see gone.
Build(c) ==
    LET s == call[c].slot
    IN /\ call[c].pc = "cell"
       /\ heap[s].up = None
       /\ ~heap[s].building
       /\ heap' = [heap EXCEPT ![s].building = TRUE, ![s].deployed = call[c].dep]
       /\ call' = [call EXCEPT ![c].pc = "wait", ![c].pid = dying[call[c].t]]
       /\ UNCHANGED <<tick, slots, backend, ev, clock, head, left>>

\* A build that fails leaves the cell empty.
BuildFails(c) ==
    /\ Hangup(c)
    /\ heap' = [heap EXCEPT ![call[c].slot].building = FALSE]

\* Mutant of Start: nobody waits for the last one.
StartAtOnce(c) ==
    /\ call[c].pc = "wait"
    /\ procs' = Append(procs, [t |-> call[c].t, st |-> "starting", stopped |-> "no",
                               serves |-> None, told |-> FALSE])
    /\ call' = [call EXCEPT ![c].pc = "boot", ![c].pid = Len(procs')]
    /\ UNCHANGED <<tick, slots, heap, live, dying, goers, ev, clock, head, left>>

\* wait_for_the_last_one is told, and the postmaster is spawned.
Start(c) ==
    /\ call[c].pc = "wait"
    /\ call[c].pid # None => procs[call[c].pid].told
    /\ procs' = Append(procs, [t |-> call[c].t, st |-> "starting", stopped |-> "no",
                               serves |-> None, told |-> FALSE])
    /\ call' = [call EXCEPT ![c].pc = "boot", ![c].pid = Len(procs')]
    /\ UNCHANGED <<tick, slots, heap, live, dying, goers, ev, clock, head, left>>

\* It is not told in time: the attach fails rather than start a second one.
WaitFails(c) ==
    /\ call[c].pc = "wait"
    /\ call[c].pid # None /\ ~procs[call[c].pid].told
    /\ BuildFails(c)
    /\ UNCHANGED <<tick, slots, backend, ev, clock, head, left>>

\* Ready: the deployment is read out of the store, and a project nobody has
\* deployed to gets a front door without functions.
Ready(c) ==
    LET p == call[c].pid
    IN /\ call[c].pc = "boot"
       /\ procs[p].st = "starting"
       /\ procs' = [procs EXCEPT ![p].st = "running",
                                 ![p].serves = IF head = 0 THEN None ELSE head]
       /\ Goto(c, "insert")
       /\ UNCHANGED <<tick, slots, heap, live, dying, goers, ev, clock, head, left>>

\* Gone before it was ready.
BootFails(c) ==
    /\ call[c].pc = "boot"
    /\ procs[call[c].pid].st \notin {"starting", "running"}
    /\ BuildFails(c)
    /\ UNCHANGED <<tick, slots, backend, ev, clock, head, left>>

\* It said nothing for too long.
Slow(c) ==
    /\ call[c].pc = "boot"
    /\ procs[call[c].pid].st = "starting"
    /\ Spend("fault")
    /\ Goto(c, "giveup")
    /\ UNCHANGED <<tick, slots, heap, backend, ev, clock, head>>

\* Mutant of GiveUp: the error alone.
GiveUpQuietly(c) ==
    /\ call[c].pc = "giveup"
    /\ BuildFails(c)
    /\ UNCHANGED <<tick, slots, backend, ev, clock, head, left>>

\* The attach is given up on: the note, the signal, the error.
GiveUp(c) ==
    /\ call[c].pc = "giveup"
    /\ Leave(call[c].t, call[c].pid, "slow")
    /\ BuildFails(c)
    /\ UNCHANGED <<tick, slots, live, goers, ev, clock, head, left>>

\* live.insert.
Insert(c) ==
    /\ call[c].pc = "insert"
    /\ live' = [live EXCEPT ![call[c].t] = call[c].pid]
    /\ Goto(c, "set")
    /\ UNCHANGED <<tick, slots, heap, procs, dying, goers, ev, clock, head, left>>

\* The cell is set.
SetCell(c) ==
    /\ call[c].pc = "set"
    /\ heap' = [heap EXCEPT ![call[c].slot].up = call[c].pid,
                            ![call[c].slot].building = FALSE]
    /\ Goto(c, "enforce")
    /\ UNCHANGED <<tick, slots, backend, ev, clock, head, left>>

\* The least recently used of the free slots, as many as are over; no two
\* uses have the same time.
Overdue ==
    LET over == Cardinality(Attached) - Ceiling
        free == {t \in Attached : Free(slots[t])}
        older(t) == {u \in free : heap[slots[u]].used < heap[slots[t]].used}
    IN IF Cardinality(Attached) <= Ceiling THEN {}
       ELSE {t \in free : Cardinality(older(t)) < over}

\* The lock is let go of when nobody is left on the list.
Rest(by, todo, hand) ==
    IF todo = {} /\ hand = None THEN None ELSE [by |-> by, todo |-> todo, hand |-> hand]

\* enforce, after every attach.
Enforce(c) ==
    /\ call[c].pc = "enforce"
    /\ ev = None
    /\ ev' = Rest(c, Overdue, None)
    /\ Goto(c, "catchup")
    /\ UNCHANGED <<tick, slots, heap, backend, clock, head, left>>

\* caught_up: the attach was built from, or has picked up, this deployment.
Current(c) ==
    /\ call[c].pc = "catchup"
    /\ ~(ev # None /\ ev.by = c)
    /\ heap[call[c].slot].deployed = call[c].dep
    /\ Goto(c, "held")
    /\ UNCHANGED <<tick, slots, heap, backend, ev, clock, head, left>>

\* Mutant of Refresh: the mark is set before the deployment is picked up.
RefreshMark(c) ==
    /\ call[c].pc = "catchup"
    /\ ~(ev # None /\ ev.by = c)
    /\ heap[call[c].slot].deployed # call[c].dep
    /\ heap' = [heap EXCEPT ![call[c].slot].deployed = call[c].dep]
    /\ Goto(c, "held")
    /\ UNCHANGED <<tick, slots, backend, ev, clock, head, left>>

\* Or it picks it up: into the functions the front door has, or by letting go
\* of a tenant that came up without any.  One at a time, on the slot's lock.
Refresh(c) ==
    LET t == call[c].t
        p == live[t]
    IN /\ call[c].pc = "catchup"
       /\ ~(ev # None /\ ev.by = c)
       /\ heap[call[c].slot].deployed # call[c].dep
       /\ IF p # None /\ procs[p].serves # None
          THEN procs' = [procs EXCEPT ![p].serves = head] ELSE procs' = procs
       /\ goers' = IF p # None /\ procs[p].serves = None THEN goers \cup {LetGo(t)} ELSE goers
       /\ heap' = [heap EXCEPT ![call[c].slot].deployed = call[c].dep]
       /\ Goto(c, "held")
       /\ UNCHANGED <<tick, slots, live, dying, ev, clock, head, left>>

\* The hold is dropped.
Release(c) ==
    /\ call[c].pc = "held"
    /\ Hangup(c)
    /\ UNCHANGED <<tick, slots, heap, backend, ev, clock, head, left>>

-----------------------------------------------------------------------------
(* Eviction, under the map's lock.                                         *)

\* One tenant of the list: enforce reads again whether it is in use, and the
\* backend's down takes its process out of the live map.
EvictTake ==
    /\ ev # None /\ ev.hand = None
    /\ \E t \in ev.todo :
         IF ev.by = Sweeper \/ Free(slots[t])
         THEN /\ slots' = [slots EXCEPT ![t] = None]
              /\ live' = [live EXCEPT ![t] = None]
              /\ ev' = Rest(ev.by, ev.todo \ {t}, live[t])
         ELSE /\ ev' = Rest(ev.by, ev.todo \ {t}, None)
              /\ UNCHANGED <<slots, live>>
    /\ UNCHANGED <<heap, call, procs, dying, goers, tick, clock, head, left>>

\* Then it is noted and told.
EvictNote ==
    /\ ev # None /\ ev.hand # None
    /\ Leave(procs[ev.hand].t, ev.hand, "evicted")
    /\ ev' = Rest(ev.by, ev.todo, None)
    /\ UNCHANGED <<slots, heap, call, live, goers, tick, clock, head, left>>

\* sweep: everything free and untouched since some cutoff, and then the
\* ceiling, since the attach that exceeded it may have been the last.
Sweep ==
    /\ tick = "idle"
    /\ ev = None
    /\ \E cutoff \in 0..(clock + 1) :
         LET stale == {t \in Attached : heap[slots[t]].used < cutoff /\ Free(slots[t])}
         IN /\ stale # {} \/ Overdue # {}
            /\ ev' = Rest(Sweeper, stale, None)
    /\ tick' = "enforce"
    /\ UNCHANGED <<slots, heap, call, backend, clock, head, left>>

\* Mutant of SweepEnforce: the sweep leaves the ceiling to the attaches.
SweepOnly ==
    /\ tick = "enforce"
    /\ ev = None
    /\ tick' = "idle"
    /\ UNCHANGED <<slots, heap, call, backend, ev, clock, head, left>>

SweepEnforce ==
    /\ tick = "enforce"
    /\ ev = None
    /\ ev' = Rest("ceiling", Overdue, None)
    /\ tick' = "idle"
    /\ UNCHANGED <<slots, heap, call, backend, clock, head, left>>

-----------------------------------------------------------------------------
(* The detach threads, the reapers and the store.                          *)

\* detach: out of the map under the lock, which is dropped before down.
GoRemove(g) ==
    /\ g.pc = "detach"
    /\ ev = None
    /\ slots' = [slots EXCEPT ![g.t] = None]
    /\ goers' = (goers \ {g}) \cup {[g EXCEPT !.pc = "down"]}
    /\ UNCHANGED <<heap, call, procs, live, dying, ev, tick, clock, head, left>>

GoDown(g) ==
    /\ g.pc = "down"
    /\ goers' = (goers \ {g}) \cup
                (IF live[g.t] = None THEN {} ELSE {[g EXCEPT !.pc = "note", !.hand = live[g.t]]})
    /\ live' = [live EXCEPT ![g.t] = None]
    /\ UNCHANGED <<slots, heap, call, procs, dying, ev, tick, clock, head, left>>

GoNote(g) ==
    /\ g.pc = "note"
    /\ Leave(g.t, g.hand, "detached")
    /\ goers' = goers \ {g}
    /\ UNCHANGED <<slots, heap, call, live, ev, tick, clock, head, left>>

\* A postmaster that was told to leave does.
Stops(p) ==
    /\ procs[p].st = "stopping"
    /\ procs' = [procs EXCEPT ![p].st = "exited"]
    /\ UNCHANGED <<slots, heap, call, live, dying, goers, ev, tick, clock, head, left>>

\* A postmaster dies on its own.
Crash(p) ==
    /\ procs[p].st \in {"starting", "running"}
    /\ PromptInsert => ~\E c \in Callers : call[c].pc = "insert" /\ call[c].pid = p
    /\ Spend("fault")
    /\ procs' = [procs EXCEPT ![p].st = "exited", ![p].stopped = "died"]
    /\ UNCHANGED <<slots, heap, call, live, dying, goers, ev, tick, clock, head>>

\* died: the reaper lets go of a tenant whose live process this was.
Died(p) ==
    LET t == procs[p].t
    IN /\ procs[p].st = "exited"
       /\ procs' = [procs EXCEPT ![p].st = "reaped"]
       /\ IF live[t] = p
          THEN /\ live' = [live EXCEPT ![t] = None]
               /\ goers' = goers \cup {LetGo(t)}
          ELSE UNCHANGED <<live, goers>>
       /\ UNCHANGED <<slots, heap, call, dying, ev, tick, clock, head, left>>

\* Mutant of Left: the note stays.
LeftNoted(p) ==
    /\ procs[p].st = "reaped"
    /\ PromptNote => ~Unnoted(p)
    /\ procs' = [procs EXCEPT ![p].st = "gone", ![p].told = dying[procs[p].t] = p]
    /\ UNCHANGED <<slots, heap, call, live, dying, goers, ev, tick, clock, head, left>>

\* left: the note is taken away and whoever waits is told, if it is this one's.
Left(p) ==
    LET t == procs[p].t
    IN /\ procs[p].st = "reaped"
       /\ PromptNote => ~Unnoted(p)
       /\ procs' = [procs EXCEPT ![p].st = "gone", ![p].told = dying[t] = p]
       /\ dying' = IF dying[t] = p THEN [dying EXCEPT ![t] = None] ELSE dying
       /\ UNCHANGED <<slots, heap, call, live, goers, ev, tick, clock, head, left>>

\* Somebody deploys to a project.
Deploy ==
    /\ Spend("deploy")
    /\ head' = head + 1
    /\ UNCHANGED <<slots, heap, call, backend, ev, tick, clock>>

-----------------------------------------------------------------------------
Hold(c) == \/ Take(c) \/ Warm(c) \/ Build(c) \/ Start(c) \/ WaitFails(c)
           \/ Ready(c) \/ BootFails(c) \/ GiveUp(c) \/ Insert(c) \/ SetCell(c)
           \/ Enforce(c) \/ Current(c) \/ Refresh(c)

Evict == EvictTake \/ EvictNote
Reap(p) == Stops(p) \/ Died(p) \/ Left(p)

Next == \/ \E c \in Callers : \/ \E t \in Tenants : Ask(c, t)
                              \/ Hold(c) \/ Slow(c) \/ Release(c)
        \/ Evict \/ Sweep \/ SweepEnforce
        \/ \E g \in goers : GoRemove(g) \/ GoDown(g) \/ GoNote(g)
        \/ \E p \in Procs : Reap(p) \/ Crash(p)
        \/ Deploy

Spec == Init /\ [][Next]_vars

\* Threads and tasks that can run do, the sweep timer ticks, a postmaster told
\* to stop stops, and a client lets go of its hold.
FairSpec ==
    /\ Spec
    /\ \A c \in Callers : WF_vars(Hold(c) \/ Release(c))
    /\ WF_vars(Evict)
    /\ WF_vars(Sweep \/ SweepEnforce)
    /\ WF_vars(\E g \in goers : GoRemove(g) \/ GoDown(g) \/ GoNote(g))
    /\ WF_vars(\E p \in Procs : Reap(p))

-----------------------------------------------------------------------------
\* Slots, live and dying name what exists, the live process of a tenant is its
\* own, and no slot was used later than now.
TypeOK ==
    /\ slots \in [Tenants -> Slots \cup {None}]
    /\ live \in [Tenants -> Procs \cup {None}]
    /\ dying \in [Tenants -> Procs \cup {None}]
    /\ \A t \in Tenants : live[t] # None => procs[live[t]].t = t
    /\ \A s \in Slots : heap[s].up \in Procs \cup {None} /\ heap[s].used \in 0..clock
    /\ \A c \in Callers : call[c].pc # "idle" => call[c].slot \in Slots

\* A tenant's pages are never written by two postmasters of this node at once.
OnePostmaster ==
    \A p, q \in Procs :
        (p # q /\ procs[p].t = procs[q].t) =>
            ~({procs[p].st, procs[q].st} \subseteq {"starting", "running", "stopping"})

\* Neither budget stops the database under a caller that holds the tenant.
HeldNotEvicted ==
    \A c \in Callers : call[c].pc = "held" => procs[call[c].pid].stopped # "evicted"

\* Every postmaster that runs is one somebody is bringing up, one the live map
\* names, or one on its way out: none is left behind with nobody to stop it.
Accounted ==
    \A p \in Procs :
        procs[p].st \in {"starting", "running"} =>
            \/ \E c \in Callers : call[c].pc \in {"boot", "giveup", "insert"} /\ call[c].pid = p
            \/ live[procs[p].t] = p
            \/ Unnoted(p)

\* A caller that holds a tenant is served a deployment no older than the one
\* its registry entry names, unless the tenant has been let go of under it or
\* is being let go of for it.
DeploymentSeen ==
    \A c \in Callers :
        LET p == call[c].pid
        IN (call[c].pc = "held" /\ live[call[c].t] = p /\ procs[p].serves # None) =>
               procs[p].serves >= call[c].dep

\* What a tenant waits for before it comes up again does come to pass.
DyingLeaves == \A t \in Tenants : dying[t] # None ~> dying[t] = None

\* Once the requests stop, the node is back under its ceiling for good.
BackUnderCeiling == <>[](Cardinality(Attached) <= Ceiling)
=============================================================================
