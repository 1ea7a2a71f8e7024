---------------------------- MODULE AttachProofs ----------------------------
(* Theorems about the tenants a node has up, for any tenants, requests,      *)
(* ceiling, deployments and faults.  They hold when no eviction falls into   *)
(* the gap before a hold and no slot is made in the middle of a detach.      *)
EXTENDS Attach, SequenceTheorems, TLAPS

-----------------------------------------------------------------------------
(* The inductive invariant                                                  *)

Alive == {"starting", "running", "stopping"}
Opening == {"wait", "boot", "giveup", "insert"}
Building == Opening \cup {"set"}
Spawned == {"boot", "giveup", "insert", "set"}   \* a builder with a process
Served == {"enforce", "catchup", "held"}

CallRecs == [pc : {"got", "cell"} \cup Building \cup Served, t : Tenants,
             slot : Nat, pid : Nat \cup {None}, dep : Nat]
SlotRecs == [used : Nat, up : Nat \cup {None}, building : BOOLEAN, deployed : Nat]
ProcRecs == [t : Tenants, st : Alive \cup {"exited", "reaped", "gone"},
             stopped : {"no", "slow", "evicted", "detached", "died"},
             serves : Nat \cup {None}, told : BOOLEAN]
EvRecs == [by : Callers \cup {"sweeper", "ceiling"}, todo : SUBSET Tenants,
           hand : Nat \cup {None}]

Types ==
  /\ slots \in [Tenants -> Nat \cup {None}]
  /\ heap \in Seq(SlotRecs)
  /\ call \in [Callers -> {Idle} \cup CallRecs]
  /\ procs \in Seq(ProcRecs)
  /\ live \in [Tenants -> Nat \cup {None}]
  /\ dying \in [Tenants -> Nat \cup {None}]
  /\ \A g \in goers : /\ g = [t |-> g.t, pc |-> g.pc, hand |-> g.hand, n |-> g.n]
                      /\ g.t \in Tenants
                      /\ g.pc \in {"detach", "down", "note"}
                      /\ g.hand \in Nat \cup {None}
  /\ ev \in {None} \cup EvRecs
  /\ clock \in Nat /\ \A s \in Slots : heap[s].used <= clock
  /\ head \in Nat
  /\ left \in [{"call", "fault", "deploy", "head"} -> Nat]

In(c) == call[c].pc # "idle"

\* The slot s is, or was when a caller took it, the slot of tenant t.
Refers(t, s) == slots[t] = s \/ \E c \in Callers : In(c) /\ call[c].t = t /\ call[c].slot = s

\* What is named exists and belongs to the tenant it is named for.
Names ==
  /\ \A t \in Tenants : slots[t] # None => slots[t] \in Slots
  /\ \A c \in Callers : In(c) => call[c].slot \in Slots
  /\ \A s \in Slots : heap[s].up # None => heap[s].up \in Procs
  /\ \A t \in Tenants : live[t] # None => live[t] \in Procs /\ procs[live[t]].t = t
  /\ \A t \in Tenants : dying[t] # None => dying[t] \in Procs /\ procs[dying[t]].t = t
  /\ \A c \in Callers : call[c].pc \in Spawned \cup Served =>
                          call[c].pid \in Procs /\ procs[call[c].pid].t = call[c].t
  /\ \A g \in goers : g.pc = "note" => g.hand \in Procs /\ procs[g.hand].t = g.t
  /\ \A g \in goers : g.pc # "note" => g.hand = None
  /\ ev # None /\ ev.hand # None => ev.hand \in Procs

Owners ==
  /\ \A t, u \in Tenants, s \in Slots : Refers(t, s) /\ Refers(u, s) => t = u
  /\ \A t \in Tenants, s \in Slots :
       Refers(t, s) /\ heap[s].up # None => procs[heap[s].up].t = t

\* A cell has one builder at a time, and none once it is set.
Cells ==
  /\ \A c \in Callers : call[c].pc \in Building =>
       heap[call[c].slot].building /\ heap[call[c].slot].up = None
  /\ \A c, d \in Callers :
       (call[c].pc \in Building /\ call[d].pc \in Building /\ call[c].slot = call[d].slot) => c = d

\* Nothing will be started from the slot any more.
Closed(s) == \/ heap[s].up # None
             \/ \E c \in Callers : call[c].pc = "set" /\ call[c].slot = s

\* A slot that can still start a process is the one in the map, and its tenant
\* has no process in the live map and no detach under way.
Openings ==
  /\ \A t \in Tenants : /\ live[t] # None \/ \E g \in goers : g.t = t
                        /\ slots[t] # None
                        => Closed(slots[t])
  /\ \A c \in Callers : In(c) /\ slots[call[c].t] # call[c].slot => Closed(call[c].slot)

\* A tenant being evicted or detached is out of the maps.
Leaving ==
  /\ \A g \in goers : g.pc \in {"down", "note"} => slots[g.t] = None
  /\ \A g \in goers : g.pc = "note" => live[g.t] = None
  /\ \A g, h \in goers : (g.pc = "note" /\ h.pc = "note" /\ g.t = h.t) => g = h
  /\ \A t \in Tenants : (slots[t] = None /\ live[t] # None) =>
       \E g \in goers : g.t = t /\ g.pc = "down"
  /\ ev # None => \A t \in ev.todo : /\ slots[t] # None
                                     /\ ~\E c \in Callers : In(c) /\ call[c].slot = slots[t]
  /\ ev # None /\ ev.hand # None =>
       LET t == procs[ev.hand].t
       IN /\ slots[t] = None /\ live[t] = None
          /\ ~\E g \in goers : g.pc = "note" /\ g.t = t

\* Somebody has the process in hand, or the live map has it.
Engaged(p) == \/ \E c \in Callers : call[c].pc \in {"boot", "giveup", "insert"} /\ call[c].pid = p
              \/ live[procs[p].t] = p
              \/ Unnoted(p)

\* A process in somebody's hands has its tenant's pages for itself.
Alone ==
  /\ Accounted
  /\ \A p \in Procs : procs[p].st = "stopping" => dying[procs[p].t] = p
  /\ \A p, q \in Procs : (Engaged(p) /\ procs[q].st \in Alive /\ procs[p].t = procs[q].t) => p = q
  /\ \A p \in Procs : procs[p].told => procs[p].st = "gone"
  /\ \A c \in Callers, q \in Procs :
       (call[c].pc = "wait" /\ procs[q].t = call[c].t /\ procs[q].st \in Alive) => q = call[c].pid

\* Neither told to leave for want of room nor about to be.
Wanted(p) == procs[p].stopped # "evicted" /\ ~(ev # None /\ ev.hand = p)

\* A process is in one cell, and an eviction takes only one nobody can reach.
Holds ==
  /\ \A c \in Callers : call[c].pc \in Served => heap[call[c].slot].up = call[c].pid
  /\ \A r, s \in Slots : heap[r].up # None /\ heap[r].up = heap[s].up => r = s
  /\ \A c \in Callers, s \in Slots : call[c].pc \in Spawned => heap[s].up # call[c].pid
  /\ \A c, d \in Callers :
       (call[c].pc \in Spawned /\ call[d].pc \in Spawned /\ call[c].pid = call[d].pid) => c = d
  /\ \A t \in Tenants : live[t] # None /\ slots[t] # None =>
       \/ heap[slots[t]].up = live[t]
       \/ \E c \in Callers : call[c].pc = "set" /\ call[c].slot = slots[t] /\ call[c].pid = live[t]
  /\ \A c \in Callers : call[c].pc \in Spawned => Wanted(call[c].pid)
  /\ \A t \in Tenants, s \in Slots :
       Refers(t, s) /\ heap[s].up # None => Wanted(heap[s].up)

\* What a cell's mark says is served, while the process is the live one.
Marks ==
  /\ \A c \in Callers : In(c) => call[c].dep <= head
  /\ \A s \in Slots : heap[s].deployed <= head
  /\ \A p \in Procs : procs[p].serves # None => procs[p].serves <= head
  /\ \A s \in Slots :
       LET p == heap[s].up
       IN (p # None /\ live[procs[p].t] = p /\ procs[p].serves # None) =>
            heap[s].deployed <= procs[p].serves
  /\ \A c \in Callers :
       (call[c].pc \in {"insert", "set"} /\ procs[call[c].pid].serves # None) =>
         heap[call[c].slot].deployed <= procs[call[c].pid].serves
  /\ DeploymentSeen

IInv == Types /\ Names /\ Owners /\ Cells /\ Openings /\ Leaving /\ Alone /\ Holds /\ Marks

-----------------------------------------------------------------------------
(* What the pieces of an action do to the state                             *)

Pcs == {"got", "cell"} \cup Building \cup Served

\* A request that moves on.
Moves(c, pc) == /\ call' \in [Callers -> {Idle} \cup CallRecs]
                /\ \A d \in Callers : d # c => call'[d] = call[d]
                /\ call'[c].pc = pc /\ call'[c].t = call[c].t /\ call'[c].slot = call[c].slot
                /\ call'[c].dep = call[c].dep

LEMMA Entered == ASSUME Types, NEW c \in Callers, In(c)
                 PROVE  call[c] \in CallRecs
BY DEF Types, In, Idle

LEMMA ProcIs == ASSUME Types, NEW p \in Procs
                PROVE  procs[p] \in ProcRecs /\ procs[p].t \in Tenants /\ p \in Nat /\ p # None
<1>1. procs[p] \in ProcRecs
  BY DEF Types, Procs
<1>2. p \in Nat /\ p # None
  BY AttachAssumption DEF Procs
<1> QED BY <1>1, <1>2 DEF ProcRecs

LEMMA SlotIs == ASSUME Types, NEW s \in Slots
                PROVE  heap[s] \in SlotRecs /\ s \in Nat /\ s # None
<1>1. heap[s] \in SlotRecs
  BY DEF Types, Slots
<1> QED BY <1>1, AttachAssumption DEF Slots

LEMMA EvIs == ASSUME Types, ev # None
              PROVE  ev \in EvRecs
BY DEF Types

LEMMA GotoIs ==
  ASSUME Types, NEW c \in Callers, In(c), NEW pc \in Pcs, Goto(c, pc)
  PROVE  Moves(c, pc) /\ call'[c].pid = call[c].pid
<1>1. call[c] \in CallRecs
  BY Entered
<1>2. [call[c] EXCEPT !.pc = pc] \in CallRecs
  BY <1>1 DEF CallRecs, Pcs
<1> QED BY <1>1, <1>2 DEF Goto, Types, Moves, CallRecs

LEMMA HangupIs ==
  ASSUME Types, NEW c \in Callers, Hangup(c)
  PROVE  /\ call' \in [Callers -> {Idle} \cup CallRecs]
         /\ \A d \in Callers : d # c => call'[d] = call[d]
         /\ call'[c].pc = "idle"
BY DEF Types, Hangup, Idle

\* A slot of the heap that is written, with its number of uses, its process,
\* its builder and its mark.
Writes(s, e) == /\ heap' \in Seq(SlotRecs) /\ Len(heap') = Len(heap)
                /\ \A r \in Slots : r # s => heap'[r] = heap[r]
                /\ heap'[s] = e

LEMMA WriteIs ==
  ASSUME Types, NEW s \in Slots, NEW e \in SlotRecs, heap' = [heap EXCEPT ![s] = e]
  PROVE  Writes(s, e)
BY DEF Types, Slots, Writes

-----------------------------------------------------------------------------
(* The parts of the invariant that a step leaves alone                      *)

\* A request comes in to the slot the map has for its tenant.
Joins(d) == /\ call'[d].pc = "got" /\ call'[d].t \in Tenants /\ call'[d].slot \in Slots
            /\ slots[call'[d].t] = call'[d].slot /\ slots' = slots
            /\ ev = None /\ ev' = None
            /\ call'[d].dep <= head

\* The requests inside stay with their tenant and slot.
CallStays == \A d \in Callers : In(d)' => \/ /\ In(d) /\ call'[d].t = call[d].t
                                             /\ call'[d].slot = call[d].slot
                                             /\ call'[d].dep = call[d].dep
                                          \/ Joins(d)
MapStays == \A t \in Tenants : slots'[t] = slots[t] \/ slots'[t] = None
HeapStays == Len(heap') = Len(heap) /\ \A r \in Slots : heap'[r].up = heap[r].up
ProcsStay == Len(procs') = Len(procs) /\ \A p \in Procs : procs'[p].t = procs[p].t
LiveStays == \A t \in Tenants : live'[t] = live[t] \/ live'[t] = None
ScopeStays == CallStays /\ MapStays /\ HeapStays /\ ProcsStay /\ LiveStays

LEMMA RefersStays ==
  ASSUME CallStays, MapStays, NEW t \in Tenants, NEW s \in Nat, Refers(t, s)'
  PROVE  Refers(t, s)
BY AttachAssumption DEF CallStays, Joins, MapStays, Refers

LEMMA OwnersStay == ASSUME IInv, CallStays, MapStays, HeapStays, ProcsStay PROVE Owners'
<1>1. Slots' = Slots /\ Slots \subseteq Nat
  BY DEF HeapStays, Slots
<1>2. \A t \in Tenants, s \in Slots : Refers(t, s)' => Refers(t, s)
  BY <1>1, RefersStays
<1>3. \A s \in Slots : heap'[s].up # None => heap[s].up \in Procs /\ heap'[s].up = heap[s].up
                                            /\ procs'[heap[s].up].t = procs[heap[s].up].t
  BY DEF IInv, Names, HeapStays, ProcsStay
<1> QED BY <1>1, <1>2, <1>3 DEF IInv, Owners

LEMMA OwnersKept == ASSUME IInv, ScopeStays PROVE Owners'
BY OwnersStay DEF ScopeStays

\* The builders stay where they are, or stop being builders.
BuildersStay == \A d \in Callers : call'[d].pc \in Building =>
                  /\ call[d].pc \in Building /\ call'[d].slot = call[d].slot
                  /\ heap'[call[d].slot].building /\ heap'[call[d].slot].up = None

LEMMA CellsKept == ASSUME IInv, BuildersStay PROVE Cells'
BY DEF IInv, Cells, BuildersStay

\* No slot opens, and no tenant starts to leave.
OpeningsStays ==
  /\ \A s \in Slots : Closed(s) => Closed(s)'
  /\ \A t \in Tenants : slots'[t] # None /\ (\E g \in goers' : g.t = t) =>
       live[t] # None \/ \E g \in goers : g.t = t
  /\ \A t \in Tenants : slots'[t] = slots[t]
                        \/ \A c \in Callers : In(c)' /\ call[c].slot = slots[t] => Closed(call[c].slot)

LEMMA OpeningsKept == ASSUME IInv, ScopeStays, OpeningsStays PROVE Openings'
<1> USE DEF ScopeStays
<1>1. ASSUME NEW t \in Tenants, slots'[t] # None, live'[t] # None \/ \E g \in goers' : g.t = t
      PROVE  Closed(slots[t])'
  <2>1. PICK s \in Slots : slots'[t] = s /\ slots[t] = s
    BY <1>1 DEF MapStays, IInv, Names
  <2>2. live[t] # None \/ \E g \in goers : g.t = t
    BY <1>1 DEF LiveStays, OpeningsStays
  <2>3. Closed(s)
    BY <1>1, <2>1, <2>2 DEF IInv, Openings
  <2>4. Closed(s)'
    BY <2>3 DEF OpeningsStays
  <2> QED BY <2>1, <2>4 DEF Closed
<1>2. ASSUME NEW c \in Callers, In(c)', slots'[call'[c].t] # call'[c].slot
      PROVE  Closed(call[c].slot)'
  <2>1. In(c) /\ call'[c].t = call[c].t /\ call'[c].slot = call[c].slot
    BY <1>2 DEF CallStays, Joins
  <2>2. call[c].slot \in Slots /\ call[c].t \in Tenants
    BY <2>1, Entered DEF IInv, Names, CallRecs
  <2>3. PICK s \in Slots : call[c].slot = s
    BY <2>2
  <2>4. Closed(s)
    <3>1. CASE slots[call[c].t] # call[c].slot
      BY <2>1, <2>3, <3>1 DEF IInv, Openings
    <3>2. CASE slots[call[c].t] = call[c].slot
      BY <1>2, <2>1, <2>2, <2>3, <3>2 DEF OpeningsStays
    <3> QED BY <3>1, <3>2
  <2>5. Closed(s)'
    BY <2>4 DEF OpeningsStays
  <2> QED BY <2>1, <2>3, <2>5 DEF Closed
<1> QED BY <1>1, <1>2 DEF Openings

\* Nobody becomes a builder with a process, and no process a reader can reach
\* is marked for eviction.
HoldsStays ==
  /\ \A d \in Callers : call'[d].pc \in Spawned => call[d].pc \in Spawned /\ call'[d].pid = call[d].pid
  /\ \A d \in Callers : call'[d].pc \in Served => heap[call[d].slot].up = call'[d].pid
  /\ \A d \in Callers : call[d].pc = "set" =>
       call'[d].pc = "set" /\ call'[d].slot = call[d].slot /\ call'[d].pid = call[d].pid
  /\ \A p \in Procs : Wanted(p) => Wanted(p)'

LEMMA HoldsKept == ASSUME IInv, ScopeStays, HoldsStays PROVE Holds'
<1> USE DEF ScopeStays
<1>1. Slots' = Slots /\ Slots \subseteq Nat /\ \A s \in Slots : heap'[s].up = heap[s].up
  BY DEF HeapStays, Slots
<1>2. \A c \in Callers : call'[c].pc \in Served => heap'[call'[c].slot].up = call'[c].pid
  <2> SUFFICES ASSUME NEW c \in Callers, call'[c].pc \in Served
               PROVE  heap'[call'[c].slot].up = call'[c].pid
    OBVIOUS
  <2>1. In(c) /\ call'[c].slot = call[c].slot /\ call[c].slot \in Slots
    BY DEF CallStays, Joins, In, Served, IInv, Names
  <2> QED BY <2>1, <1>1 DEF HoldsStays
<1>3. \A t \in Tenants : live'[t] # None /\ slots'[t] # None =>
       \/ heap'[slots'[t]].up = live'[t]
       \/ \E c \in Callers : call'[c].pc = "set" /\ call'[c].slot = slots'[t] /\ call'[c].pid = live'[t]
  <2> SUFFICES ASSUME NEW t \in Tenants, live'[t] # None, slots'[t] # None
               PROVE  \/ heap'[slots'[t]].up = live'[t]
                      \/ \E c \in Callers : call'[c].pc = "set" /\ call'[c].slot = slots'[t] /\ call'[c].pid = live'[t]
    OBVIOUS
  <2>1. live'[t] = live[t] /\ slots'[t] = slots[t] /\ slots[t] \in Slots
    BY DEF LiveStays, MapStays, IInv, Names
  <2> QED BY <2>1, <1>1 DEF IInv, Holds, HoldsStays
<1>4. ASSUME NEW c \in Callers, call'[c].pc \in Spawned
      PROVE  Wanted(call[c].pid)'
  <2>1. PICK p \in Procs : call[c].pid = p
    BY <1>4 DEF IInv, Names, HoldsStays
  <2>2. Wanted(p)'
    BY <1>4, <2>1 DEF IInv, Holds, HoldsStays
  <2> QED BY <1>4, <2>1, <2>2 DEF Wanted, HoldsStays
<1>5. ASSUME NEW t \in Tenants, NEW s \in Slots, Refers(t, s)', heap'[s].up # None
      PROVE  Wanted(heap[s].up)'
  <2>1. PICK p \in Procs : heap'[s].up = p /\ heap[s].up = p
    BY <1>1, <1>5 DEF IInv, Names
  <2>2. Refers(t, s)
    BY <1>1, <1>5, RefersStays
  <2>3. Wanted(p)'
    BY <1>5, <2>1, <2>2 DEF IInv, Holds, HoldsStays
  <2> QED BY <2>1, <2>3 DEF Wanted
<1> QED BY <1>1, <1>2, <1>3, <1>4, <1>5 DEF Holds, IInv, HoldsStays

\* No detach thread goes further, but the ones that are done.
GoersStay == /\ \A g \in goers : g.pc = "down" => g \in goers'
             /\ \A g \in goers' : g \in goers \/ (g.pc = "detach" /\ g.hand = None)

\* The eviction under way takes nothing more out of the maps.
EvictionStays == ev' # None => /\ ev # None /\ ev'.todo = ev.todo
                               /\ ev'.hand # None => ev'.hand = ev.hand

LEMMA LeavingKept == ASSUME IInv, ScopeStays, slots' = slots, EvictionStays, GoersStay
                     PROVE  Leaving'
<1> USE DEF ScopeStays
<1>1. /\ \A g \in goers' : g.pc \in {"down", "note"} => g \in goers
      /\ \A g \in goers : g.t \in Tenants
  BY DEF GoersStay, IInv, Types
<1>2. ev # None /\ ev.hand # None => procs'[ev.hand].t = procs[ev.hand].t /\ procs[ev.hand].t \in Tenants
  BY ProcIs DEF ProcsStay, IInv, Names
<1>3. ev' # None => \A t \in ev.todo : ~\E c \in Callers : In(c)' /\ call'[c].slot = slots[t]
  BY DEF IInv, Leaving, CallStays, Joins, EvictionStays
<1> QED BY <1>1, <1>2, <1>3 DEF IInv, Leaving, LiveStays, GoersStay, EvictionStays

\* No process gets into anybody's hands or comes to life, and none that runs is
\* dropped.
AloneStays ==
  /\ \A p \in Procs : procs'[p].st \in {"starting", "running"} =>
       procs[p].st \in {"starting", "running"} /\ Engaged(p)'
  /\ \A p \in Procs : procs'[p].st = "stopping" => dying'[procs[p].t] = p
  /\ \A p \in Procs : Engaged(p)' => Engaged(p)
  /\ \A p \in Procs : procs'[p].st \in Alive => procs[p].st \in Alive
  /\ \A p \in Procs : procs'[p].told => procs'[p].st = "gone"
  /\ \A c \in Callers : call'[c].pc = "wait" =>
       \/ call[c].pc = "wait" /\ call'[c].pid = call[c].pid
       \/ \A q \in Procs : procs[q].t = call'[c].t /\ procs[q].st \in Alive => q = call'[c].pid

LEMMA AloneKept == ASSUME IInv, CallStays, ProcsStay, AloneStays PROVE Alone'
<1>1. Procs' = Procs /\ \A p \in Procs : procs'[p].t = procs[p].t
  BY DEF ProcsStay, Procs
<1>2. Accounted'
  BY <1>1 DEF AloneStays, Accounted, Engaged
<1>3. \A p, q \in Procs : (Engaged(p)' /\ procs'[q].st \in Alive /\ procs'[p].t = procs'[q].t) => p = q
  BY <1>1 DEF AloneStays, IInv, Alone
<1>4. \A c \in Callers, q \in Procs :
        (call'[c].pc = "wait" /\ procs'[q].t = call'[c].t /\ procs'[q].st \in Alive) => q = call'[c].pid
  BY <1>1 DEF AloneStays, IInv, Alone, CallStays, Joins, In
<1> QED BY <1>1, <1>2, <1>3, <1>4 DEF Alone, AloneStays

\* The processes keep the deployment they serve, and the slots their mark.
MarksStays ==
  /\ head' = head
  /\ \A s \in Slots : \/ heap'[s].deployed = heap[s].deployed
                      \/ /\ heap[s].up = None /\ heap'[s].deployed <= head
                         /\ \A c \in Callers : call[c].pc \in {"insert", "set"} => call[c].slot # s
  /\ \A p \in Procs : procs'[p].serves = procs[p].serves
  /\ \A c \in Callers : call'[c].pc = "held" =>
       /\ call'[c].pid = call[c].pid
       /\ \/ call[c].pc = "held"
          \/ call[c].pc = "catchup" /\ heap[call[c].slot].deployed = call[c].dep
  /\ \A c \in Callers : call'[c].pc \in {"insert", "set"} =>
       call[c].pc \in {"insert", "set"} /\ call'[c].pid = call[c].pid

LEMMA MarksKept == ASSUME IInv, ScopeStays, MarksStays PROVE Marks'
<1> USE DEF ScopeStays
<1>1. Slots' = Slots /\ Procs' = Procs
  BY DEF HeapStays, ProcsStay, Slots, Procs
<1>2. \A c \in Callers : In(c)' => call'[c].dep <= head'
  BY DEF CallStays, Joins, IInv, Marks, MarksStays
<1>3. ASSUME NEW s \in Slots, NEW p \in Procs, heap'[s].up = p, live'[procs'[p].t] = p,
             procs'[p].serves # None
      PROVE  heap'[s].deployed <= procs'[p].serves
  <2>1. heap[s].up = p /\ procs[p].t \in Tenants /\ procs'[p].t = procs[p].t
    BY <1>3, ProcIs DEF HeapStays, ProcsStay, IInv
  <2>2. live[procs[p].t] = p /\ p # None
    BY <1>3, <2>1, AttachAssumption DEF LiveStays, Procs
  <2> QED BY <1>3, <2>1, <2>2 DEF IInv, Marks, MarksStays
<1>4. ASSUME NEW c \in Callers, call'[c].pc \in {"insert", "set"}, procs'[call'[c].pid].serves # None
      PROVE  heap'[call'[c].slot].deployed <= procs'[call'[c].pid].serves
  <2>1. /\ call[c].pc \in {"insert", "set"} /\ call'[c].pid = call[c].pid
        /\ call'[c].slot = call[c].slot
    BY <1>4 DEF MarksStays, CallStays, Joins, In
  <2>2. call[c].pid \in Procs /\ call[c].slot \in Slots
    BY <2>1 DEF IInv, Names, Spawned, In
  <2> QED BY <1>4, <2>1, <2>2 DEF IInv, Marks, MarksStays
<1>5. ASSUME NEW c \in Callers, call'[c].pc = "held", live'[call'[c].t] = call'[c].pid,
             procs'[call'[c].pid].serves # None
      PROVE  procs'[call'[c].pid].serves >= call'[c].dep
  <2>1. /\ call[c].pc \in Served /\ call'[c].pid = call[c].pid /\ In(c)
        /\ call'[c].t = call[c].t /\ call'[c].dep = call[c].dep
    BY <1>5 DEF MarksStays, CallStays, Joins, In, Served
  <2>2. /\ call[c].pid \in Procs /\ call[c].t \in Tenants /\ call[c].slot \in Slots
        /\ procs[call[c].pid].t = call[c].t /\ call[c].pid # None
    BY <2>1, Entered, ProcIs DEF IInv, Names, CallRecs
  <2>3. live[call[c].t] = call[c].pid
    BY <1>5, <2>1, <2>2 DEF LiveStays
  <2>4. procs'[call'[c].pid].serves = procs[call[c].pid].serves
    BY <2>1, <2>2 DEF MarksStays
  <2>5. CASE call[c].pc = "held"
    BY <1>5, <2>1, <2>3, <2>4, <2>5 DEF IInv, Marks, DeploymentSeen
  <2>6. CASE call[c].pc # "held"
    <3>1. heap[call[c].slot].deployed = call[c].dep
      BY <1>5, <2>6 DEF MarksStays
    <3>2. heap[call[c].slot].up = call[c].pid
      BY <2>1 DEF IInv, Holds
    <3>3. heap[call[c].slot].deployed <= procs[call[c].pid].serves
      BY <1>5, <2>2, <2>3, <2>4, <3>2 DEF IInv, Marks
    <3>4. procs[call[c].pid].serves \in Nat /\ call[c].dep \in Nat
      BY <1>5, <2>1, <2>2, <2>4, ProcIs, Entered DEF ProcRecs, CallRecs, IInv
    <3> QED BY <2>1, <2>4, <3>1, <3>3, <3>4
  <2> QED BY <2>5, <2>6
<1>6. \A s \in Slots : heap'[s].up # None => heap'[s].up \in Procs
  BY DEF HeapStays, IInv, Names
<1> QED BY <1>1, <1>2, <1>3, <1>4, <1>5, <1>6 DEF Marks, DeploymentSeen, IInv, MarksStays

\* Nothing new is named, but what the step shows to exist.
NamesStays ==
  /\ \A t \in Tenants : dying'[t] # None => dying'[t] \in Procs /\ procs[dying'[t]].t = t
  /\ \A c \in Callers : call'[c].pc \in Spawned \cup Served =>
       call'[c].pid \in Procs /\ procs[call'[c].pid].t = call[c].t
  /\ \A g \in goers' : IF g.pc = "note" THEN g.hand \in Procs /\ procs[g.hand].t = g.t
                                        ELSE g.hand = None
  /\ ev' # None /\ ev'.hand # None => ev'.hand \in Procs

LEMMA NamesKept == ASSUME IInv, ScopeStays, NamesStays PROVE Names'
<1> USE DEF ScopeStays
<1>1. Slots' = Slots /\ Procs' = Procs /\ \A p \in Procs : procs'[p].t = procs[p].t
  BY DEF HeapStays, ProcsStay, Slots, Procs
<1>2. /\ \A t \in Tenants : slots'[t] # None => slots'[t] \in Slots
      /\ \A c \in Callers : In(c)' => call'[c].slot \in Slots
      /\ \A s \in Slots : heap'[s].up # None => heap'[s].up \in Procs
      /\ \A t \in Tenants : live'[t] # None => live'[t] \in Procs /\ procs[live'[t]].t = t
  BY DEF MapStays, CallStays, Joins, HeapStays, LiveStays, IInv, Names
<1>3. \A c \in Callers : call'[c].pc \in Spawned \cup Served => call'[c].t = call[c].t
  BY DEF CallStays, Joins, In, Spawned, Served
<1> QED BY <1>1, <1>2, <1>3 DEF NamesStays, Names

-----------------------------------------------------------------------------
(* A request's own steps                                                    *)

Engaging == {"boot", "giveup", "insert"}

\* The request neither starts a build nor brings a process up, and drops one
\* only when it does not run.
RequestMove(d) ==
  /\ call'[d].pc \in Spawned => call[d].pc \in Spawned /\ call'[d].pid = call[d].pid
  /\ call'[d].pc \in Engaging => call[d].pc \in Engaging
  /\ call'[d].pc \in {"insert", "set"} => call[d].pc \in {"insert", "set"}
  /\ call'[d].pc = "wait" => call[d].pc = "wait" /\ call'[d].pid = call[d].pid
  /\ call'[d].pc \in Served => heap[call[d].slot].up = call'[d].pid /\ call'[d].pid # None
  /\ call[d].pc = "set" => call'[d] = call[d]
  /\ (call[d].pc \in Engaging /\ procs[call[d].pid].st \in {"starting", "running"}) =>
       call'[d].pc \in Engaging /\ call'[d].pid = call[d].pid
  /\ call'[d].pc = "held" =>
       /\ call'[d].pid = call[d].pid
       /\ \/ call[d].pc = "held"
          \/ call[d].pc = "catchup" /\ heap[call[d].slot].deployed = call[d].dep

RequestMoves == \A d \in Callers : RequestMove(d)

LEMMA StillMoves ==
  ASSUME IInv, NEW d \in Callers, call'[d] = call[d]
  PROVE  RequestMove(d)
<1>1. call[d].pc \in Served => heap[call[d].slot].up = call[d].pid /\ call[d].pid # None
  BY ProcIs DEF IInv, Names, Holds
<1>2. call'[d].pc = call[d].pc /\ call'[d].pid = call[d].pid
  OBVIOUS
<1> QED BY <1>1, <1>2 DEF RequestMove

LEMMA OneMoves ==
  ASSUME IInv, NEW c \in Callers, \A d \in Callers : d # c => call'[d] = call[d], RequestMove(c)
  PROVE  RequestMoves
BY StillMoves DEF RequestMoves

\* The map's lock is taken for an eviction of slots nobody is in, or left alone.
EvictionBegins ==
  \/ ev' = ev
  \/ /\ ev = None
     /\ ev' # None =>
          /\ ev'.hand = None
          /\ \A t \in ev'.todo : /\ t \in Tenants /\ slots[t] # None
                                 /\ ~\E c \in Callers : In(c) /\ call[c].slot = slots[t]

LEMMA RequestStep ==
  ASSUME IInv, Types', CallStays, HeapStays, BuildersStay, RequestMoves,
         UNCHANGED <<slots, procs, live, dying, goers, head>>, EvictionBegins,
         \A s \in Slots : heap'[s].deployed = heap[s].deployed
  PROVE  IInv'
<1>1. ScopeStays
  BY DEF ScopeStays, MapStays, ProcsStay, LiveStays
<1>2. \A d \in Callers : call'[d].pc \in Spawned \cup Served =>
        call'[d].pid \in Procs /\ procs[call'[d].pid].t = call[d].t
  <2> SUFFICES ASSUME NEW d \in Callers, call'[d].pc \in Spawned \cup Served
               PROVE  call'[d].pid \in Procs /\ procs[call'[d].pid].t = call[d].t
    OBVIOUS
  <2>1. CASE call'[d].pc \in Spawned
    BY <2>1 DEF RequestMoves, RequestMove, IInv, Names
  <2>2. CASE call'[d].pc \in Served
    <3>1. In(d) /\ call[d].slot \in Slots /\ call[d].t \in Tenants
      BY <2>2, Entered DEF CallStays, Joins, IInv, Names, In, Served, CallRecs
    <3>2. Refers(call[d].t, call[d].slot)
      BY <3>1 DEF Refers
    <3>3. call'[d].pid = heap[call[d].slot].up /\ heap[call[d].slot].up # None
      BY <2>2 DEF RequestMoves, RequestMove
    <3> QED BY <3>1, <3>2, <3>3 DEF IInv, Names, Owners
  <2> QED BY <2>1, <2>2
<1>3. Names'
  BY <1>1, <1>2, NamesKept DEF NamesStays, IInv, Names, EvictionBegins
<1>4. Owners' /\ Cells'
  BY <1>1, OwnersKept, CellsKept
<1>5. Openings'
  <2>1. \A s \in Slots : Closed(s) => Closed(s)'
    BY DEF Closed, HeapStays, RequestMoves, RequestMove
  <2> QED BY <1>1, <2>1, OpeningsKept DEF OpeningsStays
<1>6. Leaving'
  <2>1. CASE ev' = ev
    BY <1>1, <2>1, LeavingKept DEF GoersStay, EvictionStays
  <2>2. CASE ev' # ev
    <3>1. ev' # None => \A t \in ev'.todo : /\ slots[t] # None
                                            /\ ~\E c \in Callers : In(c)' /\ call'[c].slot = slots[t]
      BY <2>2 DEF EvictionBegins, CallStays, Joins
    <3> QED BY <2>2, <3>1 DEF EvictionBegins, IInv, Leaving
  <2> QED BY <2>1, <2>2
<1>7. Alone'
  <2>1. \A p \in Procs : ev' # None /\ ev'.hand = p <=> ev # None /\ ev.hand = p
    BY ProcIs DEF EvictionBegins, IInv
  <2>2. \A p \in Procs : Engaged(p)' => Engaged(p)
    BY <2>1 DEF Engaged, Unnoted, RequestMoves, RequestMove, Engaging, Spawned
  <2>3. \A p \in Procs : procs[p].st \in {"starting", "running"} => Engaged(p)'
    BY <2>1 DEF Engaged, Unnoted, RequestMoves, RequestMove, Engaging, IInv, Alone, Accounted
  <2> QED BY <1>1, <2>2, <2>3, AloneKept DEF AloneStays, ScopeStays, RequestMoves, RequestMove, IInv, Alone
<1>8. Holds'
  <2>1. \A p \in Procs : Wanted(p) => Wanted(p)'
    BY ProcIs DEF Wanted, EvictionBegins, IInv
  <2> QED BY <1>1, <2>1, HoldsKept DEF HoldsStays, RequestMoves, RequestMove
<1>9. Marks'
  BY <1>1, MarksKept DEF MarksStays, RequestMoves, RequestMove, Spawned
<1> QED BY <1>3, <1>4, <1>5, <1>6, <1>7, <1>8, <1>9 DEF IInv

\* The request is at a place of the code where it has a tenant and a slot.
LEMMA Within ==
  ASSUME IInv, NEW c \in Callers, In(c)
  PROVE  /\ call[c] \in CallRecs /\ call[c].t \in Tenants /\ call[c].slot \in Slots
         /\ heap[call[c].slot] \in SlotRecs /\ Refers(call[c].t, call[c].slot)
BY Entered, SlotIs DEF IInv, Names, CallRecs, Refers

LEMMA TakeStep == ASSUME IInv, NEW c \in Callers, Take(c) PROVE IInv'
<1> DEFINE s == call[c].slot
           e == [heap[s] EXCEPT !.used = clock + 1]
<1>1. Types /\ In(c) /\ call[c].pc = "got" /\ s \in Slots /\ clock \in Nat
  BY DEF IInv, Take, Names, In, Types
<1>2. Moves(c, "cell") /\ call'[c].pid = call[c].pid
  BY <1>1, GotoIs DEF Take, Pcs
<1>3. Writes(s, e) /\ e.up = heap[s].up /\ e.building = heap[s].building
      /\ e.deployed = heap[s].deployed /\ e.used = clock + 1
  <2>1. heap[s] \in SlotRecs
    BY <1>1, SlotIs
  <2>2. e \in SlotRecs
    BY <1>1, <2>1 DEF SlotRecs
  <2>3. heap' = [heap EXCEPT ![s] = e]
    BY DEF Take
  <2> QED BY <1>1, <2>1, <2>2, <2>3, WriteIs DEF SlotRecs
<1>4. UNCHANGED <<tick, slots, procs, live, dying, goers, ev, head, left>> /\ clock' = clock + 1
  BY DEF Take, backend
<1> HIDE DEF e
<1>5. Types'
  <2>1. \A r \in Slots : heap[r].used \in Nat /\ heap[r].used <= clock
    BY <1>1, SlotIs DEF Types, SlotRecs
  <2>2. \A r \in Slots : heap'[r].used <= clock'
    BY <1>1, <1>3, <1>4, <2>1 DEF Writes
  <2> QED BY <1>1, <1>2, <1>3, <1>4, <2>2 DEF Types, Moves, Writes, Slots
<1>6. CallStays /\ HeapStays /\ \A r \in Slots : heap'[r].deployed = heap[r].deployed
  BY <1>1, <1>2, <1>3 DEF CallStays, HeapStays, Moves, Writes, In
<1>7. BuildersStay
  BY <1>1, <1>2, <1>3 DEF BuildersStay, Moves, Writes, IInv, Cells, Names, Building, Opening, In
<1>8. RequestMoves
  BY <1>1, <1>2, OneMoves DEF RequestMove, Moves, Spawned, Served, Engaging
<1> QED BY <1>4, <1>5, <1>6, <1>7, <1>8, RequestStep DEF EvictionBegins

LEMMA WarmStep == ASSUME IInv, NEW c \in Callers, Warm(c) PROVE IInv'
<1> DEFINE s == call[c].slot
<1>1. Types /\ In(c) /\ call[c].pc = "cell" /\ s \in Slots /\ heap[s].up # None
  BY DEF IInv, Warm, Names, In
<1>2. Moves(c, "enforce") /\ call'[c].pid = heap[s].up
  <2>1. call[c] \in CallRecs /\ heap[s] \in SlotRecs
    BY <1>1, Within
  <2>2. [call[c] EXCEPT !.pc = "enforce", !.pid = heap[s].up] \in CallRecs
    BY <2>1 DEF CallRecs, SlotRecs, Served
  <2> QED BY <2>1, <2>2, <1>1 DEF Warm, Moves, CallRecs, Types
<1>3. UNCHANGED <<slots, heap, procs, live, dying, goers, ev, clock, head, left>>
  BY DEF Warm, backend
<1>4. Types'
  BY <1>1, <1>2, <1>3 DEF Types, Moves, Slots
<1>5. CallStays /\ HeapStays
  BY <1>1, <1>2, <1>3 DEF CallStays, HeapStays, Moves, In
<1>6. BuildersStay
  BY <1>1, <1>2, <1>3 DEF BuildersStay, Moves, IInv, Cells, Building, Opening
<1>7. RequestMoves
  BY <1>1, <1>2, OneMoves DEF RequestMove, Moves, Spawned, Served, Engaging
<1> QED BY <1>3, <1>4, <1>5, <1>6, <1>7, RequestStep DEF EvictionBegins

\* A build that fails: the request is gone and its cell can be built again.
LEMMA BuildFailsIs ==
  ASSUME IInv, NEW c \in Callers, call[c].pc \in Building, BuildFails(c)
  PROVE  /\ call' \in [Callers -> {Idle} \cup CallRecs] /\ call'[c].pc = "idle"
         /\ \A d \in Callers : d # c => call'[d] = call[d]
         /\ CallStays /\ HeapStays /\ BuildersStay
         /\ heap' \in Seq(SlotRecs)
         /\ \A r \in Slots : heap'[r].deployed = heap[r].deployed /\ heap'[r].used = heap[r].used
<1> DEFINE s == call[c].slot
           e == [heap[s] EXCEPT !.building = FALSE]
<1>1. Types /\ In(c) /\ s \in Slots /\ heap[s] \in SlotRecs
  BY Within DEF IInv, In, Building, Opening
<1>2. /\ call' \in [Callers -> {Idle} \cup CallRecs] /\ call'[c].pc = "idle"
      /\ \A d \in Callers : d # c => call'[d] = call[d]
  BY <1>1, HangupIs DEF BuildFails
<1>3. Writes(s, e) /\ e.up = heap[s].up /\ e.deployed = heap[s].deployed /\ e.used = heap[s].used
  <2>1. e \in SlotRecs
    BY <1>1 DEF SlotRecs
  <2>2. heap' = [heap EXCEPT ![s] = e]
    BY DEF BuildFails
  <2> QED BY <1>1, <2>1, <2>2, WriteIs DEF SlotRecs
<1> HIDE DEF e
<1>4. CallStays /\ HeapStays
  BY <1>2, <1>3 DEF CallStays, HeapStays, Writes, In
<1>5. \A r \in Slots : heap'[r].deployed = heap[r].deployed /\ heap'[r].used = heap[r].used
  BY <1>3 DEF Writes
<1>6. BuildersStay
  <2> SUFFICES ASSUME NEW d \in Callers, call'[d].pc \in Building
               PROVE  /\ call[d].pc \in Building /\ call'[d].slot = call[d].slot
                      /\ heap'[call[d].slot].building /\ heap'[call[d].slot].up = None
    BY DEF BuildersStay
  <2>1. d # c /\ call'[d] = call[d]
    BY <1>2 DEF Building, Opening
  <2>2. call[d].slot # s /\ call[d].slot \in Slots
    BY <2>1 DEF IInv, Cells, Names, In, Building, Opening
  <2> QED BY <2>1, <2>2, <1>3 DEF Writes, IInv, Cells
<1> QED BY <1>2, <1>3, <1>4, <1>5, <1>6 DEF Writes

LEMMA WaitFailsStep == ASSUME IInv, NEW c \in Callers, WaitFails(c) PROVE IInv'
<1>1. call[c].pc = "wait" /\ BuildFails(c) /\ call[c].pc \in Building
  BY DEF WaitFails, Building, Opening
<1>2. UNCHANGED <<slots, procs, live, dying, goers, ev, clock, head, left>>
  BY DEF WaitFails, backend
<1>3. Types'
  BY <1>1, <1>2, BuildFailsIs DEF Types, IInv, HeapStays, Slots
<1>4. RequestMoves
  BY <1>1, BuildFailsIs, OneMoves DEF RequestMove, Spawned, Served, Engaging
<1> QED BY <1>1, <1>2, <1>3, <1>4, BuildFailsIs, RequestStep DEF EvictionBegins

LEMMA BootFailsStep == ASSUME IInv, NEW c \in Callers, BootFails(c) PROVE IInv'
<1>1. /\ call[c].pc = "boot" /\ BuildFails(c) /\ call[c].pc \in Building
      /\ procs[call[c].pid].st \notin {"starting", "running"}
  BY DEF BootFails, Building, Opening
<1>2. UNCHANGED <<slots, procs, live, dying, goers, ev, clock, head, left>>
  BY DEF BootFails, backend
<1>3. Types'
  BY <1>1, <1>2, BuildFailsIs DEF Types, IInv, HeapStays, Slots
<1>4. RequestMoves
  BY <1>1, BuildFailsIs, OneMoves DEF RequestMove, Spawned, Served, Engaging
<1> QED BY <1>1, <1>2, <1>3, <1>4, BuildFailsIs, RequestStep DEF EvictionBegins

LEMMA SlowStep == ASSUME IInv, NEW c \in Callers, Slow(c) PROVE IInv'
<1>1. Types /\ In(c) /\ call[c].pc = "boot"
  BY DEF IInv, Slow, In
<1>2. Moves(c, "giveup") /\ call'[c].pid = call[c].pid
  BY <1>1, GotoIs DEF Slow, Pcs, Building, Opening
<1>3. UNCHANGED <<slots, heap, procs, live, dying, goers, ev, clock, head>>
  BY DEF Slow, backend
<1>4. Types'
  BY <1>1, <1>2, <1>3 DEF Types, Moves, Slots, Slow, Spend
<1>5. CallStays /\ HeapStays
  BY <1>1, <1>2, <1>3 DEF CallStays, HeapStays, Moves, In
<1>6. BuildersStay
  BY <1>1, <1>2, <1>3 DEF BuildersStay, Moves, IInv, Cells, Building, Opening
<1>7. RequestMoves
  BY <1>1, <1>2, OneMoves DEF RequestMove, Moves, Spawned, Served, Engaging
<1> QED BY <1>3, <1>4, <1>5, <1>6, <1>7, RequestStep DEF EvictionBegins

LEMMA CurrentStep == ASSUME IInv, NEW c \in Callers, Current(c) PROVE IInv'
<1>1. /\ Types /\ In(c) /\ call[c].pc = "catchup" /\ call[c].slot \in Slots
      /\ heap[call[c].slot].deployed = call[c].dep
  BY DEF IInv, Current, In, Names
<1>2. Moves(c, "held") /\ call'[c].pid = call[c].pid
  BY <1>1, GotoIs DEF Current, Pcs, Served
<1>3. UNCHANGED <<slots, heap, procs, live, dying, goers, ev, clock, head, left>>
  BY DEF Current, backend
<1>4. Types'
  BY <1>1, <1>2, <1>3 DEF Types, Moves, Slots
<1>5. CallStays /\ HeapStays
  BY <1>1, <1>2, <1>3 DEF CallStays, HeapStays, Moves, In
<1>6. BuildersStay
  BY <1>1, <1>2, <1>3 DEF BuildersStay, Moves, IInv, Cells, Building, Opening
<1>7. call[c].pid # None /\ heap[call[c].slot].up = call[c].pid
  BY <1>1, ProcIs DEF IInv, Names, Holds, Served
<1>8. RequestMoves
  BY <1>1, <1>2, <1>7, OneMoves DEF RequestMove, Moves, Spawned, Served, Engaging
<1> QED BY <1>3, <1>4, <1>5, <1>6, <1>8, RequestStep DEF EvictionBegins

LEMMA ReleaseStep == ASSUME IInv, NEW c \in Callers, Release(c) PROVE IInv'
<1>1. Types /\ call[c].pc = "held"
  BY DEF IInv, Release
<1>2. /\ call' \in [Callers -> {Idle} \cup CallRecs] /\ call'[c].pc = "idle"
      /\ \A d \in Callers : d # c => call'[d] = call[d]
  BY <1>1, HangupIs DEF Release
<1>3. UNCHANGED <<slots, heap, procs, live, dying, goers, ev, clock, head, left>>
  BY DEF Release, backend
<1>4. Types'
  BY <1>1, <1>2, <1>3 DEF Types, Slots
<1>5. CallStays /\ HeapStays
  BY <1>1, <1>2, <1>3 DEF CallStays, HeapStays, In
<1>6. BuildersStay
  BY <1>1, <1>2, <1>3 DEF BuildersStay, IInv, Cells, Building, Opening
<1>7. RequestMoves
  BY <1>1, <1>2, OneMoves DEF RequestMove, Spawned, Served, Engaging
<1> QED BY <1>3, <1>4, <1>5, <1>6, <1>7, RequestStep DEF EvictionBegins

\* The list of an eviction: slots of the map that nobody is in or about to be in.
Evictable(todo) == todo \subseteq {t \in Attached : Free(slots[t])}

LEMMA Begins ==
  ASSUME IInv, PromptHold, ev = None, NEW by \in Callers \cup {"sweeper", "ceiling"}, NEW todo,
         Evictable(todo), ev' = Rest(by, todo, None)
  PROVE  EvictionBegins /\ ev' \in {None} \cup EvRecs
<1>1. todo \subseteq Tenants
  BY DEF Evictable, Attached
<1>2. ev' \in {None} \cup EvRecs
  BY <1>1 DEF Rest, EvRecs
<1>3. ASSUME ev' # None
      PROVE  ev'.hand = None /\ ev'.todo = todo
  BY <1>3 DEF Rest
<1>4. \A t \in todo : slots[t] # None /\ ~\E c \in Callers : In(c) /\ call[c].slot = slots[t]
  BY DEF Evictable, Attached, Free, Inside, In
<1> QED BY <1>1, <1>2, <1>3, <1>4 DEF EvictionBegins

LEMMA OverdueIs == Evictable(Overdue)
BY DEF Evictable, Overdue, Attached

LEMMA EnforceStep == ASSUME IInv, PromptHold, NEW c \in Callers, Enforce(c) PROVE IInv'
<1>1. Types /\ In(c) /\ call[c].pc = "enforce"
  BY DEF IInv, Enforce, In
<1>2. Moves(c, "catchup") /\ call'[c].pid = call[c].pid
  BY <1>1, GotoIs DEF Enforce, Pcs, Served
<1>3. UNCHANGED <<slots, heap, procs, live, dying, goers, clock, head, left>>
  BY DEF Enforce, backend
<1>4. EvictionBegins /\ ev' \in {None} \cup EvRecs
  BY Begins, OverdueIs DEF Enforce
<1>5. Types'
  BY <1>1, <1>2, <1>3, <1>4 DEF Types, Moves, Slots
<1>6. CallStays /\ HeapStays
  BY <1>1, <1>2, <1>3 DEF CallStays, HeapStays, Moves, In
<1>7. BuildersStay
  BY <1>1, <1>2, <1>3 DEF BuildersStay, Moves, IInv, Cells, Building, Opening
<1>8. call[c].pid # None /\ heap[call[c].slot].up = call[c].pid
  BY <1>1, ProcIs DEF IInv, Names, Holds, Served
<1>9. RequestMoves
  BY <1>1, <1>2, <1>8, OneMoves DEF RequestMove, Moves, Spawned, Served, Engaging
<1> QED BY <1>3, <1>4, <1>5, <1>6, <1>7, <1>9, RequestStep

\* The two steps of the sweep timer.
LEMMA SweepStep == ASSUME IInv, PromptHold, Sweep \/ SweepEnforce PROVE IInv'
<1>1. UNCHANGED <<slots, heap, call, procs, live, dying, goers, clock, head, left>>
  BY DEF Sweep, SweepEnforce, backend
<1>2. EvictionBegins /\ ev' \in {None} \cup EvRecs
  <2>1. CASE Sweep
    <3>1. PICK cutoff \in 0..(clock + 1) :
            ev' = Rest(Sweeper, {t \in Attached : heap[slots[t]].used < cutoff /\ Free(slots[t])}, None)
      BY <2>1 DEF Sweep
    <3>2. Evictable({t \in Attached : heap[slots[t]].used < cutoff /\ Free(slots[t])})
      BY DEF Evictable
    <3> QED BY <2>1, <3>1, <3>2, Begins DEF Sweep, Sweeper
  <2>2. CASE SweepEnforce
    BY <2>2, Begins, OverdueIs DEF SweepEnforce
  <2> QED BY <2>1, <2>2
<1>3. Types'
  BY <1>1, <1>2 DEF Types, IInv, Slots
<1>4. CallStays /\ HeapStays
  BY <1>1 DEF CallStays, HeapStays, In
<1>5. BuildersStay
  BY <1>1 DEF BuildersStay, IInv, Cells
<1>6. RequestMoves
  BY <1>1, StillMoves DEF RequestMoves
<1> QED BY <1>1, <1>2, <1>3, <1>4, <1>5, <1>6, RequestStep

LEMMA AskStep ==
  ASSUME IInv, QuietDetach, NEW c \in Callers, NEW t \in Tenants, Ask(c, t)
  PROVE  IInv'
<1>1. PICK n \in Nat : n = Len(heap) + 1
  BY DEF IInv, Types
<1>2. /\ Types /\ call[c].pc = "idle" /\ ev = None /\ head \in Nat
      /\ n \notin Slots /\ n # None /\ Slots \subseteq Nat
  <2>1. Len(heap) \in Nat
    BY DEF IInv, Types
  <2> QED BY <1>1, <2>1, AttachAssumption DEF IInv, Ask, Types, Slots
<1>3. PICK s \in Nat : s = IF slots[t] = None THEN n ELSE slots[t]
  BY <1>2 DEF Types
<1>4. /\ slots' = [slots EXCEPT ![t] = s]
      /\ UNCHANGED <<procs, live, dying, goers, ev, clock, head>>
      /\ left' \in [{"call", "fault", "deploy", "head"} -> Nat]
  BY <1>1, <1>2, <1>3 DEF Ask, Spend, Types
<1>5. PICK d \in 0..head :
      /\ call' \in [Callers -> {Idle} \cup CallRecs]
      /\ \A e \in Callers : e # c => call'[e] = call[e]
      /\ call'[c].pc = "got" /\ call'[c].t = t /\ call'[c].slot = s /\ call'[c].dep = d
      /\ d \in Nat /\ d <= head
  <2>1. PICK d \in 0..head : call' = [call EXCEPT ![c] = [pc |-> "got", t |-> t, slot |-> s,
                                                          pid |-> None, dep |-> d]]
    BY <1>1, <1>3 DEF Ask
  <2>2. d \in Nat /\ d <= head
    BY <1>2
  <2>3. [pc |-> "got", t |-> t, slot |-> s, pid |-> None, dep |-> d] \in CallRecs
    BY <2>2 DEF CallRecs
  <2>4. /\ call' \in [Callers -> {Idle} \cup CallRecs]
        /\ \A e \in Callers : e # c => call'[e] = call[e]
        /\ call'[c].pc = "got" /\ call'[c].t = t /\ call'[c].slot = s /\ call'[c].dep = d
    BY <1>2, <2>1, <2>3 DEF Types
  <2> QED BY <2>2, <2>4
<1>6. CASE slots[t] # None
  <2>1. s = slots[t] /\ s \in Slots /\ slots' = slots /\ heap' = heap
    BY <1>2, <1>3, <1>4, <1>6 DEF Ask, IInv, Names, Types
  <2>2. Types'
    BY <1>2, <1>4, <1>5, <2>1 DEF Types, Slots
  <2>3. CallStays /\ HeapStays
    BY <1>2, <1>4, <1>5, <2>1 DEF CallStays, Joins, HeapStays, In
  <2>4. BuildersStay
    BY <1>5, <2>1 DEF BuildersStay, IInv, Cells, Building, Opening
  <2>5. RequestMoves
    BY <1>2, <1>5, OneMoves DEF RequestMove, Spawned, Served, Engaging
  <2> QED BY <1>4, <2>1, <2>2, <2>3, <2>4, <2>5, RequestStep DEF EvictionBegins
<1>7. CASE slots[t] = None
  <2> DEFINE e == [used |-> 0, up |-> None, building |-> FALSE, deployed |-> 0]
  <2>1. s = n /\ heap' = Append(heap, e) /\ \A g \in goers : g.t # t
    BY <1>3, <1>7 DEF Ask, MayMakeSlot
  <2>2. /\ heap' \in Seq(SlotRecs) /\ Slots' = Slots \cup {n}
        /\ \A r \in Slots : heap'[r] = heap[r]
        /\ heap'[n].up = None /\ heap'[n].deployed = 0 /\ heap'[n].used = 0
    <3>1. e \in SlotRecs
      BY DEF SlotRecs
    <3>2. heap \in Seq(SlotRecs) /\ Len(heap) \in Nat
      BY <1>2 DEF Types
    <3> HIDE DEF e
    <3>3. /\ heap' \in Seq(SlotRecs) /\ Len(heap') = n /\ heap'[n] = e
          /\ \A r \in 1..Len(heap) : heap'[r] = heap[r]
      BY <1>1, <2>1, <3>1, <3>2, AppendProperties
    <3> QED BY <1>1, <3>2, <3>3 DEF Slots, e
  <2> HIDE DEF e
  <2>3. live[t] = None
    BY <1>7, <2>1 DEF IInv, Leaving
  <2>4. slots'[t] = n /\ \A u \in Tenants : u # t => slots'[u] = slots[u]
    BY <1>2, <1>4, <2>1 DEF Types
  <2>5. /\ \A u \in Tenants, r \in Slots : Refers(u, r)' => Refers(u, r)
        /\ \A u \in Tenants : Refers(u, n)' => u = t
    BY <1>2, <1>5, <2>1, <2>4 DEF Refers, IInv, Names, In
  <2>6. \A r \in Slots : Closed(r) => Closed(r)'
    BY <1>2, <1>5, <2>2 DEF Closed
  <2>7. \A u \in Tenants : slots[u] # None => slots[u] \in Slots
    BY DEF IInv, Names
  <2>8. \A a \in Callers : In(a) => a # c /\ call[a].slot \in Slots /\ call[a].t \in Tenants
    BY <1>2, Within DEF In
  <2>9. Types'
    <3>1. \A r \in Slots' : heap'[r].used <= clock
      BY <1>2, <2>2 DEF Types
    <3>2. slots' \in [Tenants -> Nat \cup {None}]
      BY <1>2, <1>4, <2>1 DEF Types
    <3> QED BY <1>2, <1>4, <1>5, <2>2, <3>1, <3>2 DEF Types
  <2>10. Names'
    <3>1. \A a \in Callers : call'[a].pc \in Spawned \cup Served => call'[a] = call[a]
      BY <1>5 DEF Spawned, Served
    <3>2. \A a \in Callers : In(a)' => call'[a].slot \in Slots'
      BY <1>5, <2>1, <2>2, <2>8 DEF In
    <3>3. \A u \in Tenants : slots'[u] # None => slots'[u] \in Slots'
      BY <2>2, <2>4, <2>7
    <3>4. \A r \in Slots' : heap'[r].up # None => heap'[r].up \in Procs
      BY <2>2 DEF IInv, Names
    <3> QED BY <1>4, <3>1, <3>2, <3>3, <3>4 DEF IInv, Names, Procs
  <2>11. Owners'
    BY <1>4, <2>2, <2>5 DEF IInv, Owners
  <2>12. Cells'
    BY <1>5, <2>2, <2>8 DEF IInv, Cells, Building, Opening, In
  <2>13. Openings'
    <3>1. ASSUME NEW u \in Tenants, slots'[u] # None, live'[u] # None \/ \E g \in goers' : g.t = u
          PROVE  Closed(slots[u])'
      <4>1. u # t /\ slots'[u] = slots[u] /\ Closed(slots[u]) /\ slots[u] \in Slots
        BY <1>4, <2>1, <2>3, <2>4, <2>7, <3>1 DEF IInv, Openings
      <4>2. PICK r \in Slots : slots[u] = r
        BY <4>1
      <4> QED BY <2>6, <4>1, <4>2 DEF Closed
    <3>2. ASSUME NEW a \in Callers, In(a)', slots'[call'[a].t] # call'[a].slot
          PROVE  Closed(call[a].slot)'
      <4>1. a # c /\ call'[a] = call[a] /\ In(a)
        BY <1>5, <2>1, <2>4, <3>2 DEF In
      <4>2. slots[call[a].t] # call[a].slot
        BY <1>2, <1>7, <2>4, <2>8, <3>2, <4>1, AttachAssumption
      <4>3. PICK r \in Slots : call[a].slot = r
        BY <2>8, <4>1
      <4>4. Closed(r)
        BY <4>1, <4>2, <4>3 DEF IInv, Openings
      <4> QED BY <2>6, <4>1, <4>3, <4>4 DEF Closed
    <3> QED BY <3>1, <3>2 DEF Openings
  <2>14. Leaving'
    BY <1>2, <1>4, <2>1, <2>3, <2>4 DEF IInv, Leaving, Types
  <2>15. Alone'
    <3>1. \A p \in Procs : Engaged(p)' <=> Engaged(p)
      BY <1>2, <1>4, <1>5 DEF Engaged, Unnoted
    <3> QED BY <1>2, <1>4, <1>5, <3>1 DEF IInv, Alone, Accounted, Engaged, Procs
  <2>16. Holds'
    <3>1. \A p : Wanted(p)' <=> Wanted(p)
      BY <1>4 DEF Wanted
    <3>2. \A r \in Slots : heap'[r].up = heap[r].up
      BY <2>2
    <3>3. ASSUME NEW a \in Callers, call'[a].pc \in Spawned
          PROVE  Wanted(call[a].pid)' /\ call'[a] = call[a] /\ call[a].pid # None
      <4>1. a # c /\ call'[a] = call[a]
        BY <1>5, <3>3 DEF Spawned
      <4> QED BY <1>4, <3>3, <4>1, ProcIs DEF Wanted, IInv, Holds, Names
    <3>4. ASSUME NEW u \in Tenants, NEW r \in Slots', Refers(u, r)', heap'[r].up # None
          PROVE  Wanted(heap[r].up)'
      <4>1. r \in Slots /\ heap'[r].up = heap[r].up /\ Refers(u, r)
        BY <2>2, <2>5, <3>4
      <4> QED BY <1>4, <3>4, <4>1 DEF Wanted, IInv, Holds
    <3>5. \A a \in Callers : call'[a].pc \in Served => heap'[call'[a].slot].up = call'[a].pid
      BY <1>5, <2>8, <3>2 DEF IInv, Holds, Served, In
    <3>6. \A u \in Tenants : live'[u] # None /\ slots'[u] # None =>
            \/ heap'[slots'[u]].up = live'[u]
            \/ \E a \in Callers : call'[a].pc = "set" /\ call'[a].slot = slots'[u] /\ call'[a].pid = live'[u]
      <4> SUFFICES ASSUME NEW u \in Tenants, live'[u] # None, slots'[u] # None
                   PROVE  \/ heap'[slots'[u]].up = live'[u]
                          \/ \E a \in Callers : /\ call'[a].pc = "set" /\ call'[a].slot = slots'[u]
                                                /\ call'[a].pid = live'[u]
        OBVIOUS
      <4>1. u # t /\ slots'[u] = slots[u] /\ live'[u] = live[u]
        BY <1>4, <2>3, <2>4
      <4>2. slots[u] \in Slots
        BY <2>7, <4>1
      <4>3. \A a \in Callers : call[a].pc = "set" => call'[a] = call[a]
        BY <1>2, <1>5
      <4> QED BY <3>2, <4>1, <4>2, <4>3 DEF IInv, Holds
    <3>7. \A q, r \in Slots' : heap'[q].up # None /\ heap'[q].up = heap'[r].up => q = r
      BY <2>2 DEF IInv, Holds
    <3>8. \A a \in Callers, r \in Slots' : call'[a].pc \in Spawned => heap'[r].up # call'[a].pid
      BY <2>2, <3>3 DEF IInv, Holds
    <3> QED BY <3>3, <3>4, <3>5, <3>6, <3>7, <3>8 DEF IInv, Holds
  <2>17. Marks'
    <3>1. \A a \in Callers : call'[a].pc \in {"insert", "set", "held"} =>
            call'[a] = call[a] /\ call[a].slot \in Slots
      BY <1>5, <2>8 DEF In
    <3>2. \A a \in Callers : In(a)' => call'[a].dep <= head'
      BY <1>4, <1>5, <2>8 DEF IInv, Marks, In
    <3>3. \A r \in Slots' : heap'[r].deployed <= head'
      BY <1>2, <1>4, <2>2 DEF IInv, Marks
    <3>4. \A r \in Slots' : (heap'[r].up # None /\ live'[procs'[heap'[r].up].t] = heap'[r].up
                             /\ procs'[heap'[r].up].serves # None) =>
            heap'[r].deployed <= procs'[heap'[r].up].serves
      BY <1>4, <2>2 DEF IInv, Marks
    <3>5. \A a \in Callers :
            (call'[a].pc \in {"insert", "set"} /\ procs'[call'[a].pid].serves # None) =>
              heap'[call'[a].slot].deployed <= procs'[call'[a].pid].serves
      BY <1>4, <2>2, <3>1 DEF IInv, Marks
    <3>6. DeploymentSeen'
      BY <1>4, <3>1 DEF IInv, Marks, DeploymentSeen
    <3> QED BY <1>4, <3>2, <3>3, <3>4, <3>5, <3>6 DEF IInv, Marks, Procs
  <2> QED BY <2>9, <2>10, <2>11, <2>12, <2>13, <2>14, <2>15, <2>16, <2>17 DEF IInv
<1> QED BY <1>6, <1>7

-----------------------------------------------------------------------------
(* A build                                                                  *)

\* A slot that can still start a process has its tenant to itself.
LEMMA OpenSlot ==
  ASSUME IInv, NEW c \in Callers, In(c), ~Closed(call[c].slot)
  PROVE  /\ slots[call[c].t] = call[c].slot /\ live[call[c].t] = None
         /\ \A g \in goers : g.t # call[c].t
         /\ ev # None /\ ev.hand # None => procs[ev.hand].t # call[c].t
         /\ \A d \in Callers : call[d].pc \in Opening /\ call[d].t = call[c].t =>
              call[d].slot = call[c].slot
<1>1. slots[call[c].t] = call[c].slot /\ call[c].t \in Tenants /\ slots[call[c].t] # None
  BY Within, SlotIs DEF IInv, Openings
<1>2. live[call[c].t] = None /\ \A g \in goers : g.t # call[c].t
  BY <1>1 DEF IInv, Openings
<1>3. ev # None /\ ev.hand # None => procs[ev.hand].t # call[c].t
  BY <1>1 DEF IInv, Leaving
<1>4. \A d \in Callers : call[d].pc \in Opening => ~Closed(call[d].slot) /\ In(d)
  BY DEF IInv, Cells, Closed, Building, Opening, In
<1>5. \A d \in Callers : call[d].pc \in Opening => slots[call[d].t] = call[d].slot
  BY <1>4 DEF IInv, Openings
<1> QED BY <1>1, <1>2, <1>3, <1>5

LEMMA OpeningIs ==
  ASSUME IInv, NEW c \in Callers, call[c].pc \in Opening
  PROVE  /\ In(c) /\ ~Closed(call[c].slot)
         /\ \A d \in Callers : call[d].pc \in Opening /\ call[d].t = call[c].t => d = c
<1>1. In(c) /\ ~Closed(call[c].slot)
  BY DEF IInv, Cells, Closed, Building, Opening, In
<1> QED BY <1>1, OpenSlot DEF IInv, Cells, Building

LEMMA BuildStep == ASSUME IInv, NEW c \in Callers, Build(c) PROVE IInv'
<1>1. PICK s \in Slots : call[c].slot = s
  BY Within DEF Build, In
<1>2. PICK t \in Tenants : call[c].t = t
  BY Within DEF Build, In
<1>3. /\ Types /\ In(c) /\ call[c].pc = "cell" /\ heap[s].up = None /\ ~heap[s].building
      /\ call[c] \in CallRecs /\ heap[s] \in SlotRecs /\ dying[t] \in Nat \cup {None}
  BY <1>1, <1>2, Within DEF IInv, Build, In, Types
<1>4. Moves(c, "wait") /\ call'[c].pid = dying[t]
  <2>1. [call[c] EXCEPT !.pc = "wait", !.pid = dying[t]] \in CallRecs
    BY <1>3 DEF CallRecs, Building, Opening
  <2> QED BY <1>2, <1>3, <2>1 DEF Build, Moves, CallRecs, Types
<1> DEFINE e == [heap[s] EXCEPT !.building = TRUE, !.deployed = call[c].dep]
<1>5. Writes(s, e) /\ e.up = None /\ e.building /\ e.deployed = call[c].dep /\ e.used = heap[s].used
  <2>1. e \in SlotRecs
    BY <1>3 DEF SlotRecs, CallRecs
  <2>2. heap' = [heap EXCEPT ![s] = e]
    BY <1>1 DEF Build
  <2> QED BY <1>3, <2>1, <2>2, WriteIs DEF SlotRecs
<1> HIDE DEF e
<1>6. UNCHANGED <<slots, procs, live, dying, goers, ev, clock, head, left>>
  BY DEF Build, backend
<1>7. ScopeStays
  BY <1>3, <1>4, <1>5, <1>6
     DEF ScopeStays, CallStays, Moves, In, MapStays, HeapStays, Writes, ProcsStay, LiveStays
<1>8. \A d \in Callers : call[d].pc \in Building => call[d].slot # s /\ d # c
  BY <1>3 DEF IInv, Cells, Building, Opening
<1>9. ~Closed(s)
  BY <1>3, <1>8 DEF Closed, Building
<1>10. Types'
  <2>1. \A r \in Slots : heap'[r].used <= clock
    BY <1>3, <1>5 DEF Types, Writes
  <2> QED BY <1>3, <1>4, <1>5, <1>6, <2>1 DEF Types, Moves, Writes, Slots
<1>11. Names'
  <2>1. \A d \in Callers : call'[d].pc \in Spawned \cup Served => call'[d] = call[d]
    BY <1>4 DEF Moves, Spawned, Served
  <2> QED BY <1>6, <1>7, <2>1, NamesKept DEF NamesStays, IInv, Names
<1>12. Owners'
  BY <1>7, OwnersKept
<1>13. Cells'
  <2>1. \A d \in Callers : d # c /\ call'[d].pc \in Building => 
          call'[d] = call[d] /\ call[d].slot # s /\ call[d].slot \in Slots
    BY <1>4, <1>8 DEF Moves, IInv, Names, In, Building, Opening
  <2> QED BY <1>1, <1>4, <1>5, <2>1 DEF Cells, IInv, Moves, Writes
<1>14. Openings'
  <2>1. \A r \in Slots : Closed(r) => Closed(r)'
    BY <1>3, <1>4, <1>5, <1>9 DEF Closed, Moves, Writes
  <2> QED BY <1>6, <1>7, <2>1, OpeningsKept DEF OpeningsStays
<1>15. Leaving'
  BY <1>6, <1>7, LeavingKept DEF GoersStay, EvictionStays
<1>16. Alone'
  <2>1. \A p \in Procs : Engaged(p)' <=> Engaged(p)
    BY <1>3, <1>4, <1>6 DEF Engaged, Unnoted, Moves
  <2>2. ASSUME NEW q \in Procs, procs[q].t = t, procs[q].st \in Alive
        PROVE  q = dying[t]
    <3>1. ~Engaged(q)
      <4>1. live[t] = None /\ q # None /\ \A g \in goers : g.t # t
        BY <1>1, <1>2, <1>3, <1>9, OpenSlot, ProcIs
      <4>2. ~(ev # None /\ ev.hand = q)
        BY <1>1, <1>2, <1>3, <1>9, <2>2, <4>1, OpenSlot
      <4>3. \A g \in goers : g.hand # q
        BY <2>2, <4>1 DEF IInv, Names
      <4>4. \A d \in Callers : call[d].pc \in Opening => call[d].t # t
        BY <1>1, <1>2, <1>3, <1>8, <1>9, OpenSlot DEF Building
      <4>5. \A d \in Callers : call[d].pc \in {"boot", "giveup", "insert"} => call[d].pid # q
        BY <2>2, <4>4 DEF IInv, Names, Opening, Spawned
      <4> QED BY <2>2, <4>1, <4>2, <4>3, <4>5 DEF Engaged, Unnoted
    <3> QED BY <2>2, <3>1 DEF IInv, Alone, Accounted, Engaged, Alive
  <2>3. \A d \in Callers : d # c => call'[d] = call[d]
    BY <1>4 DEF Moves
  <2> QED BY <1>2, <1>4, <1>6, <1>7, <2>1, <2>2, <2>3, AloneKept
          DEF AloneStays, ScopeStays, IInv, Alone, Accounted, Engaged, Moves
<1>17. Holds'
  BY <1>3, <1>4, <1>6, <1>7, HoldsKept DEF HoldsStays, Wanted, Moves, Spawned, Served, IInv, Holds
<1>18. Marks'
  <2>1. call[c].dep <= head
    BY <1>3 DEF IInv, Marks
  <2>2. \A r \in Slots : \/ heap'[r].deployed = heap[r].deployed
                         \/ /\ heap[r].up = None /\ heap'[r].deployed <= head
                            /\ \A d \in Callers : call[d].pc \in {"insert", "set"} => call[d].slot # r
    BY <1>3, <1>5, <1>8, <2>1 DEF Writes, Building, Opening
  <2>3. \A d \in Callers : call'[d].pc \in {"held", "insert", "set"} => call'[d] = call[d]
    BY <1>4 DEF Moves
  <2> QED BY <1>6, <1>7, <2>2, <2>3, MarksKept DEF MarksStays
<1> QED BY <1>10, <1>11, <1>12, <1>13, <1>14, <1>15, <1>16, <1>17, <1>18 DEF IInv

LEMMA StartStep == ASSUME IInv, NEW c \in Callers, Start(c) PROVE IInv'
<1>1. PICK n \in Nat : n = Len(procs) + 1
  BY DEF IInv, Types
<1>2. PICK t \in Tenants : call[c].t = t
  BY Within DEF Start, In
<1>3. /\ Types /\ In(c) /\ call[c].pc = "wait" /\ call[c] \in CallRecs /\ Len(procs) \in Nat
      /\ n \notin Procs /\ n # None /\ call[c].slot \in Slots
      /\ call[c].pid # None => procs[call[c].pid].told
  BY <1>1, Within, AttachAssumption DEF IInv, Start, In, Types, Procs
<1> DEFINE e == [t |-> t, st |-> "starting", stopped |-> "no", serves |-> None, told |-> FALSE]
<1>4. /\ procs' \in Seq(ProcRecs) /\ Procs' = Procs \cup {n} /\ procs'[n] = e /\ Len(procs') = n
      /\ \A p \in Procs : procs'[p] = procs[p]
  <2>1. e \in ProcRecs
    BY DEF ProcRecs, Alive
  <2>2. procs' = Append(procs, e) /\ procs \in Seq(ProcRecs)
    BY <1>2, <1>3 DEF Start, Types
  <2> HIDE DEF e
  <2>3. /\ procs' \in Seq(ProcRecs) /\ Len(procs') = n /\ procs'[n] = e
        /\ \A p \in 1..Len(procs) : procs'[p] = procs[p]
    BY <1>1, <2>1, <2>2, AppendProperties
  <2> QED BY <1>1, <1>3, <2>3 DEF Procs
<1>5. Moves(c, "boot") /\ call'[c].pid = n
  <2>1. [call[c] EXCEPT !.pc = "boot", !.pid = n] \in CallRecs
    BY <1>3 DEF CallRecs, Building, Opening
  <2>2. call' = [call EXCEPT ![c].pc = "boot", ![c].pid = n]
    BY <1>4 DEF Start
  <2> QED BY <1>3, <2>1, <2>2 DEF Moves, CallRecs, Types
<1>6. UNCHANGED <<slots, heap, live, dying, goers, ev, clock, head, left>>
  BY DEF Start
<1>7. /\ procs'[n].t = t /\ procs'[n].st = "starting" /\ procs'[n].stopped = "no"
      /\ procs'[n].serves = None /\ ~procs'[n].told
  BY <1>4
<1> HIDE DEF e
<1>8. /\ \A d \in Callers : d # c => call'[d] = call[d]
      /\ \A d \in Callers : In(d)' <=> In(d)
      /\ \A d \in Callers : /\ call'[d].t = call[d].t /\ call'[d].slot = call[d].slot
                            /\ call'[d].dep = call[d].dep
  BY <1>3, <1>5 DEF Moves, In
<1>9. /\ \A p \in Procs : p # n /\ procs'[p].t = procs[p].t
      /\ Slots' = Slots
  BY <1>3, <1>4, <1>6 DEF Slots
<1>10. \A u \in Tenants, s \in Slots : Refers(u, s)' <=> Refers(u, s)
  BY <1>6, <1>8 DEF Refers
<1>11. Types'
  BY <1>3, <1>4, <1>5, <1>6 DEF Types, Moves, Slots
<1>12. Names'
  <2>1. \A d \in Callers : call'[d].pc \in Spawned \cup Served =>
          call'[d].pid \in Procs' /\ procs'[call'[d].pid].t = call'[d].t
    BY <1>2, <1>3, <1>4, <1>5, <1>7, <1>8, <1>9 DEF IInv, Names
  <2> QED BY <1>4, <1>6, <1>8, <1>9, <2>1 DEF IInv, Names
<1>13. Owners'
  BY <1>4, <1>6, <1>9, <1>10 DEF IInv, Owners, Names
<1>14. Cells'
  BY <1>3, <1>5, <1>6, <1>8 DEF IInv, Cells, Moves, Building, Opening
<1>15. Openings'
  <2>1. \A s : Closed(s)' <=> Closed(s)
    BY <1>3, <1>5, <1>6, <1>8 DEF Closed, Moves
  <2> QED BY <1>6, <1>8, <2>1 DEF IInv, Openings, Closed
<1>16. Leaving'
  BY <1>4, <1>6, <1>8 DEF IInv, Leaving, Names
<1>17. Alone'
  <2>1. ASSUME NEW q \in Procs, procs[q].t = t
        PROVE  procs[q].st \notin Alive /\ ~Engaged(q)
    <3>1. q # None
      BY ProcIs DEF IInv
    <3>2. procs[q].st \notin Alive
      BY <1>2, <1>3, <2>1, ProcIs DEF IInv, Alone, Alive
    <3>3. live[t] = None /\ (\A g \in goers : g.t # t) /\ ~(ev # None /\ ev.hand = q)
      <4>1. ~Closed(call[c].slot)
        BY <1>3, OpeningIs DEF Opening
      <4> QED BY <1>2, <1>3, <2>1, <4>1, ProcIs, OpenSlot
    <3>4. \A g \in goers : g.hand # q
      BY <2>1, <3>3, ProcIs DEF IInv, Names
    <3>5. \A d \in Callers : call[d].pc \in {"boot", "giveup", "insert"} => call[d].pid # q
      <4>1. \A d \in Callers : call[d].pc \in {"boot", "giveup", "insert"} => call[d].t # t
        BY <1>2, <1>3, OpeningIs DEF Opening
      <4> QED BY <2>1, <4>1 DEF IInv, Names, Spawned
    <3> QED BY <2>1, <3>1, <3>2, <3>3, <3>4, <3>5 DEF Engaged, Unnoted
  <2>2. \A p \in Procs : Engaged(p)' <=> Engaged(p)
    BY <1>3, <1>4, <1>5, <1>6, <1>8, <1>9 DEF Engaged, Unnoted, Moves
  <2>3. Engaged(n)'
    BY <1>5 DEF Engaged, Moves
  <2>4. Accounted'
    <3>1. \A p \in Procs' : procs'[p].st \in {"starting", "running"} => Engaged(p)'
      BY <1>4, <2>2, <2>3 DEF IInv, Alone, Accounted, Engaged
    <3> QED BY <3>1 DEF Accounted, Engaged
  <2>5. \A p, q \in Procs' : (Engaged(p)' /\ procs'[q].st \in Alive /\ procs'[p].t = procs'[q].t) => p = q
    BY <1>4, <1>7, <2>1, <2>2 DEF IInv, Alone
  <2>6. \A d \in Callers, q \in Procs' :
          (call'[d].pc = "wait" /\ procs'[q].t = call'[d].t /\ procs'[q].st \in Alive) => q = call'[d].pid
    <3>1. \A d \in Callers : call'[d].pc = "wait" => call'[d] = call[d] /\ call[d].t # t
      BY <1>2, <1>3, <1>5, <1>8, OpeningIs DEF Moves, Opening
    <3> QED BY <1>4, <1>7, <3>1 DEF IInv, Alone
  <2>7. \A p \in Procs' : procs'[p].st = "stopping" => dying'[procs'[p].t] = p
    BY <1>4, <1>6, <1>7 DEF IInv, Alone
  <2>8. \A p \in Procs' : procs'[p].told => procs'[p].st = "gone"
    BY <1>4, <1>7 DEF IInv, Alone
  <2> QED BY <2>4, <2>5, <2>6, <2>7, <2>8 DEF Alone
<1>18. Holds'
  <2>1. \A p \in Procs : Wanted(p)' <=> Wanted(p)
    BY <1>4, <1>6 DEF Wanted
  <2>2. ev # None => ev.hand # n
    BY <1>3 DEF IInv, Names
  <2>3. \A s \in Slots : heap[s].up # n /\ (heap[s].up # None => heap[s].up \in Procs)
    BY <1>3 DEF IInv, Names
  <2>4. \A d \in Callers : d # c /\ call'[d].pc \in Spawned =>
          call[d].pc \in Spawned /\ call'[d] = call[d] /\ call[d].pid \in Procs /\ call[d].pid # n
    BY <1>3, <1>8 DEF IInv, Names
  <2>5. ASSUME NEW d \in Callers, call'[d].pc \in Spawned
        PROVE  Wanted(call[d].pid)'
    <3>1. CASE d = c
      BY <1>5, <1>6, <1>7, <2>2, <3>1 DEF Wanted
    <3>2. CASE d # c
      BY <1>4, <1>6, <2>4, <2>5, <3>2 DEF Wanted, IInv, Holds
    <3> QED BY <3>1, <3>2
  <2>6. \A u \in Tenants, s \in Slots : Refers(u, s)' /\ heap'[s].up # None => Wanted(heap[s].up)'
    BY <1>4, <1>6, <1>10, <2>3 DEF Wanted, IInv, Holds
  <2>7. \A d \in Callers : call'[d].pc \in Served => heap'[call'[d].slot].up = call'[d].pid
    BY <1>5, <1>6, <1>8 DEF Moves, Served, IInv, Holds
  <2>8. \A u \in Tenants : live'[u] # None /\ slots'[u] # None =>
          \/ heap'[slots'[u]].up = live'[u]
          \/ \E d \in Callers : call'[d].pc = "set" /\ call'[d].slot = slots'[u] /\ call'[d].pid = live'[u]
    <3>1. \A d \in Callers : call[d].pc = "set" => call'[d] = call[d]
      BY <1>3, <1>8
    <3> QED BY <1>6, <3>1 DEF IInv, Holds
  <2>9. \A d \in Callers, s \in Slots : call'[d].pc \in Spawned => heap'[s].up # call'[d].pid
    BY <1>5, <1>6, <2>3, <2>4 DEF IInv, Holds
  <2>10. \A a, d \in Callers :
           (call'[a].pc \in Spawned /\ call'[d].pc \in Spawned /\ call'[a].pid = call'[d].pid) => a = d
    BY <1>5, <2>4 DEF IInv, Holds
  <2> QED BY <1>6, <1>9, <2>5, <2>6, <2>7, <2>8, <2>9, <2>10 DEF IInv, Holds
<1>19. Marks'
  <2>1. \A d \in Callers : call'[d].pc \in {"held", "insert", "set"} =>
          call'[d] = call[d] /\ call[d].pid \in Procs
    BY <1>5, <1>8 DEF Moves, IInv, Names, Spawned, Served
  <2>2. \A p \in Procs' : procs'[p].serves # None => procs'[p].serves <= head
    BY <1>4, <1>7 DEF IInv, Marks
  <2>3. \A s \in Slots : heap[s].up # None => heap[s].up \in Procs
    BY DEF IInv, Names
  <2>4. DeploymentSeen'
    BY <1>4, <1>6, <2>1 DEF IInv, Marks, DeploymentSeen
  <2> QED BY <1>4, <1>6, <1>8, <1>9, <2>1, <2>2, <2>3, <2>4 DEF IInv, Marks
<1> QED BY <1>11, <1>12, <1>13, <1>14, <1>15, <1>16, <1>17, <1>18, <1>19 DEF IInv

\* A process record that is written.
Changes(p, e) == /\ procs' \in Seq(ProcRecs) /\ Len(procs') = Len(procs)
                 /\ \A q \in Procs : q # p => procs'[q] = procs[q]
                 /\ procs'[p] = e

LEMMA ChangeIs ==
  ASSUME Types, NEW p \in Procs, NEW e \in ProcRecs, procs' = [procs EXCEPT ![p] = e]
  PROVE  Changes(p, e)
BY DEF Types, Procs, Changes

LEMMA ReadyStep == ASSUME IInv, NEW c \in Callers, Ready(c) PROVE IInv'
<1>1. PICK p \in Procs : call[c].pid = p
  BY DEF Ready, IInv, Names, Spawned
<1>2. /\ Types /\ In(c) /\ call[c].pc = "boot" /\ procs[p].st = "starting" /\ procs[p] \in ProcRecs
      /\ head \in Nat /\ call[c].slot \in Slots
  BY <1>1, Within, ProcIs DEF IInv, Ready, In, Types
<1>3. Moves(c, "insert") /\ call'[c].pid = p
  BY <1>1, <1>2, GotoIs DEF Ready, Pcs, Building, Opening
<1> DEFINE e == [procs[p] EXCEPT !.st = "running", !.serves = IF head = 0 THEN None ELSE head]
<1>4. /\ Changes(p, e) /\ e.t = procs[p].t /\ e.st = "running" /\ e.stopped = procs[p].stopped
      /\ e.told = procs[p].told /\ (e.serves # None => e.serves = head)
  <2>1. e \in ProcRecs
    BY <1>2 DEF ProcRecs, Alive
  <2>2. procs' = [procs EXCEPT ![p] = e]
    BY <1>1 DEF Ready
  <2>3. Changes(p, e)
    BY <1>2, <2>1, <2>2, ChangeIs
  <2> QED BY <1>2, <2>3 DEF ProcRecs
<1> HIDE DEF e
<1>5. UNCHANGED <<slots, heap, live, dying, goers, ev, clock, head, left>>
  BY DEF Ready
<1>6. ScopeStays
  BY <1>2, <1>3, <1>4, <1>5
     DEF ScopeStays, CallStays, Moves, In, MapStays, HeapStays, Changes, ProcsStay, LiveStays
<1>7. Types'
  BY <1>2, <1>3, <1>4, <1>5 DEF Types, Moves, Changes, Slots
<1>8. \A d \in Callers : d # c => call'[d] = call[d]
  BY <1>3 DEF Moves
<1>9. Names'
  <2>1. \A d \in Callers : call'[d].pc \in Spawned \cup Served =>
          call[d].pc \in Spawned \cup Served /\ call'[d].pid = call[d].pid
    BY <1>1, <1>2, <1>3, <1>8 DEF Moves, Spawned, Served
  <2> QED BY <1>5, <1>6, <2>1, NamesKept DEF NamesStays, IInv, Names
<1>10. Owners'
  BY <1>6, OwnersKept
<1>11. Cells'
  BY <1>2, <1>3, <1>5, <1>8, CellsKept DEF BuildersStay, Moves, IInv, Cells, Building, Opening
<1>12. Openings'
  <2>1. \A s \in Slots : Closed(s) => Closed(s)'
    BY <1>2, <1>5, <1>8 DEF Closed
  <2> QED BY <1>5, <1>6, <2>1, OpeningsKept DEF OpeningsStays
<1>13. Leaving'
  BY <1>5, <1>6, LeavingKept DEF GoersStay, EvictionStays
<1>14. Alone'
  <2>1. \A q \in Procs : procs'[q].t = procs[q].t
    BY <1>4 DEF Changes
  <2>2. \A q \in Procs : Engaged(q)' <=> Engaged(q)
    BY <1>1, <1>2, <1>3, <1>5, <1>8, <2>1 DEF Engaged, Unnoted, Moves
  <2>3. \A d \in Callers : call'[d].pc = "wait" => call'[d] = call[d]
    BY <1>3, <1>8 DEF Moves
  <2>4. \A q \in Procs : procs'[q].st \in {"starting", "running"} => procs[q].st \in {"starting", "running"}
    BY <1>2, <1>4 DEF Changes
  <2>5. \A q \in Procs : procs'[q].st \in Alive => procs[q].st \in Alive
    BY <1>2, <1>4 DEF Changes, Alive
  <2>6. \A q \in Procs : procs'[q].st = "stopping" => procs[q].st = "stopping"
    BY <1>4 DEF Changes
  <2>7. \A q \in Procs : procs'[q].told => procs'[q].st = "gone"
    BY <1>2, <1>4 DEF Changes, IInv, Alone
  <2> QED BY <1>5, <1>6, <2>2, <2>3, <2>4, <2>5, <2>6, <2>7, AloneKept
          DEF AloneStays, ScopeStays, IInv, Alone, Accounted, Engaged
<1>15. Holds'
  <2>1. \A q \in Procs : Wanted(q) => Wanted(q)'
    BY <1>4, <1>5 DEF Wanted, Changes
  <2>2. \A d \in Callers : call'[d].pc \in Spawned => call[d].pc \in Spawned /\ call'[d].pid = call[d].pid
    BY <1>1, <1>2, <1>3, <1>8 DEF Moves, Spawned
  <2>3. \A d \in Callers : call'[d].pc \in Served \/ call[d].pc = "set" => call'[d] = call[d]
    BY <1>2, <1>3, <1>8 DEF Moves, Served
  <2> QED BY <1>6, <2>1, <2>2, <2>3, HoldsKept DEF HoldsStays, IInv, Holds
<1>16. Marks'
  <2>1. \A s \in Slots : heap[s].up # p /\ (heap[s].up # None => heap[s].up \in Procs)
    BY <1>1, <1>2 DEF IInv, Holds, Names, Spawned
  <2>2. \A d \in Callers : call'[d].pc \in {"insert", "set", "held"} /\ d # c =>
          /\ call'[d] = call[d] /\ call[d].pid # p /\ call[d].pid \in Procs
    <3>1. \A d \in Callers : call[d].pc \in {"insert", "set"} /\ d # c => call[d].pid # p
      BY <1>1, <1>2 DEF IInv, Holds, Spawned
    <3>2. \A d \in Callers : call[d].pc = "held" => call[d].pid # p
      BY <2>1 DEF IInv, Holds, Names, Served, In
    <3> QED BY <1>8, <3>1, <3>2 DEF IInv, Names, Spawned, Served
  <2>3. \A q \in Procs : q # p => procs'[q] = procs[q]
    BY <1>4 DEF Changes
  <2>4. procs'[p].serves # None => procs'[p].serves = head
    BY <1>4 DEF Changes
  <2>5. Slots' = Slots /\ Procs' = Procs
    BY <1>4, <1>5 DEF Slots, Procs, Changes
  <2>6. \A d \in Callers : In(d)' => call'[d].dep <= head'
    BY <1>2, <1>3, <1>5, <1>8 DEF IInv, Marks, In, Moves
  <2>7. \A q \in Procs : procs'[q].serves # None => procs'[q].serves <= head
    BY <1>2, <2>3, <2>4 DEF IInv, Marks
  <2>8. \A s \in Slots : (heap[s].up # None /\ live[procs'[heap[s].up].t] = heap[s].up
                          /\ procs'[heap[s].up].serves # None) =>
                           heap[s].deployed <= procs'[heap[s].up].serves
    BY <2>1, <2>3 DEF IInv, Marks
  <2>9. \A d \in Callers :
          (call'[d].pc \in {"insert", "set"} /\ procs'[call'[d].pid].serves # None) =>
            heap[call'[d].slot].deployed <= procs'[call'[d].pid].serves
    BY <1>2, <1>3, <2>2, <2>3, <2>4 DEF IInv, Marks, Moves
  <2>10. DeploymentSeen'
    BY <1>3, <1>5, <2>2, <2>3 DEF IInv, Marks, DeploymentSeen, Moves
  <2> QED BY <1>5, <2>5, <2>6, <2>7, <2>8, <2>9, <2>10 DEF IInv, Marks
<1> QED BY <1>7, <1>9, <1>10, <1>11, <1>12, <1>13, <1>14, <1>15, <1>16 DEF IInv

-----------------------------------------------------------------------------
(* A process is noted and told to leave                                     *)

LEMMA LeaveIs ==
  ASSUME Types, NEW t \in Tenants, NEW p \in Procs, procs[p].t = t,
         NEW why \in {"slow", "evicted", "detached"}, Leave(t, p, why)
  PROVE  /\ procs' \in Seq(ProcRecs) /\ ProcsStay /\ dying' \in [Tenants -> Nat \cup {None}]
         /\ \A q \in Procs : q # p => procs'[q] = procs[q]
         /\ procs'[p].serves = procs[p].serves /\ procs'[p].told = procs[p].told
         /\ procs'[p].stopped = why
         /\ procs'[p].st = IF procs[p].st \in {"starting", "running"} THEN "stopping" ELSE procs[p].st
         /\ dying'[t] = p /\ \A u \in Tenants : u # t => dying'[u] = dying[u]
<1> DEFINE st == IF procs[p].st \in {"starting", "running"} THEN "stopping" ELSE procs[p].st
           e == [procs[p] EXCEPT !.st = st, !.stopped = why]
<1>1. procs[p] \in ProcRecs /\ p \in Nat
  BY ProcIs
<1>2. e \in ProcRecs
  BY <1>1 DEF ProcRecs, Alive
<1>3. procs' = [procs EXCEPT ![p] = e]
  BY DEF Leave
<1>4. /\ e.t = procs[p].t /\ e.st = st /\ e.stopped = why
      /\ e.serves = procs[p].serves /\ e.told = procs[p].told
  BY <1>1 DEF ProcRecs
<1> HIDE DEF e
<1>5. Changes(p, e)
  BY <1>2, <1>3, ChangeIs
<1>6. ProcsStay
  BY <1>4, <1>5 DEF Changes, ProcsStay
<1>7. /\ dying' \in [Tenants -> Nat \cup {None}]
      /\ dying'[t] = p /\ \A u \in Tenants : u # t => dying'[u] = dying[u]
  BY <1>1 DEF Leave, Types
<1> QED BY <1>4, <1>5, <1>6, <1>7 DEF Changes

\* The process that leaves was the one in somebody's hands.
LEMMA LeaveAlone ==
  ASSUME IInv, CallStays, NEW t \in Tenants, NEW p \in Procs, procs[p].t = t,
         NEW why \in {"slow", "evicted", "detached"}, Leave(t, p, why),
         Engaged(p),
         \A q \in Procs : Engaged(q)' => Engaged(q),
         \A q \in Procs : q # p /\ Engaged(q) => Engaged(q)',
         \A c \in Callers : call'[c].pc = "wait" => call[c].pc = "wait" /\ call'[c].pid = call[c].pid
  PROVE  Alone'
<1>1. Types
  BY DEF IInv
<1>2. /\ ProcsStay
      /\ \A q \in Procs : q # p => procs'[q] = procs[q]
      /\ procs'[p].told = procs[p].told
      /\ procs'[p].st = IF procs[p].st \in {"starting", "running"} THEN "stopping" ELSE procs[p].st
      /\ dying'[t] = p /\ \A u \in Tenants : u # t => dying'[u] = dying[u]
  BY <1>1, LeaveIs
<1>3. \A q \in Procs : procs'[q].st \in {"starting", "running"} =>
        procs[q].st \in {"starting", "running"} /\ Engaged(q)'
  BY <1>2 DEF IInv, Alone, Accounted, Engaged
<1>4. \A q \in Procs : procs'[q].st = "stopping" => dying'[procs[q].t] = q
  <2> SUFFICES ASSUME NEW q \in Procs, procs'[q].st = "stopping", q # p
               PROVE  dying'[procs[q].t] = q
    BY <1>2
  <2>1. procs[q].st = "stopping" /\ dying[procs[q].t] = q /\ procs[q].t \in Tenants
    BY <1>1, <1>2, ProcIs DEF IInv, Alone
  <2>2. procs[q].t # t
    BY <2>1 DEF IInv, Alone, Alive
  <2> QED BY <1>2, <2>1, <2>2
<1>5. \A q \in Procs : procs'[q].st \in Alive => procs[q].st \in Alive
  BY <1>2 DEF Alive
<1>6. \A q \in Procs : procs'[q].told => procs'[q].st = "gone"
  <2>1. \A q \in Procs : procs[q].told => procs[q].st = "gone"
    BY DEF IInv, Alone
  <2>2. procs'[p].told => procs'[p].st = "gone"
    BY <1>2, <2>1
  <2> QED BY <1>2, <2>1, <2>2
<1> QED BY <1>2, <1>3, <1>4, <1>5, <1>6, AloneKept DEF AloneStays

\* What a note does to the names of processes.
LEMMA LeaveNames ==
  ASSUME IInv, NEW t \in Tenants, NEW p \in Procs, procs[p].t = t,
         NEW why \in {"slow", "evicted", "detached"}, Leave(t, p, why)
  PROVE  /\ \A u \in Tenants : dying'[u] # None => dying'[u] \in Procs /\ procs[dying'[u]].t = u
         /\ \A q \in Procs : procs'[q].serves = procs[q].serves
BY LeaveIs DEF IInv, Names

LEMMA GiveUpStep == ASSUME IInv, NEW c \in Callers, GiveUp(c) PROVE IInv'
<1>1. PICK p \in Procs : call[c].pid = p /\ procs[p].t = call[c].t
  BY DEF GiveUp, IInv, Names, Spawned
<1>2. PICK t \in Tenants : call[c].t = t /\ procs[p].t = t
  BY <1>1, ProcIs DEF IInv
<1>3. /\ Types /\ call[c].pc = "giveup" /\ call[c].pc \in Building /\ Leave(t, p, "slow")
      /\ BuildFails(c)
  BY <1>1, <1>2 DEF IInv, GiveUp, Building, Opening
<1>4. UNCHANGED <<slots, live, goers, ev, clock, head, left>>
  BY DEF GiveUp
<1>5. /\ call' \in [Callers -> {Idle} \cup CallRecs] /\ call'[c].pc = "idle"
      /\ \A d \in Callers : d # c => call'[d] = call[d]
      /\ CallStays /\ HeapStays /\ BuildersStay
      /\ heap' \in Seq(SlotRecs)
      /\ \A r \in Slots : heap'[r].deployed = heap[r].deployed /\ heap'[r].used = heap[r].used
  BY <1>3, BuildFailsIs
<1>6. /\ procs' \in Seq(ProcRecs) /\ ProcsStay /\ dying' \in [Tenants -> Nat \cup {None}]
      /\ \A q \in Procs : q # p => procs'[q] = procs[q]
      /\ procs'[p].stopped = "slow"
  BY <1>2, <1>3, LeaveIs
<1>7. ScopeStays
  BY <1>4, <1>5, <1>6 DEF ScopeStays, MapStays, LiveStays
<1>8. Types'
  BY <1>3, <1>4, <1>5, <1>6 DEF Types, HeapStays, Slots
<1>9. \A d \in Callers : call'[d].pc # "idle" => call'[d] = call[d]
  BY <1>5
<1>10. Names'
  BY <1>2, <1>3, <1>4, <1>7, <1>9, LeaveNames, NamesKept DEF NamesStays, IInv, Names, Spawned, Served
<1>11. Owners' /\ Cells'
  BY <1>5, <1>7, OwnersKept, CellsKept
<1>12. Openings'
  <2>1. \A s \in Slots : Closed(s) => Closed(s)'
    BY <1>3, <1>5 DEF Closed, HeapStays
  <2> QED BY <1>4, <1>7, <2>1, OpeningsKept DEF OpeningsStays
<1>13. Leaving'
  BY <1>4, <1>7, LeavingKept DEF GoersStay, EvictionStays
<1>14. Alone'
  <2>1. \A q \in Procs : procs'[q].t = procs[q].t
    BY <1>6 DEF ProcsStay
  <2>2. Engaged(p)
    BY <1>1, <1>3 DEF Engaged
  <2>3. \A q \in Procs : Engaged(q)' => Engaged(q)
    BY <1>4, <1>5, <1>9, <2>1 DEF Engaged, Unnoted
  <2>4. \A q \in Procs : q # p /\ Engaged(q) => Engaged(q)'
    BY <1>1, <1>4, <1>5, <2>1 DEF Engaged, Unnoted
  <2> QED BY <1>2, <1>3, <1>5, <1>9, <2>2, <2>3, <2>4, LeaveAlone
<1>15. Holds'
  <2>1. \A q \in Procs : Wanted(q) => Wanted(q)'
    BY <1>4, <1>6 DEF Wanted
  <2> QED BY <1>3, <1>5, <1>7, <1>9, <2>1, HoldsKept DEF HoldsStays, IInv, Holds, Spawned, Served
<1>16. Marks'
  BY <1>2, <1>3, <1>4, <1>5, <1>7, <1>9, LeaveNames, MarksKept DEF MarksStays
<1> QED BY <1>8, <1>10, <1>11, <1>12, <1>13, <1>14, <1>15, <1>16 DEF IInv

LEMMA EvictNoteStep == ASSUME IInv, EvictNote PROVE IInv'
<1>1. PICK p \in Procs : ev.hand = p
  BY DEF EvictNote, IInv, Names
<1>2. PICK t \in Tenants : procs[p].t = t
  BY ProcIs DEF IInv
<1>3. /\ Types /\ ev # None /\ ev.hand = p /\ Leave(t, p, "evicted") /\ ev \in EvRecs
      /\ ev' = Rest(ev.by, ev.todo, None)
  BY <1>1, <1>2, EvIs DEF IInv, EvictNote
<1>4. UNCHANGED <<slots, heap, call, live, goers, clock, head, left>>
  BY DEF EvictNote
<1>5. /\ procs' \in Seq(ProcRecs) /\ ProcsStay /\ dying' \in [Tenants -> Nat \cup {None}]
      /\ \A q \in Procs : q # p => procs'[q] = procs[q]
  BY <1>2, <1>3, LeaveIs
<1>6. ev' \in {None} \cup EvRecs /\ (ev' # None => ev'.todo = ev.todo /\ ev'.hand = None)
  BY <1>3 DEF Rest, EvRecs
<1>7. ScopeStays
  BY <1>4, <1>5 DEF ScopeStays, CallStays, In, MapStays, HeapStays, LiveStays
<1>8. Types'
  BY <1>3, <1>4, <1>5, <1>6 DEF Types, Slots
<1>9. Names'
  BY <1>2, <1>3, <1>4, <1>6, <1>7, LeaveNames, NamesKept DEF NamesStays, IInv, Names
<1>10. Owners' /\ Cells'
  BY <1>4, <1>7, OwnersKept DEF IInv, Cells
<1>11. Openings'
  BY <1>4, <1>7, OpeningsKept DEF OpeningsStays, Closed
<1>12. Leaving'
  BY <1>3, <1>4, <1>6, <1>7, LeavingKept DEF GoersStay, EvictionStays
<1>13. Alone'
  <2>1. \A q \in Procs : procs'[q].t = procs[q].t /\ q # None
    BY <1>3, <1>5, ProcIs DEF ProcsStay
  <2>2. Engaged(p)
    BY <1>3 DEF Engaged, Unnoted
  <2>3. \A q \in Procs : Engaged(q)' => Engaged(q)
    BY <1>4, <1>6, <2>1 DEF Engaged, Unnoted
  <2>4. \A q \in Procs : q # p /\ Engaged(q) => Engaged(q)'
    BY <1>3, <1>4, <2>1 DEF Engaged, Unnoted
  <2>5. CallStays /\ \A c \in Callers : call'[c] = call[c]
    BY <1>4, <1>7 DEF ScopeStays
  <2> QED BY <1>2, <1>3, <2>2, <2>3, <2>4, <2>5, LeaveAlone
<1>14. Holds'
  <2>1. \A q \in Procs : Wanted(q) => Wanted(q)'
    <3>1. \A q \in Procs : q # None
      BY <1>3, ProcIs
    <3> QED BY <1>3, <1>5, <1>6, <3>1 DEF Wanted
  <2> QED BY <1>4, <1>7, <2>1, HoldsKept DEF HoldsStays, IInv, Holds
<1>15. Marks'
  BY <1>2, <1>3, <1>4, <1>7, LeaveNames, MarksKept DEF MarksStays
<1> QED BY <1>8, <1>9, <1>10, <1>11, <1>12, <1>13, <1>14, <1>15 DEF IInv

LEMMA GoNoteStep == ASSUME IInv, NEW g \in goers, GoNote(g) PROVE IInv'
<1>1. PICK p \in Procs : g.hand = p /\ procs[p].t = g.t
  BY DEF GoNote, IInv, Names
<1>2. PICK t \in Tenants : procs[p].t = t /\ g.t = t
  BY <1>1, ProcIs DEF IInv
<1>3. Types /\ g.pc = "note" /\ Leave(t, p, "detached") /\ goers' = goers \ {g}
  BY <1>1, <1>2 DEF IInv, GoNote
<1>4. UNCHANGED <<slots, heap, call, live, ev, clock, head, left>>
  BY DEF GoNote
<1>5. /\ procs' \in Seq(ProcRecs) /\ ProcsStay /\ dying' \in [Tenants -> Nat \cup {None}]
      /\ \A q \in Procs : q # p => procs'[q] = procs[q]
      /\ procs'[p].stopped = "detached"
  BY <1>2, <1>3, LeaveIs
<1>6. ScopeStays
  BY <1>4, <1>5 DEF ScopeStays, CallStays, In, MapStays, HeapStays, LiveStays
<1>7. Types'
  BY <1>3, <1>4, <1>5 DEF Types, Slots
<1>8. Names'
  BY <1>2, <1>3, <1>4, <1>6, LeaveNames, NamesKept DEF NamesStays, IInv, Names
<1>9. Owners' /\ Cells'
  BY <1>4, <1>6, OwnersKept DEF IInv, Cells
<1>10. Openings'
  BY <1>3, <1>4, <1>6, OpeningsKept DEF OpeningsStays, Closed
<1>11. Leaving'
  BY <1>3, <1>4, <1>6, LeavingKept DEF GoersStay, EvictionStays
<1>12. Alone'
  <2>1. \A q \in Procs : procs'[q].t = procs[q].t
    BY <1>5 DEF ProcsStay
  <2>2. Engaged(p)
    BY <1>1 DEF Engaged, Unnoted
  <2>3. \A q \in Procs : Engaged(q)' => Engaged(q)
    BY <1>3, <1>4, <2>1 DEF Engaged, Unnoted
  <2>4. \A q \in Procs : q # p /\ Engaged(q) => Engaged(q)'
    BY <1>1, <1>3, <1>4, <2>1 DEF Engaged, Unnoted
  <2>5. CallStays /\ \A c \in Callers : call'[c] = call[c]
    BY <1>4, <1>6 DEF ScopeStays
  <2> QED BY <1>2, <1>3, <2>2, <2>3, <2>4, <2>5, LeaveAlone
<1>13. Holds'
  <2>1. \A q \in Procs : Wanted(q) => Wanted(q)'
    BY <1>4, <1>5 DEF Wanted
  <2> QED BY <1>4, <1>6, <2>1, HoldsKept DEF HoldsStays, IInv, Holds
<1>14. Marks'
  BY <1>2, <1>3, <1>4, <1>6, LeaveNames, MarksKept DEF MarksStays
<1> QED BY <1>7, <1>8, <1>9, <1>10, <1>11, <1>12, <1>13, <1>14 DEF IInv

-----------------------------------------------------------------------------
(* A process goes into the live map, and its cell is set                    *)

LEMMA InsertStep == ASSUME IInv, NEW c \in Callers, Insert(c) PROVE IInv'
<1>1. PICK p \in Procs : call[c].pid = p /\ procs[p].t = call[c].t
  BY DEF Insert, IInv, Names, Spawned
<1>2. PICK t \in Tenants : call[c].t = t /\ procs[p].t = t
  BY <1>1, ProcIs DEF IInv
<1>3. PICK s \in Slots : call[c].slot = s
  BY Within DEF Insert, In
<1>4. Types /\ In(c) /\ call[c].pc = "insert" /\ p \in Nat /\ p # None /\ s # None
  BY ProcIs, SlotIs DEF IInv, Insert, In
<1>5. Moves(c, "set") /\ call'[c].pid = p
  BY <1>1, <1>4, GotoIs DEF Insert, Pcs, Building
<1>6. UNCHANGED <<slots, heap, procs, dying, goers, ev, clock, head, left>>
  BY DEF Insert
<1>7. live' \in [Tenants -> Nat \cup {None}] /\ live'[t] = p /\ \A u \in Tenants : u # t => live'[u] = live[u]
  BY <1>1, <1>2, <1>4 DEF Insert, Types
<1>8. /\ slots[t] = s /\ live[t] = None /\ \A g \in goers : g.t # t
      /\ ev # None /\ ev.hand # None => procs[ev.hand].t # t
  BY <1>2, <1>3, <1>4, OpeningIs, OpenSlot DEF Opening
<1>9. \A d \in Callers : d # c => call'[d] = call[d]
  BY <1>5 DEF Moves
<1>10. \A d \in Callers : /\ In(d)' <=> In(d)
                          /\ call'[d].t = call[d].t /\ call'[d].slot = call[d].slot
                          /\ call'[d].dep = call[d].dep /\ call'[d].pid = call[d].pid
  BY <1>1, <1>4, <1>5 DEF Moves, In
<1>11. Types'
  BY <1>4, <1>5, <1>6, <1>7 DEF Types, Moves, Slots
<1>12. CallStays /\ MapStays /\ HeapStays /\ ProcsStay
  BY <1>6, <1>10 DEF CallStays, MapStays, HeapStays, ProcsStay
<1>13. Names'
  <2>1. \A d \in Callers : call'[d].pc \in Spawned \cup Served => call[d].pc \in Spawned \cup Served
    BY <1>4, <1>9 DEF Spawned
  <2>2. \A u \in Tenants : live'[u] # None => live'[u] \in Procs /\ procs[live'[u]].t = u
    BY <1>2, <1>7 DEF IInv, Names
  <2> QED BY <1>6, <1>10, <2>1, <2>2 DEF IInv, Names, Slots, Procs
<1>14. Owners'
  BY <1>12, OwnersStay
<1>15. Cells'
  BY <1>4, <1>6, <1>9, <1>10, CellsKept DEF BuildersStay, IInv, Cells, Building, Opening
<1>16. Openings'
  <2>1. \A r : Closed(r) => Closed(r)'
    BY <1>4, <1>6, <1>9 DEF Closed
  <2>2. Closed(s)'
    BY <1>3, <1>5 DEF Closed, Moves
  <2>3. ASSUME NEW u \in Tenants, slots[u] # None, live'[u] # None \/ \E g \in goers : g.t = u
        PROVE  Closed(slots[u])'
    <3>1. CASE u = t
      BY <1>6, <1>8, <2>2, <3>1 DEF Closed
    <3>2. CASE u # t
      <4>1. Closed(slots[u])
        BY <1>7, <2>3, <3>2 DEF IInv, Openings
      <4> QED BY <1>6, <2>1, <4>1 DEF Closed
    <3> QED BY <3>1, <3>2
  <2>4. ASSUME NEW d \in Callers, In(d), slots[call[d].t] # call[d].slot
        PROVE  Closed(call[d].slot)'
    <3>1. Closed(call[d].slot)
      BY <2>4 DEF IInv, Openings
    <3> QED BY <1>10, <2>1, <3>1 DEF Closed
  <2> QED BY <1>6, <1>10, <2>3, <2>4 DEF Openings
<1>17. Leaving'
  <2>1. \A g \in goers : g.t \in Tenants /\ live'[g.t] = live[g.t]
    BY <1>4, <1>7, <1>8 DEF Types
  <2>2. \A u \in Tenants : slots[u] = None /\ live'[u] # None => live[u] # None
    BY <1>4, <1>7, <1>8
  <2>3. ev # None /\ ev.hand # None => live'[procs[ev.hand].t] = live[procs[ev.hand].t]
    BY <1>4, <1>7, <1>8, ProcIs DEF IInv, Names
  <2>4. ev # None => \A u \in ev.todo : ~\E d \in Callers : In(d)' /\ call'[d].slot = slots[u]
    BY <1>10 DEF IInv, Leaving
  <2> QED BY <1>6, <2>1, <2>2, <2>3, <2>4 DEF IInv, Leaving
<1>18. Alone'
  <2>1. \A q \in Procs : procs[q].t \in Tenants /\ q # None
    BY <1>4, ProcIs
  <2>2. ASSUME NEW q \in Procs
        PROVE  Engaged(q)' <=> Engaged(q)
    <3>1. CASE q = p
      BY <1>1, <1>2, <1>4, <1>6, <1>7, <3>1 DEF Engaged
    <3>2. CASE q # p
      <4>1. live'[procs[q].t] = q <=> live[procs[q].t] = q
        BY <1>7, <1>8, <2>1, <3>2
      <4>2. \A d \in Callers : call'[d].pid = q => call'[d] = call[d]
        BY <1>5, <1>9, <3>2
      <4>3. \A d \in Callers : call[d].pid = q => call'[d] = call[d]
        BY <1>1, <1>9, <3>2
      <4> QED BY <1>6, <4>1, <4>2, <4>3 DEF Engaged, Unnoted
    <3> QED BY <3>1, <3>2
  <2>3. \A d \in Callers : call'[d].pc = "wait" => call[d].pc = "wait"
    BY <1>5, <1>9 DEF Moves
  <2> QED BY <1>6, <1>10, <1>12, <2>2, <2>3, AloneKept DEF AloneStays, IInv, Alone, Accounted, Engaged
<1>19. Holds'
  <2>1. \A d \in Callers : call'[d].pc \in Spawned => call[d].pc \in Spawned
    BY <1>4, <1>9 DEF Spawned
  <2>2. \A d \in Callers : call'[d].pc \in Served => call[d].pc \in Served
    BY <1>5, <1>9 DEF Served, Moves
  <2>3. \A u \in Tenants : live'[u] # None /\ slots[u] # None =>
          \/ heap[slots[u]].up = live'[u]
          \/ \E d \in Callers : call'[d].pc = "set" /\ call'[d].slot = slots[u] /\ call'[d].pid = live'[u]
    <3> SUFFICES ASSUME NEW u \in Tenants, live'[u] # None, slots[u] # None
                 PROVE  \/ heap[slots[u]].up = live'[u]
                        \/ \E d \in Callers : /\ call'[d].pc = "set" /\ call'[d].slot = slots[u]
                                              /\ call'[d].pid = live'[u]
      OBVIOUS
    <3>1. CASE u = t
      BY <1>3, <1>5, <1>7, <1>8, <1>10, <3>1 DEF Moves
    <3>2. CASE u # t
      BY <1>4, <1>7, <1>9, <1>10, <3>2 DEF IInv, Holds
    <3> QED BY <3>1, <3>2
  <2>4. \A u \in Tenants, r \in Slots : Refers(u, r)' => Refers(u, r)
    BY <1>12, SlotIs, RefersStays DEF IInv
  <2>5. \A u \in Tenants, r \in Slots : Refers(u, r)' /\ heap'[r].up # None => Wanted(heap[r].up)'
    BY <1>6, <2>4 DEF IInv, Holds, Wanted
  <2>6. \A d \in Callers : call'[d].pc \in Spawned => Wanted(call[d].pid)'
    BY <1>6, <1>10, <2>1 DEF IInv, Holds, Wanted
  <2> QED BY <1>6, <1>10, <2>1, <2>2, <2>3, <2>5, <2>6 DEF IInv, Holds, Slots
<1>20. Marks'
  <2>1. \A r \in Slots : heap[r].up # p
    BY <1>1, <1>4 DEF IInv, Holds, Spawned
  <2>2. \A r \in Slots : heap[r].up # None /\ live'[procs[heap[r].up].t] = heap[r].up =>
                           live[procs[heap[r].up].t] = heap[r].up
    <3>1. \A q \in Procs : q # p /\ live'[procs[q].t] = q => live[procs[q].t] = q
      BY <1>4, <1>7, ProcIs
    <3> QED BY <2>1, <3>1 DEF IInv, Names
  <2>3. \A d \in Callers : call'[d].pc \in {"insert", "set"} => call[d].pc \in {"insert", "set"}
    BY <1>4, <1>9
  <2>4. \A d \in Callers : call'[d].pc = "held" => call[d].pc = "held" /\ call[d].pid # p
    BY <1>5, <1>9, <2>1 DEF Moves, IInv, Holds, Served, Names, In
  <2>5. \A d \in Callers : call'[d].pc = "held" /\ live'[call[d].t] = call[d].pid =>
                             live[call[d].t] = call[d].pid
    <3>1. \A d \in Callers : call[d].pc = "held" => call[d].t \in Tenants
      BY Within DEF In
    <3> QED BY <1>7, <2>4, <3>1
  <2>6. DeploymentSeen'
    BY <1>6, <1>10, <2>4, <2>5 DEF IInv, Marks, DeploymentSeen
  <2> QED BY <1>6, <1>10, <2>2, <2>3, <2>6 DEF IInv, Marks, Slots, Procs
<1> QED BY <1>11, <1>13, <1>14, <1>15, <1>16, <1>17, <1>18, <1>19, <1>20 DEF IInv

LEMMA SetCellStep == ASSUME IInv, NEW c \in Callers, SetCell(c) PROVE IInv'
<1>1. PICK p \in Procs : call[c].pid = p /\ procs[p].t = call[c].t
  BY DEF SetCell, IInv, Names, Spawned
<1>2. PICK t \in Tenants : call[c].t = t /\ procs[p].t = t
  BY <1>1, ProcIs DEF IInv
<1>3. PICK s \in Slots : call[c].slot = s
  BY Within DEF SetCell, In
<1>4. /\ Types /\ In(c) /\ call[c].pc = "set" /\ p \in Nat /\ p # None /\ heap[s] \in SlotRecs
      /\ Refers(t, s) /\ heap[s].up = None
  BY <1>2, <1>3, ProcIs, Within DEF IInv, SetCell, In, Cells, Building
<1>5. Moves(c, "enforce") /\ call'[c].pid = p
  BY <1>1, <1>4, GotoIs DEF SetCell, Pcs, Served
<1> DEFINE e == [heap[s] EXCEPT !.up = p, !.building = FALSE]
<1>6. Writes(s, e) /\ e.up = p /\ e.deployed = heap[s].deployed /\ e.used = heap[s].used
  <2>1. e \in SlotRecs
    BY <1>4 DEF SlotRecs
  <2>2. heap' = [heap EXCEPT ![s] = e]
    BY <1>1, <1>3 DEF SetCell
  <2> QED BY <1>4, <2>1, <2>2, WriteIs DEF SlotRecs
<1> HIDE DEF e
<1>7. UNCHANGED <<slots, procs, live, dying, goers, ev, clock, head, left>>
  BY DEF SetCell, backend
<1>8. \A d \in Callers : d # c => call'[d] = call[d]
  BY <1>5 DEF Moves
<1>9. \A d \in Callers : /\ In(d)' <=> In(d)
                         /\ call'[d].t = call[d].t /\ call'[d].slot = call[d].slot
                         /\ call'[d].dep = call[d].dep /\ call'[d].pid = call[d].pid
  BY <1>1, <1>4, <1>5 DEF Moves, In
<1>10. /\ Slots' = Slots /\ heap'[s].up = p
       /\ \A r \in Slots : r # s => heap'[r] = heap[r]
       /\ \A r \in Slots : heap'[r].deployed = heap[r].deployed /\ heap'[r].used = heap[r].used
  BY <1>6 DEF Writes, Slots
<1>11. \A u \in Tenants, r \in Slots : Refers(u, r)' <=> Refers(u, r)
  BY <1>7, <1>9 DEF Refers
<1>12. Types'
  BY <1>4, <1>5, <1>6, <1>7, <1>10 DEF Types, Moves, Writes
<1>13. Names'
  <2>1. \A d \in Callers : call'[d].pc \in Spawned \cup Served => call[d].pc \in Spawned \cup Served
    BY <1>4, <1>8 DEF Spawned
  <2>2. \A r \in Slots : heap'[r].up # None => heap'[r].up \in Procs
    BY <1>10 DEF IInv, Names
  <2> QED BY <1>7, <1>9, <1>10, <2>1, <2>2 DEF IInv, Names, Procs
<1>14. Owners'
  <2>1. \A u \in Tenants : Refers(u, s) => u = t
    BY <1>4 DEF IInv, Owners
  <2> QED BY <1>2, <1>7, <1>10, <1>11, <2>1 DEF IInv, Owners
<1>15. Cells'
  <2>1. \A d \in Callers : call'[d].pc \in Building =>
          d # c /\ call'[d] = call[d] /\ call[d].slot # s /\ call[d].slot \in Slots
    BY <1>3, <1>4, <1>5, <1>8 DEF IInv, Cells, Names, In, Moves, Building, Opening
  <2> QED BY <1>10, <2>1 DEF IInv, Cells
<1>16. Openings'
  <2>1. \A r \in Slots : Closed(r) => Closed(r)'
    BY <1>3, <1>4, <1>8, <1>10 DEF Closed
  <2>2. ASSUME NEW u \in Tenants, slots[u] # None, live[u] # None \/ \E g \in goers : g.t = u
        PROVE  Closed(slots[u])'
    BY <1>7, <2>1, <2>2 DEF IInv, Openings, Closed, Names
  <2>3. ASSUME NEW d \in Callers, In(d), slots[call[d].t] # call[d].slot
        PROVE  Closed(call[d].slot)'
    BY <1>9, <2>1, <2>3 DEF IInv, Openings, Closed, Names
  <2> QED BY <1>7, <1>9, <2>2, <2>3 DEF Openings
<1>17. Leaving'
  BY <1>7, <1>9 DEF IInv, Leaving
<1>18. Alone'
  <2>1. \A q \in Procs : Engaged(q)' <=> Engaged(q)
    BY <1>4, <1>5, <1>7, <1>8 DEF Engaged, Unnoted, Moves
  <2>2. \A d \in Callers : call'[d].pc = "wait" => call[d].pc = "wait"
    BY <1>5, <1>8 DEF Moves
  <2>3. CallStays /\ ProcsStay
    BY <1>7, <1>9 DEF CallStays, ProcsStay
  <2> QED BY <1>7, <1>9, <2>1, <2>2, <2>3, AloneKept DEF AloneStays, IInv, Alone, Accounted, Engaged
<1>19. Holds'
  <2>1. \A d \in Callers : call'[d].pc \in Spawned => call[d].pc \in Spawned /\ d # c /\ call[d].pid # p
    BY <1>1, <1>4, <1>5, <1>8 DEF Spawned, Moves, IInv, Holds
  <2>2. \A r \in Slots : heap[r].up # p
    BY <1>1, <1>4 DEF IInv, Holds, Spawned
  <2>3. \A d \in Callers : call'[d].pc \in Served => heap'[call[d].slot].up = call[d].pid
    <3>1. \A d \in Callers : call[d].pc \in Served =>
            heap[call[d].slot].up = call[d].pid /\ call[d].pid # None /\ call[d].slot \in Slots
      BY <1>4, ProcIs DEF IInv, Holds, Names, Served, In
    <3> QED BY <1>1, <1>3, <1>4, <1>8, <1>10, <3>1
  <2>4. \A q, r \in Slots : heap'[q].up # None /\ heap'[q].up = heap'[r].up => q = r
    BY <1>10, <2>2 DEF IInv, Holds
  <2>5. \A d \in Callers, r \in Slots : call'[d].pc \in Spawned => heap'[r].up # call[d].pid
    BY <1>10, <2>1 DEF IInv, Holds
  <2>6. \A u \in Tenants : live[u] # None /\ slots[u] # None =>
          \/ heap'[slots[u]].up = live[u]
          \/ \E d \in Callers : call'[d].pc = "set" /\ call[d].slot = slots[u] /\ call[d].pid = live[u]
    <3> SUFFICES ASSUME NEW u \in Tenants, live[u] # None, slots[u] # None, slots[u] # s
                 PROVE  \/ heap'[slots[u]].up = live[u]
                        \/ \E d \in Callers : /\ call'[d].pc = "set" /\ call[d].slot = slots[u]
                                              /\ call[d].pid = live[u]
      <4>1. \A d \in Callers : call[d].pc = "set" /\ call[d].slot = s => d = c
        BY <1>3, <1>4 DEF IInv, Cells, Building
      <4>2. \A u \in Tenants : live[u] # None /\ slots[u] = s => live[u] = p
        BY <1>1, <1>4, <4>1, SlotIs DEF IInv, Holds
      <4> QED BY <1>10, <4>2
    <3>1. slots[u] \in Slots
      BY DEF IInv, Names
    <3> QED BY <1>3, <1>8, <1>10, <3>1 DEF IInv, Holds
  <2>7. \A d \in Callers : call'[d].pc \in Spawned => Wanted(call[d].pid)'
    BY <1>7, <1>9, <2>1 DEF IInv, Holds, Wanted
  <2>8. ASSUME NEW u \in Tenants, NEW r \in Slots, Refers(u, r), heap'[r].up # None
        PROVE  Wanted(heap[r].up)'
    <3>1. CASE r = s
      BY <1>1, <1>4, <1>7, <1>10, <3>1 DEF Wanted, IInv, Holds, Spawned
    <3>2. CASE r # s
      BY <1>7, <1>10, <2>8, <3>2 DEF Wanted, IInv, Holds
    <3> QED BY <3>1, <3>2
  <2> QED BY <1>7, <1>9, <1>10, <1>11, <2>1, <2>3, <2>4, <2>5, <2>6, <2>7, <2>8 DEF IInv, Holds
<1>20. Marks'
  <2>1. \A d \in Callers : call'[d].pc \in {"insert", "set"} => call[d].pc \in {"insert", "set"}
    BY <1>4, <1>8
  <2>2. \A d \in Callers : call'[d].pc = "held" => call[d].pc = "held"
    BY <1>5, <1>8 DEF Moves
  <2>3. \A d \in Callers : In(d) => call[d].slot \in Slots
    BY DEF IInv, Names
  <2>4. procs[p].serves # None => heap[s].deployed <= procs[p].serves
    BY <1>1, <1>3, <1>4 DEF IInv, Marks
  <2>5. DeploymentSeen'
    BY <1>7, <1>9, <2>2 DEF IInv, Marks, DeploymentSeen
  <2>6. \A r \in Slots : (heap'[r].up # None /\ live[procs[heap'[r].up].t] = heap'[r].up
                          /\ procs[heap'[r].up].serves # None) =>
                           heap'[r].deployed <= procs[heap'[r].up].serves
    BY <1>10, <2>4 DEF IInv, Marks
  <2>7. \A d \in Callers :
          (call'[d].pc \in {"insert", "set"} /\ procs[call[d].pid].serves # None) =>
            heap'[call[d].slot].deployed <= procs[call[d].pid].serves
    BY <1>10, <2>1, <2>3 DEF IInv, Marks, In
  <2> QED BY <1>7, <1>9, <1>10, <2>5, <2>6, <2>7 DEF IInv, Marks, Procs
<1> QED BY <1>12, <1>13, <1>14, <1>15, <1>16, <1>17, <1>18, <1>19, <1>20 DEF IInv

-----------------------------------------------------------------------------
(* A deployment is picked up                                                *)

LEMMA LetGoIs ==
  ASSUME NEW t \in Tenants
  PROVE  LET g == LetGo(t)
         IN /\ g = [t |-> g.t, pc |-> g.pc, hand |-> g.hand, n |-> g.n]
            /\ g.t = t /\ g.pc = "detach" /\ g.hand = None
BY DEF LetGo

LEMMA RefreshStep == ASSUME IInv, NEW c \in Callers, Refresh(c) PROVE IInv'
<1>1. PICK t \in Tenants : call[c].t = t
  BY Within DEF Refresh, In
<1>2. PICK s \in Slots : call[c].slot = s
  BY Within DEF Refresh, In
<1>3. /\ Types /\ In(c) /\ call[c].pc = "catchup" /\ call[c] \in CallRecs /\ heap[s] \in SlotRecs
      /\ call[c].pid \in Procs /\ procs[call[c].pid].t = t /\ heap[s].up = call[c].pid
      /\ call[c].pid # None
  BY <1>1, <1>2, Within, ProcIs DEF IInv, Refresh, In, Names, Holds, Served
<1>4. Moves(c, "held") /\ call'[c].pid = call[c].pid
  BY <1>3, GotoIs DEF Refresh, Pcs, Served
<1> DEFINE e == [heap[s] EXCEPT !.deployed = call[c].dep]
<1>5. Writes(s, e) /\ e.up = heap[s].up /\ e.building = heap[s].building
      /\ e.deployed = call[c].dep /\ e.used = heap[s].used
  <2>1. e \in SlotRecs
    BY <1>3 DEF SlotRecs, CallRecs
  <2>2. heap' = [heap EXCEPT ![s] = e]
    BY <1>2 DEF Refresh
  <2> QED BY <1>3, <2>1, <2>2, WriteIs DEF SlotRecs
<1> HIDE DEF e
<1>6. UNCHANGED <<slots, live, dying, ev, clock, head, left>> /\ head \in Nat
  BY DEF Refresh, IInv, Types
<1>7. /\ procs' \in Seq(ProcRecs) /\ Len(procs') = Len(procs)
      /\ \A q \in Procs : /\ procs'[q].t = procs[q].t /\ procs'[q].st = procs[q].st
                          /\ procs'[q].stopped = procs[q].stopped /\ procs'[q].told = procs[q].told
      /\ \A q \in Procs : procs'[q].serves = IF q = live[t] /\ procs[q].serves # None
                                             THEN head ELSE procs[q].serves
  <2>1. CASE live[t] # None /\ procs[live[t]].serves # None
    <3>1. PICK p \in Procs : live[t] = p
      BY <2>1 DEF IInv, Names
    <3> DEFINE f == [procs[p] EXCEPT !.serves = head]
    <3>2. procs[p] \in ProcRecs
      BY <1>3, ProcIs
    <3>3. f \in ProcRecs
      BY <1>6, <3>2 DEF ProcRecs
    <3>4. procs' = [procs EXCEPT ![p] = f]
      BY <1>1, <2>1, <3>1 DEF Refresh
    <3>5. /\ f.t = procs[p].t /\ f.st = procs[p].st /\ f.stopped = procs[p].stopped
          /\ f.told = procs[p].told /\ f.serves = head
      BY <3>2 DEF ProcRecs
    <3> HIDE DEF f
    <3>6. Changes(p, f)
      BY <1>3, <3>3, <3>4, ChangeIs
    <3> QED BY <2>1, <3>1, <3>5, <3>6 DEF Changes
  <2>2. CASE ~(live[t] # None /\ procs[live[t]].serves # None)
    <3>1. procs' = procs
      BY <1>1, <2>2 DEF Refresh
    <3>2. \A q \in Procs : q # None
      BY <1>3, ProcIs
    <3> QED BY <1>3, <2>2, <3>1, <3>2 DEF Types
  <2> QED BY <2>1, <2>2
<1>8. /\ goers \subseteq goers'
      /\ \A g \in goers' : \/ g \in goers
                           \/ /\ g = [t |-> g.t, pc |-> g.pc, hand |-> g.hand, n |-> g.n]
                              /\ g.t = t /\ g.pc = "detach" /\ g.hand = None /\ live[t] # None
  <2>1. goers' = IF live[t] # None /\ procs[live[t]].serves = None THEN goers \cup {LetGo(t)} ELSE goers
    BY <1>1 DEF Refresh
  <2> QED BY <2>1, LetGoIs
<1>9. ScopeStays
  BY <1>3, <1>4, <1>5, <1>6, <1>7
     DEF ScopeStays, CallStays, Moves, In, MapStays, HeapStays, Writes, ProcsStay, LiveStays
<1>10. \A d \in Callers : d # c => call'[d] = call[d]
  BY <1>4 DEF Moves
<1>11. Types'
  <2>1. \A r \in Slots : heap'[r].used <= clock
    BY <1>3, <1>5 DEF Types, Writes
  <2>2. \A g \in goers' : /\ g = [t |-> g.t, pc |-> g.pc, hand |-> g.hand, n |-> g.n]
                          /\ g.t \in Tenants /\ g.pc \in {"detach", "down", "note"}
                          /\ g.hand \in Nat \cup {None}
    BY <1>3, <1>8 DEF Types
  <2> QED BY <1>3, <1>4, <1>5, <1>6, <1>7, <2>1, <2>2 DEF Types, Moves, Writes, Slots
<1>12. Names'
  <2>1. \A d \in Callers : call'[d].pc \in Spawned \cup Served =>
          call[d].pc \in Spawned \cup Served /\ call'[d].pid = call[d].pid
    BY <1>3, <1>4, <1>10 DEF Served
  <2>2. \A g \in goers' : IF g.pc = "note" THEN g.hand \in Procs /\ procs[g.hand].t = g.t
                                           ELSE g.hand = None
    BY <1>8 DEF IInv, Names
  <2> QED BY <1>6, <1>9, <2>1, <2>2, NamesKept DEF NamesStays, IInv, Names
<1>13. Owners'
  BY <1>9, OwnersKept
<1>14. Cells'
  <2>1. \A d \in Callers : call'[d].pc \in Building => call'[d] = call[d] /\ call[d].slot \in Slots
    BY <1>4, <1>10 DEF Moves, Building, Opening, IInv, Names, In
  <2>2. \A r \in Slots : heap'[r].building = heap[r].building /\ heap'[r].up = heap[r].up
    BY <1>5 DEF Writes
  <2> QED BY <2>1, <2>2, CellsKept DEF BuildersStay, IInv, Cells
<1>15. Openings'
  <2>1. \A r \in Slots : Closed(r) => Closed(r)'
    BY <1>3, <1>5, <1>10 DEF Closed, Writes
  <2> QED BY <1>6, <1>8, <1>9, <2>1, OpeningsKept DEF OpeningsStays
<1>16. Leaving'
  BY <1>6, <1>8, <1>9, LeavingKept DEF GoersStay, EvictionStays
<1>17. Alone'
  <2>1. \A q \in Procs : q # None
    BY <1>3, ProcIs
  <2>2. \A q \in Procs : (\E g \in goers' : g.hand = q) <=> \E g \in goers : g.hand = q
    BY <1>8, <2>1
  <2>3. \A q \in Procs : Engaged(q)' <=> Engaged(q)
    BY <1>3, <1>4, <1>6, <1>7, <1>10, <2>2 DEF Engaged, Unnoted, Moves
  <2>4. \A d \in Callers : call'[d].pc = "wait" => call'[d] = call[d]
    BY <1>4, <1>10 DEF Moves
  <2>5. \A q \in Procs : procs'[q].told => procs'[q].st = "gone"
    BY <1>7 DEF IInv, Alone
  <2> QED BY <1>6, <1>7, <1>9, <2>3, <2>4, <2>5, AloneKept
          DEF AloneStays, ScopeStays, IInv, Alone, Accounted, Engaged
<1>18. Holds'
  <2>1. \A q \in Procs : Wanted(q) => Wanted(q)'
    BY <1>6, <1>7 DEF Wanted
  <2>2. \A d \in Callers : call'[d].pc \in Spawned \/ call[d].pc = "set" => call'[d] = call[d]
    BY <1>3, <1>4, <1>10 DEF Moves, Spawned
  <2>3. \A d \in Callers : call'[d].pc \in Served => heap[call[d].slot].up = call'[d].pid
    BY <1>2, <1>3, <1>4, <1>10 DEF IInv, Holds
  <2> QED BY <1>9, <2>1, <2>2, <2>3, HoldsKept DEF HoldsStays
<1>19. Marks'
  <2>1. \A q \in Procs : procs'[q].serves # None => /\ procs[q].serves # None
                                                    /\ procs[q].serves <= procs'[q].serves
                                                    /\ procs'[q].serves <= head
                                                    /\ procs[q].serves \in Nat /\ procs'[q].serves \in Nat
    <3>1. \A q \in Procs : procs[q].serves # None => procs[q].serves \in Nat /\ procs[q].serves <= head
      BY <1>3, ProcIs DEF IInv, Marks, ProcRecs
    <3> QED BY <1>6, <1>7, <3>1
  <2>2. Slots' = Slots /\ Procs' = Procs /\ call[c].dep <= head
    BY <1>3, <1>5, <1>7 DEF Slots, Procs, Writes, IInv, Marks
  <2>3. \A d \in Callers : In(d)' => call'[d].dep <= head'
    BY <1>3, <1>4, <1>6, <1>10 DEF IInv, Marks, In, Moves
  <2>4. \A r \in Slots : heap'[r].deployed <= head /\ heap'[r].up = heap[r].up
    BY <1>5, <2>2 DEF Writes, IInv, Marks
  <2>5. \A r \in Slots : r # s => heap'[r] = heap[r]
    BY <1>5 DEF Writes
  <2>6. \A r \in Slots : heap[r].deployed \in Nat
    BY <1>3, SlotIs DEF SlotRecs
  <2>7. live[t] = call[c].pid /\ procs'[call[c].pid].serves # None =>
          procs'[call[c].pid].serves = head
    BY <1>3, <1>7
  <2>8. ASSUME NEW r \in Slots, NEW p \in Procs, heap[r].up = p, live[procs[p].t] = p,
               procs'[p].serves # None
        PROVE  heap'[r].deployed <= procs'[p].serves
    <3>1. CASE r = s
      BY <1>3, <1>5, <2>2, <2>7, <2>8, <3>1 DEF Writes
    <3>2. CASE r # s
      <4>1. p # None
        BY <1>3, ProcIs
      <4>2. heap[r].deployed <= procs[p].serves
        BY <2>1, <2>8, <4>1 DEF IInv, Marks
      <4> QED BY <2>1, <2>5, <2>6, <2>8, <3>2, <4>2
    <3> QED BY <3>1, <3>2
  <2>9. ASSUME NEW d \in Callers, call'[d].pc \in {"insert", "set"}, procs'[call'[d].pid].serves # None
        PROVE  heap'[call'[d].slot].deployed <= procs'[call'[d].pid].serves
    <3>1. d # c /\ call'[d] = call[d] /\ call[d].pc \in {"insert", "set"}
      BY <1>4, <1>10, <2>9 DEF Moves
    <3>2. call[d].slot \in Slots /\ call[d].slot # s /\ call[d].pid \in Procs
      BY <1>3, <3>1 DEF IInv, Names, In, Cells, Building, Opening, Spawned
    <3>3. heap[call[d].slot].deployed <= procs[call[d].pid].serves
      BY <2>1, <2>9, <3>1, <3>2 DEF IInv, Marks
    <3> QED BY <2>1, <2>5, <2>6, <2>9, <3>1, <3>2, <3>3
  <2>10. ASSUME NEW d \in Callers, call'[d].pc = "held", live[call'[d].t] = call'[d].pid,
                procs'[call'[d].pid].serves # None
         PROVE  procs'[call'[d].pid].serves >= call'[d].dep
    <3>1. CASE d = c
      <4>1. call[c].dep \in Nat
        BY <1>3 DEF CallRecs
      <4> QED BY <1>1, <1>4, <1>6, <2>2, <2>7, <2>10, <3>1, <4>1 DEF Moves
    <3>2. CASE d # c
      <4>1. /\ call'[d] = call[d] /\ call[d].pc = "held" /\ call[d].pid \in Procs
            /\ call[d].dep \in Nat
        BY <1>10, <2>10, <3>2, Within DEF IInv, Names, Served, In, CallRecs
      <4>2. procs[call[d].pid].serves >= call[d].dep
        BY <2>1, <2>10, <4>1 DEF IInv, Marks, DeploymentSeen
      <4> QED BY <2>1, <2>10, <4>1, <4>2
    <3> QED BY <3>1, <3>2
  <2>11. DeploymentSeen'
    BY <1>6, <2>10 DEF DeploymentSeen
  <2>12. \A r \in Slots : heap[r].up # None => heap[r].up \in Procs
    BY DEF IInv, Names
  <2>13. \A r \in Slots : (heap[r].up # None /\ live[procs'[heap[r].up].t] = heap[r].up
                           /\ procs'[heap[r].up].serves # None) =>
                            heap'[r].deployed <= procs'[heap[r].up].serves
    BY <1>7, <2>8, <2>12
  <2> QED BY <1>6, <2>1, <2>2, <2>3, <2>4, <2>9, <2>11, <2>13 DEF Marks
<1> QED BY <1>11, <1>12, <1>13, <1>14, <1>15, <1>16, <1>17, <1>18, <1>19 DEF IInv

-----------------------------------------------------------------------------
(* A tenant is taken out of the maps                                        *)

LEMMA EvictTakeStep == ASSUME IInv, EvictTake PROVE IInv'
<1>1. Types /\ ev # None /\ ev.hand = None /\ ev \in EvRecs
  BY EvIs DEF IInv, EvictTake
<1>2. \A t \in ev.todo : t \in Tenants /\ slots[t] # None /\ Free(slots[t])
  <2>1. \A t \in ev.todo : slots[t] # None /\ ~\E c \in Callers : In(c) /\ call[c].slot = slots[t]
    BY <1>1 DEF IInv, Leaving
  <2>2. \A t \in ev.todo : Free(slots[t])
    BY <2>1 DEF Free, Inside, In
  <2>3. ev.todo \subseteq Tenants
    BY <1>1 DEF EvRecs
  <2> QED BY <2>1, <2>2, <2>3
<1>3. PICK t \in ev.todo : /\ slots' = [slots EXCEPT ![t] = None]
                           /\ live' = [live EXCEPT ![t] = None]
                           /\ ev' = Rest(ev.by, ev.todo \ {t}, live[t])
  BY <1>2 DEF EvictTake
<1>4. t \in Tenants /\ slots[t] # None /\ ~\E c \in Callers : In(c) /\ call[c].slot = slots[t]
  BY <1>1, <1>2 DEF IInv, Leaving
<1>5. PICK s \in Slots : slots[t] = s
  BY <1>4 DEF IInv, Names
<1>6. UNCHANGED <<heap, call, procs, dying, goers, clock, head, left>>
  BY DEF EvictTake
<1>7. /\ slots' \in [Tenants -> Nat \cup {None}] /\ live' \in [Tenants -> Nat \cup {None}]
      /\ slots'[t] = None /\ live'[t] = None
      /\ \A u \in Tenants : u # t => slots'[u] = slots[u] /\ live'[u] = live[u]
  BY <1>1, <1>3, <1>4 DEF Types
<1>8. /\ ev' \in {None} \cup EvRecs
      /\ live[t] # None => ev' # None
      /\ ev' # None => ev'.hand = live[t] /\ ev'.todo = ev.todo \ {t}
  <2> DEFINE r == [by |-> ev.by, todo |-> ev.todo \ {t}, hand |-> live[t]]
  <2>1. r \in EvRecs
    BY <1>1, <1>4 DEF EvRecs, Types
  <2>2. r # None
    BY <2>1, AttachAssumption DEF EvRecs
  <2>3. ev' = None \/ ev' = r
    BY <1>3 DEF Rest
  <2>4. live[t] # None => ev' = r
    BY <1>3 DEF Rest
  <2>5. r.hand = live[t] /\ r.todo = ev.todo \ {t}
    OBVIOUS
  <2> HIDE DEF r
  <2> QED BY <2>1, <2>2, <2>3, <2>4, <2>5
<1>9. ScopeStays
  BY <1>6, <1>7 DEF ScopeStays, CallStays, In, MapStays, HeapStays, ProcsStay, LiveStays
<1>10. Types'
  BY <1>1, <1>6, <1>7, <1>8 DEF Types, Slots
<1>11. Names'
  BY <1>4, <1>6, <1>8, <1>9, NamesKept DEF NamesStays, IInv, Names
<1>12. Owners' /\ Cells'
  BY <1>6, <1>9, OwnersKept DEF IInv, Cells
<1>13. Openings'
  BY <1>4, <1>6, <1>7, <1>9, OpeningsKept DEF OpeningsStays, Closed, In
<1>14. Leaving'
  <2>1. \A g \in goers : g.t \in Tenants
    BY <1>1 DEF Types
  <2>2. ev' # None => \A u \in ev'.todo : u \in Tenants /\ slots'[u] # None
                                          /\ ~\E c \in Callers : In(c) /\ call[c].slot = slots'[u]
    BY <1>1, <1>2, <1>7, <1>8 DEF IInv, Leaving
  <2>3. ev' # None /\ ev'.hand # None =>
          procs[ev'.hand].t = t /\ ~\E g \in goers : g.pc = "note" /\ g.t = t
    BY <1>4, <1>8 DEF IInv, Leaving, Names
  <2> QED BY <1>6, <1>7, <2>1, <2>2, <2>3 DEF IInv, Leaving, In
<1>15. Alone'
  <2>1. \A q \in Procs : q # None /\ procs[q].t \in Tenants
    BY <1>1, ProcIs
  <2>2. ASSUME NEW q \in Procs
        PROVE  Engaged(q)' <=> Engaged(q)
    <3>1. live[t] # None => procs[live[t]].t = t
      BY <1>4 DEF IInv, Names
    <3>2. (live'[procs[q].t] = q \/ (ev' # None /\ ev'.hand = q)) <=>
          (live[procs[q].t] = q \/ (ev # None /\ ev.hand = q))
      BY <1>1, <1>4, <1>7, <1>8, <2>1, <3>1
    <3> QED BY <1>6, <3>2 DEF Engaged, Unnoted
  <2> QED BY <1>6, <1>9, <2>2, AloneKept DEF AloneStays, ScopeStays, IInv, Alone, Accounted, Engaged
<1>16. Holds'
  <2>1. \A q \in Procs : q # live[t] /\ Wanted(q) => Wanted(q)'
    BY <1>6, <1>8 DEF Wanted
  <2>2. live[t] # None => heap[s].up = live[t]
    <3>1. ~\E c \in Callers : call[c].pc = "set" /\ call[c].slot = slots[t]
      BY <1>4 DEF In
    <3> QED BY <1>4, <1>5, <3>1 DEF IInv, Holds
  <2>3. \A u \in Tenants : ~Refers(u, s)'
    <3>1. \A u \in Tenants : slots[u] = s => u = t
      BY <1>4, <1>5 DEF IInv, Owners, Refers
    <3>2. s # None
      BY <1>1, SlotIs
    <3> QED BY <1>4, <1>5, <1>6, <1>7, <3>1, <3>2 DEF Refers, In
  <2>4. \A c \in Callers : call[c].pc \in Spawned => call[c].pid # live[t] /\ call[c].pid \in Procs
    BY <1>1, <2>2, ProcIs DEF IInv, Holds, Names
  <2>5. \A c \in Callers : call'[c].pc \in Spawned => Wanted(call[c].pid)'
    BY <1>6, <2>1, <2>4 DEF IInv, Holds, Wanted
  <2>6. ASSUME NEW u \in Tenants, NEW r \in Slots, Refers(u, r)', heap[r].up # None
        PROVE  Wanted(heap[r].up)'
    <3>1. r # s /\ Refers(u, r) /\ heap[r].up \in Procs
      BY <1>1, <1>9, <2>3, <2>6, SlotIs, RefersStays DEF ScopeStays, IInv, Names
    <3>2. heap[r].up # live[t]
      BY <2>2, <2>6, <3>1 DEF IInv, Holds
    <3>3. PICK p \in Procs : heap[r].up = p
      BY <3>1
    <3>4. Wanted(p)'
      BY <2>1, <2>6, <3>1, <3>2, <3>3 DEF IInv, Holds
    <3> QED BY <1>6, <3>3, <3>4 DEF Wanted
  <2>7. \A u \in Tenants : live'[u] # None /\ slots'[u] # None => live'[u] = live[u] /\ slots'[u] = slots[u]
    BY <1>7
  <2> QED BY <1>6, <2>5, <2>6, <2>7 DEF IInv, Holds, Slots
<1>17. Marks'
  BY <1>6, <1>9, MarksKept DEF MarksStays
<1> QED BY <1>10, <1>11, <1>12, <1>13, <1>14, <1>15, <1>16, <1>17 DEF IInv

LEMMA GoRemoveStep == ASSUME IInv, NEW g \in goers, GoRemove(g) PROVE IInv'
<1>1. PICK t \in Tenants : g.t = t
  BY DEF IInv, Types
<1>2. Types /\ ev = None /\ g.pc = "detach" /\ g.hand = None
  BY DEF IInv, GoRemove, Names
<1>3. PICK h : /\ goers' = (goers \ {g}) \cup {h}
               /\ h = [t |-> h.t, pc |-> h.pc, hand |-> h.hand, n |-> h.n]
               /\ h.t = t /\ h.pc = "down" /\ h.hand = None
  <2>1. g = [t |-> g.t, pc |-> g.pc, hand |-> g.hand, n |-> g.n]
    BY <1>2 DEF Types
  <2>2. /\ [g EXCEPT !.pc = "down"].t = t /\ [g EXCEPT !.pc = "down"].pc = "down"
        /\ [g EXCEPT !.pc = "down"].hand = None /\ [g EXCEPT !.pc = "down"].n = g.n
        /\ [g EXCEPT !.pc = "down"] = [t |-> t, pc |-> "down", hand |-> None, n |-> g.n]
    BY <1>1, <1>2, <2>1
  <2> QED BY <2>2 DEF GoRemove
<1>4. UNCHANGED <<heap, call, procs, live, dying, ev, clock, head, left>>
  BY DEF GoRemove
<1>5. /\ slots' \in [Tenants -> Nat \cup {None}] /\ slots'[t] = None
      /\ \A u \in Tenants : u # t => slots'[u] = slots[u]
  BY <1>1, <1>2 DEF GoRemove, Types
<1>6. ScopeStays
  BY <1>4, <1>5 DEF ScopeStays, CallStays, In, MapStays, HeapStays, ProcsStay, LiveStays
<1>7. Types'
  BY <1>2, <1>3, <1>4, <1>5 DEF Types, Slots
<1>8. Names'
  BY <1>3, <1>4, <1>6, NamesKept DEF NamesStays, IInv, Names
<1>9. Owners' /\ Cells'
  BY <1>4, <1>6, OwnersKept DEF IInv, Cells
<1>10. Openings'
  <2>1. slots[t] # None => Closed(slots[t])
    BY <1>1 DEF IInv, Openings
  <2>2. \A c \in Callers : In(c) /\ call[c].slot = slots[t] => Closed(call[c].slot)
    BY <1>2, <2>1, SlotIs DEF IInv, Names
  <2> QED BY <1>1, <1>3, <1>4, <1>5, <1>6, <2>2, OpeningsKept DEF OpeningsStays, Closed, In
<1>11. Leaving'
  <2>1. \A u \in Tenants : slots'[u] = None /\ live[u] # None => \E k \in goers' : k.t = u /\ k.pc = "down"
    BY <1>2, <1>3, <1>5 DEF IInv, Leaving
  <2>2. \A k \in goers' : k = h \/ k \in goers
    BY <1>3
  <2>3. \A k \in goers : k.t \in Tenants
    BY <1>2 DEF Types
  <2> QED BY <1>2, <1>3, <1>4, <1>5, <2>1, <2>2, <2>3 DEF IInv, Leaving
<1>12. Alone'
  <2>1. \A q \in Procs : q # None
    BY <1>2, ProcIs
  <2>2. \A q \in Procs : (\E k \in goers' : k.hand = q) <=> \E k \in goers : k.hand = q
    BY <1>2, <1>3, <2>1
  <2>3. \A q \in Procs : Engaged(q)' <=> Engaged(q)
    BY <1>4, <2>2 DEF Engaged, Unnoted
  <2> QED BY <1>4, <1>6, <2>3, AloneKept DEF AloneStays, ScopeStays, IInv, Alone, Accounted, Engaged
<1>13. Holds'
  BY <1>4, <1>6, HoldsKept DEF HoldsStays, Wanted, IInv, Holds
<1>14. Marks'
  BY <1>4, <1>6, MarksKept DEF MarksStays
<1> QED BY <1>7, <1>8, <1>9, <1>10, <1>11, <1>12, <1>13, <1>14 DEF IInv

LEMMA GoDownStep == ASSUME IInv, NEW g \in goers, GoDown(g) PROVE IInv'
<1>1. PICK t \in Tenants : g.t = t
  BY DEF IInv, Types
<1>2. Types /\ g.pc = "down" /\ g.hand = None /\ slots[t] = None
  BY <1>1 DEF IInv, GoDown, Names, Leaving
<1>3. PICK h : /\ goers' = (goers \ {g}) \cup (IF live[t] = None THEN {} ELSE {h})
               /\ h = [t |-> h.t, pc |-> h.pc, hand |-> h.hand, n |-> h.n]
               /\ h.t = t /\ h.pc = "note" /\ h.hand = live[t]
  <2>1. g = [t |-> g.t, pc |-> g.pc, hand |-> g.hand, n |-> g.n]
    BY <1>2 DEF Types
  <2> DEFINE k == [g EXCEPT !.pc = "note", !.hand = live[t]]
  <2>2. k = [t |-> t, pc |-> "note", hand |-> live[t], n |-> g.n]
    <3>1. PICK j : j = [g EXCEPT !.pc = "note"]
      OBVIOUS
    <3>2. j = [t |-> t, pc |-> "note", hand |-> g.hand, n |-> g.n]
      BY <1>1, <2>1, <3>1
    <3>3. [j EXCEPT !.hand = live[t]] = [t |-> t, pc |-> "note", hand |-> live[t], n |-> g.n]
      BY <3>2
    <3>4. k = [j EXCEPT !.hand = live[t]]
      BY <3>1
    <3> QED BY <3>3, <3>4
  <2>3. goers' = (goers \ {g}) \cup (IF live[t] = None THEN {} ELSE {k})
    BY <1>1 DEF GoDown
  <2> HIDE DEF k
  <2> QED BY <2>2, <2>3
<1>4. UNCHANGED <<slots, heap, call, procs, dying, ev, clock, head, left>>
  BY DEF GoDown
<1>5. /\ live' \in [Tenants -> Nat \cup {None}] /\ live'[t] = None
      /\ \A u \in Tenants : u # t => live'[u] = live[u]
  BY <1>1, <1>2 DEF GoDown, Types
<1>6. ScopeStays
  BY <1>4, <1>5 DEF ScopeStays, CallStays, In, MapStays, HeapStays, ProcsStay, LiveStays
<1>7. \A k \in goers' : k \in goers \/ (k = h /\ live[t] # None)
  BY <1>3
<1>8. live[t] # None => live[t] \in Procs /\ procs[live[t]].t = t
  BY DEF IInv, Names
<1>9. Types'
  <2>1. live[t] \in Nat \cup {None}
    BY <1>2 DEF Types
  <2> QED BY <1>2, <1>3, <1>4, <1>5, <1>7, <2>1 DEF Types, Slots
<1>10. Names'
  BY <1>3, <1>4, <1>6, <1>7, <1>8, NamesKept DEF NamesStays, IInv, Names
<1>11. Owners' /\ Cells'
  BY <1>4, <1>6, OwnersKept DEF IInv, Cells
<1>12. Openings'
  BY <1>1, <1>3, <1>4, <1>6, <1>7, OpeningsKept DEF OpeningsStays, Closed
<1>13. Leaving'
  <2>1. \A u \in Tenants : slots[u] = None /\ live'[u] # None => \E k \in goers' : k.t = u /\ k.pc = "down"
    BY <1>1, <1>3, <1>5 DEF IInv, Leaving
  <2>2. \A k \in goers : k.t \in Tenants
    BY <1>2 DEF Types
  <2>3. live[t] # None => \A k \in goers : k.pc = "note" => k.t # t
    BY <1>1 DEF IInv, Leaving
  <2>4. ev # None /\ ev.hand # None => procs[ev.hand].t \in Tenants
    BY <1>2, ProcIs DEF IInv, Names
  <2>5. ev # None /\ ev.hand # None /\ live[t] # None => procs[ev.hand].t # t
    BY DEF IInv, Leaving
  <2> QED BY <1>2, <1>3, <1>4, <1>5, <1>7, <2>1, <2>2, <2>3, <2>4, <2>5 DEF IInv, Leaving, In
<1>14. Alone'
  <2>1. \A q \in Procs : q # None /\ procs[q].t \in Tenants
    BY <1>2, ProcIs
  <2>2. \A q \in Procs : (live'[procs[q].t] = q \/ \E k \in goers' : k.hand = q) <=>
                         (live[procs[q].t] = q \/ \E k \in goers : k.hand = q)
    <3> SUFFICES ASSUME NEW q \in Procs
                 PROVE  (live'[procs[q].t] = q \/ \E k \in goers' : k.hand = q) <=>
                        (live[procs[q].t] = q \/ \E k \in goers : k.hand = q)
      OBVIOUS
    <3>1. (\E k \in goers' : k.hand = q) <=> (\E k \in goers : k.hand = q) \/ live[t] = q
      BY <1>2, <1>3, <2>1
    <3>2. live[t] = q => procs[q].t = t
      BY <1>8, <2>1
    <3>3. live'[procs[q].t] = q <=> live[procs[q].t] = q /\ procs[q].t # t
      BY <1>5, <2>1
    <3> QED BY <3>1, <3>2, <3>3
  <2>3. \A q \in Procs : Engaged(q)' <=> Engaged(q)
    BY <1>4, <2>2 DEF Engaged, Unnoted
  <2> QED BY <1>4, <1>6, <2>3, AloneKept DEF AloneStays, ScopeStays, IInv, Alone, Accounted, Engaged
<1>15. Holds'
  BY <1>4, <1>6, HoldsKept DEF HoldsStays, Wanted, IInv, Holds
<1>16. Marks'
  BY <1>4, <1>6, MarksKept DEF MarksStays
<1> QED BY <1>9, <1>10, <1>11, <1>12, <1>13, <1>14, <1>15, <1>16 DEF IInv

-----------------------------------------------------------------------------
(* A process leaves, and the store moves on                                 *)

\* A process goes one step further on its way out.
LEMMA ProcEnds ==
  ASSUME IInv, NEW p \in Procs, NEW e \in ProcRecs, procs' = [procs EXCEPT ![p] = e],
         e.t = procs[p].t, e.serves = procs[p].serves,
         e.stopped = procs[p].stopped \/ e.stopped = "died",
         e.st \in {"exited", "reaped", "gone"}, e.told => e.st = "gone",
         UNCHANGED <<slots, heap, call, ev, clock, head>>,
         left' \in [{"call", "fault", "deploy", "head"} -> Nat],
         dying' \in [Tenants -> Nat \cup {None}],
         \A u \in Tenants : dying'[u] = dying[u] \/ (dying[u] = p /\ dying'[u] = None),
         live' \in [Tenants -> Nat \cup {None}],
         \A u \in Tenants : live'[u] = live[u] \/ (live[u] = p /\ live'[u] = None),
         goers \subseteq goers',
         \A g \in goers' : \/ g \in goers
                           \/ /\ g = [t |-> g.t, pc |-> g.pc, hand |-> g.hand, n |-> g.n]
                              /\ g.t \in Tenants /\ live[g.t] # None
                              /\ g.pc = "detach" /\ g.hand = None
  PROVE  IInv'
<1>1. Types
  BY DEF IInv
<1>2. Changes(p, e)
  BY <1>1, ChangeIs
<1>3. ScopeStays
  BY <1>2 DEF ScopeStays, CallStays, In, MapStays, HeapStays, ProcsStay, LiveStays, Changes
<1>4. Types'
  <2>1. procs' \in Seq(ProcRecs)
    BY <1>2 DEF Changes
  <2>2. \A g \in goers' : /\ g = [t |-> g.t, pc |-> g.pc, hand |-> g.hand, n |-> g.n]
                          /\ g.t \in Tenants /\ g.pc \in {"detach", "down", "note"}
                          /\ g.hand \in Nat \cup {None}
    BY <1>1 DEF Types
  <2> QED BY <1>1, <2>1, <2>2 DEF Types, Slots
<1>5. Names'
  <2>1. \A u \in Tenants : dying'[u] # None => dying'[u] \in Procs /\ procs[dying'[u]].t = u
    BY DEF IInv, Names
  <2> QED BY <1>3, <2>1, NamesKept DEF NamesStays, IInv, Names
<1>6. Owners' /\ Cells'
  BY <1>3, OwnersKept DEF IInv, Cells
<1>7. Openings'
  BY <1>3, OpeningsKept DEF OpeningsStays, Closed
<1>8. Leaving'
  BY <1>3, LeavingKept DEF GoersStay, EvictionStays
<1>9. Alone'
  <2>1. \A q \in Procs : q # None /\ procs[q].t \in Tenants /\ procs'[q].t = procs[q].t
    BY <1>1, <1>2, ProcIs DEF Changes
  <2>2. \A q \in Procs : (\E g \in goers' : g.hand = q) <=> \E g \in goers : g.hand = q
    BY <2>1
  <2>3. \A q \in Procs : /\ live'[procs[q].t] = q => live[procs[q].t] = q
                         /\ q # p /\ live[procs[q].t] = q => live'[procs[q].t] = q
    BY <2>1
  <2>4. \A q \in Procs : Engaged(q)' => Engaged(q)
    BY <2>1, <2>2, <2>3 DEF Engaged, Unnoted
  <2>5. \A q \in Procs : q # p /\ Engaged(q) => Engaged(q)'
    BY <2>1, <2>2, <2>3 DEF Engaged, Unnoted
  <2>6. /\ procs'[p].st \in {"exited", "reaped", "gone"} /\ (procs'[p].told => procs'[p].st = "gone")
        /\ \A q \in Procs : q # p => procs'[q] = procs[q]
    BY <1>2 DEF Changes
  <2>7. \A q \in Procs : procs'[q].st \in {"starting", "running"} =>
          procs[q].st \in {"starting", "running"} /\ Engaged(q)'
    BY <2>5, <2>6 DEF IInv, Alone, Accounted, Engaged
  <2>8. \A q \in Procs : procs'[q].st = "stopping" => dying'[procs[q].t] = q
    BY <2>1, <2>6 DEF IInv, Alone
  <2>9. \A q \in Procs : procs'[q].st \in Alive => procs[q].st \in Alive
    BY <2>6 DEF Alive
  <2>10. \A q \in Procs : procs'[q].told => procs'[q].st = "gone"
    BY <2>6 DEF IInv, Alone
  <2> QED BY <1>3, <2>4, <2>7, <2>8, <2>9, <2>10, AloneKept DEF AloneStays, ScopeStays
<1>10. Holds'
  <2>1. \A q \in Procs : Wanted(q) => Wanted(q)'
    BY <1>2 DEF Wanted, Changes
  <2> QED BY <1>3, <2>1, HoldsKept DEF HoldsStays, IInv, Holds
<1>11. Marks'
  BY <1>2, <1>3, MarksKept DEF MarksStays, Changes
<1> QED BY <1>4, <1>5, <1>6, <1>7, <1>8, <1>9, <1>10, <1>11 DEF IInv

LEMMA StopsStep == ASSUME IInv, NEW p \in Procs, Stops(p) PROVE IInv'
<1> DEFINE e == [procs[p] EXCEPT !.st = "exited"]
<1>1. Types /\ procs[p] \in ProcRecs /\ (procs[p].told => procs[p].st = "gone")
  BY ProcIs DEF IInv, Alone
<1>2. e \in ProcRecs /\ procs' = [procs EXCEPT ![p] = e]
  BY <1>1 DEF ProcRecs, Stops
<1>3. /\ e.t = procs[p].t /\ e.serves = procs[p].serves /\ e.stopped = procs[p].stopped
      /\ e.st = "exited" /\ e.told = procs[p].told
  BY <1>1 DEF ProcRecs
<1> HIDE DEF e
<1>4. UNCHANGED <<slots, heap, call, live, dying, goers, ev, clock, head, left>> /\ procs[p].st = "stopping"
  BY DEF Stops
<1>5. e.told => e.st = "gone"
  BY <1>1, <1>3, <1>4
<1> QED BY <1>1, <1>2, <1>3, <1>4, <1>5, ProcEnds DEF Types

LEMMA CrashStep == ASSUME IInv, NEW p \in Procs, Crash(p) PROVE IInv'
<1> DEFINE e == [procs[p] EXCEPT !.st = "exited", !.stopped = "died"]
<1>1. Types /\ procs[p] \in ProcRecs /\ (procs[p].told => procs[p].st = "gone")
  BY ProcIs DEF IInv, Alone
<1>2. e \in ProcRecs /\ procs' = [procs EXCEPT ![p] = e]
  BY <1>1 DEF ProcRecs, Crash
<1>3. /\ e.t = procs[p].t /\ e.serves = procs[p].serves /\ e.stopped = "died"
      /\ e.st = "exited" /\ e.told = procs[p].told
  BY <1>1 DEF ProcRecs
<1> HIDE DEF e
<1>4. /\ UNCHANGED <<slots, heap, call, live, dying, goers, ev, clock, head>>
      /\ procs[p].st \in {"starting", "running"}
      /\ left' \in [{"call", "fault", "deploy", "head"} -> Nat]
  BY <1>1 DEF Crash, Spend, Types
<1>5. e.told => e.st = "gone"
  BY <1>1, <1>3, <1>4
<1> QED BY <1>1, <1>2, <1>3, <1>4, <1>5, ProcEnds DEF Types

LEMMA DiedStep == ASSUME IInv, NEW p \in Procs, Died(p) PROVE IInv'
<1> DEFINE e == [procs[p] EXCEPT !.st = "reaped"]
<1>1. PICK t \in Tenants : procs[p].t = t
  BY ProcIs DEF IInv
<1>2. Types /\ procs[p] \in ProcRecs /\ (procs[p].told => procs[p].st = "gone") /\ p # None
  BY ProcIs DEF IInv, Alone
<1>3. e \in ProcRecs /\ procs' = [procs EXCEPT ![p] = e]
  BY <1>2 DEF ProcRecs, Died
<1>4. /\ e.t = procs[p].t /\ e.serves = procs[p].serves /\ e.stopped = procs[p].stopped
      /\ e.st = "reaped" /\ e.told = procs[p].told
  BY <1>2 DEF ProcRecs
<1> HIDE DEF e
<1>5. UNCHANGED <<slots, heap, call, dying, ev, clock, head, left>> /\ procs[p].st = "exited"
  BY DEF Died
<1>6. /\ live' \in [Tenants -> Nat \cup {None}]
      /\ \A u \in Tenants : live'[u] = live[u] \/ (live[u] = p /\ live'[u] = None)
      /\ goers \subseteq goers'
      /\ \A g \in goers' : \/ g \in goers
                           \/ /\ g = [t |-> g.t, pc |-> g.pc, hand |-> g.hand, n |-> g.n]
                              /\ g.t \in Tenants /\ live[g.t] # None
                              /\ g.pc = "detach" /\ g.hand = None
  <2>1. CASE live[t] = p
    <3>1. live' = [live EXCEPT ![t] = None] /\ goers' = goers \cup {LetGo(t)}
      BY <1>1, <2>1 DEF Died
    <3>2. PICK h : /\ goers' = goers \cup {h}
                   /\ h = [t |-> h.t, pc |-> h.pc, hand |-> h.hand, n |-> h.n]
                   /\ h.t = t /\ h.pc = "detach" /\ h.hand = None
      BY <3>1, LetGoIs
    <3> QED BY <1>2, <2>1, <3>1, <3>2 DEF Types
  <2>2. CASE live[t] # p
    BY <1>1, <1>2, <2>2 DEF Died, Types
  <2> QED BY <2>1, <2>2
<1>7. e.told => e.st = "gone"
  BY <1>2, <1>4, <1>5
<1> QED BY <1>2, <1>3, <1>4, <1>5, <1>6, <1>7, ProcEnds DEF Types

LEMMA LeftStep == ASSUME IInv, NEW p \in Procs, Left(p) PROVE IInv'
<1>1. PICK t \in Tenants : procs[p].t = t
  BY ProcIs DEF IInv
<1> DEFINE b == (dying[t] = p)
           e == [procs[p] EXCEPT !.st = "gone", !.told = b]
<1>2. Types /\ procs[p] \in ProcRecs
  BY ProcIs DEF IInv
<1>3. e \in ProcRecs /\ procs' = [procs EXCEPT ![p] = e]
  BY <1>1, <1>2 DEF ProcRecs, Left
<1>4. /\ e.t = procs[p].t /\ e.serves = procs[p].serves /\ e.stopped = procs[p].stopped
      /\ e.st = "gone"
  BY <1>2 DEF ProcRecs
<1> HIDE DEF e
<1>5. UNCHANGED <<slots, heap, call, live, goers, ev, clock, head, left>>
  BY DEF Left
<1>6. /\ dying' \in [Tenants -> Nat \cup {None}]
      /\ \A u \in Tenants : dying'[u] = dying[u] \/ (dying[u] = p /\ dying'[u] = None)
  BY <1>1, <1>2 DEF Left, Types
<1> QED BY <1>2, <1>3, <1>4, <1>5, <1>6, ProcEnds DEF Types

LEMMA DeployStep == ASSUME IInv, Deploy PROVE IInv'
<1>1. /\ UNCHANGED <<slots, heap, call, procs, live, dying, goers, ev, clock>>
      /\ head' = head + 1 /\ left' \in [{"call", "fault", "deploy", "head"} -> Nat]
  BY DEF Deploy, Spend, backend, IInv, Types
<1>2. Types'
  BY <1>1 DEF IInv, Types, Slots
<1>3. Names' /\ Owners' /\ Cells'
  BY <1>1 DEF IInv, Names, Owners, Cells, Refers, Slots, Procs, In
<1>4. Openings' /\ Leaving'
  BY <1>1 DEF IInv, Openings, Leaving, Closed, In
<1>5. Alone'
  BY <1>1 DEF IInv, Alone, Accounted, Engaged, Unnoted, Procs
<1>6. Holds'
  BY <1>1 DEF IInv, Holds, Wanted, Refers, Slots, In
<1>7. Marks'
  <2>1. \A c \in Callers : In(c) => call[c].dep <= head + 1
    <3>1. \A c \in Callers : In(c) => call[c].dep \in Nat
      BY Within DEF CallRecs
    <3> QED BY <3>1 DEF IInv, Marks, Types
  <2>2. \A s \in Slots : heap[s].deployed <= head + 1
    <3>1. \A s \in Slots : heap[s].deployed \in Nat
      BY SlotIs DEF SlotRecs, IInv
    <3> QED BY <3>1 DEF IInv, Marks, Types
  <2>3. \A p \in Procs : procs[p].serves # None => procs[p].serves <= head + 1
    <3>1. \A p \in Procs : procs[p].serves # None => procs[p].serves \in Nat
      BY ProcIs DEF ProcRecs, IInv
    <3> QED BY <3>1 DEF IInv, Marks, Types
  <2>4. DeploymentSeen'
    BY <1>1 DEF IInv, Marks, DeploymentSeen
  <2> QED BY <1>1, <2>1, <2>2, <2>3, <2>4 DEF IInv, Marks, Slots, Procs, In
<1> QED BY <1>2, <1>3, <1>4, <1>5, <1>6, <1>7 DEF IInv

-----------------------------------------------------------------------------
(* The theorems                                                             *)

LEMMA InitHolds == ASSUME Init PROVE IInv
<1>1. /\ Slots = {} /\ Procs = {} /\ goers = {} /\ ev = None
      /\ \A c \in Callers : call[c].pc = "idle"
      /\ \A t \in Tenants : slots[t] = None /\ live[t] = None /\ dying[t] = None
  BY DEF Init, Slots, Procs, Idle
<1>2. Types
  <2>1. left \in [{"call", "fault", "deploy", "head"} -> Nat]
    BY AttachAssumption DEF Init
  <2> QED BY <1>1, <2>1 DEF Init, Types
<1>3. Names /\ Owners /\ Cells
  BY <1>1 DEF Names, Owners, Cells, In, Spawned, Served, Building, Opening
<1>4. Openings /\ Leaving
  BY <1>1 DEF Openings, Leaving, In
<1>5. Alone /\ Holds
  BY <1>1, AttachAssumption DEF Alone, Accounted, Holds, Spawned, Served
<1>6. Marks
  BY <1>1 DEF Marks, DeploymentSeen, In
<1> QED BY <1>2, <1>3, <1>4, <1>5, <1>6 DEF IInv

LEMMA Step == ASSUME PromptHold, QuietDetach, IInv, [Next]_vars PROVE IInv'
<1>1. CASE UNCHANGED vars
  BY <1>1 DEF vars, IInv, Types, Names, Owners, Cells, Openings, Leaving, Alone, Holds, Marks,
              Refers, Closed, Accounted, Engaged, Unnoted, Wanted, DeploymentSeen, Slots, Procs, In
<1>2. ASSUME NEW c \in Callers, \E t \in Tenants : Ask(c, t) PROVE IInv'
  BY <1>2, AskStep
<1>3. ASSUME NEW c \in Callers, Hold(c) PROVE IInv'
  BY <1>3, TakeStep, WarmStep, BuildStep, StartStep, WaitFailsStep, ReadyStep, BootFailsStep,
     GiveUpStep, InsertStep, SetCellStep, EnforceStep, CurrentStep, RefreshStep DEF Hold
<1>4. ASSUME NEW c \in Callers, Slow(c) \/ Release(c) PROVE IInv'
  BY <1>4, SlowStep, ReleaseStep
<1>5. ASSUME Evict PROVE IInv'
  BY <1>5, EvictTakeStep, EvictNoteStep DEF Evict
<1>6. ASSUME NEW g \in goers, GoRemove(g) \/ GoDown(g) \/ GoNote(g) PROVE IInv'
  BY <1>6, GoRemoveStep, GoDownStep, GoNoteStep
<1>7. ASSUME NEW p \in Procs, Reap(p) \/ Crash(p) PROVE IInv'
  BY <1>7, StopsStep, DiedStep, LeftStep, CrashStep DEF Reap
<1> QED BY <1>1, <1>2, <1>3, <1>4, <1>5, <1>6, <1>7, SweepStep, DeployStep DEF Next

LEMMA Inductive == PromptHold /\ QuietDetach => (Spec => []IInv)
<1> SUFFICES ASSUME PromptHold, QuietDetach PROVE Spec => []IInv
  OBVIOUS
<1>1. Init => IInv
  BY InitHolds
<1>2. IInv /\ [Next]_vars => IInv'
  BY Step
<1> QED BY <1>1, <1>2, PTL DEF Spec

LEMMA TypesFollow == ASSUME IInv PROVE TypeOK
<1>1. \A s \in Slots : heap[s].up \in Procs \cup {None} /\ heap[s].used \in 0..clock
  <2>1. \A s \in Slots : heap[s].used \in Nat
    BY SlotIs DEF SlotRecs, IInv
  <2> QED BY <2>1 DEF IInv, Types, Names
<1>2. /\ slots \in [Tenants -> Slots \cup {None}]
      /\ live \in [Tenants -> Procs \cup {None}]
      /\ dying \in [Tenants -> Procs \cup {None}]
  BY DEF IInv, Types, Names
<1> QED BY <1>1, <1>2 DEF TypeOK, IInv, Names, In

\* A process that runs is in somebody's hands, and one in somebody's hands has
\* the tenant to itself; one that is stopping is the one the note names.
LEMMA OneFollows == ASSUME IInv PROVE OnePostmaster
<1> SUFFICES ASSUME NEW p \in Procs, NEW q \in Procs, procs[p].t = procs[q].t,
                    procs[p].st \in Alive, procs[q].st \in Alive
             PROVE  p = q
  BY DEF OnePostmaster, Alive
<1>1. CASE procs[p].st = "stopping" /\ procs[q].st = "stopping"
  BY <1>1 DEF IInv, Alone
<1>2. CASE procs[p].st # "stopping"
  <2>1. Engaged(p)
    BY <1>2 DEF IInv, Alone, Accounted, Engaged, Alive
  <2> QED BY <2>1 DEF IInv, Alone
<1>3. CASE procs[q].st # "stopping"
  <2>1. Engaged(q)
    BY <1>3 DEF IInv, Alone, Accounted, Engaged, Alive
  <2> QED BY <2>1 DEF IInv, Alone
<1> QED BY <1>1, <1>2, <1>3

LEMMA HeldFollows == ASSUME IInv PROVE HeldNotEvicted
<1> SUFFICES ASSUME NEW c \in Callers, call[c].pc = "held"
             PROVE  procs[call[c].pid].stopped # "evicted"
  BY DEF HeldNotEvicted
<1>1. In(c) /\ call[c].pc \in Served
  BY DEF In, Served
<1>2. Refers(call[c].t, call[c].slot) /\ call[c].t \in Tenants /\ call[c].slot \in Slots
  BY <1>1, Within
<1>3. heap[call[c].slot].up = call[c].pid /\ call[c].pid # None
  BY <1>1, ProcIs DEF IInv, Holds, Names
<1> QED BY <1>2, <1>3 DEF IInv, Holds, Wanted

\* The slots, the live map and the dying map name what exists (attach.rs slot,
\* serve.rs State), whatever the order of holds, evictions and detaches.
THEOREM TypeCorrect == PromptHold /\ QuietDetach => (Spec => []TypeOK)
<1>1. IInv => TypeOK
  BY TypesFollow
<1> QED BY <1>1, Inductive, PTL

\* A tenant never has two postmasters of this node at once: up waits for the
\* one before to be gone, and nobody starts one for a tenant that is leaving.
THEOREM OneAtATime == PromptHold /\ QuietDetach => (Spec => []OnePostmaster)
<1>1. IInv => OnePostmaster
  BY OneFollows
<1> QED BY <1>1, Inductive, PTL

\* Neither the ceiling nor the sweep stops the database under a caller that
\* holds the tenant.
THEOREM NoneEvicted == PromptHold /\ QuietDetach => (Spec => []HeldNotEvicted)
<1>1. IInv => HeldNotEvicted
  BY HeldFollows
<1> QED BY <1>1, Inductive, PTL

\* No postmaster is left running with nobody to stop it: one given up on, evicted
\* or detached is noted before it is let out of hand.
THEOREM NoneOrphaned == PromptHold /\ QuietDetach => (Spec => []Accounted)
<1>1. IInv => Accounted
  BY DEF IInv, Alone
<1> QED BY <1>1, Inductive, PTL

\* Under a live process a caller is served what its registry entry names, or
\* newer, however requests with entries of different ages interleave.
THEOREM DeploymentServed == PromptHold /\ QuietDetach => (Spec => []DeploymentSeen)
<1>1. IInv => DeploymentSeen
  BY DEF IInv, Marks
<1> QED BY <1>1, Inductive, PTL
=============================================================================
