----------------------------- MODULE PageShard -----------------------------
(***************************************************************************)
(* One page shard: the ingest that flushes WAL records into delta layers,  *)
(* the passes that rewrite the layers (compact_shard, merge_to_horizon),   *)
(* the branch that copies the layer list, the collector that deletes the   *)
(* layers no list names, and the page service that reads through a cached  *)
(* copy of the list (zou-pg ingest.rs, compact.rs, gc.rs, pageserve.rs,    *)
(* zou-store shardmanifest.rs, layermap.rs, branch.rs).                    *)
(*                                                                         *)
(* A record is its lsn, and wal says which page (key) it changes; a page   *)
(* is the set of the records redone into it.  A layer object is the set of *)
(* records it holds, under a name that gives its coverage and nothing      *)
(* else.  Each step of a pass is one call to the store.                    *)
(***************************************************************************)
EXTENDS Naturals, Sequences, FiniteSets, FiniteSetsExt

CONSTANTS Keys,          \* pages; the order of the numbers is the key order
          MaxLsn,        \* bound: records in the log, one per lsn
          Logs,          \* the logs considered, a set of functions
          NoBase,        \* the sets of keys nobody can build a page for
          Workers,       \* who runs passes over the shard
          Pooled,        \* those that have a redo pool: the fold thread
          Budgets,       \* bound: how often each thing happens, see Left
          None,
          QuietMerge,    \* no flush lands between the two loads of a merge
          QuietBranch,   \* no retiring swap lands inside branch_shards
          SoundStamps,   \* a stamp ripens only on what is garbage throughout
          SoundNames     \* two layers with one name hold the same records

ASSUME PageShardAssumption ==
    /\ Keys \subseteq Nat
    /\ MaxLsn \in Nat
    /\ \A w \in Logs : w \in [1..MaxLsn -> Keys]
    /\ Pooled \subseteq Workers
    /\ \A q \in {QuietMerge, QuietBranch, SoundStamps, SoundNames} : q \in BOOLEAN

VARIABLES
    wal,      \* wal[l]: the page the record at l changes
    unbased,  \* the keys no page can be built for
    applied,  \* ingest: the resume point, every record below it is indexed
    mem,      \* ingest: the records in the memtable
    flush,    \* ingest: the layer uploaded and not yet published, or None
    frozen,   \* ingest: stopped by an error
    map,      \* page service: the layers its published map names
    man,      \* the shard manifest: layers, dcl, horizon
    objs,     \* the layer objects in the store, by name
    ckpts,    \* lsns some checkpoint or retained snapshot names
    work,     \* work[w]: the pass w is in
    br,       \* the branch being made
    child,    \* the child's shard manifest, or None
    gc,       \* the collector's run
    cand,     \* gc/CANDIDATES: name to the age of its stamp
    left      \* what the bounds still allow

vars == <<wal, unbased, applied, mem, flush, frozen, map, man, objs, ckpts,
          work, br, child, gc, cand, left>>
ingest == <<applied, mem, flush, frozen, map>>
store == <<man, objs>>

Lsns == 1..MaxLsn
Bounded == {"fold", "sweep", "merge", "crash", "fail", "ckpt", "expire", "branch", "gc"}
Spend(what) == /\ left[what] > 0
               /\ left' = [left EXCEPT ![what] = @ - 1]

-----------------------------------------------------------------------------
(* Layers and reads.                                                       *)

KeysOf(recs) == {wal[l] : l \in recs}
OfKeys(recs, ks) == {l \in recs : wal[l] \in ks}

\* LayerDesc::name: the kind, the key range and the lsn range.  An image
\* lives at one lsn.
Delta(recs) == [kind |-> "delta", lo |-> Min(KeysOf(recs)), hi |-> Max(KeysOf(recs)),
                from |-> Min(recs), to |-> Max(recs)]
Image(recs, at) == [kind |-> "image", lo |-> Min(KeysOf(recs)), hi |-> Max(KeysOf(recs)),
                    from |-> at, to |-> at]
Names == [kind : {"delta", "image"}, lo : Keys, hi : Keys, from : Lsns, to : Lsns]

\* put_if_absent: what is under the name already is adopted as it stands.
PutIfAbsent(name, recs) ==
    IF name \in DOMAIN objs THEN objs
    ELSE [n \in DOMAIN objs \cup {name} |-> IF n = name THEN recs ELSE objs[n]]

Uncut(names) == [n \in names |-> MaxLsn]
AtMost(a, b) == IF a <= b THEN a ELSE b
AtLeast(a, b) == IF a >= b THEN a ELSE b

\* The images that hold k and serve a read at `at`: clamp tightens the read
\* by the cut of an inherited layer.
Bases(body, upto, k, at) ==
    {n \in DOMAIN upto \cap DOMAIN body :
        /\ n.kind = "image"
        /\ n.from <= AtMost(at, upto[n])
        /\ k \in KeysOf(body[n])}

\* LayerMap::plan and ReadPlan::above: the newest image that holds the key,
\* and the records above it, from the deltas and the memtable m.  The pages
\* a read can come back with: two images at one lsn are tried in any order.
Pages(body, upto, m, k, at) ==
    LET bases == Bases(body, upto, k, at)
        floor == IF bases = {} THEN 0 ELSE Max({n.from : n \in bases})
        above == {l \in m : l <= at} \cup
                 UNION {{l \in body[n] : l <= AtMost(at, upto[n])} :
                          n \in {d \in DOMAIN upto \cap DOMAIN body : d.kind = "delta"}}
        run == {l \in OfKeys(above, {k}) : l > floor}
    IN IF bases = {} THEN {run}
       ELSE {OfKeys(body[n], {k}) \cup run : n \in {b \in bases : b.from = floor}}

APage(names, k, at) == CHOOSE p \in Pages(objs, Uncut(names), {}, k, at) : TRUE

\* What redo of the whole log gives.
History(k, at) == {l \in Lsns : l <= at /\ wal[l] = k}

ImageFloor(names) == Max({n.from : n \in {i \in names : i.kind = "image"}} \cup {0})

\* image_cut: the record that starts at the flush point is in no layer yet.
ImageCut(dcl) == dcl - 1

-----------------------------------------------------------------------------
IdlePass == [pc |-> "idle"]
IdleGc == [pc |-> "idle"]

Init == /\ wal \in Logs
        /\ unbased \in NoBase
        /\ applied = 1
        /\ mem = {}
        /\ flush = None
        /\ frozen = FALSE
        /\ map = {}
        /\ man = [layers |-> {}, dcl |-> 1, horizon |-> 0]
        /\ objs = [n \in {} |-> {}]
        /\ ckpts = {}
        /\ work = [w \in Workers |-> IdlePass]
        /\ br = [pc |-> "idle"]
        /\ child = None
        /\ gc = IdleGc
        /\ cand = [n \in {} |-> "fresh"]
        /\ left \in Budgets

-----------------------------------------------------------------------------
(* Ingest, on the page service's driver thread.                            *)

\* parse_available: the next complete record is indexed.
Apply == /\ ~frozen
         /\ flush = None
         /\ applied <= MaxLsn
         /\ mem' = mem \cup {applied}
         /\ applied' = applied + 1
         /\ UNCHANGED <<wal, unbased, flush, frozen, map, man, objs, ckpts,
                        work, br, child, gc, cand, left>>

\* The names a run of the collector or a stamp of one may yet act on.
Stamped == DOMAIN cand \cup (IF gc.pc = "idle" THEN {} ELSE gc.keys)

\* The assumptions an upload under a name rests on.
MayPut(name, recs) ==
    /\ SoundStamps => name \notin Stamped
    /\ SoundNames => (name \in DOMAIN objs => objs[name] = recs)

\* ShardIngest::flush, up to the upload: the memtable is drained first.
FlushPut == /\ ~frozen
            /\ flush = None
            /\ mem # {}
            /\ MayPut(Delta(mem), mem)
            /\ flush' = Delta(mem)
            /\ objs' = PutIfAbsent(Delta(mem), mem)
            /\ mem' = {}
            /\ UNCHANGED <<wal, unbased, applied, frozen, map, man, ckpts,
                           work, br, child, gc, cand, left>>

\* Mutant of FlushPublish: the map is left as it was.
PublishOnly ==
    /\ flush # None
    /\ man' = [man EXCEPT !.layers = @ \cup {flush}, !.dcl = AtLeast(@, applied)]
    /\ flush' = None
    /\ UNCHANGED <<wal, unbased, applied, mem, frozen, map, objs, ckpts,
                   work, br, child, gc, cand, left>>

\* publish_layer: one CAS lists the layer and advances the consistent point.
\* reload_map follows on the same thread, which serves no read in between.
FlushPublish ==
    /\ flush # None
    /\ QuietMerge => \A w \in Workers : work[w].pc # "own"
    /\ man' = [man EXCEPT !.layers = @ \cup {flush}, !.dcl = AtLeast(@, applied)]
    /\ map' = man'.layers
    /\ flush' = None
    /\ UNCHANGED <<wal, unbased, applied, mem, frozen, objs, ckpts,
                   work, br, child, gc, cand, left>>

\* The upload or the publish errs.  What was drained is gone from the
\* memtable, and the driver stops ingesting until it is restarted.
FlushFails ==
    /\ flush # None \/ (mem # {} /\ ~frozen)
    /\ Spend("fail")
    /\ flush' = None
    /\ mem' = {}
    /\ frozen' = TRUE
    /\ UNCHANGED <<wal, unbased, applied, map, man, objs, ckpts,
                   work, br, child, gc, cand>>

\* serve_reloading: a read found the map naming a layer the store does not
\* have, and reads again through the manifest.
Reload == /\ flush = None
          /\ ~(map \subseteq DOMAIN objs)
          /\ map # man.layers
          /\ map' = man.layers
          /\ UNCHANGED <<wal, unbased, applied, mem, flush, frozen, man, objs, ckpts,
                         work, br, child, gc, cand, left>>

\* The process dies, with its fold thread, and a new service anchors its
\* ingest at the manifest's consistent point.
Restart ==
    /\ Spend("crash")
    /\ applied' = man.dcl
    /\ mem' = {}
    /\ flush' = None
    /\ frozen' = FALSE
    /\ map' = man.layers
    /\ work' = [w \in Workers |-> IF w \in Pooled THEN IdlePass ELSE work[w]]
    /\ UNCHANGED <<wal, unbased, man, objs, ckpts, br, child, gc, cand>>

-----------------------------------------------------------------------------
(* Checkpoints: what pins an old lsn.                                      *)

\* A checkpoint of some point of the log is published, perhaps long after.
Checkpoint ==
    /\ Spend("ckpt")
    /\ \E c \in 1..(applied - 1) :
         /\ \A d \in ckpts : d < c
         /\ ckpts' = ckpts \cup {c}
    /\ UNCHANGED <<wal, unbased, ingest, store, work, br, child, gc, cand>>

\* The oldest one leaves the manifest and its last snapshot passes the
\* retention.
Expire ==
    /\ ckpts # {}
    /\ Spend("expire")
    /\ ckpts' = ckpts \ {Min(ckpts)}
    /\ UNCHANGED <<wal, unbased, ingest, store, work, br, child, gc, cand>>

\* horizon_for: the oldest lsn anything may still name.
HorizonFor == IF ckpts = {} THEN MaxLsn + 1 ELSE Min(ckpts)

-----------------------------------------------------------------------------
(* The passes.                                                             *)

Pass(w, rec) == work' = [work EXCEPT ![w] = rec]

\* A pass with its outputs built; stage_output takes them one by one.
Built(out, retire, horizon) ==
    IF out = <<>> THEN [pc |-> "swap", add |-> {}, retire |-> retire, horizon |-> horizon]
    ELSE [pc |-> "put", out |-> out, add |-> {}, retire |-> retire, horizon |-> horizon]

\* The outputs that hold something, in order.
Output(name, recs) == [name |-> name, recs |-> recs]
DeltaOut(recs) == IF recs = {} THEN <<>> ELSE <<Output(Delta(recs), recs)>>
ImageOut(recs, at) == IF recs = {} THEN <<>> ELSE <<Output(Image(recs, at), recs)>>

\* compact_shard loads the shard manifest first.
FoldOwn(w) ==
    /\ work[w].pc = "idle"
    /\ Spend(IF w \in Pooled THEN "fold" ELSE "sweep")
    /\ Pass(w, [pc |-> "descs", own |-> man.layers, dcl |-> man.dcl])
    /\ UNCHANGED <<wal, unbased, ingest, store, ckpts, br, child, gc, cand>>

\* The inputs are the deltas above the newest image.  They merge into one run,
\* and with a pool the keys it saw get an image just under the flush point.  A
\* layer that is gone fails the pass; one delta and no pool is nothing to do.
FoldOf(w, own, descs, dcl) ==
    LET inputs == {n \in descs : n.kind = "delta" /\ n.to > ImageFloor(descs)}
        merged == UNION {objs[n] : n \in inputs}
        imaged == IF w \in Pooled THEN KeysOf(merged) \ unbased ELSE {}
        cut == ImageCut(dcl)
        image == UNION {APage(descs, k, cut) : k \in imaged}
    IN IF \/ ~(descs \subseteq DOMAIN objs)
          \/ inputs = {}
          \/ Cardinality(inputs) = 1 /\ w \notin Pooled
       THEN IdlePass
       ELSE Built(DeltaOut(merged) \o ImageOut(image, cut), own \cap inputs, 0)

\* Mutant of FoldPlan: the layers were loaded first, the consistent point now.
FoldPlanLate(w) ==
    /\ work[w].pc = "descs"
    /\ Pass(w, FoldOf(w, work[w].own, work[w].own, man.dcl))
    /\ UNCHANGED <<wal, unbased, ingest, store, ckpts, br, child, gc, cand, left>>

\* Then the serving layers.
FoldPlan(w) ==
    /\ work[w].pc = "descs"
    /\ Pass(w, FoldOf(w, work[w].own, man.layers, work[w].dcl))
    /\ UNCHANGED <<wal, unbased, ingest, store, ckpts, br, child, gc, cand, left>>

\* merge_pass: the horizon, then merge_to_horizon's load of the layers.
MergeDescs(w) ==
    /\ w \in Pooled
    /\ work[w].pc = "idle"
    /\ Spend("merge")
    /\ Pass(w, [pc |-> "own", descs |-> man.layers, ceiling |-> HorizonFor])
    /\ UNCHANGED <<wal, unbased, ingest, store, ckpts, br, child, gc, cand>>

\* The caller's horizon, and never past what an image may claim.
MergeCut(w) == AtMost(work[w].ceiling, ImageCut(man.dcl))

\* Then its load of the shard manifest.  Every key below the cut that has a
\* page goes into images at the cut, one or (past MERGE_TARGET_BYTES) several,
\* and every layer below it retires but those that may hold a key that has none.
MergeOwn(w) ==
    LET descs == work[w].descs
        at == MergeCut(w)
        below == {n \in descs : n.to <= at}
        keys == KeysOf(UNION {objs[n] : n \in below})
        page(k) == APage(descs, k, at)
        retire == {n \in below \cap man.layers : KeysOf(objs[n]) \cap unbased = {}}
        whole == ImageOut(UNION {page(k) : k \in keys \ unbased}, at)
        first == Min(keys \ unbased)
        split == ImageOut(page(first), at) \o
                 ImageOut(UNION {page(k) : k \in (keys \ unbased) \ {first}}, at)
    IN /\ work[w].pc = "own"
       /\ IF \/ ~(descs \subseteq DOMAIN objs)
             \/ at = 0
             \/ man.horizon >= at
             \/ below = {}
             \/ \E n \in below : below = {n} /\ n.kind = "image" /\ n.from = at
          THEN Pass(w, IdlePass)
          ELSE \E out \in IF Cardinality(keys \ unbased) < 2 THEN {whole} ELSE {whole, split} :
                 Pass(w, Built(out, retire, IF retire = {} THEN 0 ELSE at))
       /\ UNCHANGED <<wal, unbased, ingest, store, ckpts, br, child, gc, cand, left>>

\* stage_output, first half: the object.
StagePut(w) ==
    /\ work[w].pc = "put"
    /\ LET o == Head(work[w].out)
       IN /\ MayPut(o.name, o.recs)
          /\ objs' = PutIfAbsent(o.name, o.recs)
    /\ Pass(w, [work[w] EXCEPT !.pc = "list"])
    /\ UNCHANGED <<wal, unbased, ingest, man, ckpts, br, child, gc, cand, left>>

Staged(w) ==
    LET p == work[w]
        add == p.add \cup {Head(p.out).name}
    IN IF Len(p.out) = 1
       THEN [pc |-> "swap", add |-> add, retire |-> p.retire, horizon |-> p.horizon]
       ELSE [p EXCEPT !.pc = "put", !.out = Tail(@), !.add = add]

\* Mutant of StageList: the outputs are named by the swap alone (zou #388).
ListAtSwap(w) ==
    /\ work[w].pc = "list"
    /\ Pass(w, Staged(w))
    /\ UNCHANGED <<wal, unbased, ingest, store, ckpts, br, child, gc, cand, left>>

\* stage_output, second half: the manifest names it, and nothing retires yet.
StageList(w) ==
    /\ work[w].pc = "list"
    /\ man' = [man EXCEPT !.layers = @ \cup {Head(work[w].out).name}]
    /\ Pass(w, Staged(w))
    /\ UNCHANGED <<wal, unbased, ingest, objs, ckpts, br, child, gc, cand, left>>

Copying == QuietBranch /\ br.pc # "idle"

\* swap_layers: retire, add and stamp the horizon in one CAS.
Swap(w) ==
    /\ work[w].pc = "swap"
    /\ work[w].retire # {} => ~Copying
    /\ man' = [man EXCEPT !.layers = (@ \ work[w].retire) \cup work[w].add,
                          !.horizon = AtLeast(@, work[w].horizon)]
    /\ Pass(w, IdlePass)
    /\ UNCHANGED <<wal, unbased, ingest, objs, ckpts, br, child, gc, cand, left>>

\* A pass errs or its process dies anywhere; what it listed stays listed.
PassDies(w) ==
    /\ work[w].pc # "idle"
    /\ Spend("fail")
    /\ Pass(w, IdlePass)
    /\ UNCHANGED <<wal, unbased, ingest, store, ckpts, br, child, gc, cand>>

-----------------------------------------------------------------------------
(* A branch of the tenant at a checkpoint.                                 *)

\* branch: the checkpoint it starts at is read off the manifest.
BranchStart ==
    /\ br.pc = "idle"
    /\ child = None
    /\ Spend("branch")
    /\ \E at \in ckpts : br' = [pc |-> "check", at |-> at]
    /\ UNCHANGED <<wal, unbased, ingest, store, ckpts, work, child, gc, cand>>

\* branch_shards, first loop: a branch below the horizon is refused.
BranchCheck ==
    /\ br.pc = "check"
    /\ br' = IF man.horizon > br.at THEN [pc |-> "idle"] ELSE [br EXCEPT !.pc = "copy"]
    /\ UNCHANGED <<wal, unbased, ingest, store, ckpts, work, child, gc, cand, left>>

\* Mutant of ChildOf: an inherited delta that spans the cut comes whole.
ChildUncut(at) ==
    [at |-> at, dcl |-> AtMost(man.dcl, at), horizon |-> man.horizon, own |-> None,
     upto |-> Uncut({n \in man.layers : n.from <= at})]

\* The child's shard manifest: the layers that start at or below the cut, each
\* one that goes past it cut there.
ChildOf(at) ==
    [at |-> at, dcl |-> AtMost(man.dcl, at), horizon |-> man.horizon, own |-> None,
     upto |-> [n \in {m \in man.layers : m.from <= at} |-> IF n.to > at THEN at ELSE MaxLsn]]

\* branch_shards, second loop: the manifest is loaded again.
BranchCopy ==
    /\ br.pc = "copy"
    /\ br' = [pc |-> "land", child |-> ChildOf(br.at)]
    /\ UNCHANGED <<wal, unbased, ingest, store, ckpts, work, child, gc, cand, left>>

\* The put of the child's SHARD, which pins what it names from here on.
BranchLand ==
    /\ br.pc = "land"
    /\ child' = br.child
    /\ br' = [pc |-> "idle"]
    /\ UNCHANGED <<wal, unbased, ingest, store, ckpts, work, gc, cand, left>>

\* The layers a child reads: its parent's until it has rewritten them.
ChildBody == IF child.own = None THEN objs ELSE child.own
Inherited(c) == IF c.own = None THEN DOMAIN c.upto ELSE {}

\* The records an inherited delta gives a child.
UpTo(n) == {l \in objs[n] : l <= child.upto[n]}

\* compact_shard over a child that reads inherited layers, the full shape: the
\* images are rewritten at their lsns and the deltas into one run, cut where
\* the branch cut them, every key gets a fresh image, and all of it retires.
\* The child's own manifest pins the inputs until the swap.
ChildFold ==
    LET descs == DOMAIN child.upto
        images == {n \in descs : n.kind = "image"}
        merged == UNION {UpTo(n) : n \in descs \ images}
        grouped(at) == UNION {objs[n] : n \in {i \in images : i.from = at}}
        cut == ImageCut(child.dcl)
        page(k) == CHOOSE p \in Pages(objs, child.upto, {}, k, cut) : TRUE
        fresh == UNION {page(k) : k \in KeysOf(merged \cup UNION {objs[n] : n \in images}) \ unbased}
        old == {Output(Image(grouped(n.from), n.from), grouped(n.from)) : n \in images}
        twins == {o.name : o \in old}
        outs == old
                \cup (IF merged = {} THEN {} ELSE {Output(Delta(merged), merged)})
                \cup (IF fresh = {} \/ Image(fresh, cut) \in twins THEN {}
                      ELSE {Output(Image(fresh, cut), fresh)})
    IN /\ child # None
       /\ child.own = None
       /\ descs # {}
       /\ descs \subseteq DOMAIN objs
       /\ Spend("fold")
       /\ child' = [child EXCEPT
                      !.upto = Uncut({o.name : o \in outs}),
                      !.own = [n \in {o.name : o \in outs} |->
                                 (CHOOSE o \in outs : o.name = n).recs]]
       /\ UNCHANGED <<wal, unbased, ingest, store, ckpts, work, br, gc, cand>>

-----------------------------------------------------------------------------
(* The collector (gc::run_with), one run at a time.                        *)

\* The listing of every key in the store; a shard manifest that is not in it
\* pins nothing in this run.
GcList ==
    /\ gc.pc = "idle"
    /\ Spend("gc")
    /\ gc' = [pc |-> "pin", keys |-> DOMAIN objs, child |-> child # None]
    /\ UNCHANGED <<wal, unbased, ingest, store, ckpts, work, br, child, cand>>

\* What the listed shard manifests name.
Pinned == man.layers \cup (IF gc.child THEN Inherited(child) ELSE {})

\* The manifests are read after the listing.  A stamp past the window dooms a
\* key that is garbage now; one past the retention counts for nothing.
GcPin ==
    LET garbage == gc.keys \ Pinned
        doomed == {n \in garbage \cap DOMAIN cand : cand[n] = "ripe"}
    IN /\ gc.pc = "pin"
       /\ gc' = [pc |-> "delete", keys |-> doomed,
                 next |-> [n \in garbage \ doomed |-> "fresh"]]
       /\ UNCHANGED <<wal, unbased, ingest, store, ckpts, work, br, child, cand, left>>

GcDelete ==
    /\ gc.pc = "delete"
    /\ \E n \in gc.keys :
         /\ objs' = [m \in DOMAIN objs \ {n} |-> objs[m]]
         /\ gc' = [gc EXCEPT !.keys = @ \ {n}]
    /\ UNCHANGED <<wal, unbased, ingest, man, ckpts, work, br, child, cand, left>>

\* The candidates object is written when every deletion is done.
GcEnd ==
    /\ gc.pc = "delete"
    /\ gc.keys = {}
    /\ cand' = gc.next
    /\ gc' = IdleGc
    /\ UNCHANGED <<wal, unbased, ingest, store, ckpts, work, br, child, left>>

\* The run dies; its candidates object is never written.
GcDies ==
    /\ gc.pc # "idle"
    /\ Spend("fail")
    /\ gc' = IdleGc
    /\ UNCHANGED <<wal, unbased, ingest, store, ckpts, work, br, child, cand>>

\* Names somebody has uploaded or copied and no manifest lists for him yet.
InFlight == (IF flush = None THEN {} ELSE {flush})
            \cup {Head(work[w].out).name : w \in {v \in Workers : work[v].pc = "list"}}
            \cup (IF br.pc = "land" THEN DOMAIN br.child.upto ELSE {})
Listed == man.layers \cup (IF child = None THEN {} ELSE Inherited(child))

\* The window passes for a stamp, then the retention.
Age(n) ==
    /\ gc.pc = "idle"
    /\ cand[n] # "old"
    /\ SoundStamps => n \notin InFlight \cup Listed
    /\ cand' = [cand EXCEPT ![n] = IF @ = "fresh" THEN "ripe" ELSE "old"]
    /\ UNCHANGED <<wal, unbased, ingest, store, ckpts, work, br, child, gc, left>>

-----------------------------------------------------------------------------
Next == \/ Apply \/ FlushPut \/ FlushPublish \/ FlushFails \/ Reload \/ Restart
        \/ Checkpoint \/ Expire
        \/ \E w \in Workers :
             \/ FoldOwn(w) \/ FoldPlan(w) \/ MergeDescs(w) \/ MergeOwn(w)
             \/ StagePut(w) \/ StageList(w) \/ Swap(w) \/ PassDies(w)
        \/ BranchStart \/ BranchCheck \/ BranchCopy \/ BranchLand \/ ChildFold
        \/ GcList \/ GcPin \/ GcDelete \/ GcEnd \/ GcDies
        \/ \E n \in DOMAIN cand : Age(n)

Spec == Init /\ [][Next]_vars

-----------------------------------------------------------------------------
\* Every variable holds what the code can put there, the consistent point never
\* past what ingest has applied and the horizon never past an lsn of the log.
TypeOK ==
    /\ wal \in Logs
    /\ unbased \in NoBase
    /\ applied \in 1..(MaxLsn + 1)
    /\ mem \subseteq Lsns
    /\ flush \in Names \cup {None}
    /\ map \subseteq Names
    /\ man.layers \subseteq Names /\ man.dcl \in 1..applied /\ man.horizon \in 0..MaxLsn
    /\ \A n \in DOMAIN objs : n \in Names /\ objs[n] # {} /\ objs[n] \subseteq Lsns
    /\ ckpts \subseteq Lsns
    /\ DOMAIN cand \subseteq Names

\* Every page is whole at every lsn the manifest answers for, from the horizon
\* to the consistent point, whatever flushes, folds and merges interleave.
ReadsComplete ==
    \A at \in AtLeast(man.horizon, 1) .. (man.dcl - 1), k \in Keys :
        Pages(objs, Uncut(man.layers), {}, k, at) = {History(k, at)}

\* What the page service reads through its map and its memtable at the point
\* it has applied is whole, or names a layer that is gone, in which case the
\* read through the manifest is.
ServedComplete ==
    (~frozen /\ flush = None) =>
        \A k \in Keys :
            \E names \in {map, man.layers} :
                /\ names = map \/ ~(map \subseteq DOMAIN objs)
                /\ Pages(objs, Uncut(names), mem, k, applied - 1) = {History(k, applied - 1)}

\* No shard manifest names a layer the collector has deleted (zou #388).
ListedExists == Listed \subseteq DOMAIN objs

\* A child sees everything its parent had before the point it resumes at, and
\* nothing its parent wrote after the branch point, at whatever lsn it reads.
ChildComplete ==
    child # None =>
        /\ child.horizon <= child.at
        /\ \A k \in Keys : \A p \in Pages(ChildBody, child.upto, {}, k, MaxLsn) :
             /\ History(k, child.dcl - 1) \subseteq p
             /\ p \subseteq History(k, child.at)
=============================================================================
