---------------------------- MODULE TpuOpMetrics ----------------------------
(***************************************************************************)
(* What the cores of a TPU spent on ops (convert/xplane_to_op_metrics_db). *)
(* A sparse core's ops are attributed to the module that runs around them, *)
(* which a tensor core's op has offloaded; that op then has them as its    *)
(* children.  In both the ops of a line nest, and an ancestor stack gives  *)
(* each the time that its children took.                                   *)
(***************************************************************************)
EXTENDS OpMetricsDb

CONSTANTS
  ToOps,         \* symbols of ops
  ToOffloads,    \* ops that offload to a module of the sparse core, by id
  ToModuleSets,  \* the modules of the sparse core: sets of [id, begin, end]
  ToSteps,       \* bound: steps of the tensor core
  ToEnd,         \* bound: the end of time
  ToMaxOps       \* bound: ops of both cores

VARIABLES
  toPhase,    \* "sparse", then "tensor", then "done"
  toModules,  \* modules of the sparse core
  toSparse,   \* history: its ops
  toModuleIt, \* module_it, an index into the sorted modules
  toInModule, \* the ancestor stack and builder of each module
  toChildren, \* sparse_core_metrics_map
  toEvents,   \* history: ops of the tensor core
  toTensor,   \* the ancestor stack and builder of the tensor core
  toWindow,   \* first_op_timestamp_ps and last_op_timestamp_ps, or <<>>
  toDb        \* the database, and what each op has as its children

toVars == <<toPhase, toModules, toSparse, toModuleIt, toInModule, toChildren, toEvents,
            toTensor, toWindow, toDb>>

ToInit ==
  /\ toPhase = "sparse" /\ toModules \in ToModuleSets
  /\ toSparse = <<>> /\ toModuleIt = 1
  /\ toInModule = [id \in {m.id : m \in toModules} |-> Builder]
  /\ toChildren = <<>>
  /\ toEvents = <<>> /\ toTensor = Builder /\ toWindow = <<>>
  /\ toDb = [db |-> EmptyDb, children |-> <<>>]

ToOp(key, begin, end, offload) ==
  [key |-> key, begin |-> begin, end |-> end, children |-> 0, offload |-> offload]

ToInOrder(events, e) ==
  events # <<>> =>
    Last(events).begin < e.begin \/ (Last(events).begin = e.begin /\ e.end <= Last(events).end)

(* module_timespans: the earliest first, the longer of two that begin at   *)
(* the same time.                                                          *)
ToSorted(modules) ==
  SetToSortSeq(modules, LAMBDA a, b : a.begin < b.begin \/ (a.begin = b.begin /\ a.end > b.end))

(* The modules that end before the op begins are skipped. *)
ToSkip(sorted, e) ==
  Min({i \in toModuleIt..Len(sorted) : sorted[i].end >= e.begin} \cup {Len(sorted) + 1})

(* An op of the sparse core: ConvertSparseCoreDeviceTraceXPlane.           *)
ToSparseOp(key, begin, end) ==
  LET e == ToOp(key, begin, end, {})
      sorted == ToSorted(toModules)
  IN /\ toPhase = "sparse" /\ Len(toSparse) < ToMaxOps /\ ToInOrder(toSparse, e)
     /\ toSparse' = Append(toSparse, e)
     /\ toModuleIt' = ToSkip(sorted, e)
     /\ toInModule' = IF toModuleIt' <= Len(sorted) /\ Includes(sorted[toModuleIt'], e)
                      THEN [toInModule EXCEPT ![sorted[toModuleIt'].id] = PushOp(@, e)]
                      ELSE toInModule
     /\ UNCHANGED <<toPhase, toModules, toChildren, toEvents, toTensor, toWindow, toDb>>

(* Modules in which no op ran have no database. *)
ToEndSparse ==
  /\ toPhase = "sparse" /\ toPhase' = "tensor"
  /\ LET used == {id \in DOMAIN toInModule : toInModule[id] # Builder}
         Total(id) == MapThenSumSet(LAMBDA m : m.end - m.begin, {m \in toModules : m.id = id})
     IN toChildren' = [id \in used |-> Finalize(FlushOps(toInModule[id]), Total(id))]
  /\ UNCHANGED <<toModules, toSparse, toModuleIt, toInModule, toEvents, toTensor, toWindow, toDb>>

ToTrack(begin, end) ==
  toWindow' = IF toWindow = <<>> THEN <<begin, end>>
              ELSE <<Min({toWindow[1], begin}), Max({toWindow[2], end})>>

(* An op of the tensor core: ConvertTensorCoreDeviceTraceXPlane.           *)
ToTensorOp(key, begin, end, offload) ==
  LET e == ToOp(key, begin, end, offload) IN
  /\ toPhase = "tensor" /\ Len(toSparse) + Len(toEvents) < ToMaxOps /\ ToInOrder(toEvents, e)
  /\ toEvents' = Append(toEvents, e)
  /\ ToTrack(begin, end)
  /\ toTensor' = PushOp(toTensor, e)
  /\ UNCHANGED <<toPhase, toModules, toSparse, toModuleIt, toInModule, toChildren, toDb>>

(* A step of the tensor core, on a line before that of the ops.            *)
ToStep(begin, end) ==
  /\ toPhase = "tensor" /\ toEvents = <<>> /\ toWindow = <<>>
  /\ ToTrack(begin, end)
  /\ UNCHANGED <<toPhase, toModules, toSparse, toModuleIt, toInModule, toChildren, toEvents,
                 toTensor, toDb>>

(* Without any event the first timestamp is the greatest of all, and the   *)
(* window, an unsigned difference, is 1.                                   *)
ToFinish ==
  /\ toPhase = "tensor" /\ toPhase' = "done"
  /\ LET b == FlushOps(toTensor)
         window == IF toWindow = <<>> THEN Minus(0, OmWord - 1) ELSE toWindow[2] - toWindow[1]
         Kept(k) == b.children[k] \cap DOMAIN toChildren
     IN toDb' = [db |-> Finalize(b, window), children |-> [k \in DOMAIN b.ops |-> Kept(k)]]
  /\ UNCHANGED <<toModules, toSparse, toModuleIt, toInModule, toChildren, toEvents, toTensor,
                 toWindow>>

ToNext ==
  \/ \E key \in ToOps, begin, end \in 0..ToEnd : begin < end /\ ToSparseOp(key, begin, end)
  \/ ToEndSparse
  \/ \E key \in ToOps \cup {OmNoSymbol}, begin, end \in 0..ToEnd, offload \in ToOffloads :
       begin < end /\ ToTensorOp(key, begin, end, offload)
  \/ \E s \in ToSteps : ToStep(s[1], s[2])
  \/ ToFinish

ToSpec == ToInit /\ [][ToNext]_toVars
-----------------------------------------------------------------------------
ToTypeOK ==
  /\ toPhase \in {"sparse", "tensor", "done"}
  /\ toModuleIt \in 1..Cardinality(toModules) + 1
  /\ DOMAIN toDb.db.ops \subseteq ToOps \cup {OmIdle}

(* Ops of a line either nest or do not overlap. *)
Nested(spans) ==
  \A i, j \in DOMAIN spans :
    i < j => spans[i].end <= spans[j].begin \/ spans[j].end <= spans[i].end

(* The modules of a core run one after another, with a pause: an op that   *)
(* begins when its module does is lost if another module ends just then.   *)
ToApart ==
  \A m, n \in toModules : m = n \/ m.end < n.begin \/ n.end < m.begin

ToOpsOf(id) ==
  SelectSeq(toSparse, LAMBDA e : \E m \in toModules : m.id = id /\ Includes(m, e))

(* If the ops of a line nest, the self time of an op is the time in which  *)
(* it was the innermost, and it and the idle time account for the window;  *)
(* of the sparse core, every op that runs within a module, of modules that *)
(* run apart, is in the database of that module, and no other is; an op    *)
(* that ran once has the databases of the modules it offloaded to.         *)
ToTimesAreMeasured ==
  /\ toPhase = "done" /\ Nested(toEvents) =>
       /\ AddsUp(toDb.db)
       /\ toWindow # <<>> => toDb.db.total = toWindow[2] - toWindow[1]
       /\ \A k \in ToOps :
            LET runs == {i \in DOMAIN toEvents : toEvents[i].key = k} IN
            /\ MetricsOf(toDb.db, k).self = SelfOf(toEvents, k)
            /\ \A i \in runs : runs = {i} =>
                 toDb.children[k] = toEvents[i].offload \cap DOMAIN toChildren
  /\ toPhase # "sparse" /\ Nested(toSparse) /\ ToApart =>
       \A id \in {m.id : m \in toModules} :
         LET own == ToOpsOf(id) IN
         /\ id \in DOMAIN toChildren <=> own # <<>>
         /\ own # <<>> =>
              /\ AddsUp(toChildren[id])
              /\ \A k \in ToOps : MetricsOf(toChildren[id], k).self = SelfOf(own, k)
              /\ toChildren[id].total =
                   MapThenSumSet(LAMBDA m : m.end - m.begin, {m \in toModules : m.id = id})
=============================================================================
