------------------------------ MODULE TpuSteps ------------------------------
(***************************************************************************)
(* The step database of a host with TPUs (convert/xplane_to_step_events,   *)
(* xplane_to_op_stats, step_events_to_steps_db): the steps that all cores  *)
(* have, each with what every core spent on categories of ops.  Without    *)
(* infeed ops, the time in which the host waited for input in a step is    *)
(* then taken out of the idle time of its cores.                           *)
(***************************************************************************)
EXTENDS StepEvents, OpMetricsDb

CONSTANTS
  TsTraces  \* what may have been recorded: [cores, host]

(* cores: of each core its ops, [key, group, begin, end] in the order of   *)
(* an ancestor stack, where a key is a category and a symbol; its steps;   *)
(* its collectives, [group, id, begin, end]; and whether it is sparse.     *)
(* host: host_step_events, the events of each step.                        *)

VARIABLES
  tsTrace,
  tsPhase,    \* "cores", "steps", or "done"
  tsCores,    \* all_step_events, of the cores that have been converted
  tsSteps,    \* step_events
  tsDb,       \* step_sequence
  tsComplete, \* hlo_metrics_db_complete_steps_only
  tsFound     \* history: step_sequence before it was fixed

tsVars == <<tsTrace, tsPhase, tsCores, tsSteps, tsDb, tsComplete, tsFound>>

TsInit ==
  /\ tsPhase = "cores" /\ tsCores = <<>> /\ tsSteps = <<>> /\ tsDb = <<>> /\ tsFound = <<>>
  /\ tsComplete = EmptyDb

(* ConvertTpuDeviceTraceXLineToStepEvents: one stack for all groups, and a *)
(* builder for each; the group is a part of the key here.                  *)
TsOp(e) ==
  [key |-> <<e.group, e.key>>, begin |-> e.begin, end |-> e.end, children |-> 0, offload |-> {}]

TsBuilt(ops) == FlushOps(FoldLeft(LAMBDA b, e : PushOp(b, TsOp(e)), Builder, ops)).ops

TsMetrics(built, group) ==
  LET keys == {k \in DOMAIN built : k[1] = group} IN
  [ops |-> [k \in {k[2] : k \in keys} |-> built[<<group, k>>]], total |-> 0,
   opTime |-> FoldSet(LAMBDA k, t : Plus(built[k].self, t), 0, keys)]

(* ConvertDeviceTraceXPlaneToStepEvents. *)
TsStepEvents(c) ==
  LET core == tsTrace.cores[c]
      built == TsBuilt(core.ops)
      reduced == FoldLeft(LAMBDA s, r : AddCollectiveOpEvent(s, r.group, c, r), <<>>, core.reduces)
      steps == [g \in {k[1] : k \in DOMAIN built} \cup DOMAIN reduced |->
                  [DetailsOf(reduced, g) EXCEPT !.metrics = (c :> TsMetrics(built, g))]]
      markers == FoldLeft(LAMBDA s, m : AddMarker(s, m.group,
                            [device |-> TRUE, core |-> c, begin |-> m.begin, end |-> m.end]),
                          <<>>, core.steps)
  IN IF DOMAIN steps = {} THEN steps ELSE IntersectCombine(markers, steps)

TsConvert(c) ==
  /\ tsPhase = "cores" /\ c \notin DOMAIN tsCores
  /\ tsCores' = (c :> TsStepEvents(c)) @@ tsCores
  /\ UNCHANGED <<tsTrace, tsPhase, tsSteps, tsDb, tsComplete, tsFound>>

(* StepEventsToPerCoreStepInfo.  A step without markers is empty, and a    *)
(* step all the same.                                                      *)
TsCoreInfo(details, c) ==
  LET window == IF tsTrace.cores[c].sparse THEN StepTimeOnCore(details, c) ELSE StepTime(details)
      db == AddIdleOp(SetTotalTimePs(details.metrics[c], Duration(window)))
      Category(k) == IF k = OmIdle THEN OmIdle ELSE k[1]
  IN [duration |-> Duration(window), db |-> db,
      time |-> [cat \in {Category(k) : k \in DOMAIN db.ops} |->
                  MapThenSumSet(LAMBDA k : db.ops[k].self,
                                {k \in DOMAIN db.ops : Category(k) = cat})]]

TsStepInfo(group, details) ==
  LET empty == Duration(StepTime(details)) = 0 IN
  [num |-> group,
   cores |-> [c \in (IF empty THEN {} ELSE DOMAIN details.metrics) |-> TsCoreInfo(details, c)],
   reduces |-> IF empty THEN <<>> ELSE details.collectives]

TsTensor(info) == {c \in DOMAIN info.cores : ~tsTrace.cores[c].sparse}

(* Wrong: the steps of any core count. *)
TsAnyCore(cores) == FoldLeft(LAMBDA dst, src : UnionCombine(src, dst), <<>>, cores)

(* step_events_cleanup: a core without steps is passed over. *)
TsAllCores(cores) ==
  FoldLeft(LAMBDA dst, src : IF DOMAIN src = {} THEN dst ELSE IntersectCombine(src, dst),
           <<>>, cores)

TsJoin ==
  /\ tsPhase = "cores" /\ DOMAIN tsCores = DOMAIN tsTrace.cores
  /\ tsPhase' = "steps"
  /\ tsSteps' = TsAllCores([c \in DOMAIN tsTrace.cores |-> tsCores[c]])
  /\ LET sorted == SetToSortSeq(DOMAIN tsSteps', <)
         infos == [i \in DOMAIN sorted |-> TsStepInfo(sorted[i], tsSteps'[sorted[i]])]
         Hlo(db, info) == FoldSet(LAMBDA c, d : Combine(info.cores[c].db, d), db, TsTensor(info))
     IN tsDb' = infos /\ tsFound' = tsDb' /\ tsComplete' = FoldLeft(Hlo, EmptyDb, tsDb')
  /\ UNCHANGED <<tsTrace, tsCores>>

TimeOf(core, cat) == IF cat \in DOMAIN core.time THEN core.time[cat] ELSE 0

(* ConvertGenericStepBreakdownToTpuStepBreakdown: idle is what is left.    *)
TsIdle(core) ==
  core.duration - MapThenSumSet(LAMBDA cat : core.time[cat], DOMAIN core.time \ {OmIdle})

TsWaits(core) == TimeOf(core, "infeed") + TimeOf(core, "outfeed") + TimeOf(core, "hostTransfer")
                   + TsIdle(core)

(* ComputePerStepAllReduceBreakdownAcrossCores: the shortest of the        *)
(* collectives of an id is the time that it takes, the rest is waiting.    *)
TsReduced(info, c) ==
  LET all == UNION {Range(info.reduces[d]) : d \in DOMAIN info.reduces}
      Shortest(id) == Min({Duration(r) : r \in {r \in all : r.id = id}})
      own == IF c \in DOMAIN info.reduces THEN info.reduces[c] ELSE <<>>
  IN [compute |-> FoldLeft(LAMBDA t, r : t + Shortest(r.id), 0, own),
      sync |-> FoldLeft(LAMBDA t, r : t + Duration(r) - Shortest(r.id), 0, own)]

(* ComputeTpuPerStepDataAcrossCores, of the tensor cores.  The outfeed is  *)
(* the average.  What is idle is computed before the all-reduce is known,  *)
(* and does not leave it out.                                              *)
TsStepData(info) ==
  LET tensor == TsTensor(info)
      Most(F(_)) == Max({F(c) : c \in tensor} \cup {0})
      Least(F(_)) == IF tensor = {} THEN 0 ELSE Min({F(c) : c \in tensor})
      infeed == Most(LAMBDA c : TimeOf(info.cores[c], "infeed"))
      compute == Least(LAMBDA c : info.cores[c].duration - TsWaits(info.cores[c]))
      outfeed == IF tensor = {} THEN 0
                 ELSE MapThenSumSet(LAMBDA c : TimeOf(info.cores[c], "outfeed"), tensor)
                        \div Cardinality(tensor)
  IN [compute |-> compute, infeed |-> infeed, outfeed |-> outfeed,
      reduce |-> Most(LAMBDA c : TsReduced(info, c).compute + TsReduced(info, c).sync),
      idle |-> Max({0, Least(LAMBDA c : info.cores[c].duration) - compute - infeed - outfeed})]

(* TotalInputPs. *)
TsInput(events) ==
  FoldLeft(LAMBDA t, e : IF e.type \in {HostWaitInput, HostToDevice} THEN t + Duration(e) ELSE t,
           0, events)

(* Of the idle time of a core, the share of the input in that of the step. *)
TsInfeedShare(idle, input, stepIdle) ==
  IF stepIdle = 0 THEN 0 ELSE IF input >= stepIdle THEN idle ELSE (idle * input) \div stepIdle

TsFixed(info, input) ==
  LET stepIdle == TsStepData(info).idle
      Fix(core) ==
        LET idle == TimeOf(core, OmIdle)
            share == TsInfeedShare(idle, input, stepIdle)
        IN IF idle = 0 THEN core
           ELSE [core EXCEPT !.time = ("infeed" :> share) @@ (OmIdle :> idle - share) @@ @]
  IN [info EXCEPT !.cores = [c \in DOMAIN @ |-> IF c \in TsTensor(info) THEN Fix(@[c]) ELSE @[c]]]

(* HasTpuInfeedOp, in the database of all tensor cores. *)
TsHasInfeed ==
  \E c \in DOMAIN tsTrace.cores :
    ~tsTrace.cores[c].sparse /\ \E e \in Range(tsTrace.cores[c].ops) : e.key[1] = "infeed"

(* MayFixTpuStepAnalysis. *)
TsFix ==
  /\ tsPhase = "steps" /\ tsPhase' = "done"
  /\ LET Input(info) == IF info.num \in DOMAIN tsTrace.host THEN TsInput(tsTrace.host[info.num]) ELSE 0
     IN tsDb' = IF TsHasInfeed THEN tsDb
                ELSE [i \in DOMAIN tsDb |-> IF Input(tsDb[i]) = 0 THEN tsDb[i]
                                            ELSE TsFixed(tsDb[i], Input(tsDb[i]))]
  /\ UNCHANGED <<tsTrace, tsCores, tsSteps, tsComplete, tsFound>>

TsNext == (\E c \in DOMAIN tsTrace.cores : TsConvert(c)) \/ TsJoin \/ TsFix

TsSpec == tsTrace \in TsTraces /\ TsInit /\ [][TsNext]_tsVars
-----------------------------------------------------------------------------
TsTypeOK ==
  /\ tsPhase \in {"cores", "steps", "done"}
  /\ DOMAIN tsCores \subseteq DOMAIN tsTrace.cores
  /\ \A i \in DOMAIN tsDb : \A c \in DOMAIN tsDb[i].cores :
       tsDb[i].cores[c].duration \in Nat

(* The steps that a core has, and whether cores share one.                 *)
TsStepsOf(c) ==
  LET core == tsTrace.cores[c] IN
  {e.group : e \in Range(core.ops) \cup Range(core.reduces)} \cap {m.group : m \in Range(core.steps)}
TsWith == {c \in DOMAIN tsTrace.cores : TsStepsOf(c) # {}}
TsCommon == IF TsWith = {} THEN {}
            ELSE {g \in UNION {TsStepsOf(c) : c \in TsWith} : \A c \in TsWith : g \in TsStepsOf(c)}

TsSelf(c, group, cat) ==
  LET ops == tsTrace.cores[c].ops IN
  MapThenSumSet(LAMBDA i : Cardinality(Innermost(ops, i)),
                {i \in DOMAIN ops : ops[i].group = group /\ ops[i].key[1] = cat})

TsLongest(group) ==
  Max({Duration(m) : m \in {m \in UNION {Range(tsTrace.cores[c].steps) : c \in TsWith} :
                              m.group = group}})

TsHostWaits(group) ==
  IF group \notin DOMAIN tsTrace.host THEN 0
  ELSE LET line == tsTrace.host[group] IN
       Cardinality(UNION {{i} \X (line[i].begin..line[i].end - 1) :
                            i \in {i \in DOMAIN line : line[i].type # HostCompute}})

(* Whichever core is converted first, and if they have a step in common:   *)
(* the steps are those of all cores that have any.  Every core accounts    *)
(* for its time in each, by the ops that were the innermost and belong to  *)
(* the step, and by idle time; taking the input out of it loses none, and  *)
(* where a step ran on one core, without host transfers, which are idle to *)
(* the step as a whole, it takes as much as the host waited for, and no    *)
(* more than the core was idle.                                            *)
TsStepsAddUp ==
  /\ tsPhase # "cores" /\ TsCommon # {} =>
       /\ {info.num : info \in Range(tsDb)} = TsCommon
       /\ \A i \in DOMAIN tsDb : i > 1 => tsDb[i - 1].num < tsDb[i].num
       /\ \A i \in DOMAIN tsFound : TsLongest(tsFound[i].num) > 0 =>
            LET info == tsFound[i] IN
            /\ DOMAIN info.cores = TsWith
            /\ \A c \in TsTensor(info) : info.cores[c].duration = TsLongest(info.num)
            /\ \A c \in DOMAIN info.cores : \A cat \in DOMAIN info.cores[c].time \ {OmIdle} :
                 info.cores[c].time[cat] = TsSelf(c, info.num, cat)
  /\ \A i \in DOMAIN tsDb : \A c \in DOMAIN tsDb[i].cores :
       LET core == tsDb[i].cores[c]
           before == tsFound[i].cores[c]
       IN /\ AddsUp(before.db)
          /\ MapThenSumSet(LAMBDA cat : core.time[cat], DOMAIN core.time) = core.duration
          /\ TsIdle(core) = core.time[OmIdle]
          /\ TsIdle(core) >= 0
          /\ TsIdle(core) + TimeOf(core, "infeed") = TsIdle(before) + TimeOf(before, "infeed")
  /\ \A i \in DOMAIN tsDb :
       LET info == tsDb[i]
       IN /\ \A c, d \in DOMAIN info.reduces :
               DOMAIN info.reduces[c] = DOMAIN info.reduces[d]
                 /\ (\A k \in DOMAIN info.reduces[c] : info.reduces[c][k].id = info.reduces[d][k].id)
                 => TsReduced(info, c).compute = TsReduced(info, d).compute
          /\ \A c \in TsTensor(info) :
               tsPhase = "done" /\ ~TsHasInfeed /\ TsTensor(info) = {c}
                 /\ TimeOf(info.cores[c], "hostTransfer") = 0 =>
                 TimeOf(info.cores[c], "infeed") = Min({TsHostWaits(info.num), TsIdle(tsFound[i].cores[c])})
=============================================================================
