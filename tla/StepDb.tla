------------------------------- MODULE StepDb -------------------------------
(***************************************************************************)
(* The step database of a host with GPUs or without a device               *)
(* (convert/xplane_to_step_events.cc, xplane_to_op_stats.cc and            *)
(* step_events_to_steps_db.cc).  Device planes are converted in parallel,  *)
(* a stream after the other; the host's threads count only where there is  *)
(* no device.  What the types of a step were charged is then cut to the    *)
(* window of its marker.                                                   *)
(***************************************************************************)
EXTENDS StepEvents

CONSTANTS
  SdTraces,   \* what may have been recorded: [threads, planes, drop]
  SdEnough    \* kDropIncomplteteStepThreshold

(* threads: of each thread its events, a sequence that begins with those   *)
(* that include others.  planes: of each device its streams, and the       *)
(* markers of its steps.  drop: maybe_drop_incomplete_steps.               *)

VARIABLES
  sdTrace,
  sdPhase,  \* "devices", "threads" or "done"
  sdPlanes, \* all_step_events, and how many streams each has converted
  sdThread, \* threads converted
  sdHost,   \* host_step_events
  sdSteps,  \* step_events
  sdDb,     \* step_sequence
  sdBits    \* the precision stats

sdVars == <<sdTrace, sdPhase, sdPlanes, sdThread, sdHost, sdSteps, sdDb, sdBits>>

SdInit ==
  /\ sdPhase = "devices"
  /\ sdPlanes = [p \in DOMAIN sdTrace.planes |-> [steps |-> <<>>, at |-> 0, marked |-> FALSE]]
  /\ sdThread = 0 /\ sdHost = <<>> /\ sdSteps = <<>> /\ sdDb = <<>>
  /\ sdBits = [b32 |-> 0, b16 |-> 0]

(* ConvertDeviceTraceXLineToStepEvents: kernels that a thread launched in  *)
(* a step.  A collective begins on the clock of the profile and ends on    *)
(* that of the stream.                                                     *)
SdStreamEvent(steps, e, core, base) ==
  LET added == AddEvent(steps, e.group, [type |-> e.type, begin |-> e.begin, end |-> e.end])
  IN CASE ~e.launched -> steps
       [] e.launched /\ e.type = DeviceCollectives ->
            AddCollectiveOpEvent(added, e.group, core, [begin |-> e.begin, end |-> e.end - base])
       [] e.launched /\ e.type \in Transfers ->
            AddDeviceMemoryTransferEvent(added, e.group, e.type, Duration(e))
       [] OTHER -> added

SdStream(p) ==
  /\ sdPhase = "devices"
  /\ LET plane == sdTrace.planes[p]
         n == sdPlanes[p].at + 1
         Turn(steps, e) == SdStreamEvent(steps, e, p, plane.base)
     IN /\ n <= Len(plane.streams)
        /\ sdPlanes' = [sdPlanes EXCEPT
             ![p].steps = UnionCombine(FoldLeft(Turn, <<>>, plane.streams[n]), @), ![p].at = n]
  /\ UNCHANGED <<sdTrace, sdPhase, sdThread, sdHost, sdSteps, sdDb, sdBits>>

(* ConvertDeviceStepInfoToStepMarkers. *)
SdMarkers(plane, core) ==
  FoldLeft(LAMBDA steps, m : AddMarker(steps, m.group,
             [device |-> TRUE, core |-> core, begin |-> m.begin, end |-> m.end]),
           <<>>, plane.markers)

(* The end of ConvertDeviceTraceXPlaneToStepEvents: without a marker there *)
(* is no step.                                                             *)
SdMark(p) ==
  /\ sdPhase = "devices" /\ sdPlanes[p].at = Len(sdTrace.planes[p].streams)
  /\ ~sdPlanes[p].marked
  /\ sdPlanes' = [sdPlanes EXCEPT
       ![p].steps = IF DOMAIN @ = {} THEN @
                    ELSE IntersectCombine(SdMarkers(sdTrace.planes[p], p), @),
       ![p].marked = TRUE]
  /\ UNCHANGED <<sdTrace, sdPhase, sdThread, sdHost, sdSteps, sdDb, sdBits>>

(* step_events_cleanup, when all planes are done. *)
SdJoin ==
  /\ sdPhase = "devices" /\ \A p \in DOMAIN sdPlanes : sdPlanes[p].marked
  /\ sdSteps' = FoldLeft(LAMBDA dst, plane : UnionCombine(plane.steps, dst), <<>>, sdPlanes)
  /\ sdPhase' = "threads"
  /\ UNCHANGED <<sdTrace, sdPlanes, sdThread, sdHost, sdDb, sdBits>>

(* async_input_pipeline_parents: whatever has been produced.               *)
SdProduced == {e.produces : e \in UNION {Range(sdTrace.threads[i]) : i \in DOMAIN sdTrace.threads}}

(* Wrong: every stage waits for input, also one that another waits for. *)
SdClassifyAnyStage(e, entry) ==
  CASE e.name = "MemcpyHToD" -> HostToDevice
    [] e.name = "MemcpyHToH" -> HostToHost
    [] e.name = "IteratorGetNext" \/ e.stage -> HostWaitInput
    [] OTHER -> HostCompute

(* ClassifyCpuEvent, of a host whose device is not looked at, and          *)
(* IsRootStage.                                                            *)
SdClassify(e, entry) ==
  CASE e.name = "MemcpyHToD" -> HostToDevice
    [] e.name = "MemcpyHToH" -> HostToHost
    [] e.name = "IteratorGetNext" \/ (entry.stage /\ ~entry.descendant) -> HostWaitInput
    [] OTHER -> HostCompute

(* ConvertHostThreadsXLineToStepEvents, of one event: every event is put   *)
(* on the stack of stages, above the last one that includes it.            *)
SdHostEvent(s, e) ==
  LET stack == SubSeq(s.stack, 1, SelectLastInSeq(s.stack, LAMBDA o : Within(o, e)))
      entry == [stage |-> e.stage, begin |-> e.begin, end |-> e.end,
                descendant |-> \/ e.consumes \in SdProduced
                               \/ stack # <<>> /\ (Last(stack).descendant \/ Last(stack).stage)]
      marker == [device |-> FALSE, core |-> 0, begin |-> e.begin, end |-> e.end]
  IN [stack |-> Append(stack, entry),
      steps |-> IF e.group < 0 THEN s.steps
                ELSE IF e.name = "TraceContext" \/ e.step THEN AddMarker(s.steps, e.group, marker)
                ELSE IF e.name = "EagerExecute" THEN s.steps
                ELSE AddEvent(s.steps, e.group,
                       [type |-> SdClassify(e, entry), begin |-> e.begin, end |-> e.end])]

SdThreadLine ==
  /\ sdPhase = "threads" /\ sdThread < Len(sdTrace.threads)
  /\ sdThread' = sdThread + 1
  /\ sdHost' = UnionCombine(FoldLeft(SdHostEvent, [stack |-> <<>>, steps |-> <<>>],
                                     sdTrace.threads[sdThread']).steps, sdHost)
  /\ UNCHANGED <<sdTrace, sdPhase, sdPlanes, sdSteps, sdDb, sdBits>>

SdHasDevice == DOMAIN sdTrace.planes # {}

SdTimeOf(spans, window, type) ==
  FoldLeft(LAMBDA t, s : IF s.type = type THEN t + Overlapped(window, s) ELSE t, 0, spans)

(* ConvertStepDetailsToStepInfo; details have been made non-overlapped.    *)
SdStepInfo(group, details) ==
  LET window == StepTime(details)
      types == {s.type : s \in Range(details.events)}
      charged == [t \in types |-> SdTimeOf(details.events, window, t)]
      rest == Max({0, Duration(window) - MapThenSumSet(LAMBDA t : charged[t], types)})
      wellFormed == IF SdHasDevice THEN types \cap {DeviceCompute16, DeviceCompute32} # {}
                    ELSE HostCompute \in types
  IN [num |-> group, begin |-> window.begin,
      duration |-> IF wellFormed THEN Duration(window) ELSE 0,
      types |-> IF rest = 0 THEN charged
                ELSE (0 :> rest + (IF 0 \in types THEN charged[0] ELSE 0)) @@ charged,
      collectives |-> details.collectives, transfers |-> details.transfers]

(* With enough steps the first and the last, which a profile may have cut, *)
(* are dropped.                                                            *)
SdKept(infos) ==
  IF sdTrace.drop /\ Len(infos) > SdEnough THEN SubSeq(infos, 2, Len(infos) - 1) ELSE infos

(* ConvertStepEventsToStepDb. *)
SdStepDb(steps) ==
  LET sorted == SetToSortSeq(DOMAIN steps, <)
      infos == [i \in DOMAIN sorted |-> SdStepInfo(sorted[i], steps[sorted[i]])]
  IN SdKept(SelectSeq(infos, LAMBDA s : s.duration # 0))

(* ComputePrecisionStats. *)
SdPrecision(steps, type) ==
  MapThenSumSet(LAMBDA g : FoldLeft(LAMBDA t, s : IF s.type = type THEN t + Duration(s) ELSE t, 0,
                                    steps[g].events),
                DOMAIN steps)

SdResult(steps) ==
  /\ sdDb' = SdStepDb(steps)
  /\ sdBits' = [b32 |-> SdPrecision(steps, DeviceCompute32),
                b16 |-> SdPrecision(steps, DeviceCompute16)]

SdFinish ==
  /\ sdPhase = "threads" /\ sdThread = Len(sdTrace.threads)
  /\ sdPhase' = "done"
  /\ sdSteps' = IF SdHasDevice THEN sdSteps ELSE UnionCombine(sdHost, sdSteps)
  /\ SdResult([g \in DOMAIN sdSteps' |-> [sdSteps'[g] EXCEPT !.events = EsNonOverlapped(@)]])
  /\ UNCHANGED <<sdTrace, sdPlanes, sdThread, sdHost>>

SdNext ==
  \/ \E p \in DOMAIN sdPlanes : SdStream(p) \/ SdMark(p)
  \/ SdJoin \/ SdThreadLine \/ SdFinish

SdSpec == sdTrace \in SdTraces /\ SdInit /\ [][SdNext]_sdVars
-----------------------------------------------------------------------------
SdTypeOK ==
  /\ sdPhase \in {"devices", "threads", "done"}
  /\ sdThread \in 0..Len(sdTrace.threads)
  /\ \A i \in DOMAIN sdDb : sdDb[i].duration > 0
  /\ sdBits.b32 \in Nat /\ sdBits.b16 \in Nat

(* What ran in a step, read from the trace: kernels launched in it, on a   *)
(* device that has marked it; or what the threads computed.  A stage waits *)
(* for input unless it is part of another: of one around it, or of one     *)
(* that it or what is around it was started by.                            *)
SdAncestors(line, i) == {j \in 1..i - 1 : Within(line[j], line[i])}
SdRoot(line, i) ==
  /\ line[i].stage
  /\ \A j \in SdAncestors(line, i) : ~line[j].stage
  /\ \A j \in SdAncestors(line, i) \cup {i} : line[j].consumes \notin SdProduced

SdThreadType(line, i) ==
  IF line[i].name \notin {"MemcpyHToD", "MemcpyHToH"} /\ SdRoot(line, i) THEN HostWaitInput
  ELSE IF line[i].name = "MemcpyHToD" THEN HostToDevice
  ELSE IF line[i].name = "MemcpyHToH" THEN HostToHost
  ELSE IF line[i].name = "IteratorGetNext" THEN HostWaitInput ELSE HostCompute

SdStreams == UNION {{p} \X DOMAIN sdTrace.planes[p].streams : p \in DOMAIN sdTrace.planes}
SdKernel(k) == sdTrace.planes[k[1][1]].streams[k[1][2]][k[2]]
SdKernels(group) ==
  {k \in UNION {{s} \X DOMAIN sdTrace.planes[s[1]].streams[s[2]] : s \in SdStreams} :
     /\ SdKernel(k).launched /\ SdKernel(k).group = group
     /\ \E m \in Range(sdTrace.planes[k[1][1]].markers) : m.group = group}

SdRan(group) ==
  IF SdHasDevice THEN {[type |-> e.type, begin |-> e.begin, end |-> e.end] :
                         e \in {SdKernel(k) : k \in SdKernels(group)}}
  ELSE UNION {LET line == sdTrace.threads[n] IN
              {[type |-> SdThreadType(line, i), begin |-> line[i].begin, end |-> line[i].end] :
                 i \in {i \in DOMAIN line :
                          /\ line[i].group = group /\ ~line[i].step
                          /\ line[i].name \notin {"TraceContext", "EagerExecute"}}} :
              n \in DOMAIN sdTrace.threads}

SdMarkersOf(group) ==
  IF SdHasDevice
  THEN UNION {{SpanOf(m) : m \in {m \in Range(sdTrace.planes[p].markers) : m.group = group}} :
              p \in {p \in DOMAIN sdTrace.planes : \E k \in SdKernels(group) : k[1][1] = p}}
  ELSE {SpanOf(e) : e \in {e \in UNION {Range(sdTrace.threads[n]) : n \in DOMAIN sdTrace.threads} :
                             e.group = group /\ (e.step \/ e.name = "TraceContext")}}

SdTypeAt(group, t) ==
  Max({e.type : e \in {e \in SdRan(group) : e.begin <= t /\ t < e.end}} \cup {0})

(* Steps in which something was computed, and of these the ones in which   *)
(* it was on top for a time; in between it depends on what ends together.  *)
SdComputing == IF SdHasDevice THEN {DeviceCompute16, DeviceCompute32} ELSE {HostCompute}
SdMarked(group) == \E m \in SdMarkersOf(group) : Duration(m) > 0
SdComputes(group) == SdMarked(group) /\ \E e \in SdRan(group) : e.type \in SdComputing
SdShows(group) ==
  LET ends == {e.end : e \in SdRan(group)} IN
  SdMarked(group) /\ \E t \in 0..Max(ends \cup {0}) : SdTypeAt(group, t) \in SdComputing

SdGroups ==
  {e.group : e \in UNION {Range(sdTrace.threads[n]) : n \in DOMAIN sdTrace.threads}}
    \cup {m.group : m \in UNION {Range(sdTrace.planes[p].markers) : p \in DOMAIN sdTrace.planes}}

(* Whichever device converts its streams first: the steps are those that   *)
(* were marked and in which something was computed, in their order, but    *)
(* for the first and the last where enough were sampled; every instant of  *)
(* the window of a step is charged to what had the highest priority then,  *)
(* so that the types add up to the time of the step; and every transfer    *)
(* counts, of whichever stream and device.                                 *)
SdStepsAddUp ==
  sdPhase = "done" =>
    LET Sorted(P(_)) == SetToSortSeq({g \in SdGroups : g >= 0 /\ P(g)}, <)
        complete == Sorted(SdShows)
        cut == sdTrace.drop /\ Len(complete) > SdEnough
        nums == [i \in DOMAIN sdDb |-> sdDb[i].num]
    IN /\ complete = Sorted(SdComputes) =>
            nums = IF cut THEN SubSeq(complete, 2, Len(complete) - 1) ELSE complete
       /\ Range(nums) \subseteq {g \in SdGroups : SdComputes(g)}
       /\ \A s \in Range(sdDb) :
            LET window == s.begin..s.begin + s.duration - 1 IN
            /\ [begin |-> s.begin, end |-> s.begin + s.duration] \in SdMarkersOf(s.num)
            /\ \A m \in SdMarkersOf(s.num) : Duration(m) <= s.duration
            /\ \A t \in DOMAIN s.types :
                 s.types[t] = Cardinality({x \in window : SdTypeAt(s.num, x) = t})
            /\ \A x \in window : SdTypeAt(s.num, x) \in DOMAIN s.types
            /\ \A t \in Transfers :
                 LET moved == {k \in SdKernels(s.num) : SdKernel(k).type = t} IN
                 /\ s.transfers[t].occurrence = Cardinality(moved)
                 /\ s.transfers[t].time =
                      MapThenSumSet(LAMBDA k : Duration(SdKernel(k)), moved)
=============================================================================
