------------------------------ MODULE MCTools -------------------------------
(***************************************************************************)
(* The tools beside the OpStats cache.  No two of these modules share a    *)
(* variable, so any interleaving of them is one of each of them: part says *)
(* whose steps a behaviour takes, and the state spaces add up instead of   *)
(* multiplying.                                                            *)
(***************************************************************************)
EXTENDS DcnStats, TraceTables, SmartSuggestions, ThreadSafeLazy, MCTraceViewerClient,
        StepIntersection, EventSpans, DerivedLine, TraceLayers, ChunkWriter, DutyCycle,
        DcnBursts, DcnSlack, MemoryProfile, HeapSimulator, HostOpMetrics, DeviceOpMetrics,
        TpuOpMetrics, FlameChart, InferenceHost, InferenceStats, InputPipeline

CONSTANTS h1, h2, q1, q2, noHost, allHosts, t1, t2, t3, nobody, rowA, rowB, rowC,
          modM, modN, nameA, nameB, collA, collB, collC, bufA, bufB, bufC, bufD, noBuffer,
          opF, opG, opT, idleOp, noOp, progP, progQ, noGroup, noValue

VARIABLE part

(* SmartSuggestions: around each threshold, alone and together. *)
MCProfiles ==
  {[barrier |-> b, collective |-> 3 * b, mxu |-> m, hbm |-> h, shuffle |-> 3 * b,
    input |-> i, enqueue |-> e[1], nonEnqueue |-> e[2], debug |-> b \div 2, idle |-> i,
    tpu |-> t] :
     b \in {0, 10}, m \in {0, 50, 71}, h \in {0, 50, 71}, i \in {10, 11}, t \in BOOLEAN,
     e \in {<<0, 0>>, <<2, 8>>, <<3, 7>>, <<5, 5>>}}

(* StepIntersection: any spans on a small grid, for the indices, and       *)
(* windows of one run of steps with skewed clocks, for the alignment.      *)
Grid(n) == {<<a, b>> \in (0..n) \X (0..n) : a < b} \cup {<<0, 0>>}
InOrder(s) ==
  \A i, j \in DOMAIN s : i < j /\ s[i] # <<0, 0>> /\ s[j] # <<0, 0>> => s[i][2] <= s[j][1]
SpansOver(n, len) == {s \in UNION {[1..k -> Grid(n)] : k \in 0..len} : InOrder(s)}
AnyInputs(hosts, n, len) ==
  [steps : [hosts -> SpansOver(n, len)], first : {<<>>}, same : {FALSE}]

Window(w, skew) ==
  [i \in 1..w[2] |-> <<10 * (w[1] + i) + skew, 10 * (w[1] + i) + 9 + skew>>]
Windows == {1, 2, 3, 5} \X (1..3)
Meet(ws) ==
  \A v, w \in Range(ws) : v[1] <= w[1] + w[2] - 1 /\ w[1] <= v[1] + v[2] - 1
RunInputs ==
  {[steps |-> [h \in 1..3 |-> Window(ws[h], skew[h])],
    first |-> [h \in 1..3 |-> ws[h][1]], same |-> Meet(ws)] :
     ws \in [1..3 -> Windows], skew \in {<<0, 0, 0>>, <<3, 0, 0>>, <<0, 3, 0>>, <<0, 3, 3>>}}
MCInputs == AnyInputs({1, 2}, 3, 3) \cup AnyInputs({1, 2, 3}, 2, 2) \cup RunInputs

(* EventSpans: all events of three types on a grid of four times. *)
MCEvents == {e \in [type : EsTypes, begin : 0..3, end : 0..3] : e.begin < e.end}

(* DerivedLine *)
MCPaths == {<<nameA, nameB>>, <<nameA, nameA, nameA>>}
Tag(m, g, s) == [module |-> m, group |-> g, scope |-> s]
MCTags == {Tag(modM, 0, 1), Tag(modM, 0, 2), Tag(modN, 0, 0),
           Tag(modN, 1, 0)}

(* TraceLayers: three levels; one flow on two rows, a row of counters. *)
MCResolution == <<4, 2>>
Kind(r, w, l, f, last) == [row |-> r, wait |-> w, len |-> l, flow |-> f, last |-> last]
MCKinds ==
  {Kind(rowA, w, l, 0, FALSE) : w \in {0, 1, 3}, l \in {0, 1, 5}}
    \cup {Kind(rowA, 1, l, 1, x) : l \in {1, 3}, x \in BOOLEAN}
    \cup {Kind(rowB, 1, 1, 1, x) : x \in BOOLEAN}
    \cup {Kind(rowC, 1, 0, 0, FALSE)}

(* DutyCycle: all spans that are not empty, and one that is. *)
MCSpans == {s \in (0..DcEnd) \X (0..DcEnd) : s[1] < s[2]} \cup {<<2, 2>>}

(* DcnBursts: three collectives of one core, and one of another. *)
MCKeys == {<<1, collA>>, <<1, collB>>, <<1, collC>>, <<2, collA>>}

(* DcnSlack: two whole occurrences of a collective, which may have been    *)
(* under way before the trace, and one of another.                         *)
MCMaxOps == (collA :> 7) @@ (collB :> 3)
MCTimes == {<<<<1, 1>>, <<0, 2>>, <<2, 1>>>>}

(* MemoryProfile *)
MCSizes == <<{2}, {1}>>

(* HeapSimulator: the last buffer is of another allocation. *)
MCBufferSize == (bufA :> 3) @@ (bufB :> 2) @@ (bufC :> 2) @@ (bufD :> 1)
MCAllocation == (bufA :> 1) @@ (bufB :> 1) @@ (bufC :> 1) @@ (bufD :> 2)
MCIndefinite == <<[size |-> 3, buffers |-> {1, 2}], [size |-> 1, buffers |-> {1}]>>

(* HostOpMetrics: an event is an op of the infeed, alone or in another.  The*)
(* databases of GPUs and TPUs use the same keys.                           *)
MCHostKinds == {<<opG>>, <<opF, opG>>}

(* DeviceOpMetrics: ops of one name in two programs, with and without a    *)
(* group, and events that are not of an HLO op.                            *)
Kernel(type, op, group) == [type |-> type, op |-> op, group |-> group]
MCKernels ==
  {Kernel("xla", <<progP, opF>>, g) : g \in {1, noGroup}}
    \cup {Kernel("xla", <<progQ, opF>>, g) : g \in {0, 1}}
    \cup {Kernel("xla", <<progQ, opG>>, noGroup), Kernel("tf", <<noValue, opT>>, noGroup),
          Kernel("other", <<noValue, opG>>, noGroup), Kernel("unknown", <<progP, opF>>, 1)}
MCKernelOps == {k.op : k \in MCKernels}
MCFlops == [op \in MCKernelOps |-> IF op[2] = opF THEN 3 ELSE 1]
MCTfOp == [op \in MCKernelOps |-> IF op[2] = opF THEN opT ELSE op[2]]

(* TpuOpMetrics: two modules of the sparse core, or one. *)
Module(id, begin, end) == [id |-> id, begin |-> begin, end |-> end]
MCModuleSets == {{Module(1, 0, 1), Module(2, 2, 3)}, {Module(1, 0, 3)}}
MCTpuSteps == {<<0, 3>>}

(* FlameChart: a process of named threads, one that is shown by names of   *)
(* its asynchronous events, and one whose thread puts it first.            *)
MCProcesses ==
  (1 :> [name |-> 1, index |-> 0, priority |-> 0])
    @@ (2 :> [name |-> noValue, index |-> 0, priority |-> 0])
Thread(name, index, priority, modules) ==
  [name |-> name, index |-> index, priority |-> priority, modules |-> modules]
MCThreads ==
  (<<1, 1>> :> Thread(2, noValue, 0, FALSE)) @@ (<<1, 2>> :> Thread(1, noValue, 0, TRUE))
    @@ (<<3, 1>> :> Thread(1, 4, 2, FALSE))
Event(thread, name, async, ts, dur) ==
  [thread |-> thread, name |-> name, async |-> async, ts |-> ts, dur |-> dur]
MCChartKinds ==
  {Event(<<1, 1>>, 1, FALSE, s[1], s[2]) : s \in {<<0, 3>>, <<1, 0>>, <<1, 2>>, <<2, 1>>}}
    \cup {Event(<<2, 1>>, 1, TRUE, 0, 3), Event(<<2, 2>>, 1, TRUE, 0, 2),
          Event(<<2, 2>>, 2, TRUE, 1, 1), Event(<<2, 1>>, 1, FALSE, 1, 1), Event(<<3, 1>>, 1, FALSE, 0, 1)}
MCMarks == {[id |-> 1, thread |-> m[1], ts |-> m[2]] :
              m \in {<<<<1, 1>>, 1>>, <<<<2, 1>>, 1>>, <<<<1, 3>>, 0>>}}
MCCounters == {<<1, 1>>}

(* InferenceHost *)
HostEvent(type, group, begin, end, arg) ==
  [type |-> type, group |-> group, begin |-> begin, end |-> end, root |-> FALSE, arg |-> arg]
Trace(events, modules, links) == [events |-> events, modules |-> modules, links |-> links]
DeviceModule(group, begin, end) == [group |-> group, begin |-> begin, end |-> end]

(* Two requests and two batches, of which the second may run first, split  *)
(* and joined in every way.                                                *)
BatchedTrace(links, models, first, run) ==
  Trace(<<HostEvent(run, 1, 2, 4, modM), HostEvent(run, 2, 1, 3, noValue),
          HostEvent("ScheduleWithSplit", 1, 2, 3, 1), HostEvent("ASBSQueueSchedule", 2, 2, 3, 2),
          HostEvent("SessionRun", 11, first, first + 3, models[1]),
          HostEvent("SessionRun", 12, 5, 7, models[2]),
          HostEvent("ProcessBatch", 11, first, first + 3, noValue),
          HostEvent("OrbaxProcessBatch", 12, 5, 7, noValue),
          HostEvent("ConcatInputTensors", 11, first, first + 1, <<1, 4>>),
          HostEvent("Linearize", 11, first, first + 1, 1),
          HostEvent("Linearize", 12, 5, 6, 1), HostEvent("Delinearize", 1, 3, 4, 2)>>,
        {DeviceModule(11, first + 1, first + 3), DeviceModule(12, 6, 8)}, links)

(* A request of its own, that launches once or twice and reads the result, *)
(* and a root the user defined over a batch.                               *)
ServedTrace(run, launches, callback, model) ==
  Trace(<<HostEvent(run, 1, 1, 9, modM), HostEvent("TpuSystemExecute", 1, 2, 3, noValue),
          HostEvent("DoEnqueueProgram", 1, 3, 4, noValue)>>
        \o (IF launches = 1 THEN <<>>
            ELSE <<HostEvent("TpuSystemExecute", 1, 5, 6, noValue),
                   HostEvent("DoEnqueueProgram", 1, 6, 7, noValue)>>)
        \o <<HostEvent("TransferToDeviceIssueEvent", 1, 1, 2, 7),
             HostEvent("TransferToDeviceDone", 1, 3, 4, 7), HostEvent("ReadHbm", 1, 5, 8, noValue)>>
        \o (IF callback THEN <<HostEvent("CompleteCallbacks", 1, 8, 9, noValue)>> ELSE <<>>)
        \o <<[HostEvent("Unknown", 3, 2, 6, model) EXCEPT !.root = TRUE],
             HostEvent(run, 11, 3, 5, modN), HostEvent("SessionRun", 12, 3, 5, modM),
             HostEvent("ProcessBatch", 11, 3, 5, noValue), HostEvent("ProcessBatch", 12, 3, 5, noValue)>>,
        {DeviceModule(1, 3, 5), DeviceModule(1, 4, 6), DeviceModule(12, 4, 6)}, {<<3, 11>>, <<3, 12>>})

ATrace == ServedTrace("SessionRun", 1, FALSE, modM)
MCTraces ==
  {BatchedTrace(links, models, first, "BatchingSessionRun") :
     links \in SUBSET ({1, 2} \X {11, 12}), first \in {3, 6},
     models \in {<<modM, modM>>, <<modM, modN>>, <<noValue, modN>>}}
  \cup {ServedTrace(run, launches, callback, model) :
          run \in {"SessionRun", "TfrtModelRun"}, launches \in {1, 2}, callback \in BOOLEAN,
          model \in {modM, noValue}}

(* InferenceStats *)
Request(host, id, model, time, tensors, batches) ==
  [host |-> host, id |-> id, model |-> model, time |-> time, size |-> 4 - time,
   tensors |-> tensors, batches |-> batches]
Batch(host, id, model, time, size, tensor) ==
  [host |-> host, id |-> id, model |-> model, time |-> time, size |-> size, tensor |-> tensor]

(* Lists of one model to merge. *)
TimedHost(h, times) ==
  [ids |-> <<modM>>, patterns |-> <<>>,
   requests |-> [i \in DOMAIN times |-> Request(h, i, 0, times[i], <<>>, <<>>)],
   batches |-> <<>>]

(* Models and patterns to combine; each model has a request and a batch,   *)
(* with the same ids on every host.                                        *)
NamedHost(h, ids, patterns) ==
  LET models == IF ids = <<>> THEN <<-1>> ELSE [i \in 1..Len(ids) + 1 |-> i - 2]
      Tensors(i, owner) ==
        IF patterns = <<>> \/ i = 1 THEN <<>>
        ELSE <<[pattern |-> Len(patterns) - 1, owner |-> owner]>>
  IN [ids |-> ids, patterns |-> patterns,
      requests |-> [i \in DOMAIN models |->
                     Request(h, i, models[i], i, Tensors(i, "request") \o Tensors(i, "batch"), <<i, 9>>)],
      batches |-> [i \in DOMAIN models |-> Batch(h, i, models[i], i, h, Tensors(i, "batch"))]]

BatchedHost(h, n) ==
  [ids |-> <<>>, patterns |-> <<>>, requests |-> <<>>,
   batches |-> [i \in 1..n |-> Batch(h, i, 0, i, 1, <<>>)]]

MCTimedLists == {<<>>, <<1>>, <<1, 3>>, <<2, 2>>, <<3, 3>>}
MCIds == {<<>>, <<modM>>, <<modM, modN>>, <<modN, modM>>}
MCPatterns == {<<>>, <<1>>, <<2, 1>>}
TwoBatches == [h \in 1..2 |-> BatchedHost(h, 1)]
MCStats ==
  {[h \in 1..3 |-> TimedHost(h, times[h])] : times \in [1..3 -> MCTimedLists]}
  \cup {[h \in 1..4 |-> TimedHost(h, times[h])] : times \in [1..4 -> {<<1>>, <<2, 3>>, <<3>>}]}
  \cup {[h \in 1..2 |-> NamedHost(h, ids[h], patterns[h])] :
          ids \in [1..2 -> MCIds], patterns \in [1..2 -> MCPatterns]}
  \cup {[h \in 1..2 |-> BatchedHost(h, n)] : n \in 1..5}
MCWanted == <<<<50, 20>>, <<75, 25>>>>

(* StepDb: threads of nested and linked stages, *)
ThreadEvent(name, begin, end, group, stage) ==
  [name |-> name, begin |-> begin, end |-> end, group |-> group, stage |-> stage,
   step |-> FALSE, produces |-> 0, consumes |-> -1]
StepMark(group, begin, end) == ThreadEvent("TraceContext", begin, end, group, FALSE)
ThreadSpans == {<<1, 2>>, <<1, 4>>, <<2, 3>>, <<2, 6>>}
NestedPairs == {p \in ThreadSpans \X ThreadSpans :
                  p[1][1] <= p[2][1] /\ (p[2][1] >= p[1][2] \/ p[2][2] <= p[1][2])}
ThreadKinds == {<<"op", FALSE>>, <<"op", TRUE>>, <<"IteratorGetNext", FALSE>>, <<"MemcpyHToD", TRUE>>}
Linked(e, produces, consumes) == [e EXCEPT !.produces = produces, !.consumes = consumes]
HostTraces ==
  {[threads |-> <<<<StepMark(1, 0, 5), Linked(ThreadEvent(k[1][1], p[1][1], p[1][2], 1, k[1][2]), 7, -1),
                    ThreadEvent(k[2][1], p[2][1], p[2][2], 1, k[2][2]),
                    [ThreadEvent("FunctionRun", 6, 9, 2, FALSE) EXCEPT !.step = TRUE],
                    ThreadEvent("op", 7, 8, 2, FALSE)>>,
                  <<ThreadEvent("EagerExecute", 0, 9, 1, FALSE),
                    Linked(ThreadEvent(k3[1], q[1], q[2], 1, k3[2]), 0, c),
                    ThreadEvent("op", q[1], q[1] + 1, 1, TRUE)>>>>,
    planes |-> <<>>, drop |-> FALSE] :
   k \in [1..2 -> ThreadKinds], k3 \in {<<"op", TRUE>>, <<"IteratorGetNext", FALSE>>},
   p \in NestedPairs, q \in {<<1, 4>>, <<3, 7>>}, c \in {-1, 7}}
StreamEvent(type, begin, end, group) ==
  [type |-> type, begin |-> begin, end |-> end, group |-> group, launched |-> TRUE]
StreamTypes == {HostToDevice, DeviceCollectives, DeviceCompute32}
Plane(streams, markers) == [streams |-> streams, markers |-> markers, base |-> 0]
Mark(group, begin, end) == [group |-> group, begin |-> begin, end |-> end]
DeviceTraces ==
  {[threads |-> <<<<StepMark(1, 0, 9), ThreadEvent("op", 1, 2, 1, FALSE)>>>>,
    planes |-> <<Plane(<<<<StreamEvent(t[1], 1, 3, 1), StreamEvent(t[2], 4, 6, 2)>>,
                         <<StreamEvent(t[3], 2, 5, 1)>>>>, marks),
                 Plane(<<<<StreamEvent(t4, 2, 4, 1),
                           [StreamEvent(DeviceCompute32, 0, 9, 1) EXCEPT !.launched = FALSE]>>>>,
                       <<Mark(1, 2, end), Mark(3, 5, 6)>>)>>,
    drop |-> FALSE] :
   t \in [1..3 -> StreamTypes], t4 \in {DeviceToHost, DeviceCompute16},
   end \in {4, 8}, marks \in {<<Mark(1, 1, 5), Mark(2, 4, 6)>>, <<Mark(1, 1, 3)>>, <<Mark(2, 5, 6)>>, <<>>}}
ManyTraces ==
  {[threads |-> <<>>, drop |-> drop,
    planes |-> <<Plane(<<[i \in 1..n |-> StreamEvent(DeviceCompute16, 2 * i, 2 * i + 1, i)]>>,
                       [i \in 1..n |-> Mark(i, 2 * i, 2 * i + 2)])>>] :
   n \in 4..7, drop \in BOOLEAN}
NothingRecorded == [threads |-> <<>>, planes |-> <<>>, drop |-> FALSE]
MCSdTraces == HostTraces \cup DeviceTraces \cup ManyTraces

(* TpuSteps *)
Key(cat) == <<cat, 1>>
CoreOp(cat, group, begin, end) == [key |-> Key(cat), group |-> group, begin |-> begin, end |-> end]
CoreStep(group, begin, end) == [group |-> group, begin |-> begin, end |-> end]
Reduce(group, id, begin, end) == [group |-> group, id |-> id, begin |-> begin, end |-> end]
Core(ops, steps, reduces) == [ops |-> ops, steps |-> steps, reduces |-> reduces, sparse |-> FALSE]
Waiting(type, begin, end) == [type |-> type, begin |-> begin, end |-> end]
Cats == {"infeed", "outfeed", "hostTransfer", "compute"}
OpLines(cats, ends) ==
  {<<CoreOp(k[1], 1, 1, end), CoreOp(k[2], 1, 2, 3), CoreOp(k[3], 2, 5, 7)>> :
     k \in [1..3 -> cats], end \in ends}
Hosts == {(1 :> <<Waiting(HostWaitInput, 0, n), Waiting(HostCompute, 1, 2)>>)
            @@ (2 :> <<Waiting(HostToDevice, 0, 1)>>) : n \in {0, 2, 9}}
OneCore ==
  {[cores |-> <<Core(ops, steps, reduces)>>, host |-> host] :
     ops \in OpLines(Cats, {2, 4}), host \in Hosts,
     steps \in {<<CoreStep(1, 0, 5), CoreStep(2, 5, 9)>>, <<CoreStep(2, 5, 8)>>,
                <<CoreStep(1, 0, 0), CoreStep(2, 5, 7)>>},
     reduces \in {<<>>, <<Reduce(1, 1, 1, 2)>>}}
TwoCores ==
  {[cores |-> <<Core(ops1, <<CoreStep(1, 0, 5), CoreStep(2, 5, 9)>>, <<Reduce(1, 1, 1, 3)>>),
                [Core(ops2, steps, <<Reduce(1, 1, a, 2), Reduce(2, 2, 5, 6)>>)
                   EXCEPT !.sparse = sparse]>>, host |-> host] :
     ops1 \in OpLines({"compute", "outfeed"}, {4}), ops2 \in OpLines({"compute", "infeed"}, {4}),
     a \in {0, 1}, sparse \in BOOLEAN, host \in Hosts,
     steps \in {<<CoreStep(1, 0, 6), CoreStep(2, 6, 8)>>, <<CoreStep(1, 1, 4)>>}}
Threes ==
  {[cores |-> [c \in 1..3 |->
                 LET gs == SetToSortSeq(groups[c], <) IN
                 Core([i \in DOMAIN gs |-> CoreOp("compute", gs[i], 3 * gs[i], 3 * gs[i] + 2)],
                      <<CoreStep(1, 3, 6), CoreStep(2, 6, 9), CoreStep(3, 9, 12)>>, <<>>)],
    host |-> <<>>] : groups \in [1..3 -> SUBSET {1, 2, 3}]}
NoCores == [cores |-> <<>>, host |-> <<>>]
MCTsTraces == OneCore \cup TwoCores \cup Threes

(* InputPipeline: what the host spent, with and without ops of its infeed. *)
Spent(enqueue, demanded, advanced, preprocessing, unknown, infeed, span) ==
  [enqueue |-> enqueue, demanded |-> demanded, advanced |-> advanced,
   preprocessing |-> preprocessing, unknown |-> unknown, infeed |-> infeed, infeedSpan |-> span]
MCHostOps == {Spent(0, 0, 0, 0, 0, 0, 0), Spent(4, 1, 2, 3, 0, 1, 4), Spent(4, 0, 0, 0, 1, 1, 4),
              Spent(2, 3, 0, 1, 0, 0, 0), Spent(2, 3, 0, 1, 0, 5, 4)}

-----------------------------------------------------------------------------
Parts == {"dcn", "tables", "suggestions", "lazy", "client", "steps", "spans",
          "derived", "layers", "chunks", "duty", "bursts", "slack", "memory", "heap",
          "hostops", "gpuops", "tpuops", "chart", "inference", "profile", "stepdb", "tpusteps"}

ToolsInit ==
  /\ part \in Parts
  /\ DcnInit /\ TtInit /\ SsInit /\ LzInitial /\ TvInit /\ SiInit
  /\ EsInit /\ DlInit /\ TlInit /\ CwInit /\ DcInit
  /\ DbInit /\ SlInit /\ MpInit /\ HsInit
  /\ HoInit /\ DoInit /\ ToInit /\ FcInit
  /\ \A r \in SlRendezvous : (part = "slack" /\ r = collA) \/ slOpen[r] = {}
  /\ part # "tpuops" => Cardinality(toModules) = 1
  /\ part # "chart" => ~fcMpmd
  /\ ihTrace \in (IF part = "inference" THEN IhTraces ELSE {ATrace})
  /\ isInput \in (IF part = "profile" THEN IsInputs ELSE {TwoBatches})
  /\ IhInit /\ IsInit
  /\ sdTrace \in (IF part = "stepdb" THEN SdTraces ELSE {NothingRecorded})
  /\ tsTrace \in (IF part = "tpusteps" THEN TsTraces ELSE {NoCores})
  /\ SdInit /\ TsInit /\ IpInit

(* What stays as it is when another part takes the step. *)
Servers == <<dcnVars, ttVars, ssVars, lzVars, cwVars, tvVars>>
Algorithms == <<siVars, esVars, dlVars, tlVars, dcVars>>
Converters == <<dbVars, slVars, mpVars, hsVars>>
OpTimes == <<hoVars, doVars, toVars, fcVars>>
Inference == <<ihVars, isVars>>
Steps == <<sdVars, tsVars, ipVars>>

ServersNext ==
  \/ /\ part = "dcn" /\ DcnNext
     /\ UNCHANGED <<ttVars, ssVars, lzVars, cwVars, tvVars>>
  \/ /\ part = "tables" /\ TtNext
     /\ UNCHANGED <<dcnVars, ssVars, lzVars, cwVars, tvVars>>
  \/ /\ part = "suggestions" /\ SsNext
     /\ UNCHANGED <<dcnVars, ttVars, lzVars, cwVars, tvVars>>
  \/ /\ part = "lazy" /\ LzNext
     /\ UNCHANGED <<dcnVars, ttVars, ssVars, cwVars, tvVars>>
  \/ /\ part = "chunks" /\ CwNext
     /\ UNCHANGED <<dcnVars, ttVars, ssVars, lzVars, tvVars>>
  \/ /\ part = "client" /\ TvNext
     /\ UNCHANGED <<dcnVars, ttVars, ssVars, lzVars, cwVars>>

AlgorithmsNext ==
  \/ /\ part = "steps" /\ SiNext
     /\ UNCHANGED <<esVars, dlVars, tlVars, dcVars>>
  \/ /\ part = "spans" /\ EsNext
     /\ UNCHANGED <<siVars, dlVars, tlVars, dcVars>>
  \/ /\ part = "derived" /\ DlNext
     /\ UNCHANGED <<siVars, esVars, tlVars, dcVars>>
  \/ /\ part = "layers" /\ TlNext
     /\ UNCHANGED <<siVars, esVars, dlVars, dcVars>>
  \/ /\ part = "duty" /\ DcNext
     /\ UNCHANGED <<siVars, esVars, dlVars, tlVars>>

ConvertersNext ==
  \/ /\ part = "bursts" /\ DbNext /\ UNCHANGED <<slVars, mpVars, hsVars>>
  \/ /\ part = "slack" /\ SlNext /\ UNCHANGED <<dbVars, mpVars, hsVars>>
  \/ /\ part = "memory" /\ MpNext /\ UNCHANGED <<dbVars, slVars, hsVars>>
  \/ /\ part = "heap" /\ HsNext /\ UNCHANGED <<dbVars, slVars, mpVars>>

OpTimesNext ==
  \/ /\ part = "hostops" /\ HoNext /\ UNCHANGED <<doVars, toVars, fcVars>>
  \/ /\ part = "gpuops" /\ DoNext /\ UNCHANGED <<hoVars, toVars, fcVars>>
  \/ /\ part = "tpuops" /\ ToNext /\ UNCHANGED <<hoVars, doVars, fcVars>>
  \/ /\ part = "chart" /\ FcNext /\ UNCHANGED <<hoVars, doVars, toVars>>

InferenceNext ==
  \/ /\ part = "inference" /\ IhNext /\ UNCHANGED isVars
  \/ /\ part = "profile" /\ IsNext /\ UNCHANGED ihVars

StepsNext ==
  \/ /\ part = "stepdb" /\ UNCHANGED tsVars
     /\ \/ SdNext /\ UNCHANGED ipVars
        \/ (\E ops \in IpHostOps : IpAnalyzeGeneric(ops)) /\ UNCHANGED sdVars
  \/ /\ part = "tpusteps" /\ UNCHANGED sdVars
     /\ \/ TsNext /\ UNCHANGED ipVars
        \/ (\E ops \in IpHostOps : IpAnalyzeTpu(ops)) /\ UNCHANGED tsVars

ToolsNext ==
  /\ UNCHANGED part
  /\ \/ ServersNext /\ UNCHANGED <<Algorithms, Converters, OpTimes, Inference, Steps>>
     \/ AlgorithmsNext /\ UNCHANGED <<Servers, Converters, OpTimes, Inference, Steps>>
     \/ ConvertersNext /\ UNCHANGED <<Servers, Algorithms, OpTimes, Inference, Steps>>
     \/ OpTimesNext /\ UNCHANGED <<Servers, Algorithms, Converters, Inference, Steps>>
     \/ InferenceNext /\ UNCHANGED <<Servers, Algorithms, Converters, OpTimes, Steps>>
     \/ StepsNext /\ UNCHANGED <<Servers, Algorithms, Converters, OpTimes, Inference>>

ToolsVars == <<part, Servers, Algorithms, Converters, OpTimes, Inference, Steps>>

ToolsSpec == ToolsInit /\ [][ToolsNext]_ToolsVars

(* Every variable has its type; those of the other parts never change. *)
ToolsTypeOK ==
  /\ part = "dcn" => DcnTypeOK
  /\ part = "tables" => TtTypeOK
  /\ part = "suggestions" => SsTypeOK
  /\ part = "lazy" => LzTypeOK
  /\ part = "client" => TvTypeOK
  /\ part = "steps" => SiTypeOK
  /\ part = "spans" => EsTypeOK
  /\ part = "derived" => DlTypeOK
  /\ part = "layers" => TlTypeOK
  /\ part = "chunks" => CwTypeOK
  /\ part = "duty" => DcTypeOK
  /\ part = "bursts" => DbTypeOK
  /\ part = "slack" => SlTypeOK
  /\ part = "memory" => MpTypeOK
  /\ part = "heap" => HsTypeOK
  /\ part = "hostops" => HoTypeOK
  /\ part = "gpuops" => DoTypeOK
  /\ part = "tpuops" => ToTypeOK
  /\ part = "chart" => FcTypeOK
  /\ part = "inference" => IhTypeOK
  /\ part = "profile" => IsTypeOK
  /\ part = "stepdb" => SdTypeOK
  /\ part = "tpusteps" => TsTypeOK
  /\ part \in {"stepdb", "tpusteps"} => IpTypeOK

(* On a host, a GPU and the cores of a TPU alike, the ops of a database    *)
(* and its idle time account for the whole window, every op is charged for *)
(* the time in which it was the innermost to run, and none is lost or      *)
(* counted twice.                                                          *)
OpTimesAreMeasured == HoTimesAreMeasured /\ DoTimesAreMeasured /\ ToTimesAreMeasured

(* The collectives between hosts: the lines of a trace show the traffic    *)
(* there was, and most of all the most of it; and the slack analysis gives *)
(* to each collective its own idle time, stall, operations and host event, *)
(* however collectives interleave.                                         *)
CollectivesAreMeasured == DbLinesShowTraffic /\ SlAnalysesAreRight

(* Memory: the breakdown of an allocator's peak is of that peak and adds up *)
(* to it; the chart of a heap trace names each piece of memory in use at    *)
(* its peak once; and the spans of the buffers are their lifetimes.         *)
MemoryIsExplained == MpPeakIsExplained /\ HsChartIsOfPeak /\ HsSpansAreLifetimes

(* The inference profile: no request is lost, taken twice or given to      *)
(* another model, its device time is what ran for it however its batches   *)
(* overlap, and tensors and batches count once, on a host and when the     *)
(* hosts are put together.                                                 *)
InferenceIsRight == IhIsRight /\ IsIsRight

(* Of overlapping events the highest is charged; what the types of a step  *)
(* were charged, of threads, streams or cores, adds up to its time, as     *)
(* does what the overview then says of waiting for the input; and steps    *)
(* of several hosts are merged only if they are the same of one run.       *)
StepsAreRight ==
  EsHighestIsCharged /\ SdStepsAddUp /\ TsStepsAddUp /\ IpVerdictIsRight /\ SiSameSteps
=============================================================================
