--------------------------- MODULE InferenceHost ---------------------------
(***************************************************************************)
(* The requests and batches of one host (convert/inference_stats.cc, as    *)
(* the inference profile calls it, for a TPU).  A request is a group of    *)
(* host events, and so is a batch; the metadata of the groups says which   *)
(* batches a request was split into.  Pass after pass over the events by   *)
(* type fills in the requests and the batches; what is iterated in a hash  *)
(* map is taken in any order.                                              *)
(***************************************************************************)
EXTENDS EventSweep, Functions, FiniteSetsExt, TLC

CONSTANTS
  IhTraces, \* [events, modules, links]: those of the host in the order of its
            \* lines, those of the device, and pairs of a request and a batch
  IhNone    \* a stat that is absent

(* An event has a type, a group, a begin and an end, whether it is a root  *)
(* the user defined, and arg: the model of a run or root, the size of a    *)
(* scheduled task, <<padding, size>>, the flow of a transfer, the pattern  *)
(* of a tensor; a module has a group, a begin and an end.                  *)
(* UpdateRequestTimespan takes a begin of 0 for none.                      *)
ASSUME IhAssumption ==
  \A tr \in IhTraces :
    /\ \A e \in Range(tr.events) : 0 < e.begin /\ e.begin <= e.end
    /\ \A m \in tr.modules : m.begin < m.end

VARIABLES
  ihTrace,    \* the trace, in DOMAIN IhTraces
  ihPc,       \* the next pass
  ihTodo,     \* runs and roots that may be requests
  ihRequests, \* request_events_map
  ihBatches,  \* batch_events_map
  ihModels,   \* model_id_db
  ihResult    \* the details, once they are complete

ihVars == <<ihTrace, ihPc, ihTodo, ihRequests, ihBatches, ihModels, ihResult>>

(* Types of time, by priority. *)
IhPreprocess == 20
IhPostprocess == 30
IhFormation == 40
IhRuntime == 50
IhToDevice == 80
IhToHost == 130
IhCompute == 140

IhBatchTypes == <<"ProcessBatch", "OrbaxProcessBatch">>
IhModelTypes == <<"SessionRun", "TfrtModelRun", "ServingModelRun">>
IhPaddingTypes == <<"ConcatInputTensors", "OrbaxConcatInputBuffers",
                    "MergeInputTensors", "BrainSessionRun">>

(* Host events that have a group, type by type. *)
IhOf(tr, types) ==
  FlattenSeq([i \in DOMAIN types |->
    SelectSeq(tr.events, LAMBDA e : e.type = types[i] /\ e.group # IhNone)])
IhHost(types) == IhOf(ihTrace, types)
IhRoots(tr) == SelectSeq(tr.events, LAMBDA e : e.root /\ e.group # IhNone)

IhParents(group) == {l[1] : l \in {k \in ihTrace.links : k[2] = group}}
IhChildren(group) == {l[2] : l \in {k \in ihTrace.links : k[1] = group}}
IhSorted(groups) == SetToSortSeq(groups, <)

(* The types of event that are requests in this trace. *)
IhRunTypes(tr) ==
  LET has(type) == \E e \in Range(tr.events) : e.type = type IN
  IF has("BatchingSessionRun") THEN <<"BatchingSessionRun">>
  ELSE IF has("TfrtModelRun") THEN <<"TfrtModelRun">>
  ELSE IF has("ServingModelRun") THEN <<"ServingModelRun">>
  ELSE <<"SessionRun", "RunGraph">>

(* First the runs, then the roots, whose types come in any order. *)
IhCandidates(tr) ==
  LET runs == IhOf(tr, IhRunTypes(tr))
      Custom(order) ==
        FlattenSeq([i \in DOMAIN order |->
          SelectSeq(IhRoots(tr), LAMBDA e : e.type = order[i])])
      Tagged(s, kind) == [i \in DOMAIN s |-> [event |-> s[i], kind |-> kind]]
  IN {Tagged(runs, IF IhRunTypes(tr) = <<"BatchingSessionRun">> THEN "batching" ELSE "plain")
        \o Tagged(Custom(order), "custom") :
          order \in SetToSeqs({e.type : e \in Range(IhRoots(tr))})}

IhInit ==
  /\ ihTrace \in IhTraces
  /\ ihTodo \in IhCandidates(ihTrace)
  /\ ihPc = "requests"
  /\ ihRequests = <<>> /\ ihBatches = <<>> /\ ihModels = <<>>
  /\ ihResult = [requests |-> <<>>, batches |-> <<>>, patterns |-> <<>>]

(* model_id_map: the last event of a group names its model. *)
IhModelId(group) ==
  LET named == SelectSeq(IhHost(IhModelTypes) \o IhRoots(ihTrace),
                         LAMBDA e : e.group = group /\ e.arg # IhNone)
  IN IF named = <<>> THEN IhNone ELSE Last(named).arg

(* AssignIndexToModelId: the index, from 0, and the database after it. *)
IhAssign(model, models) ==
  IF model = IhNone THEN [index |-> -1, models |-> models]
  ELSE LET all == IF model \in Range(models) THEN models ELSE Append(models, model) IN
       [index |-> (CHOOSE i \in DOMAIN all : all[i] = model) - 1, models |-> all]

(* A request of several batches has their model if it is the same for all, *)
(* where batches without one count only after the first that has one.      *)
IhModelOfAll(children) ==
  LET Child(s, c) ==
        LET a == IhAssign(IhModelId(c), s.models) IN
        IF s.index = -1 THEN [s EXCEPT !.index = a.index, !.models = a.models]
        ELSE [index |-> s.index, models |-> a.models, same |-> s.same /\ a.index = s.index]
      end == FoldLeft(Child, [index |-> -1, models |-> ihModels, same |-> TRUE], children)
  IN [index |-> IF end.same THEN end.index ELSE -1, models |-> end.models]

(* Every model InitializeRequestEvents may give the request; a request     *)
(* that is left early keeps index 0.                                       *)
IhModelsOf(kind, group) ==
  LET unset == [index |-> 0, models |-> ihModels]
      children == IhChildren(group)
  IN IF kind = "batching"
     THEN IF children = {} THEN {unset}
          ELSE {IhAssign(IhModelId(c), ihModels) : c \in children}
     ELSE IF kind = "plain" \/ IhModelId(group) # IhNone
     THEN {IhAssign(IhModelId(group), ihModels)}
     ELSE IF children = {} THEN {unset}
     ELSE {IhModelOfAll(order) : order \in SetToSeqs(children)}

IhNewRequest(group, model) ==
  [model |-> model, span |-> <<0, 0>>, delay |-> 0, size |-> 0,
   ts |-> <<>>, events |-> {}, batches |-> IhSorted(IhChildren(group)), tensors |-> <<>>]

IhBatchGroups == {e.group : e \in Range(IhHost(IhBatchTypes))}

(* Wrong: the groups of batches are taken for requests too. *)
IhIsNewAlways(group) == group \notin DOMAIN ihRequests

(* Neither a batch nor a request that was found before. *)
IhIsNew(group) == group \notin IhBatchGroups \cup DOMAIN ihRequests

(* InitializeRequestEvents for the next candidate. *)
IhInitialize ==
  /\ ihPc = "requests" /\ ihTodo # <<>>
  /\ LET run == ihTodo[1]  group == run.event.group IN
     IF ~IhIsNew(group) THEN UNCHANGED <<ihRequests, ihModels>>
     ELSE \E m \in IhModelsOf(run.kind, group) :
            /\ ihRequests' = (group :> IhNewRequest(group, m.index)) @@ ihRequests
            /\ ihModels' = m.models
  /\ ihTodo' = Tail(ihTodo)
  /\ UNCHANGED <<ihTrace, ihPc, ihBatches, ihResult>>

(* An event of a group counts for its request, or for those of its batch.  *)
IhTargets(group) == {group} \cup IhParents(group)

(* UpdateEventTimestamps, of all events of these types: the last of a      *)
(* group counts, of program launches the earliest.                         *)
IhStamp(requests, name, types) ==
  LET Stamp(rs, e) ==
        [r \in DOMAIN rs |->
          IF r \notin IhTargets(e.group) THEN rs[r]
          ELSE LET key == <<e.group, name>>
                   kept == name = "launch" /\ key \in DOMAIN rs[r].ts
                             /\ rs[r].ts[key] < e.begin
               IN IF kept THEN rs[r] ELSE [rs[r] EXCEPT !.ts = (key :> e.begin) @@ @]]
  IN FoldLeft(Stamp, requests, IhHost(types))

(* UpdateRequestTimespan; the scheduled sizes. *)
IhSchedule ==
  LET types == <<"ScheduleWithSplit", "ScheduleWithoutSplit",
                 "ScheduleWithEagerSplit", "ASBSQueueSchedule">>
      own(r) == {e \in Range(ihTrace.events) : e.group = r}
      sized(r) == SelectSeq(IhHost(types), LAMBDA e : e.group = r /\ e.arg # IhNone)
      spanned == [r \in DOMAIN ihRequests |->
                   [ihRequests[r] EXCEPT
                      !.span = <<Min({e.begin : e \in own(r)}), Max({e.end : e \in own(r)})>>,
                      !.size = IF sized(r) = <<>> THEN @ ELSE Last(sized(r)).arg]]
  IN /\ ihPc = "requests" /\ ihTodo = <<>>
     /\ ihPc' = "device"
     /\ ihRequests' = IhStamp(spanned, "schedule", types)
     /\ UNCHANGED <<ihTrace, ihTodo, ihBatches, ihModels, ihResult>>

(* UpdateTpuDataTransferEventsInTpuSystem: from the start of a flow to its *)
(* end, if that is later.                                                  *)
IhFlows(issue, done, type) ==
  LET flows(t) == SelectSeq(IhHost(<<t>>), LAMBDA e : e.arg # IhNone)
      Start(id) == Last(SelectSeq(flows(issue), LAMBDA e : e.arg = id))
      Ends(id) == SelectSeq(flows(done), LAMBDA e : e.arg = id /\ Start(id).begin < e.begin)
  IN {[type |-> type, group |-> Start(id).group, begin |-> Start(id).begin,
       end |-> Last(Ends(id)).end] :
        id \in {i \in {e.arg : e \in Range(flows(issue))} : Ends(i) # <<>>}}

IhTransfers(types, type) ==
  {[type |-> type, group |-> e.group, begin |-> e.begin, end |-> e.end] :
     e \in Range(IhHost(types))}

(* The modules of the device, the transfers to and from it. *)
IhDeviceEvents ==
  IhTransfers(<<"ReadHbm", "TransferD2HRequest">>, IhToHost)
    \cup IhTransfers(<<"WriteHbm", "TransferH2DRequest", "TransferPreprocessedH2DRequest">>,
                     IhToDevice)
    \cup IhFlows("TransferToDeviceIssueEvent", "TransferToDeviceDone", IhToDevice)
    \cup IhFlows("TransferFromDeviceIssueEvent", "TransferFromDeviceDone", IhToHost)
    \cup {[type |-> IhCompute, group |-> m.group, begin |-> m.begin, end |-> m.end] :
             m \in ihTrace.modules}

(* Wrong: only the events of the request's own group. *)
IhWithOwnEvents(requests) ==
  [r \in DOMAIN requests |->
    [requests[r] EXCEPT !.events = {e \in IhDeviceEvents : r = e.group}]]

(* UpdateRequestEvents. *)
IhWithEvents(requests) ==
  [r \in DOMAIN requests |->
    [requests[r] EXCEPT !.events = {e \in IhDeviceEvents : r \in IhTargets(e.group)}]]

(* BuildTPUDeviceEvents for the requests. *)
IhDevice ==
  LET executes == <<"TpuPartitionedCallOpExecuteLocal", "TpuPartitionedCallOpExecuteRemote",
                    "TpuPartitionedCallOpInitializeVarOnTpu", "TpuSystemExecute">>
      launches == <<"DoEnqueueProgram", "DoEnqueueContinuationProgram">>
  IN /\ ihPc = "device"
     /\ ihPc' = "batches"
     /\ ihRequests' = IhStamp(IhStamp(IhStamp(IhWithEvents(ihRequests), "execute", executes),
                                      "launch", launches), "callback", <<"CompleteCallbacks">>)
     /\ UNCHANGED <<ihTrace, ihTodo, ihBatches, ihModels, ihResult>>

(* The batch of a group: its last event, and the requests once for each.   *)
(* All requests of a batch share a model, so that of the first is taken;   *)
(* that of a batch without one reads as 0.                                 *)
IhBatch(group) ==
  LET of == SelectSeq(IhHost(IhBatchTypes), LAMBDA e : e.group = group)
      padded == SelectSeq(IhHost(IhPaddingTypes),
                          LAMBDA e : e.group = group /\ e.arg # IhNone)
      requests == SortSeq(FlattenSeq([i \in DOMAIN of |-> IhSorted(IhParents(group))]), <)
      first == IF requests = <<>> THEN {} ELSE {requests[1]} \cap DOMAIN ihRequests
  IN [begin |-> Last(of).begin, end |-> Last(of).end, requests |-> requests,
      padding |-> IF padded = <<>> THEN <<0, 0>> ELSE Last(padded).arg,
      model |-> IF first = {} THEN 0 ELSE ihRequests[CHOOSE r \in first : TRUE].model,
      events |-> {e \in IhDeviceEvents : e.group = group},
      delay |-> 0, tensor |-> <<>>]

(* BuildBatchEventsMap. *)
IhBatchesPass ==
  /\ ihPc = "batches"
  /\ ihPc' = "delays"
  /\ ihBatches' = [b \in IhBatchGroups |-> IhBatch(b)]
  /\ ihRequests' = IhStamp(ihRequests, "concat", IhPaddingTypes)
  /\ UNCHANGED <<ihTrace, ihTodo, ihModels, ihResult>>

(* Of the batches of a request the one with the least id is both the first *)
(* and the last: what is compared is whether their times are set, and they *)
(* all are.                                                                *)
IhDelayed(request) ==
  LET known == SelectSeq(request.batches, LAMBDA b : b \in DOMAIN ihBatches) IN
  IF known = <<>> THEN request
  ELSE LET batch == ihBatches[known[1]] IN
       [request EXCEPT !.delay = batch.begin - request.span[1],
                       !.span = IF @[2] < batch.end THEN <<@[1], batch.end>> ELSE @]

(* Wrong: from the request with the least id. *)
IhBatchDelayOfFirst(batch) ==
  LET of == SelectSeq(batch.requests, LAMBDA r : r \in DOMAIN ihRequests) IN
  IF of = <<>> THEN 0 ELSE batch.begin - ihRequests[of[1]].span[1]

(* From the earliest request of the batch. *)
IhBatchDelay(batch) ==
  LET begins == {ihRequests[r].span[1] : r \in Range(batch.requests) \cap DOMAIN ihRequests} IN
  IF begins = {} THEN 0 ELSE batch.begin - Min(begins)

(* GenerateRequestAndBatchDelay. *)
IhDelays ==
  /\ ihPc = "delays"
  /\ ihPc' = "breakdown"
  /\ ihRequests' = [r \in DOMAIN ihRequests |-> IhDelayed(ihRequests[r])]
  /\ ihBatches' = [b \in DOMAIN ihBatches |->
                    [ihBatches[b] EXCEPT !.delay = IhBatchDelay(ihBatches[b])]]
  /\ UNCHANGED <<ihTrace, ihTodo, ihModels, ihResult>>

(* Timespan::FromEndPoints: empty where the end is before the begin. *)
IhPhase(type, begin, end) ==
  [type |-> type, group |-> IhNone, begin |-> begin, end |-> Max({begin, end})]

IhStamps(request, name) ==
  {request.ts[k] : k \in {j \in DOMAIN request.ts : j[2] = name}}

(* What the host did for the request, given which schedule event is met    *)
(* first.                                                                  *)
IhPhases(request, schedules) ==
  LET groups == {k[1] : k \in DOMAIN request.ts}
      executes == IhStamps(request, "execute")
      callbacks == IhStamps(request, "callback")
      concats == IhStamps(request, "concat")
      computed == {e.end : e \in {d \in request.events : d.type = IhCompute}}
      done == IF callbacks # {} THEN callbacks ELSE computed
  IN {IhPhase(IhRuntime, request.ts[<<g, "execute">>], request.ts[<<g, "launch">>]) :
        g \in {h \in groups : {<<h, "execute">>, <<h, "launch">>} \subseteq DOMAIN request.ts}}
     \cup {IhPhase(IhPreprocess, request.span[1], Min(executes)) : x \in executes}
     \cup {IhPhase(IhPostprocess, Max(done), request.span[2]) : x \in done}
     \cup {IhPhase(IhFormation, s, Min(concats)) : s \in IF concats = {} THEN {} ELSE schedules}

(* GenerateRequestDetailedBreakdown. *)
IhBreakdown ==
  /\ ihPc = "breakdown"
  /\ ihPc' = "tensors"
  /\ \E first \in [DOMAIN ihRequests -> {IhNone} \cup {e.begin : e \in Range(ihTrace.events)}] :
       /\ \A r \in DOMAIN first :
            LET schedules == IhStamps(ihRequests[r], "schedule") IN
            IF schedules = {} THEN first[r] = IhNone ELSE first[r] \in schedules
       /\ ihRequests' = [r \in DOMAIN ihRequests |->
                          [ihRequests[r] EXCEPT
                             !.events = @ \cup IhPhases(ihRequests[r], {first[r]} \ {IhNone})]]
  /\ UNCHANGED <<ihTrace, ihTodo, ihBatches, ihModels, ihResult>>

IhTensorEvents(group) ==
  SelectSeq(IhHost(<<"Linearize", "Delinearize", "TransferBufferFromDeviceFastPath">>),
            LAMBDA e : e.group = group)

(* GenerateTensorPattern: the tensors of a group in no order; none where   *)
(* one of them has no shape or layout.                                     *)
IhPattern(group) ==
  LET events == IhTensorEvents(group) IN
  IF \E i \in DOMAIN events : events[i].arg = IhNone THEN <<>>
  ELSE [arg \in {e.arg : e \in Range(events)} |->
          Cardinality({i \in DOMAIN events : events[i].arg = arg})]

IhTensor(group, owner, patterns) ==
  LET events == IhTensorEvents(group) IN
  [pattern |-> (CHOOSE i \in DOMAIN patterns : patterns[i] = IhPattern(group)) - 1,
   owner |-> owner,
   time |-> FoldLeft(LAMBDA n, e : n + e.end - e.begin, 0, events)]

(* Wrong: the details of a batch are counted for its requests once more. *)
IhInheritedAsOwn(detail) == [detail EXCEPT !.owner = "request"]

(* A request shows the details of its batches, which stay theirs. *)
IhInherited(detail) == detail

(* GenerateTensorDetails; rs and bs are the orders of the two hash maps.   *)
IhTensors ==
  /\ ihPc = "tensors"
  /\ ihPc' = "details"
  /\ \E rs \in SetToSeqs(DOMAIN ihRequests), bs \in SetToSeqs(DOMAIN ihBatches \ DOMAIN ihRequests) :
       LET has(g) == IhPattern(g) # <<>>
           Pattern(ps, g) ==
             IF IhPattern(g) \in Range(ps) THEN ps ELSE Append(ps, IhPattern(g))
           patterns == FoldLeft(Pattern, <<>>, SelectSeq(rs \o bs, has))
           own(r) == IF has(r) THEN <<IhTensor(r, "request", patterns)>> ELSE <<>>
           batches == [b \in DOMAIN ihBatches |->
                        IF b \notin DOMAIN ihRequests /\ has(b)
                        THEN [ihBatches[b] EXCEPT !.tensor = <<IhTensor(b, "batch", patterns)>>]
                        ELSE ihBatches[b]]
           inherited(r) ==
             FlattenSeq([i \in DOMAIN bs |->
               LET n == Cardinality({j \in DOMAIN batches[bs[i]].requests :
                                       batches[bs[i]].requests[j] = r})
               IN IF batches[bs[i]].tensor = <<>> THEN <<>>
                  ELSE [j \in 1..n |-> IhInherited(batches[bs[i]].tensor[1])]])
       IN /\ ihBatches' = batches
          /\ ihRequests' = [r \in DOMAIN ihRequests |->
                             [ihRequests[r] EXCEPT !.tensors = own(r) \o inherited(r)]]
          /\ ihResult' = [ihResult EXCEPT !.patterns = patterns]
  /\ UNCHANGED <<ihTrace, ihTodo, ihModels>>

(* RequestEventsToDetails, BatchEventsToDetails: time by type. *)
IhTimes(events) ==
  LET spans == EsNonOverlapped(SetToSeq(events)) IN
  [type \in {s.type : s \in Range(spans)} |->
     FoldLeft(LAMBDA n, s : IF s.type = type THEN n + s.end - s.begin ELSE n, 0, spans)]

(* Sorted by duration, ties in any order. *)
IhByDuration(details) ==
  {s \in SetToSeqs(details) :
     \A i, j \in DOMAIN s : i < j => s[i].end - s[i].begin <= s[j].end - s[j].begin}

IhRequestDetail(id) ==
  LET r == ihRequests[id] IN
  [id |-> id, begin |-> r.span[1], end |-> r.span[2], model |-> r.model, delay |-> r.delay,
   size |-> r.size, batches |-> r.batches, tensors |-> r.tensors, times |-> IhTimes(r.events)]
IhBatchDetail(id) ==
  LET b == ihBatches[id] IN
  [id |-> id, begin |-> b.begin, end |-> b.end, model |-> b.model, delay |-> b.delay,
   padding |-> b.padding, requests |-> b.requests, tensor |-> b.tensor,
   times |-> IhTimes(b.events)]

(* BuildRequestDetails, without the requests that took no time, and        *)
(* BuildBatchDetails.                                                      *)
IhDetails ==
  /\ ihPc = "details"
  /\ ihPc' = "done"
  /\ \E rs \in IhByDuration({IhRequestDetail(r) : r \in
                 {q \in DOMAIN ihRequests : ihRequests[q].span[1] # ihRequests[q].span[2]}}),
        bs \in IhByDuration({IhBatchDetail(b) : b \in DOMAIN ihBatches}) :
       ihResult' = [ihResult EXCEPT !.requests = rs, !.batches = bs]
  /\ UNCHANGED <<ihTrace, ihTodo, ihRequests, ihBatches, ihModels>>

IhNext ==
  \/ IhInitialize \/ IhSchedule \/ IhDevice \/ IhBatchesPass
  \/ IhDelays \/ IhBreakdown \/ IhTensors \/ IhDetails

IhSpec == IhInit /\ [][IhNext]_ihVars
-----------------------------------------------------------------------------
IhTypeOK ==
  /\ ihPc \in {"requests", "device", "batches", "delays", "breakdown", "tensors",
               "details", "done"}
  /\ \A r \in DOMAIN ihRequests :
       /\ ihRequests[r].model \in -1..Max({0, Len(ihModels) - 1})
       /\ ihRequests[r].span[1] <= ihRequests[r].span[2]
  /\ \A b \in DOMAIN ihBatches : Range(ihBatches[b].requests) = IhParents(b)

(* The units of time in which an event of this type ran for these groups.  *)
IhBusy(type, groups) ==
  UNION {e.begin..e.end - 1 :
           e \in {d \in IhDeviceEvents : d.type = type /\ d.group \in groups}}
IhTime(detail, type) == IF type \in DOMAIN detail.times THEN detail.times[type] ELSE 0

(* A request has the time its modules ran on the device, its own and those *)
(* of its batches, however they overlap: no more than that, no less than   *)
(* any of its batches has; and the times of all kinds, idle time included, *)
(* are those from its first event to its last.                             *)
IhTimesAreRight ==
  \A r \in Range(ihResult.requests) :
    LET groups == {r.id} \cup IhChildren(r.id)
        events == ihRequests[r.id].events
    IN /\ IhTime(r, IhCompute) = Cardinality(IhBusy(IhCompute, groups))
       /\ IhTime(r, IhToHost) =
            Cardinality(IhBusy(IhToHost, groups) \ IhBusy(IhCompute, groups))
       /\ \A b \in Range(ihResult.batches) :
            b.id \in groups => IhTime(b, IhCompute) <= IhTime(r, IhCompute)
       /\ events # {} => FoldFunction(+, 0, r.times) =
            Max({e.end : e \in events}) - Min({e.begin : e \in events})

(* No run is lost and no batch taken for a request: each is listed once,   *)
(* by duration, with the model all its batches share; a batch waits from   *)
(* the first event of its earliest request.                                *)
IhRequestsAreRight ==
  ihPc = "done" =>
    /\ {r.id : r \in Range(ihResult.requests)} \subseteq
         {e.group : e \in Range(ihTrace.events)} \ IhBatchGroups
    /\ \A e \in Range(IhHost(IhRunTypes(ihTrace)) \o IhRoots(ihTrace)) :
         e.group \notin IhBatchGroups /\ e.begin < e.end =>
           Cardinality({i \in DOMAIN ihResult.requests :
                          ihResult.requests[i].id = e.group}) = 1
    /\ \A r \in Range(ihResult.requests) : \A model \in Range(ihModels) :
         /\ IhChildren(r.id) # {}
         /\ \A c \in IhChildren(r.id) \cup {r.id} : IhModelId(c) = model
         => ihModels[r.model + 1] = model
    /\ \A b \in Range(ihResult.batches) :
         LET begins == {e.begin : e \in {d \in Range(ihTrace.events) :
                          d.group \in IhParents(b.id) \cap DOMAIN ihRequests}}
         IN begins # {} => b.delay = b.begin - Min(begins)

(* What is spent on tensors counts once: a request owns the detail of the  *)
(* tensors in its group, and shows those of its batches as the batches'.   *)
IhTensorsCountOnce ==
  \A r \in Range(ihResult.requests) :
    LET Owned(owner) == Len(SelectSeq(r.tensors, LAMBDA d : d.owner = owner)) IN
    /\ Owned("request") = IF IhPattern(r.id) = <<>> THEN 0 ELSE 1
    /\ Owned("batch") =
         Cardinality({b \in Range(ihResult.batches) : b.id \in IhChildren(r.id) /\ b.tensor # <<>>})

IhIsRight == IhTimesAreRight /\ IhRequestsAreRight /\ IhTensorsCountOnce
=============================================================================
