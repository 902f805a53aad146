--------------------------- MODULE InferenceStats ---------------------------
(***************************************************************************)
(* The inference profile of a session (convert/multi_xspace_to_inference_  *)
(* stats.cc with inference_stats_combiner.cc, _grouping.cc, _sampler.cc).  *)
(* A thread per host makes the stats of that host; they are combined into  *)
(* one, whose models and tensor patterns have indices of their own;        *)
(* requests and batches are regrouped by model, with an n-way merge of the *)
(* lists of the hosts, aggregated, and sampled around percentiles.         *)
(***************************************************************************)
EXTENDS Integers, Sequences, FiniteSetsExt, SequencesExt, Functions, TLC

CONSTANTS
  IsInputs,      \* sequences of the stats of the hosts: [ids, patterns, requests, batches]
  IsColumns,     \* percentile columns: fields of requests
  IsWanted,      \* kWantedPercentiles: <<percentile, error>>, in percent
  IsMaxSelected, \* kMaxNumDataSelectedPerPercentile
  IsMaxFaults    \* bound: hosts whose trace cannot be read

(* A request is [host, id, model, time, size, tensors, batches], a tensor  *)
(* [pattern, owner], a batch [host, id, model, time, size, tensor] with at *)
(* most one tensor; indices start at 0.  The lists of a host are sorted by *)
(* time.                                                                   *)
IsInOrder(list) == \A i, j \in DOMAIN list : i < j => list[i].time <= list[j].time
ASSUME IsAssumption ==
  /\ IsMaxSelected \in Nat /\ IsMaxFaults \in Nat
  /\ \A input \in IsInputs : \A h \in DOMAIN input :
       IsInOrder(input[h].requests) /\ IsInOrder(input[h].batches)

VARIABLES
  isInput,    \* what the conversion of each host gives
  isStatus,   \* statuses, "running" before the thread has ended
  isPc,
  isTurn,     \* the host to combine
  isIds,      \* model_id_db
  isPatterns, \* tensor_pattern_db
  isPerHost,  \* inference_stats_per_host
  isJobs,     \* lists to merge: <<model, "requests" or "batches">>
  isSources,  \* the heap of nway_merge
  isOut,      \* the list merged so far
  isPerModel, \* inference_stats_per_model
  isAnswer    \* the sampled stats and the tables, or an error

isVars == <<isInput, isStatus, isPc, isTurn, isIds, isPatterns, isPerHost, isJobs,
            isSources, isOut, isPerModel, isAnswer>>

IsNothing == [error |-> 0, sampled |-> <<>>, tables |-> <<>>]

IsInit ==
  /\ isInput \in IsInputs
  /\ isStatus = [h \in DOMAIN isInput |-> "running"]
  /\ isPc = "hosts"
  /\ isTurn = 1
  /\ isIds = <<>> /\ isPatterns = <<>>
  /\ isPerHost = <<>>
  /\ isJobs = <<>> /\ isSources = <<>> /\ isOut = <<>>
  /\ isPerModel = <<>>
  /\ isAnswer = IsNothing

(* The thread of a host, and JoinAll. *)
IsHostEnds(h) ==
  /\ isPc = "hosts" /\ isStatus[h] = "running"
  /\ isStatus' \in {[isStatus EXCEPT ![h] = s] : s \in {"ok", "error"}}
  /\ Cardinality({g \in DOMAIN isStatus : isStatus'[g] = "error"}) <= IsMaxFaults
  /\ UNCHANGED <<isInput, isPc, isTurn, isIds, isPatterns, isPerHost, isJobs, isSources,
                 isOut, isPerModel, isAnswer>>

IsJoin ==
  /\ isPc = "hosts"
  /\ "running" \notin Range(isStatus)
  /\ isPc' = "combine"
  /\ UNCHANGED <<isInput, isStatus, isTurn, isIds, isPatterns, isPerHost, isJobs, isSources,
                 isOut, isPerModel, isAnswer>>

IsIndex(name, names) == (CHOOSE i \in DOMAIN names : names[i] = name) - 1

(* CombineModelIdDatabases, CombineTensorPatternDatabase: the names of a   *)
(* host, in some order, are added to those there are; its indices remain   *)
(* valid if there were none, or if none of them changes.                   *)
IsCombined(names, order) ==
  FoldLeft(LAMBDA all, n : IF n \in Range(all) THEN all ELSE Append(all, n), names, order)
IsMustUpdate(names, own, combined) ==
  names # <<>> /\ \E i \in DOMAIN own : own[i] \notin Range(names) \/ combined[i] # own[i]

(* Wrong: the index of the host is kept. *)
IsReindexedKept(index, own, combined) == index

IsReindexed(index, own, combined) == IsIndex(own[index + 1], combined)

(* The requests are given the indices of the combined names.  A batch gets *)
(* those of tensor patterns only, and mutable_tensor_event_detail gives it *)
(* a first pattern if it had none; its model stays as its host has it.     *)
IsRequestIn(r, src, ids, patterns, newIds, newPatterns) ==
  [r EXCEPT
     !.model = IF newIds /\ @ # -1 THEN IsReindexed(@, src.ids, ids) ELSE @,
     !.tensors = IF ~newPatterns THEN @
                 ELSE [i \in DOMAIN @ |->
                         [@[i] EXCEPT !.pattern = IsReindexed(@, src.patterns, patterns)]]]
IsBatchIn(b, src, patterns, newPatterns) ==
  IF ~newPatterns THEN b
  ELSE LET tensor == IF b.tensor = <<>> THEN [pattern |-> 0, owner |-> "unknown"]
                     ELSE b.tensor[1]
       IN [b EXCEPT !.tensor = <<[tensor EXCEPT !.pattern =
                                    IsReindexed(@, src.patterns, patterns)]>>]

(* CombineInferenceStatsResult for the next host. *)
IsCombine ==
  /\ isPc = "combine" /\ isTurn \in DOMAIN isInput
  /\ isStatus[isTurn] = "ok"
  /\ \E order \in SetToSeqs(Range(isInput[isTurn].ids)) :
       LET src == isInput[isTurn]
           ids == IF isIds = <<>> THEN src.ids ELSE IsCombined(isIds, order)
           patterns == IsCombined(isPatterns, src.patterns)
           newIds == IsMustUpdate(isIds, src.ids, ids)
           newPatterns == IsMustUpdate(isPatterns, src.patterns, patterns)
       IN /\ isIds' = ids
          /\ isPatterns' = patterns
          /\ isPerHost' = Append(isPerHost,
               [requests |-> [i \in DOMAIN src.requests |->
                  IsRequestIn(src.requests[i], src, ids, patterns, newIds, newPatterns)],
                batches |-> [i \in DOMAIN src.batches |->
                  IsBatchIn(src.batches[i], src, patterns, newPatterns)]])
  /\ isTurn' = isTurn + 1
  /\ UNCHANGED <<isInput, isStatus, isPc, isJobs, isSources, isOut, isPerModel, isAnswer>>

(* The error of the first host that has one. *)
IsFail ==
  /\ isPc = "combine" /\ isTurn \in DOMAIN isInput
  /\ isStatus[isTurn] = "error"
  /\ isPc' = "end"
  /\ isAnswer' = [IsNothing EXCEPT !.error = isTurn]
  /\ UNCHANGED <<isInput, isStatus, isTurn, isIds, isPatterns, isPerHost, isJobs, isSources,
                 isOut, isPerModel>>

(* RegroupInferenceStatsByModel: without any model all is of model 0. *)
IsModels == IF isIds = <<>> THEN {0} ELSE 0..Len(isIds) - 1
IsRegroup ==
  /\ isPc = "combine" /\ isTurn \notin DOMAIN isInput
  /\ isPc' = "merge"
  /\ isJobs' = SetToSeq(IsModels \X {"requests", "batches"})
  /\ isPerModel' = [m \in IsModels |-> [requests |-> <<>>, batches |-> <<>>]]
  /\ UNCHANGED <<isInput, isStatus, isTurn, isIds, isPatterns, isPerHost, isSources, isOut,
                 isAnswer>>

IsHead(source) == source[1].time

(* nway_merge: lists that are not empty, in the order of a map of hosts; a *)
(* heap if there are three or more, whichever make_heap builds.            *)
IsTake ==
  /\ isPc = "merge" /\ isJobs # <<>>
  /\ LET model == isJobs[1][1]  kind == isJobs[1][2]
         Of(h) == SelectSeq(isPerHost[h][kind],
                            LAMBDA d : (IF isIds = <<>> THEN 0 ELSE d.model) = model)
     IN \E order \in SetToSeqs({h \in DOMAIN isPerHost : Of(h) # <<>>}) :
          LET sources == [i \in DOMAIN order |-> Of(order[i])] IN
          /\ Len(order) > 2 =>
               \A i \in 2..Len(order) : IsHead(sources[i \div 2]) <= IsHead(sources[i])
          /\ isSources' = sources
  /\ isPc' = "pop"
  /\ UNCHANGED <<isInput, isStatus, isTurn, isIds, isPatterns, isPerHost, isJobs, isOut,
                 isPerModel, isAnswer>>

(* Wrong: only the first child is looked at. *)
IsChildLeft(heap, hole) == 2 * hole

(* The child the hole moves to. *)
IsChild(heap, hole) ==
  LET left == 2 * hole IN
  IF left < Len(heap) /\ IsHead(heap[left + 1]) < IsHead(heap[left]) THEN left + 1 ELSE left

(* push_root_heap: the root goes down until no child is before it. *)
IsPushRoot(heap) ==
  LET path[hole \in DOMAIN heap] ==
        LET child == IsChild(heap, hole) IN
        IF child > Len(heap) \/ IsHead(heap[1]) <= IsHead(heap[child]) THEN <<hole>>
        ELSE <<hole>> \o path[child]
      p == path[1]
  IN [i \in DOMAIN heap |->
        IF i \notin Range(p) THEN heap[i]
        ELSE LET k == CHOOSE j \in DOMAIN p : p[j] = i IN
             IF k = Len(p) THEN heap[1] ELSE heap[p[k + 1]]]

(* The first of all lists is taken; a list that ends is replaced by the    *)
(* last one.                                                               *)
IsPop ==
  /\ isPc = "pop" /\ Len(isSources) > 2
  /\ isOut' = Append(isOut, isSources[1][1])
  /\ LET rest == Tail(isSources[1])
         heap == IF rest # <<>> THEN [isSources EXCEPT ![1] = rest]
                 ELSE Front([isSources EXCEPT ![1] = Last(isSources)])
     IN isSources' = IsPushRoot(heap)
  /\ UNCHANGED <<isInput, isStatus, isPc, isTurn, isIds, isPatterns, isPerHost, isJobs,
                 isPerModel, isAnswer>>

(* std::merge: of two that are equal, the one of the first list. *)
IsMerged(a, b) ==
  LET before(i) == Cardinality({j \in DOMAIN b : b[j].time < a[i].time})
      after(j) == Cardinality({i \in DOMAIN a : a[i].time <= b[j].time})
  IN [k \in 1..Len(a) + Len(b) |->
        IF \E i \in DOMAIN a : i + before(i) = k
        THEN a[CHOOSE i \in DOMAIN a : i + before(i) = k]
        ELSE b[CHOOSE j \in DOMAIN b : j + after(j) = k]]

IsFinish ==
  /\ isPc = "pop" /\ Len(isSources) <= 2
  /\ LET Source(i) == IF i \in DOMAIN isSources THEN isSources[i] ELSE <<>> IN
     isPerModel' = [isPerModel EXCEPT ![isJobs[1][1]][isJobs[1][2]] =
                      isOut \o IsMerged(Source(1), Source(2))]
  /\ isPc' = "merge"
  /\ isJobs' = Tail(isJobs)
  /\ isSources' = <<>> /\ isOut' = <<>>
  /\ UNCHANGED <<isInput, isStatus, isTurn, isIds, isPatterns, isPerHost, isAnswer>>

(* GenerateTensorTransferAggregatedResult: occurrences by pattern.  Those  *)
(* a request has from its batches are not its own.                         *)
IsOccurrences(stats) ==
  LET own(r) == SelectSeq(r.tensors, LAMBDA t : t.owner = "request")
      all == FlattenSeq([i \in DOMAIN stats.requests |-> own(stats.requests[i])])
               \o FlattenSeq([i \in DOMAIN stats.batches |-> stats.batches[i].tensor])
  IN [p \in {t.pattern : t \in Range(all)} |-> Len(SelectSeq(all, LAMBDA t : t.pattern = p))]

(* AggregatePerModelInferenceStats: requests and batches by batch size. A  *)
(* request counts for each of its batches that is found by id; of batches  *)
(* with the same id, of two hosts, the last is.                            *)
IsBySize(stats) ==
  LET found(id) == SelectSeq(stats.batches, LAMBDA b : b.id = id)
      sized(r) == LET known == SelectSeq(r.batches, LAMBDA id : found(id) # <<>>) IN
                  [i \in DOMAIN known |-> [size |-> Last(found(known[i])).size, time |-> r.time]]
      requests == FlattenSeq([i \in DOMAIN stats.requests |-> sized(stats.requests[i])])
      Of(list, size) == SelectSeq(list, LAMBDA d : d.size = size)
      Time(list) == FoldLeft(LAMBDA n, d : n + d.time, 0, list)
      Average(list) == IF list = <<>> THEN 0 ELSE Time(list) \div Len(list)
  IN [size \in {d.size : d \in Range(requests) \cup Range(stats.batches)} |->
       [requests |-> Len(Of(requests, size)), batches |-> Len(Of(stats.batches, size)),
        requestTime |-> Average(Of(requests, size)),
        batchTime |-> Average(Of(stats.batches, size))]]

(* AggregatePerModelInferenceStats and the model called "ALL". *)
IsAggregate ==
  /\ isPc = "merge" /\ isJobs = <<>>
  /\ isPc' = "sample"
  /\ isPerModel' = [m \in DOMAIN isPerModel |->
                     [requests |-> isPerModel[m].requests, batches |-> isPerModel[m].batches,
                      tensors |-> IsOccurrences(isPerModel[m]),
                      sizes |-> IsBySize(isPerModel[m])]]
  /\ isIds' = IF isIds = <<>> THEN <<"ALL">> ELSE isIds
  /\ isPerHost' = <<>>
  /\ UNCHANGED <<isInput, isStatus, isTurn, isPatterns, isJobs, isSources, isOut, isAnswer>>

(* The indices of n data, from 0, within a wanted range. *)
IsWithin(k, n, wanted) ==
  wanted[1] * n <= 100 * k /\ 100 * k < (wanted[1] + wanted[2]) * n

(* Wrong: a range may take more than its share. *)
IsHasRoomAlways(taken) == TRUE
IsHasRoom(taken) == taken < IsMaxSelected

(* PercentileSelector: few data are shown as they are; of more, those of   *)
(* each range in turn, from where the last range was left.                 *)
IsSelected(n) ==
  LET Range1(s, wanted) ==
        LET Turn(t, k) ==
              IF t.left THEN t
              ELSE IF 100 * k >= (wanted[1] + wanted[2]) * n
              THEN [t EXCEPT !.left = TRUE, !.from = k]
              ELSE IF IsWithin(k, n, wanted) /\ IsHasRoom(t.taken)
              THEN [t EXCEPT !.result = Append(@, k), !.taken = @ + 1]
              ELSE t
        IN FoldLeft(Turn, [s EXCEPT !.left = FALSE, !.taken = 0],
                    [i \in 1..n - s.from |-> s.from + i - 1])
  IN IF n <= Len(IsWanted) * IsMaxSelected THEN [i \in 1..n |-> i - 1]
     ELSE FoldLeft(Range1, [result |-> <<>>, from |-> 0, left |-> FALSE, taken |-> 0],
                   IsWanted).result

(* SamplePerModelInferenceStats, with the requests sorted by a column and  *)
(* the batches by time; ties of another sort may come in any order.        *)
IsSampled(stats, column) ==
  LET requests == IF column = "time" THEN stats.requests
                  ELSE SortSeq(stats.requests, LAMBDA a, b : a[column] < b[column])
      chosen == IsSelected(Len(requests))
      batches == IsSelected(Len(stats.batches))
  IN [requests |-> [i \in DOMAIN chosen |-> requests[chosen[i] + 1]],
      batches |-> [i \in DOMAIN batches |-> stats.batches[batches[i] + 1]]]

(* InferenceStatsToDataTableJson: for each model its requests; its batches *)
(* if any model has some, its tensors if there are patterns.               *)
IsTables(model) ==
  <<<<model, "requests">>>>
    \o (IF \E m \in DOMAIN isPerModel : isPerModel[m].batches # <<>>
        THEN <<<<model, "batches">>>> ELSE <<>>)
    \o (IF isPatterns # <<>> THEN <<<<model, "tensors">>>> ELSE <<>>)

IsSample ==
  /\ isPc = "sample"
  /\ isPc' = "end"
  /\ \E column \in IsColumns :
       isAnswer' = [IsNothing EXCEPT
         !.sampled = [m \in DOMAIN isPerModel |-> IsSampled(isPerModel[m], column)],
         !.tables = FlattenSeq([i \in DOMAIN isIds |-> IsTables(i - 1)])]
  /\ UNCHANGED <<isInput, isStatus, isTurn, isIds, isPatterns, isPerHost, isJobs, isSources,
                 isOut, isPerModel>>

IsNext ==
  \/ \E h \in DOMAIN isInput : IsHostEnds(h)
  \/ IsJoin \/ IsCombine \/ IsFail \/ IsRegroup \/ IsTake \/ IsPop \/ IsFinish
  \/ IsAggregate \/ IsSample

IsSpec == IsInit /\ [][IsNext]_isVars
-----------------------------------------------------------------------------
IsTypeOK ==
  /\ isStatus \in [DOMAIN isInput -> {"running", "ok", "error"}]
  /\ isPc \in {"hosts", "combine", "merge", "pop", "sample", "end"}
  /\ isTurn \in 1..Len(isInput) + 1
  /\ DOMAIN isPerModel \subseteq 0..Max({0, Len(isIds) - 1})
  /\ isAnswer.error \in 0..Len(isInput)

(* The model a request has on its host, if its host has models at all. *)
IsModelOf(r) ==
  LET ids == isInput[r.host].ids IN
  IF r.model + 1 \in DOMAIN ids THEN {ids[r.model + 1]} ELSE {}
IsOwn(kind) == UNION {Range(isInput[h][kind]) : h \in DOMAIN isInput}
IsSame(a, b) == a.host = b.host /\ a.id = b.id
IsComplete == isPc = "end" /\ isAnswer.error = 0

(* However the hosts number their models and patterns, and however their   *)
(* lists interleave: the list of a model has every request that has that   *)
(* model on its host, once, in order of time, and each tensor of a request *)
(* is of the pattern it had on its host.  A request without a model is in  *)
(* no list, unless no request has one and all are shown together.  Every   *)
(* batch is in one list at most.                                           *)
IsListsAreComplete ==
  IsComplete =>
    /\ \A m \in DOMAIN isPerModel :
         IsInOrder(isPerModel[m].requests) /\ IsInOrder(isPerModel[m].batches)
    /\ \A r \in IsOwn("requests") : \A m \in DOMAIN isPerModel :
         LET copies == SelectSeq(isPerModel[m].requests, LAMBDA c : IsSame(c, r)) IN
         /\ Len(copies) <= 1
         /\ IsModelOf(r) # {} => (Len(copies) = 1 <=> IsModelOf(r) = {isIds[m + 1]})
         /\ r.model = -1 => (Len(copies) = 1 <=> isIds[m + 1] = "ALL")
         /\ \A c \in Range(copies) : \A i \in DOMAIN c.tensors :
              isPatterns[c.tensors[i].pattern + 1] =
                isInput[r.host].patterns[r.tensors[i].pattern + 1]
    /\ \A b \in IsOwn("batches") :
         b.model # -1 => Cardinality({m \in DOMAIN isPerModel :
                                        \E c \in Range(isPerModel[m].batches) : IsSame(c, b)}) = 1

(* The sample of a model is all of it, or the first data of every wanted   *)
(* range: a range never takes the data, or the room, of another.           *)
IsSampleIsRight ==
  IsComplete =>
    \A m \in DOMAIN isPerModel :
      LET data == isPerModel[m].batches
          n == Len(data)
          First(wanted) ==
            LET within == {k \in 0..n - 1 : IsWithin(k, n, wanted)} IN
            {k \in within : Cardinality({j \in within : j < k}) < IsMaxSelected}
          expected == IF n <= Len(IsWanted) * IsMaxSelected THEN 0..n - 1
                      ELSE UNION {First(w) : w \in Range(IsWanted)}
      IN isAnswer.sampled[m].batches =
           LET ks == SetToSortSeq(expected, <) IN [i \in DOMAIN ks |-> data[ks[i] + 1]]

(* Every batch counts for one size, every tensor for one pattern, every    *)
(* model has its tables; a session with a host that failed has no answer   *)
(* but the error of the first of them.                                     *)
IsCountsAddUp ==
  /\ IsComplete =>
       /\ \A h \in DOMAIN isStatus : isStatus[h] = "ok"
       /\ \A m \in DOMAIN isPerModel :
            LET stats == isPerModel[m] IN
            /\ FoldFunction(LAMBDA s, n : s.batches + n, 0, stats.sizes) = Len(stats.batches)
            /\ FoldFunction(+, 0, stats.tensors) =
                 FoldLeft(LAMBDA n, r : n + Len(SelectSeq(r.tensors, LAMBDA t : t.owner = "request")),
                          0, stats.requests)
                 + FoldLeft(LAMBDA n, b : n + Len(b.tensor), 0, stats.batches)
            /\ <<m, "requests">> \in Range(isAnswer.tables)
            /\ stats.batches # <<>> => <<m, "batches">> \in Range(isAnswer.tables)
  /\ isAnswer.error # 0 =>
       /\ isStatus[isAnswer.error] = "error"
       /\ \A h \in 1..isAnswer.error - 1 : isStatus[h] = "ok"

IsIsRight == IsListsAreComplete /\ IsSampleIsRight /\ IsCountsAddUp
=============================================================================
