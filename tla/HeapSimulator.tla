--------------------------- MODULE HeapSimulator ---------------------------
(***************************************************************************)
(* The memory viewer (convert/hlo_proto_to_memory_visualization_utils.cc). *)
(* The compiler's trace of its heap simulator is replayed: ALLOC and       *)
(* SHARE_WITH take a buffer into use, FREE gives it back.  Buffers that    *)
(* share memory count their references at the root of the chain; one may   *)
(* also share with a buffer that was freed, and so take its memory into    *)
(* use again.  What was in use at the peak is shown as a bar chart.        *)
(***************************************************************************)
EXTENDS Integers, Sequences, SequencesExt, FiniteSetsExt

CONSTANTS
  HsBuffers,    \* logical buffers that the trace may name
  HsSize,       \* HsSize[b]: bytes of a buffer
  HsAllocation, \* HsAllocation[b]: the buffer allocation b is assigned to
  HsIndefinite, \* allocations outside the trace, a sequence of records: the
                \* size of the allocation and those of its logical buffers
  HsSmall,      \* small_buffer_size
  HsNone,       \* no buffer
  HsMaxEvents   \* bound: events of the trace

ASSUME HsAssumption ==
  /\ HsNone \notin HsBuffers
  /\ \A b \in HsBuffers : HsSize[b] \in Nat \ {0}
  /\ HsIndefinite \in Seq([size : Nat, buffers : SUBSET Nat])

VARIABLES
  hsTrace,     \* the events so far
  hsRef,       \* ref_count of each buffer
  hsCanonical, \* canonical_buffer of each buffer, or HsNone
  hsSpan,      \* span of each buffer, or <<>>
  hsLive,      \* logical_buffers
  hsHeap,      \* heap_size_bytes
  hsTimeline,  \* heap_size_bytes_timeline
  hsDisplay,   \* canonical_to_display_id; a root without an entry has itself
  hsPeak,      \* size, position, buffers and displayed buffers of the peak
  hsStatus,    \* "running", "failed" or "done"
  hsResult     \* the PreprocessResult, or <<>>

hsVars == <<hsTrace, hsRef, hsCanonical, hsSpan, hsLive, hsHeap, hsTimeline, hsDisplay,
            hsPeak, hsStatus, hsResult>>

(* The end of a span until the buffer is freed: the last event.            *)
HsLast == -1

HsInit ==
  /\ hsTrace = <<>> /\ hsRef = [b \in HsBuffers |-> 0]
  /\ hsCanonical = [b \in HsBuffers |-> HsNone]
  /\ hsSpan = [b \in HsBuffers |-> <<>>]
  /\ hsLive = <<>> /\ hsHeap = 0 /\ hsTimeline = <<>>
  /\ hsDisplay = [b \in HsBuffers |-> b]
  /\ hsPeak = [bytes |-> 0, at |-> 0, live |-> <<>>, display |-> [b \in HsBuffers |-> b]]
  /\ hsStatus = "running" /\ hsResult = <<>>

(* get_canonical_buffer. *)
HsRoot(b) ==
  LET root[x \in HsBuffers] == IF hsCanonical[x] = HsNone THEN x ELSE root[hsCanonical[x]]
  IN root[b]

(* UpdateOnSimulatorEvent; positions of the trace count from 0.            *)
HsEvent(kind, b, c) ==
  /\ hsStatus = "running" /\ Len(hsTrace) < HsMaxEvents
  /\ hsTrace' = Append(hsTrace, [kind |-> kind, buffer |-> b, of |-> c])
  /\ hsTimeline' = Append(hsTimeline, hsHeap)

HsAt == Len(hsTimeline)

(* Wrong: equal use counts as a new peak. *)
HsIncreaseLatePeak(root) ==
  /\ hsLive' = Append(hsLive, root) /\ hsHeap' = hsHeap + HsSize[root]
  /\ hsPeak' = IF hsHeap' >= hsPeak.bytes
               THEN [bytes |-> hsHeap', at |-> HsAt, live |-> hsLive', display |-> hsDisplay']
               ELSE hsPeak

IncreaseMemoryUsage(root) ==
  /\ hsLive' = Append(hsLive, root) /\ hsHeap' = hsHeap + HsSize[root]
  /\ hsPeak' = IF hsHeap' > hsPeak.bytes
               THEN [bytes |-> hsHeap', at |-> HsAt, live |-> hsLive', display |-> hsDisplay']
               ELSE hsPeak

HsStarted == {hsTrace[i].buffer : i \in DOMAIN hsTrace}

HsAlloc(b) ==
  /\ b \notin HsStarted /\ HsEvent("ALLOC", b, HsNone)
  /\ hsRef' = [hsRef EXCEPT ![b] = @ + 1]
  /\ hsSpan' = [hsSpan EXCEPT ![b] = <<HsAt, HsLast>>]
  /\ UNCHANGED <<hsCanonical, hsDisplay, hsStatus, hsResult>>
  /\ IncreaseMemoryUsage(b)

(* The compiler shares with a buffer that is at least as large. *)
HsShareWith(b, c) ==
  /\ b \notin HsStarted /\ c \in HsStarted /\ HsSize[b] <= HsSize[c]
  /\ HsEvent("SHARE_WITH", b, c)
  /\ hsCanonical' = [hsCanonical EXCEPT ![b] = c]
  /\ LET root == HsRoot(c) IN
     /\ hsRef' = [hsRef EXCEPT ![root] = @ + 1]
     /\ IF hsRef'[root] = 1
        THEN /\ hsDisplay' = [hsDisplay EXCEPT ![root] = b]
             /\ hsSpan' = [hsSpan EXCEPT ![b] = <<HsAt, HsLast>>]
             /\ IncreaseMemoryUsage(root)
        ELSE UNCHANGED <<hsDisplay, hsSpan, hsLive, hsHeap, hsPeak>>
  /\ UNCHANGED <<hsStatus, hsResult>>

(* Wrong: a span that was ended is not ended again. *)
HsEndedOnce(spans, b) ==
  IF spans[b] = <<>> \/ spans[b][2] # HsLast THEN spans ELSE [spans EXCEPT ![b][2] = HsAt]

HsEnded(spans, b) == IF spans[b] = <<>> THEN spans ELSE [spans EXCEPT ![b][2] = HsAt]

HsFree(b) ==
  /\ b \in HsStarted /\ HsEvent("FREE", b, HsNone)
  /\ LET root == HsRoot(b) IN
     /\ hsRef' = [hsRef EXCEPT ![root] = @ - 1]
     /\ IF hsRef'[root] < 0
        THEN hsStatus' = "failed" /\ UNCHANGED <<hsSpan, hsLive, hsHeap>>
        ELSE /\ UNCHANGED hsStatus
             /\ IF hsRef'[root] = 0
                THEN /\ hsLive' = SelectSeq(hsLive, LAMBDA x : x # root)
                     /\ hsHeap' = hsHeap - HsSize[root]
                     /\ hsSpan' = HsEnded(IF b = root THEN hsSpan ELSE HsEnded(hsSpan, b), root)
                ELSE /\ hsSpan' = IF b = root THEN hsSpan ELSE HsEnded(hsSpan, b)
                     /\ UNCHANGED <<hsLive, hsHeap>>
  /\ UNCHANGED <<hsCanonical, hsDisplay, hsPeak, hsResult>>

(* LogicalBuffersWithIndefiniteLifetime: the biggest of each allocation.   *)
HsIndefiniteObjects ==
  [i \in DOMAIN HsIndefinite |-> [id |-> -i, bytes |-> Max(HsIndefinite[i].buffers)]]

HsIndefiniteUsage == MapThenSumSet(LAMBDA i : HsIndefinite[i].size, DOMAIN HsIndefinite)

(* PeakUsageSnapshot: small buffers are shown as one object, 0.            *)
HsObjects(hbm) ==
  LET traced == [i \in DOMAIN hsPeak.live |->
                   LET b == hsPeak.display[hsPeak.live[i]] IN [id |-> b, bytes |-> HsSize[b]]]
      all == (IF hbm THEN HsIndefiniteObjects ELSE <<>>) \o traced
      small == SelectSeq(all, LAMBDA o : o.bytes < HsSmall)
      total == MapThenSumSet(LAMBDA i : small[i].bytes, DOMAIN small)
  IN SelectSeq(all, LAMBDA o : o.bytes >= HsSmall)
       \o (IF total # 0 THEN <<[id |-> 0, bytes |-> total]>> ELSE <<>>)

(* FinalizeMemoryUsage, CreatePeakUsageSnapshot, GeneratePreprocessResult; *)
(* only the memory of color 0, the HBM, shows the indefinite buffers.      *)
HsFinish ==
  /\ hsStatus = "running" /\ hsTrace # <<>>
  /\ IF Cardinality({HsAllocation[b] : b \in HsStarted}) # 1
     THEN hsStatus' = "failed" /\ UNCHANGED hsResult
     ELSE \E hbm \in BOOLEAN :
            /\ hsStatus' = "done"
            /\ hsResult' =
                 [hbm |-> hbm, objects |-> HsObjects(hbm),
                  peak |-> hsPeak.bytes + HsIndefiniteUsage, at |-> hsPeak.at,
                  sizes |-> [i \in 1..Len(hsTimeline) + 1 |->
                               HsIndefiniteUsage + Append(hsTimeline, hsHeap)[i]],
                  spans |-> [b \in {x \in HsStarted : hsSpan[x] # <<>>} |->
                               IF hsSpan[b][2] = HsLast THEN <<hsSpan[b][1], Len(hsTrace) - 1>>
                               ELSE hsSpan[b]]]
  /\ UNCHANGED <<hsTrace, hsRef, hsCanonical, hsSpan, hsLive, hsHeap, hsTimeline, hsDisplay, hsPeak>>

HsNext ==
  \/ \E b \in HsBuffers : HsAlloc(b) \/ HsFree(b)
  \/ \E b, c \in HsBuffers : HsShareWith(b, c)
  \/ HsFinish

HsSpec == HsInit /\ [][HsNext]_hsVars
-----------------------------------------------------------------------------
HsTypeOK ==
  /\ Len(hsTrace) <= HsMaxEvents /\ hsHeap \in Nat
  /\ \A b \in HsBuffers : hsCanonical[b] \in HsBuffers \cup {HsNone}
  /\ hsDisplay \in [HsBuffers -> HsBuffers]
  /\ Len(hsTimeline) = Len(hsTrace)

(* The buffers that use the memory of r, and how many of them hold it      *)
(* after n events, by the trace alone.                                     *)
HsGroup(r) == {b \in HsStarted : HsRoot(b) = r}
HsHeld(r, n) ==
  LET mine == {i \in 1..n : HsRoot(hsTrace[i].buffer) = r}
      frees == {i \in mine : hsTrace[i].kind = "FREE"}
  IN Cardinality(mine \ frees) - Cardinality(frees)
HsRoots == {b \in HsStarted : hsCanonical[b] = HsNone}
HsInUse(n) == {r \in HsRoots : HsHeld(r, n) > 0}
HsUse(n) == MapThenSumSet(LAMBDA r : HsSize[r], HsInUse(n))

(* The replay is right: it fails exactly if some memory is freed more      *)
(* often than it was taken, or there are several allocations; the sizes    *)
(* after each event, the peak and its first position are those of the      *)
(* memory in use, in whatever order it is shared, freed and used again.    *)
HsPeakIsReal ==
  LET total == Len(hsTrace)
      overfreed == \E r \in HsRoots, n \in 1..total : HsHeld(r, n) < 0
      mixed == Cardinality({HsAllocation[b] : b \in HsStarted}) # 1
  IN /\ overfreed => hsStatus = "failed"
     /\ hsStatus = "failed" => overfreed \/ mixed
     /\ hsStatus = "done" =>
          LET p == hsResult.at IN
          /\ ~mixed
          /\ Len(hsResult.sizes) = total + 1
          /\ \A n \in 0..total : hsResult.sizes[n + 1] = HsIndefiniteUsage + HsUse(n)
          /\ hsResult.peak = HsIndefiniteUsage + HsUse(p + 1)
          /\ \A n \in 0..total : HsUse(n) <= HsUse(p + 1) /\ (n <= p => HsUse(n) < HsUse(p + 1))

(* The chart is of the peak: it names each piece of memory in use there    *)
(* once, by the buffer that took it into use last, and is higher than the  *)
(* peak by nothing.                                                        *)
HsChartIsOfPeak ==
  hsStatus = "done" =>
    LET p == hsResult.at
        Taken(r) == {i \in 1..p + 1 : /\ hsTrace[i].kind # "FREE" /\ HsRoot(hsTrace[i].buffer) = r
                                      /\ HsHeld(r, i - 1) = 0}
        shown == {hsTrace[Max(Taken(r))].buffer : r \in HsInUse(p + 1)}
        ids == {hsResult.objects[i].id : i \in DOMAIN hsResult.objects}
        bytes == MapThenSumSet(LAMBDA i : hsResult.objects[i].bytes, DOMAIN hsResult.objects)
    IN /\ \A i, j \in DOMAIN hsResult.objects :
            i # j => hsResult.objects[i].id # hsResult.objects[j].id
       /\ ids \cap HsBuffers = {b \in shown : HsSize[b] >= HsSmall}
       /\ bytes <= hsResult.peak
       /\ ~hsResult.hbm => bytes = MapThenSumSet(LAMBDA b : HsSize[b], shown)

(* Spans: memory that is all given back is shown from the first time it    *)
(* was taken to the last time it was given back, and a buffer that takes   *)
(* freed memory again, from then until it is freed.                        *)
HsSpansAreLifetimes ==
  hsStatus = "done" =>
    LET total == Len(hsTrace)
        Frees(b) == {i \in 1..total : hsTrace[i].buffer = b /\ hsTrace[i].kind = "FREE"}
        Start(b) == CHOOSE i \in 1..total : hsTrace[i].buffer = b /\ hsTrace[i].kind # "FREE"
    IN /\ \A r \in HsRoots : HsHeld(r, total) = 0 =>
            hsResult.spans[r] = <<Start(r) - 1, Max(UNION {Frees(b) : b \in HsGroup(r)}) - 1>>
       /\ \A b \in HsStarted \ HsRoots :
            /\ b \in DOMAIN hsResult.spans <=> HsHeld(HsRoot(b), Start(b) - 1) = 0
            /\ b \in DOMAIN hsResult.spans =>
                 hsResult.spans[b] = <<Start(b) - 1, IF Frees(b) = {} THEN total - 1
                                                     ELSE Max(Frees(b)) - 1>>
=============================================================================
