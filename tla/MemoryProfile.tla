---------------------------- MODULE MemoryProfile ---------------------------
(***************************************************************************)
(* The memory profile of one allocator (convert/xplane_to_memory_profile.  *)
(* cc).  Threads of the host record its allocations and deallocations,     *)
(* each with the use of memory after it and, inside a step, the step's id. *)
(* The plane lists them thread by thread; the profile sorts them by time,  *)
(* mends the step ids, thins them out for the timeline, and breaks the     *)
(* peak down into the allocations that were active.                        *)
(***************************************************************************)
EXTENDS Integers, Sequences, SequencesExt, FiniteSetsExt

CONSTANTS
  MpSizes,      \* MpSizes[a]: the sizes that are allocated at address a
  MpThreads,    \* 1..MpThreads are the lines of the plane
  MpSteps,      \* ids of steps, naturals
  MpBases,      \* addresses of size 1 that may be in use before the profile
  MpStacks,     \* sizes of the reserved stack
  MpMaxSamples, \* max_num_snapshots
  MpMaxEvents   \* bound: events of the allocator

ASSUME MpAssumption == MpMaxSamples \in Nat \ {0} /\ MpSteps \subseteq Nat /\ 0 \notin DOMAIN MpSizes

VARIABLES
  mpBase,    \* addresses in use before the profile
  mpStack,   \* kBytesReserved of all events
  mpEvents,  \* events by time; the index of an event is its time
  mpProfile  \* what the conversion made of them, or <<>>

mpVars == <<mpBase, mpStack, mpEvents, mpProfile>>

MpNoStep == -1

MpInit == mpBase = {} /\ mpStack = 0 /\ mpEvents = <<>> /\ mpProfile = <<>>

MpBegin ==
  /\ mpEvents = <<>> /\ mpProfile = <<>> /\ mpBase = {} /\ mpStack = 0
  /\ mpBase' \in MpBases /\ mpStack' \in MpStacks
  /\ UNCHANGED <<mpEvents, mpProfile>>

(* The last event of an address so far; none is 0. *)
MpLast(a) == Max({i \in DOMAIN mpEvents : mpEvents[i].addr = a} \cup {0})
MpInUse(a) == IF MpLast(a) = 0 THEN a \in mpBase ELSE mpEvents[MpLast(a)].alloc
MpSizeAt(a) == IF MpLast(a) = 0 THEN 1 ELSE mpEvents[MpLast(a)].bytes
MpHeap == IF mpEvents = <<>> THEN Cardinality(mpBase) ELSE Last(mpEvents).heap

MpRecord(a, alloc, bytes) ==
  \E thread \in 1..MpThreads, step \in MpSteps \cup {MpNoStep} :
    mpEvents' = Append(mpEvents, [time |-> Len(mpEvents) + 1, addr |-> a, alloc |-> alloc,
                                  bytes |-> bytes, line |-> thread, step |-> step,
                                  heap |-> MpHeap + IF alloc THEN bytes ELSE -bytes])

MpActivity ==
  /\ mpProfile = <<>> /\ Len(mpEvents) < MpMaxEvents
  /\ \E a \in DOMAIN MpSizes :
       \/ MpInUse(a) /\ MpRecord(a, FALSE, MpSizeAt(a))
       \/ ~MpInUse(a) /\ \E n \in MpSizes[a] : MpRecord(a, TRUE, n)
  /\ UNCHANGED <<mpBase, mpStack, mpProfile>>

MpUse(e) == e.heap + mpStack

(* GenerateMemoryProfile and UpdateProfileSummary: the peak is the last of *)
(* the greatest, thread by thread.                                         *)
MpAsListed == SortSeq(mpEvents, LAMBDA a, b : a.line < b.line \/ (a.line = b.line /\ a.time < b.time))

MpPeak ==
  FoldLeft(LAMBDA p, e : IF MpUse(e) >= p.use THEN [use |-> MpUse(e), time |-> e.time, heap |-> e.heap]
                         ELSE p,
           [use |-> 0, time |-> 0, heap |-> 0], MpAsListed)

(* UpdateStepId: an event without a step is in the one after the last. *)
MpUpdateStepId(events) ==
  [i \in DOMAIN events |->
     LET valid == {j \in 1..i : events[j].step # MpNoStep} IN
     IF i \in valid THEN events[i]
     ELSE [events[i] EXCEPT !.step = IF valid = {} THEN 0 ELSE events[Max(valid)].step + 1]]

(* UpdateDeallocation: the allocation whose metadata a deallocation copies. *)
MpMatches(events) ==
  LET Scan(state, e) ==
        IF ~e.alloc
        THEN [open |-> [state.open EXCEPT ![e.addr] = 0], of |-> Append(state.of, state.open[e.addr])]
        ELSE [open |-> [state.open EXCEPT ![e.addr] = IF @ = 0 THEN e.time ELSE @],
              of |-> Append(state.of, 0)]
  IN FoldLeft(Scan, [open |-> [a \in DOMAIN MpSizes |-> 0], of |-> <<>>], events).of

(* The boxes of SampleMemoryProfileTimeline. *)
MpBoxes(n) ==
  LET width == n \div MpMaxSamples
      narrow == MpMaxSamples * (width + 1) - n
      Start(b) == narrow * width + (b - narrow - 1) * (width + 1)
  IN [b \in 1..MpMaxSamples |->
        IF b <= narrow THEN (b - 1) * width + 1..b * width
        ELSE Start(b) + 1..Start(b) + width + 1]

(* max_box_filter: the first of the greatest. *)
MpSample(events) ==
  IF Len(events) <= MpMaxSamples THEN events
  ELSE [b \in 1..MpMaxSamples |->
          events[CHOOSE i \in MpBoxes(Len(events))[b] : \A j \in MpBoxes(Len(events))[b] :
                   MpUse(events[j]) < MpUse(events[i]) \/ (MpUse(events[j]) = MpUse(events[i]) /\ i <= j)]]

(* GetPeakMemoryStep: of the last one by time. *)
MpPeakStep(events) ==
  LET at == {i \in DOMAIN events : MpUse(events[i]) = MpPeak.use} IN
  IF at = {} THEN 0 ELSE events[Max(at)].step

(* ProcessActiveAllocations: the step's activity up to the peak. *)
MpScan(events) ==
  LET step == MpPeakStep(events)
      Scan(state, e) ==
        IF e.time > MpPeak.time \/ e.step # step THEN state
        ELSE IF e.alloc THEN [state EXCEPT !.active[e.addr] = e.time, !.unmapped = @ - e.bytes]
        ELSE [active |-> [state.active EXCEPT ![e.addr] = 0],
              unmapped |-> state.unmapped + e.bytes,
              freed |-> state.freed + IF state.active[e.addr] = 0 THEN e.bytes ELSE 0]
  IN FoldLeft(Scan, [active |-> [a \in DOMAIN MpSizes |-> 0], unmapped |-> MpPeak.heap, freed |-> 0],
              events)

(* Wrong: what the step frees of earlier ones counts as in use. *)
MpUnmappedFreed(scan) == scan.unmapped

MpUnmapped(scan) == scan.unmapped - scan.freed

(* The rows, by size: of the scan and, below 0, the special allocations.   *)
MpRows(events) ==
  LET scan == MpScan(events)
      Row(index, bytes) == [index |-> index, bytes |-> bytes]
      unmapped == MpUnmapped(scan)
      special == IF unmapped > 0 THEN <<Row(-1, unmapped)>> ELSE <<>>
      stack == IF mpStack > 0 THEN <<Row(-1 - Len(special), mpStack)>> ELSE <<>>
      active == SetToSeq({Row(i, events[i].bytes) : i \in Range(scan.active) \ {0}})
  IN SortSeq(active \o special \o stack, LAMBDA a, b : a.bytes > b.bytes)

(* Identical rows become one.  The special ones have names of their own.   *)
MpMerged(rows) ==
  LET Same(a, b) == a.bytes = b.bytes /\ a.index > 0 /\ b.index > 0
      Merge(seq, r) ==
        IF seq # <<>> /\ Same(Last(seq), r)
        THEN [seq EXCEPT ![Len(seq)].times = @ + 1]
        ELSE Append(seq, [index |-> r.index, bytes |-> r.bytes, times |-> 1])
  IN FoldLeft(Merge, <<>>, rows)

(* SaveActiveAllocationSnapshots: only snapshots of rows are kept, in the  *)
(* order of the rows, and the rows point to their new places.              *)
MpSaved(rows, events) ==
  LET kept == SelectSeq(rows, LAMBDA r : r.index > 0) IN
  [snapshots |-> [i \in DOMAIN kept |-> events[kept[i].index]],
   rows |-> [i \in DOMAIN rows |->
               IF rows[i].index < 0 THEN rows[i]
               ELSE [rows[i] EXCEPT !.index = Len(SelectSeq(SubSeq(rows, 1, i), LAMBDA r : r.index > 0))]]]

(* ProcessMemoryProfileProto. *)
MpConvert ==
  /\ mpEvents # <<>> /\ mpProfile = <<>>
  /\ LET sorted == SortSeq(MpAsListed, LAMBDA a, b : a.time < b.time)
         events == MpUpdateStepId(sorted)
         saved == MpSaved(MpMerged(MpRows(events)), events)
     IN mpProfile' = [events |-> events, matches |-> MpMatches(events), timeline |-> MpSample(events),
                      peak |-> MpPeak, step |-> MpPeakStep(events),
                      rows |-> saved.rows, snapshots |-> saved.snapshots]
  /\ UNCHANGED <<mpBase, mpStack, mpEvents>>

MpNext == MpBegin \/ MpActivity \/ MpConvert

MpSpec == MpInit /\ [][MpNext]_mpVars
-----------------------------------------------------------------------------
(* Allocations of the profile that are in use at time t. *)
MpLive(t) ==
  {i \in 1..t : mpEvents[i].alloc /\ \A j \in i + 1..t : mpEvents[j].addr # mpEvents[i].addr}

MpTypeOK ==
  /\ mpBase \subseteq DOMAIN MpSizes /\ mpStack \in Nat
  /\ Len(mpEvents) <= MpMaxEvents
  /\ \A i \in DOMAIN mpEvents : mpEvents[i].time = i /\ mpEvents[i].heap \in Nat

(* The timeline has a point for each of its boxes, in the order of time,   *)
(* and whatever is thinned out, the peak is still on it.                   *)
MpTimelineKeepsPeak ==
  mpProfile # <<>> =>
    LET points == mpProfile.timeline IN
    /\ Len(points) = Min({Len(mpEvents), MpMaxSamples})
    /\ \A i, j \in DOMAIN points : i < j => points[i].time < points[j].time
    /\ \E i \in DOMAIN points : \A e \in Range(mpEvents) : MpUse(e) <= MpUse(points[i])

(* The breakdown is of the peak.  As long as the steps come one after the  *)
(* other once their ids are mended: the rows add up to the use of memory   *)
(* at the peak, each of them is an allocation of that size which is in use *)
(* then, and if the peak is reached once, they are all that its step has   *)
(* allocated.  A deallocation is described as what it frees.               *)
MpBreakdownIsOfPeak ==
  mpProfile # <<>> =>
    LET events == mpProfile.events
        rows == mpProfile.rows
        ordered == \A i, j \in DOMAIN events : i < j => events[i].step <= events[j].step
        mine == {i \in MpLive(mpProfile.peak.time) : events[i].step = mpProfile.step}
        OfSize(n) == {i \in mine : events[i].bytes = n}
        once == \A i, j \in DOMAIN events :
                  MpUse(events[i]) = mpProfile.peak.use /\ MpUse(events[j]) = mpProfile.peak.use => i = j
    IN /\ \A i \in DOMAIN events : mpProfile.matches[i] # 0 =>
            ~events[i].alloc /\ mpProfile.matches[i] \in MpLive(i - 1)
                             /\ events[mpProfile.matches[i]].addr = events[i].addr
       /\ ordered =>
            /\ MapThenSumSet(LAMBDA i : rows[i].bytes * rows[i].times, DOMAIN rows) = mpProfile.peak.use
            /\ \A i \in DOMAIN rows : rows[i].index > 0 =>
                 LET s == mpProfile.snapshots[rows[i].index] IN
                 s.time \in OfSize(rows[i].bytes) /\ rows[i].times <= Cardinality(OfSize(rows[i].bytes))
            /\ once => \A n \in {events[i].bytes : i \in mine} : \E i \in DOMAIN rows :
                 rows[i].index > 0 /\ rows[i].bytes = n /\ rows[i].times = Cardinality(OfSize(n))

(* The peak of memory is kept on the timeline and broken down.             *)
MpPeakIsExplained == MpTimelineKeepsPeak /\ MpBreakdownIsOfPeak
=============================================================================
