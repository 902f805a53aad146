----------------------------- MODULE EventSweep -----------------------------
(***************************************************************************)
(* The sweep of utils/event_span.cc over events that overlap: boundaries   *)
(* in order, and the highest type that is active between two of them.  A   *)
(* type is its priority, 0 is UNKNOWN_TIME; an event has a type, a begin   *)
(* and an end.                                                             *)
(***************************************************************************)
EXTENDS Integers, Sequences, FiniteSets, SequencesExt

EsBoundary(time, type, isStart) == [time |-> time, type |-> type, start |-> isStart]

(* CmpEventBoundaries: ends before starts, the higher priority first. *)
EsBefore(a, b) ==
  \/ a.time < b.time
  \/ a.time = b.time /\ ~a.start /\ b.start
  \/ a.time = b.time /\ a.start = b.start /\ a.type > b.type

(* GenerateEventBoundaries. *)
EsBoundaries(events) ==
  SortSeq([i \in 1..2 * Len(events) |->
             LET e == events[(i + 1) \div 2] IN
             IF i % 2 = 1 THEN EsBoundary(e.begin, e.type, TRUE)
                          ELSE EsBoundary(e.end, e.type, FALSE)],
          EsBefore)

(* PriorityTracker: priority_count_ and current_max_priority_. *)
EsTracker(types) == [count |-> [t \in types \cup {0} |-> 0], max |-> 0]

EsCounted(s, b) ==
  [s.count EXCEPT ![b.type] = IF b.start THEN @ + 1 ELSE @ - 1]

(* Wrong: when the highest type ends, nothing is left. *)
EsTrackedForgets(s, b) ==
  LET count == EsCounted(s, b) IN
  [count |-> count,
   max |-> IF b.start THEN IF b.type > s.max THEN b.type ELSE s.max
           ELSE IF b.type # s.max \/ count[b.type] # 0 THEN s.max ELSE 0]

(* PriorityTracker::Update: the search for the next active type starts     *)
(* below the one that ended.  The end of an empty event comes before its   *)
(* start, which leaves the type on top with nothing active.                *)
EsTracked(s, b) ==
  LET count == EsCounted(s, b)
      below == {t \in DOMAIN count : t < b.type /\ count[t] > 0}
  IN [count |-> count,
      max |-> IF b.start THEN IF b.type > s.max THEN b.type ELSE s.max
              ELSE IF b.type # s.max \/ count[b.type] # 0 THEN s.max
              ELSE IF below = {} THEN 0
              ELSE CHOOSE t \in below : \A u \in below : u <= t]

(* ToNonOverlappedEvents as a whole. *)
EsNonOverlapped(events) ==
  LET todo == EsBoundaries(events)
      types == {e.type : e \in Range(events)}
      Turn(s, i) ==
        LET t == EsTracked(s.tracker, todo[i]) IN
        [tracker |-> t,
         spans |-> Append(s.spans, [type |-> t.max, begin |-> todo[i].time,
                                    end |-> todo[i + 1].time])]
  IN FoldLeft(Turn, [tracker |-> EsTracker(types), spans |-> <<>>],
              [i \in 1..Len(todo) - 1 |-> i]).spans
=============================================================================
