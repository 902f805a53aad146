----------------------------- MODULE FlameChart -----------------------------
(***************************************************************************)
(* The layout of the trace viewer (trace_viewer_v2/timeline/data_provider, *)
(* trace_helper/trace_event_packer, trace_event_tree).  Events are grouped *)
(* into tracks, by thread or, if asynchronous, by name; a track packs its  *)
(* events into as few levels as it can, and the tracks follow each other.  *)
(* Self times come from the tree of a track's events.  Flow lines join     *)
(* levels that are looked up by thread and time.  Events are indices into  *)
(* fcEvents; which groups are expanded, colours and arguments are left out.*)
(***************************************************************************)
EXTENDS Integers, Sequences, SequencesExt, FiniteSetsExt

CONSTANTS
  FcProcesses, \* process metadata: pid -> [name, index, priority]
  FcThreads,   \* thread metadata: <<pid, tid>> -> [name, index, priority, modules]
  FcNone,      \* no name, or no sort index
  FcKinds,     \* events: [thread, name, async, ts, dur]
  FcMarks,     \* flow events: [id, thread, ts]
  FcCounters,  \* counter tracks: <<pid, name>>
  FcMaxEvents, FcMaxMarks \* bounds: events, flow events

VARIABLES
  fcMpmd,     \* mpmd_pipeline_view
  fcEvents, fcFlow, fcCounters, \* the parsed events
  fcChart     \* FlameChartTimelineData, or <<>>

fcVars == <<fcMpmd, fcEvents, fcFlow, fcCounters, fcChart>>

FcInit ==
  /\ fcMpmd \in BOOLEAN
  /\ fcEvents = <<>> /\ fcFlow = <<>> /\ fcCounters = {}
  /\ fcChart = <<>>

(* The sorts are stable: the order of the input matters for equal times.   *)
FcAddEvent(e) ==
  /\ fcChart = <<>> /\ fcFlow = <<>> /\ fcCounters = {}
  /\ Len(fcEvents) < FcMaxEvents
  /\ fcEvents # <<>> => Last(fcEvents).ts <= e.ts
  /\ fcEvents' = Append(fcEvents, e)
  /\ UNCHANGED <<fcMpmd, fcFlow, fcCounters, fcChart>>

FcAddMark(m) ==
  /\ fcChart = <<>> /\ fcCounters = {}
  /\ Len(fcFlow) < FcMaxMarks
  /\ fcFlow # <<>> => Last(fcFlow).ts <= m.ts
  /\ fcFlow' = Append(fcFlow, m)
  /\ UNCHANGED <<fcMpmd, fcEvents, fcCounters, fcChart>>

FcAddCounter(c) ==
  /\ fcChart = <<>> /\ c \notin fcCounters
  /\ fcCounters' = fcCounters \cup {c}
  /\ UNCHANGED <<fcMpmd, fcEvents, fcFlow, fcChart>>

Start(i) == fcEvents[i].ts
End(i) == fcEvents[i].ts + fcEvents[i].dur

(* By start time, then the longer ones first. *)
Earlier(i, j) ==
  \/ Start(i) < Start(j)
  \/ Start(i) = Start(j) /\ (End(i) > End(j) \/ (End(i) = End(j) /\ i < j))

(* events_by_pid_tid: threads of flow events are registered too.           *)
FcUsedThreads == {e.thread : e \in Range(fcEvents)} \cup {m.thread : m \in Range(fcFlow)}
EventsOf(thread) ==
  SetToSortSeq({i \in DOMAIN fcEvents : fcEvents[i].thread = thread}, Earlier)
TidsOf(pid) == {thread[2] : thread \in {t \in FcUsedThreads : t[1] = pid}}

(* CompareTrackMetadata: an index before none, then a name before none.    *)
Has(a, b) == a # FcNone /\ b = FcNone
Precedes(a, b) ==
  \/ Has(a.index, b.index)
  \/ a.index # FcNone /\ b.index # FcNone /\ a.index < b.index
  \/ /\ a.index = b.index
     /\ \/ Has(a.name, b.name)
        \/ a.name # FcNone /\ b.name # FcNone /\ a.name < b.name
        \/ a.name = b.name /\ a.id < b.id

ThreadMeta(pid, tid) ==
  IF <<pid, tid>> \in DOMAIN FcThreads
  THEN [name |-> FcThreads[<<pid, tid>>].name, index |-> FcThreads[<<pid, tid>>].index, id |-> tid]
  ELSE [name |-> FcNone, index |-> FcNone, id |-> tid]
SortedTids(pid, tids) ==
  SetToSortSeq(tids, LAMBDA a, b : Precedes(ThreadMeta(pid, a), ThreadMeta(pid, b)))

NamedTids(pid) ==
  {t[2] : t \in {x \in DOMAIN FcThreads : x[1] = pid /\ FcThreads[x].name # FcNone}}

(* GetAsyncProcessPriority: names count, and so do asynchronous events.    *)
Priority(pid) ==
  LET named == IF pid \in DOMAIN FcProcesses THEN {FcProcesses[pid].priority} ELSE {}
      threads == {FcThreads[<<pid, t>>].priority : t \in TidsOf(pid) \cap NamedTids(pid)}
      async == {1 : i \in {j \in DOMAIN fcEvents : fcEvents[j].thread[1] = pid /\ fcEvents[j].async}}
  IN Max({0} \cup named \cup threads \cup async)

(* GetSortedProcessIds *)
SortedPids ==
  LET pids == DOMAIN FcProcesses \cup {t[1] : t \in FcUsedThreads}
                \cup {c[1] : c \in fcCounters} \cup {t[1] : t \in DOMAIN FcThreads}
      Meta(p) == IF p \in DOMAIN FcProcesses
                 THEN [name |-> FcProcesses[p].name, index |-> FcProcesses[p].index, id |-> p]
                 ELSE [name |-> FcNone, index |-> FcNone, id |-> p]
  IN SetToSortSeq(pids, LAMBDA a, b :
       \/ Priority(a) > Priority(b)
       \/ Priority(a) = Priority(b) /\ Precedes(Meta(a), Meta(b)))

(* PopulateAsyncProcessTrack: by name the events of all threads, one       *)
(* thread after the other, and then the threads of the other events.       *)
AsyncTracks(pid) ==
  LET mine == {i \in DOMAIN fcEvents : fcEvents[i].thread[1] = pid}
      names == {fcEvents[i].name : i \in {j \in mine : fcEvents[j].async}}
      tids == SetToSortSeq(TidsOf(pid), <)
      Named(name) == FlattenSeq([n \in DOMAIN tids |->
        SelectSeq(EventsOf(<<pid, tids[n]>>),
                  LAMBDA i : fcEvents[i].async /\ fcEvents[i].name = name)])
      Plain(tid) == SelectSeq(EventsOf(<<pid, tid>>), LAMBDA i : ~fcEvents[i].async)
      byName == SetToSortSeq(names, <)
      byTid == SortedTids(pid, {t \in TidsOf(pid) : Plain(t) # <<>>})
  IN [n \in DOMAIN byName |-> [thread |-> <<>>, events |-> Named(byName[n])]]
       \o [n \in DOMAIN byTid |-> [thread |-> <<pid, byTid[n]>>, events |-> Plain(byTid[n])]]

(* PopulateSyncProcessTrack: threads that have a name only are shown too,  *)
(* in the MPMD view just the one of the XLA modules.                       *)
SyncTracks(pid) ==
  LET Modules(t) == <<pid, t>> \in DOMAIN FcThreads /\ FcThreads[<<pid, t>>].modules
      Shown(t) == ~fcMpmd \/ EventsOf(<<pid, t>>) # <<>> \/ Modules(t)
      tids == SortedTids(pid, {t \in TidsOf(pid) \cup NamedTids(pid) : Shown(t)})
  IN [n \in DOMAIN tids |->
        [thread |-> <<pid, tids[n]>>, events |-> EventsOf(<<pid, tids[n]>>)]]

(* PopulateProcessTrack: the tracks of a process and then its counters.    *)
TracksOf(pid) ==
  (IF Priority(pid) > 0 THEN AsyncTracks(pid) ELSE SyncTracks(pid))
    \o [n \in 1..Cardinality({c \in fcCounters : c[1] = pid}) |->
          [thread |-> <<>>, events |-> <<>>]]

(* PackTraceEvents: the first row whose last event has ended.              *)
Pack(events) ==
  LET Place(p, i) ==
        LET free == {r \in DOMAIN p.ends : p.ends[r] <= Start(i)}
            row == IF free = {} THEN Len(p.ends) + 1 ELSE Min(free)
        IN [ends |-> IF free = {} THEN Append(p.ends, End(i)) ELSE [p.ends EXCEPT ![row] = End(i)],
            row |-> (i :> row) @@ p.row]
  IN FoldLeft(Place, [ends |-> <<>>, row |-> <<>>], SetToSortSeq(Range(events), Earlier)).row

(* BuildTree: an event that sticks out of the one it begins in is left out *)
(* of the tree; one that begins before it is a root of its own.            *)
SelfTimeTree(events) ==
  LET Grow(t, i) ==
        LET stays == {n \in DOMAIN t.stack : Start(i) < End(t.stack[n]) \/ Start(i) < Start(t.stack[n])}
            stack == SubSeq(t.stack, 1, Max({0} \cup stays))
            parent == Last(stack)
            self == (i :> fcEvents[i].dur) @@ t.self
        IN IF stack = <<>> \/ Start(i) < Start(parent)
           THEN [stack |-> Append(stack, i), self |-> self]
           ELSE IF End(i) <= End(parent)
           THEN [stack |-> Append(stack, i), self |-> [self EXCEPT ![parent] = @ - fcEvents[i].dur]]
           ELSE [stack |-> stack, self |-> self]
  IN FoldLeft(Grow, [stack |-> <<>>, self |-> <<>>], events).self

(* Wrong: the next track begins on the last level of this one. *)
NextLevelShared(level, rows) == level + Max({1} \cup rows) - 1

NextLevel(level, rows) == level + Max({1} \cup rows)

(* CreateTimelineData without the flow lines: levels count from 0.         *)
Layout ==
  LET pids == SortedPids
      tracks == FlattenSeq([n \in DOMAIN pids |-> TracksOf(pids[n])])
      Draw(c, track) ==
        LET row == Pack(track.events)
            next == NextLevel(c.next, Range(row))
        IN [next |-> next,
            level |-> [i \in Range(track.events) |-> c.next + row[i] - 1] @@ c.level,
            self |-> SelfTimeTree(track.events) @@ c.self,
            spans |-> Append(c.spans, <<c.next, next>>),
            threads |-> (track.thread :> <<c.next, next>>) @@ c.threads]
  IN [FoldLeft(Draw, [next |-> 0, level |-> <<>>, self |-> <<>>, spans |-> <<>>, threads |-> <<>>],
               tracks) EXCEPT !.threads = [t \in DOMAIN @ \ {<<>>} |-> @[t]]]

(* GetEventFlameChartLevel: from the deepest level up, the last event that *)
(* has begun must not have ended.                                          *)
LevelAt(chart, mark) ==
  LET span == chart.threads[mark.thread]
      Begun(l) == {i \in DOMAIN chart.level : chart.level[i] = l /\ Start(i) <= mark.ts}
      Latest(l) == CHOOSE i \in Begun(l) : \A j \in Begun(l) : j = i \/ Earlier(j, i)
      hits == {l \in span[1]..span[2] - 1 : Begun(l) # {} /\ End(Latest(l)) >= mark.ts}
  IN Max({span[1]} \cup hits)

(* GenerateFlowLines: neighbours in time, on threads that have a track.    *)
FlowLines(chart) ==
  LET Sorted(id) ==
        SetToSortSeq({n \in DOMAIN fcFlow : fcFlow[n].id = id},
                     LAMBDA m, n : \/ fcFlow[m].ts < fcFlow[n].ts
                                   \/ fcFlow[m].ts = fcFlow[n].ts /\ m < n)
      Lines(s) == {<<s[n], s[n + 1]>> : n \in {k \in 1..Len(s) - 1 :
                     {fcFlow[s[k]].thread, fcFlow[s[k + 1]].thread} \subseteq DOMAIN chart.threads}}
      pairs == UNION {Lines(Sorted(id)) : id \in {m.id : m \in Range(fcFlow)}}
  IN {[from |-> p[1], to |-> p[2], source |-> LevelAt(chart, fcFlow[p[1]]),
       target |-> LevelAt(chart, fcFlow[p[2]])] : p \in pairs}

(* DataProvider::ProcessTraceEvents *)
FcProcess ==
  /\ fcChart = <<>>
  /\ fcChart' = IF fcEvents = <<>> /\ fcFlow = <<>> /\ fcCounters = {}
                THEN [next |-> 0, level |-> <<>>, self |-> <<>>, spans |-> <<>>,
                      threads |-> <<>>, lines |-> {}]
                ELSE LET chart == Layout IN chart @@ [lines |-> FlowLines(chart)]
  /\ UNCHANGED <<fcMpmd, fcEvents, fcFlow, fcCounters>>

FcNext ==
  \/ \E e \in FcKinds : FcAddEvent(e)
  \/ \E m \in FcMarks : FcAddMark(m)
  \/ \E c \in FcCounters : FcAddCounter(c)
  \/ FcProcess

FcSpec == FcInit /\ [][FcNext]_fcVars
-----------------------------------------------------------------------------
FcTypeOK ==
  /\ Len(fcEvents) <= FcMaxEvents /\ Len(fcFlow) <= FcMaxMarks
  /\ fcChart # <<>> =>
       /\ DOMAIN fcChart.self = DOMAIN fcChart.level
       /\ DOMAIN fcChart.threads \subseteq FcUsedThreads \cup DOMAIN FcThreads

(* The events of a track: of a thread, or asynchronous ones of a name.     *)
TrackOf(i) ==
  LET e == fcEvents[i] IN
  IF e.async /\ Priority(e.thread[1]) > 0 THEN <<e.thread[1], "async", e.name>>
  ELSE <<e.thread[1], "thread", e.thread[2]>>
Together(i) == {j \in DOMAIN fcEvents : TrackOf(j) = TrackOf(i)}
Inside(i, j) == i # j /\ Earlier(i, j) /\ Start(j) < End(i)
Strictly(i) == \A j, k \in Together(i) : Inside(j, k) => End(k) <= End(j)
OneThread(i) == \A j \in Together(i) : fcEvents[j].thread = fcEvents[i].thread

(* Every event is drawn once, on levels of its own track, where it covers  *)
(* no other event.                                                         *)
FcNothingIsHidden ==
  LET l == fcChart.level IN
  /\ DOMAIN l = DOMAIN fcEvents
  /\ \A i, j \in DOMAIN l : i # j /\ l[i] = l[j] =>
       /\ j \in Together(i)
       /\ Start(i) >= End(j) \/ Start(j) >= End(i)
  /\ \A i, j \in DOMAIN fcChart.spans : i < j => fcChart.spans[i][2] <= fcChart.spans[j][1]

(* In a track whose events nest an event is drawn below those it is inside *)
(* of, as many levels deep; if it is of one thread the self times are what *)
(* the events directly inside leave.                                       *)
FcNestingIsShown ==
  \A i \in DOMAIN fcEvents : Strictly(i) =>
    LET around == {j \in Together(i) : Inside(j, i)}
        inner == {j \in Together(i) : Inside(i, j)}
        direct == {j \in inner : ~\E k \in inner : Inside(k, j)}
        top == Min({fcChart.level[j] : j \in Together(i)})
    IN /\ fcChart.level[i] = top + Cardinality(around)
       /\ OneThread(i) =>
            fcChart.self[i] = fcEvents[i].dur - MapThenSumSet(LAMBDA j : fcEvents[j].dur, direct)

(* A flow line ends at the deepest event of the thread that runs at that   *)
(* time; only ends on threads without a track are left out, which are      *)
(* those of processes that are shown by name.                              *)
FcLinesMeetEvents ==
  LET At(m) == {i \in DOMAIN fcEvents : /\ TrackOf(i) = <<m.thread[1], "thread", m.thread[2]>>
                                        /\ Start(i) <= m.ts /\ m.ts <= End(i)}
      Deepest(m) == Max({fcChart.threads[m.thread][1]} \cup {fcChart.level[i] : i \in At(m)})
  IN /\ \A line \in fcChart.lines :
          /\ fcFlow[line.from].ts <= fcFlow[line.to].ts
          /\ line.source = Deepest(fcFlow[line.from])
          /\ line.target = Deepest(fcFlow[line.to])
     /\ \A m \in Range(fcFlow) : Priority(m.thread[1]) = 0 /\ ~fcMpmd =>
          m.thread \in DOMAIN fcChart.threads

FcLayoutIsTrue ==
  fcChart # <<>> => FcNothingIsHidden /\ FcNestingIsShown /\ FcLinesMeetEvents
=============================================================================
