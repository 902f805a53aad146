--------------------------- MODULE HostOpMetrics ---------------------------
(***************************************************************************)
(* What the threads of a host spent on TensorFlow ops                      *)
(* (convert/xplane_to_op_metrics_db.cc, convert/op_stack.h).  The ops of a *)
(* line are turned into activities, begins and ends, sorted by time, and   *)
(* replayed on a stack: an op that ends adds its time to the one below.    *)
(* The lines are combined into one database.                               *)
(***************************************************************************)
EXTENDS OpMetricsDb

CONSTANTS
  HoKinds,    \* what an event may stand for: a sequence of at most two ops
  HoInfeed,   \* the ops that enqueue to the infeed
  HoEnd,      \* bound: the end of time
  HoMaxEvents \* bound: events of all lines

VARIABLES
  hoLines,  \* history: the events of the lines so far
  hoPhase,  \* "reading" the last line, or "done"
  hoResult, \* the combined database
  hoInfeed  \* and the totals of the infeed in it

hoVars == <<hoLines, hoPhase, hoResult, hoInfeed>>

NoInfeed == [last |-> <<0, 0>>, duration |-> 0, diff |-> 0]

HoInit ==
  /\ hoLines = <<<<>>>> /\ hoPhase = "reading"
  /\ hoResult = EmptyDb /\ hoInfeed = NoInfeed

(* Events of a line are sorted by their begins, the longer ones first.     *)
HoEvent(kind, begin, end) ==
  /\ hoPhase = "reading"
  /\ Len(FlattenSeq(hoLines)) < HoMaxEvents
  /\ LET line == Last(hoLines) IN
     /\ line # <<>> =>
          \/ Last(line).begin < begin
          \/ Last(line).begin = begin /\ end <= Last(line).end
     /\ hoLines' = [hoLines EXCEPT ![Len(hoLines)] =
                      Append(line, [ops |-> kind, begin |-> begin, end |-> end])]
  /\ UNCHANGED <<hoPhase, hoResult, hoInfeed>>

(* The ops of a line, with the number that CollectTfActivities gives them. *)
HoOps(line) ==
  FlattenSeq([i \in DOMAIN line |->
                [n \in DOMAIN line[i].ops |->
                   [key |-> line[i].ops[n], begin |-> line[i].begin, end |-> line[i].end]]])

(* CollectTfActivities and the stable sort of ProcessTfActivities.         *)
HoActivities(line) ==
  LET ops == HoOps(line)
      Activity(i) == LET op == (i + 1) \div 2 IN
        [id |-> op, key |-> ops[op].key, at |-> IF i % 2 = 1 THEN ops[op].begin ELSE ops[op].end,
         begins |-> i % 2 = 1, place |-> i]
      Earlier(a, b) == a.at < b.at \/ (a.at = b.at /\ a.place < b.place)
  IN SortSeq([i \in 1..2 * Len(ops) |-> Activity(i)], Earlier)

(* OpStack::Pop: everything above the op that is looked for goes too, and  *)
(* all of the stack if the op is not on it.                                *)
PopTo(stack, id) ==
  LET at == SelectLastInSeq(stack, LAMBDA o : o.id = id) IN
  SubSeq(stack, 1, IF at = 0 THEN 0 ELSE at - 1)

(* EnterHostInfeedEnqueue: an empty span stands for none. *)
HoEnqueue(infeed, begin, end) ==
  IF infeed.last[1] = infeed.last[2]
  THEN [infeed EXCEPT !.last = <<begin, end>>]
  ELSE [last |-> <<begin, end>>,
        duration |-> Plus(infeed.duration, infeed.last[2] - infeed.last[1]),
        diff |-> Plus(infeed.diff, Minus(begin, infeed.last[1]))]

(* Wrong: the op below is charged what the op itself took. *)
HoChargeSelf(stack, time, children) ==
  IF stack = <<>> THEN stack ELSE [stack EXCEPT ![Len(stack)].children = @ + time - children]

HoCharge(stack, time, children) ==
  IF stack = <<>> THEN stack ELSE [stack EXCEPT ![Len(stack)].children = @ + time]

(* ProcessOneTfActivity: s holds the stack, the database and the infeed.   *)
HoProcess(s, a) ==
  LET rest == PopTo(s.stack, a.id)
      found == \E i \in DOMAIN s.stack : s.stack[i].id = a.id
      info == s.stack[Len(rest) + 1]
      time == a.at - info.begin
  IN IF a.begins
     THEN [s EXCEPT !.stack = Append(@, [id |-> a.id, begin |-> a.at, children |-> 0])]
     ELSE IF ~found THEN [s EXCEPT !.stack = rest]
     ELSE [stack |-> HoCharge(rest, time, info.children),
           db |-> EnterOp(s.db, a.key, 1, time, info.children, 0),
           infeed |-> IF a.key \in HoInfeed THEN HoEnqueue(s.infeed, info.begin, a.at)
                      ELSE s.infeed]

HoWindow(line) ==
  LET a == HoActivities(line) IN IF a = <<>> THEN 0 ELSE Last(a).at - Head(a).at

(* ProcessTfActivities, ConsumeTfMetricsDbData; another line may follow.   *)
HoConvertLine(more) ==
  /\ hoPhase = "reading"
  /\ LET line == Last(hoLines)
         s == FoldLeft(HoProcess, [stack |-> <<>>, db |-> EmptyDb, infeed |-> NoInfeed],
                       HoActivities(line))
     IN /\ hoResult' = Combine(AddIdleOp(SetTotalTimePs(s.db, HoWindow(line))), hoResult)
        /\ hoInfeed' = [hoInfeed EXCEPT !.duration = Plus(@, s.infeed.duration),
                                        !.diff = Plus(@, s.infeed.diff)]
  /\ hoPhase' = IF more THEN "reading" ELSE "done"
  /\ hoLines' = IF more THEN Append(hoLines, <<>>) ELSE hoLines

HoNext ==
  \/ \E kind \in HoKinds, begin, end \in 0..HoEnd : begin <= end /\ HoEvent(kind, begin, end)
  \/ \E more \in BOOLEAN :
       /\ more => Last(hoLines) # <<>> /\ Len(FlattenSeq(hoLines)) < HoMaxEvents
       /\ HoConvertLine(more)

HoSpec == HoInit /\ [][HoNext]_hoVars
-----------------------------------------------------------------------------
HoTypeOK ==
  /\ hoPhase \in {"reading", "done"}
  /\ DOMAIN hoResult.ops \subseteq {OmIdle} \cup UNION {Range(k) : k \in HoKinds}
  /\ hoInfeed.duration \in 0..OmWord - 1 /\ hoInfeed.diff \in 0..OmWord - 1

(* Of two ops of a line, the inner one ends before the outer one.          *)
HoNested(line) ==
  LET ops == HoOps(line) IN
  \A i, j \in DOMAIN ops : i < j /\ ops[j].begin < ops[i].end => ops[j].end < ops[i].end

HoInfeedSpans(line) == SelectSeq(HoOps(line), LAMBDA o : o.key \in HoInfeed)

(* Whatever the spans, no op is charged more to its children than it took. *)
(* If the inner ops of every line end before the outer ones, the self time *)
(* of an op is the time in which it was the innermost to run, every op is  *)
(* counted, the idle time is the rest of each line's window, and the       *)
(* infeed's share is of the time between the begins of its ops.            *)
HoTimesAreMeasured ==
  hoPhase = "done" =>
       LET lines == DOMAIN hoLines
           Sum(F(_)) == MapThenSumSet(LAMBDA i : F(hoLines[i]), lines)
           Window(line) == HoWindow(line)
           names == UNION {Range(k) : k \in HoKinds}
           One(line) == LET s == HoInfeedSpans(line) IN
             \A i \in DOMAIN s : s[i].begin < s[i].end /\ (i > 1 => s[i - 1].end <= s[i].begin)
           Enqueued(line) == LET s == HoInfeedSpans(line) IN
             MapThenSumSet(LAMBDA i : s[i].end - s[i].begin, 1..Len(s) - 1)
           Between(line) == LET s == HoInfeedSpans(line) IN
             IF s = <<>> THEN 0 ELSE Last(s).begin - Head(s).begin
       IN /\ AddsUp(hoResult)
          /\ (\A i \in lines : HoNested(hoLines[i])) =>
               /\ hoResult.total = Sum(Window)
               /\ \A k \in names :
                    LET Self(line) == SelfOf(HoOps(line), k)
                        Times(line) == Len(SelectSeq(HoOps(line), LAMBDA o : o.key = k))
                    IN /\ MetricsOf(hoResult, k).self = Sum(Self)
                       /\ MetricsOf(hoResult, k).occurrences = Sum(Times)
               /\ (\A i \in lines : One(hoLines[i])) =>
                    /\ hoInfeed.duration = Sum(Enqueued)
                    /\ hoInfeed.diff = Sum(Between)
=============================================================================
