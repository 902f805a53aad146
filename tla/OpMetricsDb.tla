---------------------------- MODULE OpMetricsDb ----------------------------
(***************************************************************************)
(* Databases of op metrics (utils/op_metrics_db_utils.cc, utils/op_utils,  *)
(* convert/op_metrics_db_combiner.cc): what the lines and cores of a       *)
(* profile spent on each op, and the rest as one more op, IDLE.  A key is  *)
(* the HLO module and the name of an op.  Times are unsigned integers.     *)
(***************************************************************************)
EXTENDS Integers, Sequences, SequencesExt, FiniteSetsExt

CONSTANTS
  OmWord, \* 2^64 in the code: where unsigned arithmetic wraps around
  OmIdle, \* the key of IDLE
  OmNoSymbol \* of an op that has no symbol, and is not entered

ASSUME OmAssumption == OmWord \in Nat \ {0}

Minus(a, b) == (a - b) % OmWord
Plus(a, b) == (a + b) % OmWord

NoMetrics == [occurrences |-> 0, time |-> 0, self |-> 0, flops |-> 0]
EmptyDb == [ops |-> <<>>, opTime |-> 0, total |-> 0]

MetricsOf(db, key) == IF key \in DOMAIN db.ops THEN db.ops[key] ELSE NoMetrics

(* CombineOpMetrics, MergeOpMetrics and the sums of EnterOp. *)
AddMetrics(a, b) == [f \in DOMAIN NoMetrics |-> Plus(a[f], b[f])]

(* LookupOrInsertNewOpMetrics, and what it is looked up for. *)
Enter(db, key, metrics) ==
  [db EXCEPT !.ops = (key :> AddMetrics(MetricsOf(db, key), metrics)) @@ @]

(* HostOpMetricsDbBuilder::EnterOp, DeviceOpMetricsDbBuilder::EnterOp. *)
EnterOp(db, key, occurrences, time, children, flops) ==
  LET self == Minus(time, children) IN
  [Enter(db, key, [occurrences |-> occurrences, time |-> time, self |-> self,
                   flops |-> flops * occurrences])
     EXCEPT !.opTime = Plus(@, self)]

SetTotalTimePs(db, time) == [db EXCEPT !.total = Max({db.opTime, time})]

IdleOp(db) ==
  LET idle == Minus(db.total, db.opTime) IN
  [occurrences |-> 0, time |-> idle, self |-> idle, flops |-> 0]

AddIdleOp(db) == [db EXCEPT !.ops = (OmIdle :> IdleOp(db)) @@ @]

(* OpMetricsDbCombiner::Combine: src is added to dst. *)
Combine(src, dst) ==
  LET keys == DOMAIN src.ops \cup DOMAIN dst.ops IN
  [ops |-> [k \in keys |-> AddMetrics(MetricsOf(src, k), MetricsOf(dst, k))],
   opTime |-> Plus(src.opTime, dst.opTime), total |-> Plus(src.total, dst.total)]

(* CreateTfMetricsDbFromDeviceOpMetricsDb: tfOp[k] is the TensorFlow op    *)
(* that the op k came from.                                                *)
TfMetricsDb(db, tfOp, withIdle) ==
  LET used == {k \in DOMAIN db.ops : k # OmIdle \/ withIdle}
      Of(k) == IF k = OmIdle THEN OmIdle ELSE tfOp[k]
      Those(t) == {k \in used : Of(k) = t}
  IN [ops |-> [t \in {Of(k) : k \in used} |->
                 [FoldSet(LAMBDA k, m : AddMetrics(db.ops[k], m), NoMetrics, Those(t))
                    EXCEPT !.occurrences = Max({db.ops[k].occurrences : k \in Those(t)})]],
      opTime |-> db.opTime, total |-> IF withIdle THEN db.total ELSE db.opTime]

(* An ancestor stack with the ops that have been taken from it.            *)
Builder == [stack |-> <<>>, ops |-> <<>>, children |-> <<>>]

Includes(s, t) == s.begin <= t.begin /\ t.end <= s.end

(* The pop callback, with XEventsOpMetricsDbBuilder::AddOpMetric: of the   *)
(* occurrences of an op only the first keeps its children.                 *)
AddOpMetric(b, top) ==
  LET time == top.end - top.begin
      metrics == [occurrences |-> 1, time |-> time, self |-> Minus(time, top.children),
                  flops |-> 0]
  IN IF top.key = OmNoSymbol THEN b
     ELSE [b EXCEPT !.ops = Enter([ops |-> @], top.key, metrics).ops,
                    !.children = @ @@ (top.key :> top.offload)]

PopOp(b) == AddOpMetric([b EXCEPT !.stack = Front(@)], Last(b.stack))

(* AncestorStack::Flush. *)
FlushOps(b) ==
  LET pop[n \in 0..Len(b.stack)] == IF n = 0 THEN b ELSE PopOp(pop[n - 1])
  IN pop[Len(b.stack)]

(* AncestorStack::Push: ops that do not include the new one are popped,    *)
(* the one below is charged with all of it.                                *)
PushOp(b, e) ==
  LET n == SelectLastInSeq(b.stack, LAMBDA p : Includes(p, e))
      pop[i \in 0..Len(b.stack) - n] == IF i = 0 THEN b ELSE PopOp(pop[i - 1])
      rest == pop[Len(b.stack) - n]
      charged == IF n = 0 THEN rest
                 ELSE [rest EXCEPT !.stack[n].children = @ + e.end - e.begin]
  IN [charged EXCEPT !.stack = Append(@, e)]

(* XEventsOpMetricsDbBuilder::Finalize. *)
Finalize(b, total) ==
  LET db == [ops |-> b.ops, total |-> 0,
             opTime |-> FoldSet(LAMBDA k, t : Plus(b.ops[k].self, t), 0, DOMAIN b.ops)]
  IN AddIdleOp(SetTotalTimePs(db, total))
-----------------------------------------------------------------------------
SelfTimes(db) == MapThenSumSet(LAMBDA k : db.ops[k].self, DOMAIN db.ops)

(* The ops of a database, the idle time among them, account for all of its *)
(* time, each for no more than it took, and no difference has wrapped.     *)
AddsUp(db) ==
  /\ SelfTimes(db) = db.total
  /\ db.opTime <= db.total
  /\ \A k \in DOMAIN db.ops : db.ops[k].self <= db.ops[k].time

(* The units of time in which an op of a line was the innermost one that   *)
(* ran; spans is a sequence of [key, begin, end] in the order of begins.   *)
Innermost(spans, i) ==
  {t \in spans[i].begin..spans[i].end - 1 :
     \A j \in i + 1..Len(spans) : t \notin spans[j].begin..spans[j].end - 1}

SelfOf(spans, key) ==
  MapThenSumSet(LAMBDA i : Cardinality(Innermost(spans, i)),
                {i \in DOMAIN spans : spans[i].key = key})
=============================================================================
