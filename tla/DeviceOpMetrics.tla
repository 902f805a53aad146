-------------------------- MODULE DeviceOpMetrics --------------------------
(***************************************************************************)
(* What a GPU spent on ops (ConvertDeviceTraceXPlaneToOpMetricsDb of       *)
(* convert/xplane_to_op_metrics_db.cc).  Successive kernels of one HLO op  *)
(* are gathered by a tracker and entered as one; a kernel of a TensorFlow  *)
(* op is entered by itself, and so are the ones gathered before it.  The   *)
(* database then also gets rid of HLO names, for the TensorFlow view.      *)
(***************************************************************************)
EXTENDS OpMetricsDb

CONSTANTS
  DoKernels,  \* kinds of events: [type, op, group]; type is "xla" of a known
              \* instruction, "unknown" of one that is not, "tf" or "other",
              \* op is <<program, name>>, group a number or DoNoGroup
  DoNoGroup,  \* the event has no group_id
  DoFlops,    \* DoFlops[op]: flops of one occurrence, as the events say
  DoTfOp,     \* DoTfOp[op]: the TensorFlow op that an op came from
  DoLengths, DoWaits, \* bounds: how long events take, and before they begin
  DoMaxEvents \* bound: events of all lines

VARIABLES
  doEvents,  \* history: the events, each with its line
  doTracker, \* HLOTracker: op, group, duration, occurrences, flops
  doDb,      \* the database
  doWindow,  \* first_op_offset_ps and last_op_offset_ps, or <<>>
  doAt,      \* <<line, end of its last event>>
  doDone

doVars == <<doEvents, doTracker, doDb, doWindow, doAt, doDone>>

(* Reset: group_id is 0 again, no group is told from group 0.              *)
DoNone == [op |-> <<>>, group |-> 0, duration |-> 0, occurrences |-> 0, flops |-> 0]

DoInit ==
  /\ doEvents = <<>> /\ doTracker = DoNone /\ doDb = EmptyDb
  /\ doWindow = <<>> /\ doAt = <<1, 0>> /\ doDone = FALSE

(* AggregateHloFunc *)
DoFlush(db, t) ==
  IF t = DoNone THEN db ELSE EnterOp(db, t.op, t.occurrences, t.duration, 0, t.flops)

DoGroup(kernel) == IF kernel.group = DoNoGroup THEN 0 ELSE kernel.group

(* The event goes on with what the tracker gathers. *)
DoGoesOn(t, kernel) ==
  t # DoNone /\ t.op[2] = kernel.op[2] /\ kernel.group # DoNoGroup /\ t.group = kernel.group

DoGather(kernel, time) ==
  LET goesOn == DoGoesOn(doTracker, kernel)
      t == IF goesOn THEN doTracker
           ELSE [DoNone EXCEPT !.op = kernel.op, !.group = DoGroup(kernel)]
  IN /\ doDb' = IF goesOn THEN doDb ELSE DoFlush(doDb, doTracker)
     /\ doTracker' = [t EXCEPT !.duration = @ + time, !.occurrences = @ + 1,
                               !.flops = DoFlops[kernel.op]]

DoEnterTfOp(kernel, time) ==
  /\ doDb' = EnterOp(DoFlush(doDb, doTracker), kernel.op, 1, time, 0, 0)
  /\ doTracker' = DoNone

DoEvent(kernel, wait, time) ==
  LET begin == doAt[2] + wait IN
  /\ ~doDone /\ Len(doEvents) < DoMaxEvents
  /\ doAt' = <<doAt[1], begin + time>>
  /\ doEvents' = Append(doEvents, [kernel |-> kernel, line |-> doAt[1], time |-> time])
  /\ doWindow' = IF doWindow = <<>> THEN <<begin, begin + time>>
                 ELSE <<Min({doWindow[1], begin}), Max({doWindow[2], begin + time})>>
  /\ CASE kernel.type = "xla" -> DoGather(kernel, time)
       [] kernel.type = "tf" -> DoEnterTfOp(kernel, time)
       [] OTHER -> UNCHANGED <<doDb, doTracker>>
  /\ UNCHANGED doDone

(* The end of a line, before another one. *)
DoEndLine ==
  /\ ~doDone /\ doAt[1] = 1 /\ doEvents # <<>>
  /\ doDb' = DoFlush(doDb, doTracker) /\ doTracker' = DoNone
  /\ doAt' = <<2, 0>>
  /\ UNCHANGED <<doEvents, doWindow, doDone>>

DoFinish ==
  /\ ~doDone /\ doDone' = TRUE
  /\ LET db == DoFlush(doDb, doTracker)
         window == IF doWindow = <<>> \/ doWindow[2] = 0 THEN 0
                   ELSE doWindow[2] - doWindow[1]
     IN doDb' = AddIdleOp(SetTotalTimePs(db, window))
  /\ doTracker' = DoNone
  /\ UNCHANGED <<doEvents, doWindow, doAt>>

DoNext ==
  \/ \E kernel \in DoKernels, wait \in DoWaits, time \in DoLengths : DoEvent(kernel, wait, time)
  \/ DoEndLine
  \/ DoFinish

DoSpec == DoInit /\ [][DoNext]_doVars
-----------------------------------------------------------------------------
DoTypeOK ==
  /\ doDone \in BOOLEAN
  /\ doTracker.occurrences \in 0..DoMaxEvents
  /\ DOMAIN doDb.ops \subseteq {OmIdle} \cup {k.op : k \in DoKernels}

DoGathered == SelectSeq(doEvents, LAMBDA e : e.kernel.type \in {"xla", "tf"})

(* Kernels of two programs, of the same name and group, in succession: the *)
(* tracker compares names only.                                            *)
DoMixed ==
  \E i \in 1..Len(DoGathered) - 1 :
    LET k == DoGathered[i].kernel  l == DoGathered[i + 1].kernel IN
    /\ k.type = "xla" /\ l.type = "xla" /\ DoGathered[i].line = DoGathered[i + 1].line
    /\ k.op[2] = l.op[2] /\ k.op[1] # l.op[1] /\ DoGroup(k) = l.group

(* Every kernel of an op is counted once, however the tracker gathers      *)
(* them, with its time and its flops: by the op's name always, by program  *)
(* and name unless kernels of two programs follow each other in one group. *)
(* Op and idle times account for the whole, in the TensorFlow view as well.*)
DoTimesAreMeasured ==
  LET Of(P(_)) == {i \in DOMAIN DoGathered : P(DoGathered[i].kernel)}
      Time(events) == MapThenSumSet(LAMBDA i : DoGathered[i].time, events)
      Entered(f, ops) == MapThenSumSet(LAMBDA op : doDb.ops[op][f], DOMAIN doDb.ops \cap ops)
      keys == {k.op : k \in DoKernels}
  IN doDone =>
       /\ AddsUp(doDb)
       /\ \A name \in {op[2] : op \in keys} :
            LET events == Of(LAMBDA k : k.op[2] = name)
                ops == {op \in keys : op[2] = name}
            IN Entered("self", ops) = Time(events) /\ Entered("occurrences", ops) = Cardinality(events)
       /\ ~DoMixed => \A op \in keys :
            LET events == Of(LAMBDA k : k.op = op)
                xla == Of(LAMBDA k : k.op = op /\ k.type = "xla")
            IN /\ Entered("self", {op}) = Time(events)
               /\ Entered("occurrences", {op}) = Cardinality(events)
               /\ Entered("flops", {op}) = Cardinality(xla) * DoFlops[op]
       /\ SelfTimes(TfMetricsDb(doDb, DoTfOp, TRUE)) = doDb.total
       /\ SelfTimes(TfMetricsDb(doDb, DoTfOp, FALSE)) = doDb.opTime
=============================================================================
