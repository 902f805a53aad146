----------------------------- MODULE StepEvents -----------------------------
(***************************************************************************)
(* The events of a step (utils/event_span.h and .cc).  StepEvents maps the *)
(* number of a step, the group of its events, to its details; those of     *)
(* threads, streams and devices are put together, where they have a step   *)
(* in common or in any case.                                               *)
(***************************************************************************)
EXTENDS EventSweep, FiniteSetsExt

HostCompute == 10
HostToHost == 70
HostToDevice == 80
DeviceCollectives == 100
HostWaitInput == 110
DeviceToDevice == 120
DeviceToHost == 130
DeviceCompute32 == 140
DeviceCompute16 == 150

Transfers == {HostToDevice, DeviceToHost, DeviceToDevice}

(* StepDetails: collectives_ and the op metrics are by core. *)
NoDetails ==
  [markers |-> <<>>, events |-> <<>>, collectives |-> <<>>, metrics |-> <<>>,
   transfers |-> [t \in Transfers |-> [occurrence |-> 0, time |-> 0]]]

DetailsOf(steps, group) == IF group \in DOMAIN steps THEN steps[group] ELSE NoDetails

WithDetails(steps, group, details) == (group :> details) @@ steps

AddMarker(steps, group, marker) ==
  WithDetails(steps, group, [DetailsOf(steps, group) EXCEPT !.markers = Append(@, marker)])

AddEvent(steps, group, event) ==
  WithDetails(steps, group, [DetailsOf(steps, group) EXCEPT !.events = Append(@, event)])

AddCollectiveOpEvent(steps, group, core, op) ==
  LET d == DetailsOf(steps, group)
      before == IF core \in DOMAIN d.collectives THEN d.collectives[core] ELSE <<>>
  IN WithDetails(steps, group,
                 [d EXCEPT !.collectives = (core :> Append(before, op)) @@ @])

AddDeviceMemoryTransferEvent(steps, group, type, time) ==
  WithDetails(steps, group,
    [DetailsOf(steps, group) EXCEPT !.transfers[type] =
       [occurrence |-> @.occurrence + 1, time |-> @.time + time]])

(* AggregateDeviceMemoryTransfers. *)
AddTransfers(a, b) ==
  [t \in Transfers |-> [occurrence |-> a[t].occurrence + b[t].occurrence,
                        time |-> a[t].time + b[t].time]]

(* StepDetails::Combine: a core that has collectives keeps those it has,   *)
(* while its op metrics are replaced.                                      *)
CombineDetails(dst, src) ==
  [markers |-> dst.markers \o src.markers, events |-> dst.events \o src.events,
   collectives |-> dst.collectives @@ src.collectives,
   metrics |-> src.metrics @@ dst.metrics,
   transfers |-> AddTransfers(dst.transfers, src.transfers)]

UnionCombine(src, dst) ==
  [g \in DOMAIN src \cup DOMAIN dst |->
     IF g \in DOMAIN src THEN CombineDetails(DetailsOf(dst, g), src[g]) ELSE dst[g]]

(* IntersectCombineStepEvents: nothing to intersect with is the same as    *)
(* nothing in common so far.                                               *)
IntersectCombine(src, dst) ==
  IF DOMAIN dst = {} THEN src
  ELSE [g \in DOMAIN src \cap DOMAIN dst |-> CombineDetails(dst[g], src[g])]

Duration(span) == span.end - span.begin
NoSpan == [begin |-> 0, end |-> 0]
SpanOf(m) == [begin |-> m.begin, end |-> m.end]
Within(outer, inner) == outer.begin <= inner.begin /\ inner.end <= outer.end

Overlapped(a, b) == Max({0, Min({a.end, b.end}) - Max({a.begin, b.begin})})

(* The longest of the markers, of two the first; none is as good as empty. *)
LongestMarker(markers) ==
  FoldLeft(LAMBDA s, m : IF Duration(m) > Duration(s) THEN SpanOf(m) ELSE s, NoSpan, markers)

(* StepDetails::StepTime. *)
StepTime(details) ==
  LET device == LongestMarker(SelectSeq(details.markers, LAMBDA m : m.device))
      host == LongestMarker(SelectSeq(details.markers, LAMBDA m : ~m.device))
  IN IF Duration(device) = 0 \/ Within(host, device) THEN host ELSE device

StepTimeOnCore(details, core) ==
  LongestMarker(SelectSeq(details.markers, LAMBDA m : m.device /\ m.core = core))
=============================================================================
