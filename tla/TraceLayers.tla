---------------------------- MODULE TraceLayers -----------------------------
(***************************************************************************)
(* The zoom levels of a stored trace (trace_viewer/trace_events.cc).  The  *)
(* viewer reads the levels from the coarsest down to the one it shows, so  *)
(* each event is stored at the first level at which it can be told apart.  *)
(* GetEventsByLevel decides that event by event in the order of time: of a *)
(* flow in a first pass (CalculateFlowVisibility), of all in a second      *)
(* (ProcessTrackEventsParallel).  Both passes go through the events in the *)
(* same order, and the second needs of a flow what the first says of its   *)
(* first event, so one action takes an event through both.                 *)
(***************************************************************************)
EXTENDS Integers, Sequences

CONSTANTS
  TlResolution, \* a sequence: the resolutions of all levels but the last
  TlRows,       \* rows of the viewer; a row of counters has no resource
  TlCounters,   \* those of counters
  TlFlows,      \* flow ids; 0 is no flow
  TlKinds,      \* [row, wait, len, flow, last]: events that may come next
  TlMaxEvents   \* bound: events of the trace

ASSUME TlAssumption ==
  /\ TlResolution \in Seq(Nat)
  /\ TlCounters \subseteq TlRows /\ 0 \notin TlFlows
  /\ TlKinds \subseteq [row: TlRows, wait: Nat, len: Nat, flow: TlFlows \cup {0}, last: BOOLEAN]
  /\ \A k \in TlKinds : k.row \in TlCounters => k.flow = 0 /\ k.len = 0

VARIABLES
  tlEvents,  \* the events so far, each with its level
  tlFlowVis, \* flow_visibility_by_level: the levels at which a flow is visible
  tlSeen,    \* visibility_by_level of the first pass
  tlTracks   \* track_visibility_by_level of the second

tlVars == <<tlEvents, tlFlowVis, tlSeen, tlTracks>>

TlLevels == 1..Len(TlResolution) + 1
TlLast == Len(TlResolution) + 1
TlUnknown == {0} \* of a flow that has not begun

(* TraceViewerVisibility: per row the ends of the last visible events, one *)
(* per nesting depth, the last arrow, and the flows that have begun.       *)
TlFresh ==
  [ends |-> [r \in TlRows |-> <<>>], arrow |-> [r \in TlRows |-> <<>>],
   flows |-> [f \in TlFlows |-> {}]]

TlInit ==
  /\ tlEvents = <<>>
  /\ tlFlowVis = [f \in TlFlows |-> TlUnknown]
  /\ tlSeen = [z \in DOMAIN TlResolution |-> TlFresh]
  /\ tlTracks = [z \in DOMAIN TlResolution |-> TlFresh]

TlDepth(ends, begin) ==
  CHOOSE d \in 0..Len(ends) :
    /\ \A i \in 1..d : ends[i] > begin
    /\ d < Len(ends) => ends[d + 1] <= begin

(* SetLastEndTimestampPs and SetLastFlowTimestampPs; a counter's end is    *)
(* its begin.                                                              *)
TlRecord(v, e) ==
  LET d == IF e.row \in TlCounters THEN 0 ELSE TlDepth(v.ends[e.row], e.begin) IN
  [v EXCEPT !.ends[e.row] = Append(SubSeq(@, 1, d), e.end),
            !.arrow[e.row] = IF e.flow = 0 THEN @ ELSE <<e.end>>]

(* SetVisibleAtResolution. *)
TlSetVisible(v, e) ==
  LET w == TlRecord(v, e) IN
  IF e.flow = 0 THEN w
  ELSE [w EXCEPT !.flows[e.flow] =
          IF e.last THEN {} ELSE IF @ = {} THEN {TRUE} ELSE @]

(* Long enough, or far enough from the last visible event of its depth.    *)
TlStandsOut(v, e, res) ==
  LET ends == v.ends[e.row]
      d == IF e.row \in TlCounters THEN 0 ELSE TlDepth(ends, e.begin)
  IN \/ e.row \notin TlCounters /\ e.end - e.begin >= res
     \/ d = Len(ends)
     \/ e.begin - ends[d + 1] >= res

(* The first event of a flow is also visible far from the last arrow; the  *)
(* difference is unsigned, so an arrow that points behind the last one is. *)
TlArrowStandsOut(v, e, res) ==
  \/ v.arrow[e.row] = <<>>
  \/ e.end < v.arrow[e.row][1]
  \/ e.end - v.arrow[e.row][1] >= res

(* VisibleAtResolution. *)
TlVisible(v, e, res) ==
  \/ TlStandsOut(v, e, res)
  \/ /\ e.flow # 0
     /\ IF v.flows[e.flow] = {} THEN TlArrowStandsOut(v, e, res) ELSE TRUE \in v.flows[e.flow]

TlLook(v, e, res) ==
  LET visible == TlVisible(v, e, res)
      known == IF e.flow = 0 THEN {}
               ELSE IF v.flows[e.flow] = {} THEN {visible} ELSE v.flows[e.flow]
      w == IF visible THEN TlRecord(v, e) ELSE v
  IN IF e.flow = 0 THEN w ELSE [w EXCEPT !.flows[e.flow] = IF e.last THEN {} ELSE known]

(* The loop over the levels: look until the event is visible, and then set *)
(* it visible on all finer ones.                                           *)
TlWalk(vis, e, level) ==
  [z \in DOMAIN vis |->
     IF z <= level THEN TlLook(vis[z], e, TlResolution[z]) ELSE TlSetVisible(vis[z], e)]

(* The first of the levels that have an event, the last one if none does.  *)
TlFirst(levels) ==
  CHOOSE z \in levels \cup {TlLast} : \A y \in levels \cup {TlLast} : z <= y

TlVisibleIn(vis, e) ==
  TlFirst({z \in DOMAIN TlResolution : TlVisible(vis[z], e, TlResolution[z])})

TlLong(e) == {z \in DOMAIN TlResolution : e.end - e.begin >= TlResolution[z]}

(* What the first pass says of the flow: its first event decides. *)
TlFlowLevels(e) ==
  IF tlFlowVis[e.flow] # TlUnknown THEN tlFlowVis[e.flow]
  ELSE {z \in DOMAIN TlResolution : z >= TlVisibleIn(tlSeen, e)}

(* Wrong: an event of a flow is shown when it is long. *)
TlLevelByLength(e) ==
  IF e.flow = 0 THEN TlVisibleIn(tlTracks, e) ELSE TlFirst(TlLong(e))

(* The second pass does not ask for the visibility of an event of a flow.  *)
TlLevelOf(e) ==
  IF e.flow = 0 THEN TlVisibleIn(tlTracks, e) ELSE TlFirst(TlFlowLevels(e) \cup TlLong(e))

TlPlace(e) ==
  LET level == TlLevelOf(e) IN
  /\ tlEvents' = Append(tlEvents, [event |-> e, level |-> level])
  /\ IF e.flow = 0
     THEN /\ tlTracks' = TlWalk(tlTracks, e, level)
          /\ UNCHANGED <<tlFlowVis, tlSeen>>
     ELSE /\ tlTracks' = [z \in DOMAIN tlTracks |->
                            IF z < level THEN tlTracks[z] ELSE TlSetVisible(tlTracks[z], e)]
          /\ tlFlowVis' = [tlFlowVis EXCEPT ![e.flow] = TlFlowLevels(e)]
          /\ tlSeen' = TlWalk(tlSeen, e, TlVisibleIn(tlSeen, e))

(* Events come by their begin, the longer of two first. *)
TlEvent ==
  /\ Len(tlEvents) < TlMaxEvents
  /\ \E k \in TlKinds :
       LET before == IF tlEvents = <<>> THEN [begin |-> 0, end |-> 100]
                     ELSE tlEvents[Len(tlEvents)].event
           begin == before.begin + k.wait
       IN /\ k.wait = 0 => begin + k.len <= before.end
          /\ TlPlace([row |-> k.row, begin |-> begin, end |-> begin + k.len,
                      flow |-> k.flow, last |-> k.last])

TlNext == TlEvent

TlSpec == TlInit /\ [][TlNext]_tlVars
-----------------------------------------------------------------------------
TlTypeOK ==
  /\ \A i \in DOMAIN tlEvents : tlEvents[i].level \in TlLevels
  /\ tlFlowVis \in [TlFlows -> SUBSET (TlLevels \cup {0})]
  /\ \A vis \in {tlSeen, tlTracks} : \A z \in DOMAIN TlResolution :
       /\ vis[z].ends \in [TlRows -> Seq(Nat)]
       /\ vis[z].flows \in [TlFlows -> SUBSET BOOLEAN]

(* An event is left out of a level only when nobody would miss it: it is   *)
(* shorter than a pixel, and less than a pixel before it ends an event of  *)
(* its row that the level shows.  (Of a flow see below.)                   *)
TlLeftOutHasNeighbour ==
  \A i \in DOMAIN tlEvents : \A z \in 1..tlEvents[i].level - 1 :
    LET e == tlEvents[i].event IN
    e.flow = 0 =>
      /\ e.end - e.begin < TlResolution[z]
      /\ \E j \in 1..i - 1 :
           LET f == tlEvents[j].event IN
           /\ f.row = e.row /\ tlEvents[j].level <= z
           /\ f.end <= e.begin /\ e.begin - f.end < TlResolution[z]

(* "A flow event is visible if the first event in the flow is visible": a  *)
(* level that shows the first event shows them all, on whichever rows they *)
(* are, so no arrow of a flow leads nowhere.  (An id that is used again    *)
(* inherits what was decided for its first flow.)                          *)
TlFlowsAreWhole ==
  \A i, j \in DOMAIN tlEvents :
    LET Of(n) == tlEvents[n].event IN
    /\ i < j /\ Of(i).flow # 0 /\ Of(i).flow = Of(j).flow
    /\ \A n \in 1..j - 1 : n < i => Of(n).flow # Of(i).flow
    /\ \A n \in 1..j - 1 : Of(n).flow = Of(i).flow => ~Of(n).last
    => tlEvents[j].level <= tlEvents[i].level

(* A coarse level stands for what it leaves out.                           *)
TlLevelsAreFaithful == TlLeftOutHasNeighbour /\ TlFlowsAreWhole
=============================================================================
