----------------------------- MODULE EventSpans -----------------------------
(***************************************************************************)
(* Who the time of a step is charged to (utils/event_span.cc).  The events *)
(* of a step, of several hosts and devices, overlap; ToNonOverlappedEvents *)
(* sweeps over their boundaries and charges every stretch of time to the   *)
(* type of the highest priority that is active, here one turn at a time.   *)
(***************************************************************************)
EXTENDS EventSweep

CONSTANTS
  EsTypes,  \* the types in use, positive numbers
  EsEvents, \* events a step may have; none is empty
  EsMaxLen  \* bound: events of a step

ASSUME EsAssumption ==
  /\ EsTypes \subseteq Nat \ {0}
  /\ \A e \in EsEvents : e.type \in EsTypes /\ e.begin < e.end

VARIABLES
  esEvents, \* events_ of the step
  esTodo,   \* the boundaries the sweep has not come to
  esCount,  \* priority_count_
  esMax,    \* current_max_priority_
  esResult  \* the spans found so far

esVars == <<esEvents, esTodo, esCount, esMax, esResult>>

EsInit ==
  /\ esEvents = <<>>
  /\ esTodo = <<>>
  /\ esCount = EsTracker(EsTypes).count
  /\ esMax = EsTracker(EsTypes).max
  /\ esResult = <<>>

(* Combine has put the events of all hosts and devices one after another. *)
EsSweep ==
  /\ esEvents = <<>>
  /\ \E n \in 1..EsMaxLen : esEvents' \in [1..n -> EsEvents]
  /\ esTodo' = EsBoundaries(esEvents')
  /\ UNCHANGED <<esCount, esMax, esResult>>

(* One turn of the loop; the last boundary only ends the span before it.   *)
EsStep ==
  /\ Len(esTodo) > 1
  /\ LET t == EsTracked([count |-> esCount, max |-> esMax], esTodo[1]) IN
     esCount' = t.count /\ esMax' = t.max
  /\ esResult' = Append(esResult, [type |-> esMax', begin |-> esTodo[1].time,
                                   end |-> esTodo[2].time])
  /\ esTodo' = Tail(esTodo)
  /\ UNCHANGED esEvents

EsNext == EsSweep \/ EsStep

EsSpec == EsInit /\ [][EsNext]_esVars
-----------------------------------------------------------------------------
EsTypeOK ==
  /\ esEvents \in Seq(EsEvents)
  /\ \A b \in {esTodo[i] : i \in DOMAIN esTodo} : b.type \in EsTypes /\ b.start \in BOOLEAN
  /\ esCount \in [EsTypes \cup {0} -> Nat]
  /\ esMax \in EsTypes \cup {0}
  /\ \A s \in {esResult[i] : i \in DOMAIN esResult} :
       s.type \in EsTypes \cup {0} /\ s.begin <= s.end

(* However the events overlap, share their ends or repeat: every stretch   *)
(* swept so far is charged to the highest type among the events that cover *)
(* it, to none where there is none, and the stretches join up without a    *)
(* hole, so that the times of all types add up to the time of the step.    *)
EsHighestIsCharged ==
  /\ \A i \in DOMAIN esResult :
       LET s == esResult[i]
           active == {e \in {esEvents[k] : k \in DOMAIN esEvents} :
                        e.begin <= s.begin /\ s.end <= e.end}
       IN s.begin < s.end =>
            /\ s.type \in {e.type : e \in active} \cup {0}
            /\ \A e \in active : e.type <= s.type
            /\ s.type = 0 => active = {}
  /\ \A i \in DOMAIN esResult : i > 1 => esResult[i].begin = esResult[i - 1].end
=============================================================================
