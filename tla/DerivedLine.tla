---------------------------- MODULE DerivedLine -----------------------------
(***************************************************************************)
(* Derived lines (utils/derived_timeline.cc).  From the kernels of one GPU *)
(* stream two lines are made: the XLA modules, and below it the XLA ops,   *)
(* one level per name of a nest.  A kernel with the names of the last      *)
(* event expands it; another starts a new event and closes those below it. *)
(* The trace viewer needs a child to be shorter than its parent, so a      *)
(* stack of equal spans is shrunk when it is closed.  Without a GPU the    *)
(* nest is that of the TensorFlow name scopes, which has no module line.   *)
(***************************************************************************)
EXTENDS Integers, Sequences, FiniteSetsExt

CONSTANTS
  DlTags,     \* [module, group, scope]: the XLA module of a kernel, its group id
              \* and its scope range id; 0 is none
  DlPaths,    \* nests of names, outermost first
  DlLengths,  \* durations of kernels, positive
  DlGaps,     \* idle time between two kernels
  DlNs,       \* a nanosecond
  DlMaxInputs \* bound: kernels of the stream

ASSUME DlAssumption ==
  /\ DlLengths \subseteq Nat \ {0} /\ DlGaps \subseteq Nat /\ DlNs \in Nat \ {0}
  /\ DlMaxInputs \in Nat
  /\ IsFiniteSet(DlPaths) /\ DlPaths # {}
  /\ \A p \in DlPaths : p \in Seq({p[i] : i \in DOMAIN p}) \ {<<>>}

VARIABLES
  dlGpu,    \* a GPU plane
  dlEvents, \* the derived events of both lines, in the order they were added
  dlLast,   \* last_event_by_level_: an index of dlEvents, 0 for none
  dlInputs, \* history: the kernels so far
  dlClosed  \* the lines are complete

dlVars == <<dlGpu, dlEvents, dlLast, dlInputs, dlClosed>>

DlDepth == Max({Len(p) : p \in DlPaths})
DlLevels == 0..DlDepth  \* level 0 is the module line

DlInit ==
  /\ dlGpu = TRUE
  /\ dlEvents = <<>>
  /\ dlLast = [l \in DlLevels |-> 0]
  /\ dlInputs = <<>>
  /\ dlClosed = FALSE

(* The functions below turn one state of the lines, [events, last], into   *)
(* the next.                                                               *)
DlSpan(e) == <<e.begin, e.end>>

(* AdjustDurationForTraceViewer: how many nanoseconds each event of the    *)
(* stack over level loses; none more than leaves the topmost one.          *)
DlShrink(s, level) ==
  LET top == CHOOSE t \in level..DlDepth :
               /\ \A l \in level..t : s.last[l] # 0
               /\ t < DlDepth => s.last[t + 1] = 0
      Event(l) == s.events[s.last[l]]
      most == (Event(top).end - Event(top).begin) \div DlNs - 1
      ns[l \in level..top] ==
        IF l = level THEN 0
        ELSE IF ns[l - 1] < most /\ DlSpan(Event(l)) = DlSpan(Event(l - 1))
        THEN ns[l - 1] + 1 ELSE ns[l - 1]
  IN ns

DlAdjust(s, level) ==
  IF level > DlDepth \/ s.last[level] = 0 THEN s.events
  ELSE LET ns == DlShrink(s, level) IN
       [i \in DOMAIN s.events |->
          IF \E l \in DOMAIN ns : s.last[l] = i
          THEN LET l == CHOOSE k \in DOMAIN ns : s.last[k] = i IN
               [s.events[i] EXCEPT !.end = @ - DlNs * ns[l]]
          ELSE s.events[i]]

(* Wrong: a new module leaves the ops of the last one open. *)
DlResetOwnLevel(s, level) ==
  [events |-> DlAdjust(s, IF level = 0 THEN 1 ELSE level),
   last |-> [l \in DlLevels |-> IF l < level \/ (level = 0 /\ l > 0) THEN s.last[l] ELSE 0]]

(* ResetLastEvents; that of the modules resets the line that depends on it. *)
DlReset(s, level) ==
  [events |-> DlAdjust(s, IF level = 0 THEN 1 ELSE level),
   last |-> [l \in DlLevels |-> IF l < level THEN s.last[l] ELSE 0]]

(* ShouldExpand, and the gap allowed without a group on a plane that is    *)
(* not a GPU's.                                                            *)
DlExpands(s, level, name, k) ==
  /\ s.last[level] # 0
  /\ LET e == s.events[s.last[level]] IN
       /\ e.name = name /\ e.group = k.group
       /\ e.scope = 0 \/ k.scope = 0 \/ e.scope = k.scope
       /\ dlGpu \/ k.group # 0 \/ e.end + 2 * (e.end - e.begin) >= k.begin

(* ExpandOrAddLevelEvent; parent is history: the event a new one is under. *)
DlAddLevel(s, level, name, k) ==
  IF DlExpands(s, level, name, k)
  THEN [s EXCEPT !.events[s.last[level]].end = IF @ > k.end THEN @ ELSE k.end]
  ELSE LET r == DlReset(s, level)
           new == [name |-> name, level |-> level, begin |-> k.begin, end |-> k.end,
                   group |-> k.group, scope |-> k.scope,
                   parent |-> IF level = 0 THEN 0 ELSE r.last[level - 1]]
       IN [events |-> Append(r.events, new),
           last |-> [r.last EXCEPT ![level] = Len(r.events) + 1]]

(* ExpandOrAddEvents: each level in turn, and then the deeper ones close.  *)
DlAddPath(s, k) ==
  LET add[l \in 0..Len(k.path)] ==
        IF l = 0 THEN IF dlGpu THEN DlAddLevel(s, 0, k.module, k) ELSE s
        ELSE DlAddLevel(add[l - 1], l, k.path[l], k)
  IN DlReset(add[Len(k.path)], Len(k.path) + 1)

DlSetLines(s) == dlEvents' = s.events /\ dlLast' = s.last

(* Kernels of a stream come in the order of time. *)
DlKernel ==
  /\ ~dlClosed
  /\ Len(dlInputs) < DlMaxInputs
  /\ \E t \in DlTags, p \in DlPaths, d \in DlLengths, gap \in DlGaps :
       LET begin == gap + IF dlInputs = <<>> THEN 0 ELSE dlInputs[Len(dlInputs)].end
           k == [module |-> t.module, path |-> p, group |-> t.group,
                 scope |-> IF dlGpu THEN t.scope ELSE 0, begin |-> begin, end |-> begin + d]
       IN /\ DlSetLines(DlAddPath([events |-> dlEvents, last |-> dlLast], k))
          /\ dlInputs' = Append(dlInputs, k)
  /\ UNCHANGED <<dlGpu, dlClosed>>

DlOtherPlane ==
  /\ dlGpu /\ dlInputs = <<>>
  /\ dlGpu' = FALSE
  /\ UNCHANGED <<dlEvents, dlLast, dlInputs, dlClosed>>

(* Only DeriveLinesFromStats closes its lines at the end. *)
DlClose ==
  /\ ~dlGpu /\ ~dlClosed /\ dlInputs # <<>>
  /\ DlSetLines(DlReset([events |-> dlEvents, last |-> dlLast], 0))
  /\ dlClosed' = TRUE
  /\ UNCHANGED <<dlGpu, dlInputs>>

DlNext == DlKernel \/ DlOtherPlane \/ DlClose

DlSpec == DlInit /\ [][DlNext]_dlVars
-----------------------------------------------------------------------------
DlTypeOK ==
  /\ dlGpu \in BOOLEAN /\ dlClosed \in BOOLEAN
  /\ \A i \in DOMAIN dlEvents :
       /\ dlEvents[i].level \in DlLevels
       /\ dlEvents[i].parent \in 0..i - 1
       /\ dlEvents[i].begin < dlEvents[i].end
  /\ dlLast \in [DlLevels -> 0..Len(dlEvents)]
  /\ Len(dlInputs) <= DlMaxInputs

(* "Clearing last_event_by_level_ prevents a nested event from growing     *)
(* larger than the parent event(s)": however events grew and shrank, each  *)
(* lies within its parent, an op within its module, and the events of a    *)
(* level do not overlap.  Only kernels shorter than what the parent was    *)
(* shrunk by can let a child outlive it.                                   *)
DlNested ==
  \A i \in DOMAIN dlEvents :
    LET e == dlEvents[i] p == dlEvents[e.parent] IN
    /\ e.parent # 0 =>
         /\ p.level = e.level - 1 /\ p.begin <= e.begin
         /\ \/ e.end <= p.end
            \/ \E k \in {dlInputs[n] : n \in DOMAIN dlInputs} :
                 k.begin >= e.end /\ k.end - k.begin < DlNs * (e.level - 2)
    /\ \A j \in i + 1..Len(dlEvents) :
         dlEvents[j].level = e.level => e.end <= dlEvents[j].begin

(* Every kernel is found on every level it has a name for, but for the     *)
(* nanoseconds the trace viewer needs, and these are fewer than the levels; *)
(* and "there could be indeterministic behavior of how trace viewer        *)
(* stacking these events" does not happen: once a line is closed no event  *)
(* has the span of its parent, unless a kernel that came before the shrink *)
(* is too short for it.                                                    *)
DlShrunkJustEnough ==
  LET kernels == {dlInputs[i] : i \in DOMAIN dlInputs} IN
  /\ \A k \in kernels : \A l \in DOMAIN k.path : \E i \in DOMAIN dlEvents :
       LET e == dlEvents[i] IN
       /\ e.level = l /\ e.name = k.path[l] /\ e.group = k.group
       /\ e.begin <= k.begin /\ k.end < e.end + DlNs * l
  /\ dlClosed => \A i \in DOMAIN dlEvents :
       LET e == dlEvents[i] IN
       e.parent # 0 /\ DlSpan(e) = DlSpan(dlEvents[e.parent]) =>
         \E k \in kernels : /\ k.end - k.begin < DlNs * (Len(k.path) + 1)
                             /\ e.begin <= k.begin /\ k.begin < e.end + DlNs * Len(k.path)

(* The levels of a derived line form a tree, drawn as far as it can be.    *)
DlLevelsNest == DlNested /\ DlShrunkJustEnough
=============================================================================
