-------------------------- MODULE StepIntersection --------------------------
(***************************************************************************)
(* Lining up the steps of several hosts (utils/step_intersection.cc).  The *)
(* host with the shortest profile is the chief; the steps of every other   *)
(* host are shifted against the chief's so that they overlap most, and     *)
(* CombineStepDatabase merges, step by step, what all hosts have in common. *)
(* A step is its span <<begin, end>> over all cores; <<0, 0>> has no core.  *)
(***************************************************************************)
EXTENDS Integers, Sequences, FiniteSetsExt

CONSTANTS
  SiInputs,   \* [steps: host -> its spans; first: host -> the number its first
              \*  step has in a run common to all; same: there is such a run]
  SiMaxSteps  \* max_steps

ASSUME SiAssumption ==
  /\ SiMaxSteps \in Nat
  /\ \A input \in SiInputs : \A h \in DOMAIN input.steps : input.steps[h] \in Seq(Nat \X Nat)

VARIABLES
  siInput, \* the input, or <<>> before there is one
  siChief, \* {chief_host_id_}, or {}
  siAlign, \* perhost_alignment_
  siRange  \* begin_chief_idx_, end_chief_idx_, steps_dropped_, empty_intersect_

siVars == <<siInput, siChief, siAlign, siRange>>

SiSteps == siInput.steps
SiHosts == DOMAIN SiSteps
SiSpan(s) == s[2] - s[1]

SiInit == siInput = <<>> /\ siChief = {} /\ siAlign = <<>> /\ siRange = <<>>

SiRead ==
  /\ siInput = <<>>
  /\ siInput' \in SiInputs
  /\ UNCHANGED <<siChief, siAlign, siRange>>

(* total_duration_ps: from the first begin to the last end. *)
SiTotal(h) ==
  LET real == {s \in Range(SiSteps[h]) : SiSpan(s) > 0} IN
  IF real = {} THEN 0 ELSE Max({s[2] : s \in real}) - Min({s[1] : s \in real})

(* PrecomputeTimespansAndFindChief: the shortest host; of several the one  *)
(* that the hash map happens to list first.                                *)
SiFindChief ==
  /\ siInput # <<>> /\ siChief = {}
  /\ \E h \in SiHosts :
       /\ \A g \in SiHosts : SiTotal(h) <= SiTotal(g)
       /\ siChief' = {h}
  /\ UNCHANGED <<siInput, siAlign, siRange>>

(* Wrong: the step that ends later is left behind. *)
SiComparedAhead(sub, chief) ==
  LET n == Len(sub)
      m == Len(chief)
      walk[p \in (1..n + 1) \X (1..m + 1)] ==
        LET i == p[1] j == p[2] IN
        IF i > n \/ j > m THEN {}
        ELSE IF SiSpan(sub[i]) = 0 THEN walk[<<i + 1, j>>]
        ELSE IF SiSpan(chief[j]) = 0 THEN walk[<<i, j + 1>>]
        ELSE {p} \cup walk[<<IF chief[j][2] <= sub[i][2] THEN i + 1 ELSE i,
                              IF sub[i][2] <= chief[j][2] THEN j + 1 ELSE j>>]
  IN walk[<<1, 1>>]

(* The loop of CalculateSimilarities: the pairs of steps it compares.      *)
SiCompared(sub, chief) ==
  LET n == Len(sub)
      m == Len(chief)
      walk[p \in (1..n + 1) \X (1..m + 1)] ==
        LET i == p[1] j == p[2] IN
        IF i > n \/ j > m THEN {}
        ELSE IF SiSpan(sub[i]) = 0 THEN walk[<<i + 1, j>>]
        ELSE IF SiSpan(chief[j]) = 0 THEN walk[<<i, j + 1>>]
        ELSE {p} \cup walk[<<IF sub[i][2] <= chief[j][2] THEN i + 1 ELSE i,
                              IF chief[j][2] <= sub[i][2] THEN j + 1 ELSE j>>]
  IN walk[<<1, 1>>]

SiOverlap(s, t) ==
  LET begin == Max({s[1], t[1]}) end == Min({s[2], t[2]}) IN
  IF begin < end THEN end - begin ELSE 0

(* offset_to_similarity. *)
SiSimilarity(sub, chief) ==
  [k \in 1 - Len(sub)..Len(chief) - 1 |->
     MapThenSumSet(LAMBDA p : SiOverlap(sub[p[1]], chief[p[2]]),
                   {p \in SiCompared(sub, chief) : p[2] - p[1] = k})]

(* FindBestOffset tries 0, 1, ... and then -1, -2, ...; the first best one wins. *)
SiBestOffset(sub, chief) ==
  LET similarity == SiSimilarity(sub, chief)
      Turn(k) == IF k >= 0 THEN k ELSE Len(chief) - k
  IN CHOOSE k \in DOMAIN similarity : \A q \in DOMAIN similarity :
       \/ similarity[q] < similarity[k]
       \/ similarity[q] = similarity[k] /\ Turn(k) <= Turn(q)

(* Wrong: the two offsets are swapped, ... *)
SiAlignmentSwapped(sub, chief) ==
  LET k == SiBestOffset(sub, chief)
      bySub == IF k >= 0 THEN 0 ELSE -k
      byChief == IF k >= 0 THEN k ELSE 0
  IN IF sub = <<>> THEN [sub |-> 0, chief |-> 0, num |-> 0]
     ELSE [sub |-> bySub, chief |-> byChief,
           num |-> Min({Len(sub) - byChief, Len(chief) - bySub})]

(* FindStepsAlignment, with indices from 0 as in the code. *)
SiAlignment(sub, chief) ==
  LET k == SiBestOffset(sub, chief)
      bySub == IF k >= 0 THEN 0 ELSE -k
      byChief == IF k >= 0 THEN k ELSE 0
  IN IF sub = <<>> THEN [sub |-> 0, chief |-> 0, num |-> 0]
     ELSE [sub |-> bySub, chief |-> byChief,
           num |-> Min({Len(sub) - bySub, Len(chief) - byChief})]

(* The constructor ends early when the chief has no step. *)
SiAlignHosts ==
  /\ siAlign = <<>> /\ siRange = <<>>
  /\ \E c \in siChief :
       IF SiSteps[c] = <<>>
       THEN /\ siRange' = [begin |-> 0, end |-> 0, dropped |-> 0, empty |-> FALSE]
            /\ UNCHANGED siAlign
       ELSE /\ siAlign' = [h \in SiHosts |->
                 IF h = c THEN [sub |-> 0, chief |-> 0, num |-> Len(SiSteps[c])]
                          ELSE SiAlignment(SiSteps[h], SiSteps[c])]
            /\ UNCHANGED siRange
  /\ UNCHANGED <<siInput, siChief>>

(* ComputeFinalBounds. *)
SiBound ==
  LET begin == Max({siAlign[h].chief : h \in SiHosts})
      end == Min({siAlign[h].chief + siAlign[h].num : h \in SiHosts})
      kept == Min({end - begin, SiMaxSteps})
  IN /\ siAlign # <<>> /\ siRange = <<>>
     /\ siRange' =
          IF begin > end THEN [begin |-> 0, end |-> 0, dropped |-> 0, empty |-> TRUE]
          ELSE [begin |-> begin, end |-> begin + kept,
                dropped |-> end - begin - kept, empty |-> FALSE]
     /\ UNCHANGED <<siInput, siChief, siAlign>>

SiNext == SiRead \/ SiFindChief \/ SiAlignHosts \/ SiBound

SiSpec == SiInit /\ [][SiNext]_siVars
-----------------------------------------------------------------------------
SiNumSteps == siRange.end - siRange.begin

(* FirstStepIndex; a host that was never aligned has none. *)
SiFirst(h) ==
  IF siAlign = <<>> THEN 0 ELSE siAlign[h].sub + siRange.begin - siAlign[h].chief

SiTypeOK ==
  /\ siInput \in SiInputs \cup {<<>>}
  /\ siInput # <<>> => siChief \subseteq SiHosts
  /\ siAlign # <<>> => siAlign \in [SiHosts -> [sub : Nat, chief : Nat, num : Nat]]
  /\ siRange # <<>> => siRange \in [begin : Nat, end : Nat, dropped : Nat, empty : BOOLEAN]

(* CombineStepDatabase reads step FirstStepIndex + i of every host, for    *)
(* all NumSteps of them: they exist, whatever the hosts recorded, and the  *)
(* DCHECK of FirstStepIndex holds unless the intersection is empty.        *)
SiStepsExist ==
  siRange # <<>> =>
    /\ SiNumSteps \in 0..SiMaxSteps
    /\ \A h \in SiHosts :
         /\ SiNumSteps > 0 => SiFirst(h) + SiNumSteps <= Len(SiSteps[h])
         /\ ~siRange.empty => SiFirst(h) >= 0

(* Hosts that recorded windows of one run of steps, with clocks that are   *)
(* off by less than a third of a step: whoever the chief is, every merged  *)
(* step is the same step of the run on every host, and together with the   *)
(* dropped ones they are all that the hosts have in common.                *)
SiSameSteps ==
  siRange # <<>> /\ siInput.same =>
    LET first == siInput.first
        Recorded(h) == first[h]..first[h] + Len(SiSteps[h]) - 1
        common == {n \in UNION {Recorded(h) : h \in SiHosts} :
                     \A h \in SiHosts : n \in Recorded(h)}
    IN /\ \A h \in SiHosts : first[h] + SiFirst(h) = Min(common)
       /\ SiNumSteps + siRange.dropped = Cardinality(common)
=============================================================================
