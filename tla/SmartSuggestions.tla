-------------------------- MODULE SmartSuggestions --------------------------
(***************************************************************************)
(* The smart suggestions of one request: SmartSuggestionEngine asks the    *)
(* registered rules in turn, each rule asks SignalProvider for signals,    *)
(* and ToolDataProviderImpl makes the tool data they are taken from and    *)
(* keeps it for the rules to come.  A conversion may fail at any of them.  *)
(* Signals are whole percentages; a profile is a record of all of them.    *)
(* The rules are those of RegisterAllRules; SmartSuggestionProcessor takes *)
(* RegisterAllRulesFor3P, which in this tree registers the first of them.  *)
(***************************************************************************)
EXTENDS Naturals, Sequences

CONSTANTS
  SsProfiles,  \* the profiles a run considers
  SsMaxFaults  \* bound: conversions that fail

ASSUME SsAssumption == SsMaxFaults \in Nat

VARIABLES
  ssProfile, \* the signals of the session, or <<>> before one is opened
  ssCache,   \* the provider's members: none, real, or empty (left by a failure)
  ssRule,    \* the rule the engine is at
  ssPhase,   \* conditions, generate, reported or failed
  ssReport,  \* rules that gave a suggestion
  ssFaults

ssVars == <<ssProfile, ssCache, ssRule, ssPhase, ssReport, ssFaults>>

Kinds == {"op_stats", "overview", "input", "events"}

(* RegisterAllRules, in the order it registers them. *)
Rules == <<"BarrierCores", "CollectiveBound", "ComputeBound", "DataShuffleBound",
           "DataTransferBound", "DebugPrint", "HostProcessingBound", "InputBound",
           "MemoryBound", "TensorCoreIdleBound">>

(* The tool data a rule's signals come from. *)
RuleNeeds(rule) ==
  CASE rule \in {"BarrierCores", "DebugPrint"} -> {"events"}
    [] rule \in {"CollectiveBound", "DataShuffleBound"} -> {"op_stats"}
    [] rule \in {"ComputeBound", "MemoryBound"} -> {"overview"}
    [] rule \in {"DataTransferBound", "HostProcessingBound", "InputBound"} -> {"input"}
    [] rule = "TensorCoreIdleBound" -> {"overview", "input"}

(* What the signals are when the data they come from is an empty message;  *)
(* its hardware is unknown, so there is no TPU breakdown to unpack.        *)
EmptySignals ==
  [barrier |-> 0, collective |-> 0, mxu |-> 0, hbm |-> 0, shuffle |-> 0, input |-> 0,
   enqueue |-> 0, nonEnqueue |-> 0, debug |-> 0, idle |-> 0, tpu |-> FALSE]

PercentOf(part, other) == IF part + other = 0 THEN 0 ELSE (100 * part) \div (part + other)

IsLatencyBound(s) == s.mxu < 50 /\ s.hbm < 50
IsInputBound(s)   == s.input > 10

(* Wrong: without a TPU breakdown the core counts as idle. *)
IsCoreIdleByDefault(s) == ~s.tpu \/ s.idle > 10

(* GetTensorCoreIdleTimePercent is an error without a TPU breakdown. *)
IsCoreIdle(s) == s.tpu /\ s.idle > 10

(* MeetsConditions of each rule. *)
BarrierCoresMeets(s)     == s.barrier >= 10
CollectiveBoundMeets(s)  == s.collective >= 30
ComputeBoundMeets(s)     == s.mxu > 70 /\ s.hbm < 50
DataShuffleBoundMeets(s) == s.shuffle >= 30
DataTransferBoundMeets(s) ==
  IsInputBound(s) /\ PercentOf(s.enqueue, s.nonEnqueue) >= 30
DebugPrintMeets(s)       == s.debug >= 5
HostProcessingBoundMeets(s) ==
  IsInputBound(s) /\ PercentOf(s.nonEnqueue, s.enqueue) >= 50
InputBoundMeets(s) ==
  /\ IsInputBound(s)
  /\ PercentOf(s.enqueue, s.nonEnqueue) = 0
  /\ PercentOf(s.nonEnqueue, s.enqueue) = 0
MemoryBoundMeets(s)      == s.hbm > 70 /\ s.mxu < 50
TensorCoreIdleBoundMeets(s) == IsLatencyBound(s) /\ IsCoreIdle(s)

Meets(rule, s) ==
  CASE rule = "BarrierCores"        -> BarrierCoresMeets(s)
    [] rule = "CollectiveBound"     -> CollectiveBoundMeets(s)
    [] rule = "ComputeBound"        -> ComputeBoundMeets(s)
    [] rule = "DataShuffleBound"    -> DataShuffleBoundMeets(s)
    [] rule = "DataTransferBound"   -> DataTransferBoundMeets(s)
    [] rule = "DebugPrint"          -> DebugPrintMeets(s)
    [] rule = "HostProcessingBound" -> HostProcessingBoundMeets(s)
    [] rule = "InputBound"          -> InputBoundMeets(s)
    [] rule = "MemoryBound"         -> MemoryBoundMeets(s)
    [] rule = "TensorCoreIdleBound" -> TensorCoreIdleBoundMeets(s)

SsInit ==
  /\ ssProfile = <<>>
  /\ ssCache = [k \in Kinds |-> "none"]
  /\ ssRule = 1
  /\ ssPhase = "conditions"
  /\ ssReport = {}
  /\ ssFaults = 0

SsOpen ==
  /\ ssProfile = <<>>
  /\ ssProfile' \in SsProfiles
  /\ UNCHANGED <<ssCache, ssRule, ssPhase, ssReport, ssFaults>>

(* The conversions a rule triggers: the OpStats behind the overview page   *)
(* and the input pipeline, and the event time fractions.                   *)
Converts(rule) ==
  {k \in {"op_stats", "events"} :
     /\ ssCache[k] = "none"
     /\ \/ k \in RuleNeeds(rule)
        \/ k = "op_stats" /\ \E d \in RuleNeeds(rule) \cap {"overview", "input"} :
                               ssCache[d] = "none"}

(* GetOpStatsLocked and GetEventTimeFractionAnalyzerResult set the member  *)
(* before they fill it, so a failed conversion leaves an empty message.    *)
(* The overview page is asked for twice before the first error is looked   *)
(* at, and the second time it is made from that message.                   *)
Provide(rule, failed) ==
  LET base == [k \in {"op_stats", "events"} |->
                 IF k \notin Converts(rule) THEN ssCache[k]
                 ELSE IF k \in failed THEN "empty" ELSE "real"]
      Derived(k) == IF k \notin RuleNeeds(rule) \/ ssCache[k] # "none" THEN ssCache[k]
                    ELSE IF "op_stats" \in failed /\ k = "input" THEN "none"
                    ELSE base["op_stats"]
  IN [k \in Kinds |-> IF k \in {"op_stats", "events"} THEN base[k] ELSE Derived(k)]

(* The signals a rule sees: of the session, or of an empty message. *)
SeenBy(rule, cache) ==
  IF \A k \in RuleNeeds(rule) : cache[k] = "real" THEN ssProfile ELSE EmptySignals

NextRule == IF ssRule = Len(Rules) THEN "reported" ELSE "conditions"

(* Apply: MeetsConditions; an error of a signal counts as "not met". *)
CheckConditions(failed) ==
  LET rule == Rules[ssRule]
      cache == Provide(rule, failed)
      met == failed = {} /\ Meets(rule, SeenBy(rule, cache))
  IN /\ ssProfile # <<>>
     /\ ssPhase = "conditions"
     /\ failed \subseteq Converts(rule)
     /\ ssCache' = cache
     /\ ssPhase' = IF met THEN "generate" ELSE NextRule
     /\ ssRule' = IF met \/ ssRule = Len(Rules) THEN ssRule ELSE ssRule + 1
     /\ UNCHANGED <<ssProfile, ssReport>>

(* GenerateSuggestion asks for the same signals again.  An error ends the  *)
(* request (BarrierCoresRule would abort the process with value()).        *)
Generate(failed) ==
  LET rule == Rules[ssRule] IN
  /\ ssPhase = "generate"
  /\ failed \subseteq Converts(rule)
  /\ ssCache' = Provide(rule, failed)
  /\ ssPhase' = IF failed # {} THEN "failed" ELSE NextRule
  /\ ssReport' = IF failed # {} THEN ssReport ELSE ssReport \cup {rule}
  /\ ssRule' = IF ssRule = Len(Rules) THEN ssRule ELSE ssRule + 1
  /\ UNCHANGED ssProfile

SsNext ==
  \/ SsOpen /\ UNCHANGED ssFaults
  \/ \E failed \in SUBSET {"op_stats", "events"} :
       /\ ssFaults' = ssFaults + IF failed = {} THEN 0 ELSE 1
       /\ ssFaults' <= SsMaxFaults
       /\ CheckConditions(failed) \/ Generate(failed)

SsSpec == SsInit /\ [][SsNext]_ssVars
-----------------------------------------------------------------------------
SsTypeOK ==
  /\ ssProfile \in SsProfiles \cup {<<>>}
  /\ ssCache \in [Kinds -> {"none", "real", "empty"}]
  /\ ssRule \in DOMAIN Rules
  /\ ssPhase \in {"conditions", "generate", "reported", "failed"}
  /\ ssReport \subseteq {Rules[i] : i \in DOMAIN Rules}
  /\ ssFaults \in 0..SsMaxFaults

(* Every suggestion is true of the session: whatever conversions fail, and *)
(* although the provider keeps the empty message of a failed one as if it  *)
(* were data, no rule fires on it.                                         *)
SsSuggestionsAreTrue ==
  \A rule \in ssReport : Meets(rule, ssProfile)

(* A rule whose conditions were met can always generate its suggestion, as *)
(* BarrierCoresRule relies on; and without a failure every true suggestion *)
(* is made.                                                                *)
SsReportIsMade ==
  /\ ssPhase # "failed"
  /\ ssPhase = "reported" /\ ssFaults = 0 =>
       \A i \in DOMAIN Rules : Meets(Rules[i], ssProfile) => Rules[i] \in ssReport

(* The report holds the suggestions it should and no others: the engine    *)
(* asks every rule, and no rule takes a failed conversion for data.        *)
SsReportIsRight == SsSuggestionsAreTrue /\ SsReportIsMade
=============================================================================
