--------------------------- MODULE InputPipeline ---------------------------
(***************************************************************************)
(* What the input pipeline analysis says of the steps                      *)
(* (convert/op_stats_to_input_pipeline_analysis.cc): how much of their     *)
(* time went to input, output, computation and the rest, whether the       *)
(* program is bound by its input, and what the host did for it.  Times are *)
(* added up over the steps; a percentage is compared as a share of their   *)
(* total, and the host's times are numerators of a common denominator.     *)
(***************************************************************************)
EXTENDS StepDb, TpuSteps

CONSTANTS
  IpHostOps \* what the host spent on input: the self times of its ops by
            \* InputOpCategory, and the totals of its infeed ops

VARIABLES
  ipResult, \* the InputPipelineAnalysisResult, or <<>>
  ipHost    \* the host ops it was made from, or <<>>

ipVars == <<ipResult, ipHost>>

IpInit == ipResult = <<>> /\ ipHost = <<>>

AtLeast(percent, part, total) == 100 * part >= percent * total

(* InputAnalysis: the verdict, and whether other time is reported with it. *)
InputAnalysis(input, other, total) ==
  CASE total = 0 -> [verdict |-> "unknown", otherReported |-> FALSE]
    [] total # 0 /\ AtLeast(20, input, total) -> [verdict |-> "host", otherReported |-> FALSE]
    [] total # 0 /\ ~AtLeast(20, input, total) /\ AtLeast(5, input, total) ->
         [verdict |-> "both", otherReported |-> FALSE]
    [] total # 0 /\ ~AtLeast(5, input, total) /\ AtLeast(3, other, total) ->
         [verdict |-> "both", otherReported |-> TRUE]
    [] OTHER -> [verdict |-> "device", otherReported |-> FALSE]

(* DeviceCollectivesAnalysis, AllOtherAnalysis, KernelLaunchAnalysis. *)
Bound(part, total) ==
  IF total = 0 \/ ~AtLeast(3, part, total) THEN "no"
  ELSE IF AtLeast(15, part, total) THEN "high" ELSE "moderate"

(* GetSummaryNextStep and TfDataInUse. *)
NextStep(verdict, host) ==
  IF verdict \notin {"host", "both"} THEN "skip"
  ELSE IF host.demanded + host.advanced + host.preprocessing > 0 THEN "look at the host"
  ELSE "use tf.data"

(* Wrong: the ops are not scaled to the time that is not enqueueing.       *)
HostTimesAsMeasured(ops, ratio) ==
  [den |-> 1, enqueue |-> ops.enqueue, demanded |-> ops.demanded, advanced |-> ops.advanced,
   preprocessing |-> ops.preprocessing, unclassified |-> 0]

(* GenerateHostResult: of the time for input a share is enqueueing, that   *)
(* of transfers in the steps, ratio; what the ops that prepare the input   *)
(* took is scaled to the rest.                                             *)
HostTimes(ops, ratio) ==
  LET prepare == ops.demanded + ops.advanced + ops.preprocessing
      n == Min({ratio[1], ratio[2]})
      rest == IF n = 0 THEN <<prepare, 1>> ELSE <<ops.enqueue * (ratio[2] - n), n>>
      den == rest[2] * Max({1, prepare})
      Scaled(x) == rest[1] * x
  IN [den |-> den, enqueue |-> ops.enqueue * den,
      demanded |-> Scaled(ops.demanded), advanced |-> Scaled(ops.advanced),
      preprocessing |-> Scaled(ops.preprocessing),
      unclassified |-> Max({0, rest[1] * Max({1, prepare}) - rest[1] * prepare})]

(* RatioOfHostToDeviceTimeToStepTime. *)
HostRatio(ops, transfers, total) ==
  IF ops.infeedSpan > 0 THEN <<ops.infeed, ops.infeedSpan>>
  ELSE IF total > 0 THEN <<transfers, total>> ELSE <<0, 1>>

NoHostTimes ==
  [den |-> 1, enqueue |-> 0, demanded |-> 0, advanced |-> 0, preprocessing |-> 0, unclassified |-> 0]

(* GenerateHostResult, where ops of the input are found. *)
HostResult(ops, transfers, total) ==
  IF \A f \in {"enqueue", "demanded", "advanced", "preprocessing", "unknown"} : ops[f] = 0
  THEN NoHostTimes ELSE HostTimes(ops, HostRatio(ops, transfers, total))

Total(steps, F(_)) == FoldLeft(LAMBDA t, s : t + F(s), 0, steps)

(* ComputeGenericInputPipelineAnalysisResult, of one step. *)
GenericDetails(step) ==
  LET Time(t) == IF t \in DOMAIN step.types THEN step.types[t] ELSE 0
  IN [time |-> step.duration, waiting |-> Time(HostWaitInput), transfer |-> Time(HostToDevice),
      output |-> Time(DeviceToHost), compute |-> Time(DeviceCompute16) + Time(DeviceCompute32),
      collectives |-> Time(DeviceCollectives), unknown |-> Time(0)]

(* What the bottleneck analysis says of all steps. *)
ComputeBottleneckAnalysis(details, ops) ==
  LET total == Total(details, LAMBDA d : d.time)
      transfer == Total(details, LAMBDA d : d.transfer)
      input == Total(details, LAMBDA d : d.waiting) + transfer
      output == Total(details, LAMBDA d : d.output)
      compute == Total(details, LAMBDA d : d.compute)
      collectives == Total(details, LAMBDA d : d.collectives)
      unknown == Total(details, LAMBDA d : d.unknown)
      a == InputAnalysis(input, unknown, total)
      host == HostResult(ops, transfer, total)
  IN [tpu |-> FALSE, total |-> total, input |-> input, output |-> output,
      compute |-> compute, collectives |-> collectives, verdict |-> a.verdict,
      idle |-> Max({0, total - input - output - compute - collectives}),
      other |-> IF a.otherReported THEN "no" ELSE Bound(unknown, total),
      collective |-> Bound(collectives, total),
      host |-> host, next |-> NextStep(a.verdict, host)]

(* ConvertOpStatsToInputPipelineAnalysis, without a TPU. *)
IpAnalyzeGeneric(ops) ==
  /\ sdPhase = "done" /\ ipResult = <<>>
  /\ ipResult' = ComputeBottleneckAnalysis([i \in DOMAIN sdDb |-> GenericDetails(sdDb[i])], ops)
  /\ ipHost' = ops

(* ComputeTpuInputPipelineAnalysisResult. *)
TpuDetails == [i \in DOMAIN tsDb |-> TsStepData(tsDb[i])]

(* StepTimeMs: all-reduce is a part of what is computed, and added to it.  *)
StepTimeOf(d) == d.compute + d.infeed + d.reduce + d.outfeed + d.idle

(* TensorCoreIdleAnalysis and AllReduceAnalysis as they are called, for    *)
(* all cores: neither changes what InputAnalysis said.                     *)
TensorCoreIdleAnalysis(idle, total) == IF total > 0 /\ AtLeast(3, idle, total) THEN "yes" ELSE "no"
AllReduceAnalysis(reduce, input, total) ==
  IF total > 0 /\ AtLeast(6, reduce - input, total) THEN "yes" ELSE "no"

ComputeTpuBottleneckAnalysis(details, ops) ==
  LET total == Total(details, StepTimeOf)
      input == Total(details, LAMBDA d : d.infeed)
      output == Total(details, LAMBDA d : d.outfeed)
      reduce == Total(details, LAMBDA d : d.reduce)
      idle == Total(details, LAMBDA d : d.idle)
      verdict == InputAnalysis(input, 0, total).verdict
      host == HostResult(ops, 0, 1)
  IN [tpu |-> TRUE, total |-> total, input |-> input, output |-> output, idle |-> idle,
      compute |-> Max({0, total - input - output - idle}), collectives |-> reduce,
      verdict |-> verdict, other |-> TensorCoreIdleAnalysis(idle, total),
      collective |-> AllReduceAnalysis(reduce, input, total),
      host |-> host, next |-> NextStep(verdict, host)]

(* ConvertOpStatsToInputPipelineAnalysis, with a TPU. *)
IpAnalyzeTpu(ops) ==
  /\ tsPhase = "done" /\ ipResult = <<>>
  /\ ipResult' = ComputeTpuBottleneckAnalysis(TpuDetails, ops)
  /\ ipHost' = ops
-----------------------------------------------------------------------------
IpTypeOK ==
  /\ (ipHost = <<>>) = (ipResult = <<>>) /\ ipHost \in IpHostOps \cup {<<>>}
  /\ ipResult # <<>> => /\ ipResult.verdict \in {"unknown", "host", "both", "device"}
                        /\ ipResult.input \in Nat /\ ipResult.idle \in Nat

(* The instants of the steps at which F holds, read from the trace.        *)
IpInstants(F(_, _)) ==
  MapThenSumSet(LAMBDA s : Cardinality({t \in s.begin..s.begin + s.duration - 1 : F(s.num, t)}),
                Range(sdDb))
IpWaits(group, t) == SdTypeAt(group, t) \in {HostWaitInput, HostToDevice}

(* Steps of one core, which computes, and during which the host waits.     *)
IpPlain ==
  /\ DOMAIN tsTrace.cores = {1} /\ ~TsHasInfeed
  /\ tsTrace.cores[1].reduces = <<>>
  /\ \A e \in Range(tsTrace.cores[1].ops) : e.key[1] = "compute"
IpCoreIdle(info) ==
  TsLongest(info.num) - (IF 1 \in DOMAIN info.cores THEN TsSelf(1, info.num, "compute") ELSE 0)
IpCoreWaits(info) == Min({TsHostWaits(info.num), IpCoreIdle(info)})

(* The shares add up to the time of the steps, none is clipped.  A program *)
(* is said to be bound by its input by the time in which its threads, or   *)
(* the host while a core was idle, waited in fact, and to look elsewhere   *)
(* only if that is less than a twentieth; and the time of the host is      *)
(* divided as that of the steps, without changing the shares of its ops,   *)
(* which stand as measured where no transfer was.                          *)
IpVerdictIsRight ==
  ipResult # <<>> =>
    LET r == ipResult
        h == r.host
        waited == IF r.tpu THEN Total(tsDb, IpCoreWaits) ELSE IpInstants(IpWaits)
        ratio == IF ipHost.infeedSpan > 0 THEN <<ipHost.infeed, ipHost.infeedSpan>>
                 ELSE IF r.tpu THEN <<0, 1>>
                 ELSE <<IpInstants(LAMBDA g, t : SdTypeAt(g, t) = HostToDevice), r.total>>
        sum == h.enqueue + h.demanded + h.advanced + h.preprocessing + h.unclassified
    IN /\ r.input + r.output + r.compute + r.idle + (IF r.tpu THEN 0 ELSE r.collectives) = r.total
       /\ r.tpu /\ IpPlain =>
            r.total = Total(tsDb, LAMBDA info :
                              IF DOMAIN info.cores = {} THEN 0 ELSE TsLongest(info.num))
       /\ (r.tpu => IpPlain) /\ r.total > 0 =>
            /\ r.verdict = "host" <=> 5 * waited >= r.total
            /\ r.verdict = "device" => 20 * waited < r.total
            /\ r.next = "skip" <=> r.verdict = "device"
       /\ ipHost.enqueue > 0 /\ ratio[1] > 0 =>
            h.enqueue * ratio[2] = Min({ratio[1], ratio[2]}) * sum
       /\ ratio[1] = 0 => h.unclassified = 0 /\ h.demanded = ipHost.demanded * h.den
       /\ h.demanded * ipHost.preprocessing = h.preprocessing * ipHost.demanded
       /\ h.advanced * ipHost.preprocessing = h.preprocessing * ipHost.advanced
=============================================================================
