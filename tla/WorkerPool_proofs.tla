------------------------- MODULE WorkerPool_proofs -------------------------
(***************************************************************************)
(* Proofs about WorkerPool, for any number of calls, workers, permits,     *)
(* attempts and faults, and any configuration: permits never leak, and     *)
(* each worker admits jobs as AdmissionControl promises.                   *)
(***************************************************************************)
EXTENDS WorkerPool, FiniteSetTheorems, TLAPS

(* Attempts are used in order, and a call that the channel works on has a  *)
(* stub.                                                                   *)
AttemptsInOrder ==
  \A c \in Calls :
    /\ \A a \in Attempts : a > attempt[c] => job[<<c, a>>] = "none"
    /\ call[c] = "idle" => attempt[c] = 1 /\ \A a \in Attempts : job[<<c, a>>] = "none"
    /\ call[c] = "backoff" => attempt[c] < MaxAttempts
    /\ call[c] \in {"pending", "backoff"} => initialized /\ stub[c] \in 1..Len(stubs)

SentSomewhere == \A j \in Jobs : job[j] # "none" => at[j] \in Workers

PoolInv ==
  /\ TypeOK
  /\ AttemptsInOrder
  /\ SentSomewhere
  /\ PermitsBalanced

(* The two parts that do not speak of permits. *)
CallInv == TypeOK /\ AttemptsInOrder /\ SentSomewhere
-----------------------------------------------------------------------------
LEMMA FiniteJobs ==
  /\ IsFiniteSet(Jobs)
  /\ \A w : IsFiniteSet(RunningAt(w)) /\ Cardinality(RunningAt(w)) \in Nat
  <1>1. IsFiniteSet(Attempts)
    BY PoolAssumption, FS_Interval DEF Attempts
  <1>2. IsFiniteSet(Jobs)
    BY <1>1, PoolAssumption, FS_Product DEF Jobs
  <1>3. \A w : RunningAt(w) \in SUBSET Jobs
    BY DEF RunningAt
  <1>4. \A w : IsFiniteSet(RunningAt(w))
    BY <1>2, <1>3, FS_Subset
  <1> QED BY <1>2, <1>4, FS_CardinalityType

LEMMA JobPairs ==
  /\ \A c \in Calls, a \in Attempts : <<c, a>> \in Jobs
  /\ \A j \in Jobs : j[1] \in Calls /\ j[2] \in Attempts /\ j = <<j[1], j[2]>>
  BY DEF Jobs

LEMMA NextStubType ==
  ASSUME CallInv, stubs # <<>>
  PROVE  NextStub \in 1..Len(stubs)
  <1>1. Len(stubs) \in Nat \ {0}
    BY DEF CallInv, TypeOK
  <1>2. next \in Nat
    BY DEF CallInv, TypeOK
  <1> QED BY <1>1, <1>2 DEF NextStub

(* What sending an attempt does to the jobs. *)
LEMMA SendLemma ==
  ASSUME CallInv, NEW j \in Jobs, job[j] = "none", NEW s \in 1..Len(stubs), Send(j, s)
  PROVE  \E w \in Workers :
           /\ job' = [job EXCEPT ![j] = "sent"]
           /\ at' = [at EXCEPT ![j] = w]
  <1>1. stubs[s] \in SUBSET Workers
    BY DEF CallInv, TypeOK
  <1> QED BY <1>1 DEF Send

LEMMA AfterRetryableType ==
  ASSUME CallInv, NEW c \in Calls
  PROVE  /\ AfterRetryable(c) \in {"backoff", "err"}
         /\ AfterRetryable(c) = "backoff" => attempt[c] < MaxAttempts
  BY DEF AfterRetryable, CallInv, TypeOK

-----------------------------------------------------------------------------
LEMMA StubStep ==
  ASSUME CallInv, NEW cfg \in Configs, InitializeStubs(cfg)
  PROVE  CallInv'
  <1>1. cfg \in Seq((SUBSET Workers) \ {{}})
    BY PoolAssumption
  <1>2. TypeOK'
    BY <1>1 DEF CallInv, TypeOK, InitializeStubs, callVars, workerVars
  <1>3. AttemptsInOrder' /\ SentSomewhere'
    BY DEF CallInv, TypeOK, AttemptsInOrder, SentSomewhere, InitializeStubs,
           callVars, workerVars
  <1> QED BY <1>2, <1>3 DEF CallInv

LEMMA SendingStep ==
  ASSUME CallInv, NEW c \in Calls, CallWorker(c) \/ Retry(c)
  PROVE  CallInv'
  <1> USE JobPairs DEF CallInv
  <1>1. CASE CallWorker(c) /\ call' = [call EXCEPT ![c] = "err"]
                           /\ UNCHANGED <<stub, next, job, at>>
    BY <1>1 DEF CallWorker, TypeOK, CallStates, AttemptsInOrder, SentSomewhere, stubVars
  <1>2. CASE /\ CallWorker(c) /\ initialized /\ stubs # <<>>
             /\ call' = [call EXCEPT ![c] = "pending"]
             /\ stub' = [stub EXCEPT ![c] = NextStub]
             /\ next' = next + 1
             /\ Send(<<c, 1>>, NextStub)
    <2>1. call[c] = "idle" /\ attempt[c] = 1
          /\ UNCHANGED <<stubVars, attempt, permits, faults>>
      BY <1>2 DEF CallWorker, AttemptsInOrder
    <2>2. 1 \in Attempts /\ <<c, 1>> \in Jobs
      BY PoolAssumption DEF Attempts
    <2>3. job[<<c, 1>>] = "none" /\ NextStub \in 1..Len(stubs)
      BY <1>2, <2>1, <2>2, NextStubType DEF AttemptsInOrder
    <2>4. PICK w \in Workers : /\ job' = [job EXCEPT ![<<c, 1>>] = "sent"]
                               /\ at' = [at EXCEPT ![<<c, 1>>] = w]
      BY <1>2, <2>2, <2>3, SendLemma
    <2>5. TypeOK'
      BY <1>2, <2>1, <2>2, <2>3, <2>4 DEF TypeOK, CallStates, JobStates, stubVars
    <2>6. AttemptsInOrder'
      BY <1>2, <2>1, <2>2, <2>3, <2>4 DEF TypeOK, AttemptsInOrder, stubVars
    <2>7. SentSomewhere'
      BY <2>4, <2>2 DEF TypeOK, SentSomewhere
    <2> QED BY <2>5, <2>6, <2>7
  <1>3. CASE Retry(c)
    <2>1. call[c] = "backoff" /\ attempt[c] < MaxAttempts /\ attempt[c] \in Attempts
      BY <1>3 DEF Retry, AttemptsInOrder, TypeOK
    <2> DEFINE a == attempt[c] + 1
    <2>2. a \in Attempts /\ <<c, a>> \in Jobs
      BY <2>1, PoolAssumption DEF Attempts
    <2>3. job[<<c, a>>] = "none" /\ stub[c] \in 1..Len(stubs) /\ initialized
      BY <2>1, <2>2 DEF AttemptsInOrder, Attempts
    <2>4. PICK w \in Workers : /\ job' = [job EXCEPT ![<<c, a>>] = "sent"]
                               /\ at' = [at EXCEPT ![<<c, a>>] = w]
      BY <1>3, <2>2, <2>3, SendLemma DEF Retry
    <2>5. /\ call' = [call EXCEPT ![c] = "pending"]
          /\ attempt' = [attempt EXCEPT ![c] = a]
          /\ UNCHANGED <<stubVars, next, stub, permits, faults>>
      BY <1>3 DEF Retry
    <2>6. TypeOK'
      BY <2>2, <2>4, <2>5 DEF TypeOK, CallStates, JobStates, stubVars
    <2>7. AttemptsInOrder'
      BY <2>1, <2>2, <2>3, <2>4, <2>5 DEF TypeOK, AttemptsInOrder, stubVars, Attempts
    <2>8. SentSomewhere'
      BY <2>4, <2>2 DEF TypeOK, SentSomewhere
    <2> QED BY <2>6, <2>7, <2>8
  <1> QED BY <1>1, <1>2, <1>3 DEF CallWorker

(* The rest of the actions only move a job on, and turn the status of the  *)
(* calls they answer.                                                      *)
LEMMA AnsweringStep ==
  ASSUME CallInv,
         UNCHANGED <<stubVars, stub, attempt, at>>,
         next' \in Nat, faults' \in 0..MaxFaults,
         permits' \in [Workers -> 0..Permits],
         job' \in [Jobs -> JobStates],
         \A j \in Jobs : job'[j] = "none" <=> job[j] = "none",
         call' \in [Calls -> CallStates],
         \A c \in Calls :
           \/ call'[c] = call[c]
           \/ /\ call[c] \in {"pending", "backoff"}
              /\ \/ call'[c] \in {"ok", "err"}
                 \/ call'[c] = "backoff" /\ attempt[c] < MaxAttempts
  PROVE  CallInv'
  <1>1. TypeOK'
    BY DEF CallInv, TypeOK, stubVars
  <1>2. AttemptsInOrder'
    <2> SUFFICES ASSUME NEW c \in Calls PROVE AttemptsInOrder!(c)'
      BY DEF AttemptsInOrder
    <2>1. AttemptsInOrder!(c)
      BY DEF CallInv, AttemptsInOrder
    <2>2. \A a \in Attempts : job'[<<c, a>>] = "none" <=> job[<<c, a>>] = "none"
      BY JobPairs
    <2>3. attempt'[c] = attempt[c] /\ stub'[c] = stub[c] /\ stubs' = stubs
          /\ initialized' = initialized
      BY DEF stubVars
    <2>4. CASE call'[c] = call[c]
      BY <2>1, <2>2, <2>3, <2>4
    <2>5. CASE call[c] \in {"pending", "backoff"} /\ call'[c] \in {"ok", "err"}
      BY <2>1, <2>2, <2>3, <2>5
    <2>6. CASE /\ call[c] \in {"pending", "backoff"} /\ call'[c] = "backoff"
               /\ attempt[c] < MaxAttempts
      BY <2>1, <2>2, <2>3, <2>6
    <2> QED BY <2>4, <2>5, <2>6
  <1>3. SentSomewhere'
    BY DEF CallInv, SentSomewhere
  <1> QED BY <1>1, <1>2, <1>3 DEF CallInv

LEMMA AnswerLemma ==
  ASSUME CallInv, NEW j \in Jobs, NEW status \in {"ok", "err", "retryable"},
         Answer(j, status)
  PROVE  /\ call' \in [Calls -> CallStates]
         /\ \A c \in Calls :
              \/ call'[c] = call[c]
              \/ /\ call[c] \in {"pending", "backoff"}
                 /\ \/ call'[c] \in {"ok", "err"}
                    \/ call'[c] = "backoff" /\ attempt[c] < MaxAttempts
  BY JobPairs, AfterRetryableType DEF Answer, Awaited, CallInv, TypeOK, CallStates

LEMMA FaultType ==
  ASSUME CallInv, Fault
  PROVE  faults' \in 0..MaxFaults
  BY PoolAssumption DEF Fault, CallInv, TypeOK

(* The effect of an action on the permits of the workers. *)
Take(w, j) ==
  /\ permits[w] > 0
  /\ permits' = [permits EXCEPT ![w] = @ - 1]
  /\ \A v \in Workers : j \notin RunningAt(v)
  /\ \A v \in Workers : RunningAt(v)' = IF v = w THEN RunningAt(w) \cup {j} ELSE RunningAt(v)

Give(w, j) ==
  /\ j \in RunningAt(w)
  /\ permits' = [permits EXCEPT ![w] = @ + 1]
  /\ \A v \in Workers : RunningAt(v)' = IF v = w THEN RunningAt(w) \ {j} ELSE RunningAt(v)

Reset(w) ==
  /\ permits' = [permits EXCEPT ![w] = Permits]
  /\ \A v \in Workers : RunningAt(v)' = IF v = w THEN {} ELSE RunningAt(v)

Keep ==
  /\ permits' = permits
  /\ \A v \in Workers : RunningAt(v)' = RunningAt(v)

Effect ==
  \/ Keep
  \/ \E w \in Workers : Reset(w) \/ \E j \in Jobs : Take(w, j) \/ Give(w, j)

LEMMA StartingEffect ==
  ASSUME CallInv, NEW j \in Jobs,
         (TryAcquire(j) /\ permits[at[j]] > 0) \/ Acquire(j)
  PROVE  Take(at[j], j) /\ at[j] \in Workers /\ job' = [job EXCEPT ![j] = "running"]
  <1>1. at[j] \in Workers /\ job[j] \in {"sent", "queued"} /\ permits[at[j]] > 0
    BY DEF TryAcquire, Acquire, CallInv, SentSomewhere
  <1>2. /\ job' = [job EXCEPT ![j] = "running"]
        /\ permits' = [permits EXCEPT ![at[j]] = @ - 1]
        /\ at' = at
    BY DEF TryAcquire, Acquire
  <1>3. \A v \in Workers : j \notin RunningAt(v)
    BY <1>1 DEF RunningAt
  <1>4. ASSUME NEW v \in Workers
        PROVE  RunningAt(v)' = IF v = at[j] THEN RunningAt(at[j]) \cup {j} ELSE RunningAt(v)
    BY <1>1, <1>2 DEF RunningAt, CallInv, TypeOK
  <1> QED BY <1>1, <1>2, <1>3, <1>4 DEF Take

LEMMA FinishEffect ==
  ASSUME CallInv, NEW j \in Jobs, Finish(j)
  PROVE  Give(at[j], j) /\ at[j] \in Workers /\ job' = [job EXCEPT ![j] = "done"]
  <1>1. at[j] \in Workers /\ job[j] = "running"
    BY DEF Finish, CallInv, SentSomewhere
  <1>2. /\ job' = [job EXCEPT ![j] = "done"]
        /\ permits' = [permits EXCEPT ![at[j]] = @ + 1]
        /\ at' = at
    BY DEF Finish
  <1>3. ASSUME NEW v \in Workers
        PROVE  RunningAt(v)' = IF v = at[j] THEN RunningAt(at[j]) \ {j} ELSE RunningAt(v)
    BY <1>1, <1>2 DEF RunningAt, CallInv, TypeOK
  <1>4. j \in RunningAt(at[j])
    BY <1>1 DEF RunningAt
  <1> QED BY <1>1, <1>2, <1>3, <1>4 DEF Give

LEMMA RestartEffect ==
  ASSUME CallInv, NEW w \in Workers, Restart(w)
  PROVE  /\ Reset(w)
         /\ job' = [j \in Jobs |-> IF Alive(j) /\ at[j] = w THEN "done" ELSE job[j]]
  <1>1. /\ job' = [j \in Jobs |-> IF Alive(j) /\ at[j] = w THEN "done" ELSE job[j]]
        /\ permits' = [permits EXCEPT ![w] = Permits]
        /\ at' = at
    BY DEF Restart
  <1>2. ASSUME NEW v \in Workers
        PROVE  RunningAt(v)' = IF v = w THEN {} ELSE RunningAt(v)
    BY <1>1 DEF RunningAt, Alive
  <1> QED BY <1>1, <1>2 DEF Reset

(* A job that is sent, queued or lost was not running and does not run. *)
LEMMA WaitingEffect ==
  ASSUME CallInv, NEW j \in Jobs, NEW st \in {"sent", "queued", "done"},
         job[j] # "running", job' = [job EXCEPT ![j] = st],
         \A k \in Jobs \ {j} : at'[k] = at[k],
         permits' = permits
  PROVE  Keep
  BY DEF Keep, RunningAt, CallInv, TypeOK

(* The permits, with the jobs that run, change in one of four ways. *)
LEMMA EveryEffect == CallInv /\ [Next]_vars => Effect
  <1> SUFFICES ASSUME CallInv, [Next]_vars PROVE Effect
    OBVIOUS
  <1>k. ASSUME UNCHANGED <<job, at, permits>> PROVE Keep
    BY <1>k DEF Keep, RunningAt
  <1>1. CASE UNCHANGED vars
    BY <1>1, <1>k DEF vars, workerVars, Effect
  <1>2. ASSUME NEW cfg \in Configs, InitializeStubs(cfg) PROVE Effect
    BY <1>2, <1>k DEF InitializeStubs, workerVars, Effect
  <1>3. ASSUME NEW c \in Calls, CallWorker(c) PROVE Effect
    <2>1. CASE UNCHANGED <<job, at>>
      BY <1>3, <2>1, <1>k DEF CallWorker, Effect
    <2>2. CASE Send(<<c, 1>>, NextStub)
      <3>1. <<c, 1>> \in Jobs /\ job[<<c, 1>>] = "none"
        BY <1>3, PoolAssumption DEF CallWorker, CallInv, AttemptsInOrder, Jobs, Attempts
      <3>2. job' = [job EXCEPT ![<<c, 1>>] = "sent"]
        BY <2>2 DEF Send
      <3>3. \A k \in Jobs \ {<<c, 1>>} : at'[k] = at[k]
        BY <2>2, <3>1 DEF Send, CallInv, TypeOK
      <3>4. permits' = permits
        BY <1>3 DEF CallWorker
      <3> QED BY <3>1, <3>2, <3>3, <3>4, WaitingEffect DEF Effect
    <2> QED BY <1>3, <2>1, <2>2 DEF CallWorker
  <1>4. ASSUME NEW c \in Calls, Retry(c) PROVE Effect
    <2> DEFINE a == attempt[c] + 1
    <2>1. call[c] = "backoff" /\ attempt[c] < MaxAttempts /\ attempt[c] \in Attempts
      BY <1>4 DEF Retry, CallInv, AttemptsInOrder, TypeOK
    <2>2. a \in Attempts /\ <<c, a>> \in Jobs
      BY <2>1, PoolAssumption DEF Attempts, Jobs
    <2>3. job[<<c, a>>] = "none"
      BY <2>1, <2>2 DEF CallInv, AttemptsInOrder, Attempts
    <2>4. job' = [job EXCEPT ![<<c, a>>] = "sent"]
      BY <1>4 DEF Retry, Send
    <2>5. \A k \in Jobs \ {<<c, a>>} : at'[k] = at[k]
      BY <1>4, <2>2 DEF Retry, Send, CallInv, TypeOK
    <2>6. permits' = permits
      BY <1>4 DEF Retry
    <2> QED BY <2>2, <2>3, <2>4, <2>5, <2>6, WaitingEffect DEF Effect
  <1>5. ASSUME NEW c \in Calls, BreakConnection(c) \/ DeadlineExceeded(c) PROVE Effect
    BY <1>5, <1>k DEF BreakConnection, DeadlineExceeded, workerVars, Effect
  <1>6. ASSUME NEW j \in Jobs, TryAcquire(j) PROVE Effect
    <2>1. CASE permits[at[j]] > 0
      BY <1>6, <2>1, StartingEffect DEF Effect
    <2>2. CASE ~(permits[at[j]] > 0)
      <3>1. job[j] # "running" /\ job' = [job EXCEPT ![j] = "queued"]
            /\ at' = at /\ permits' = permits
        BY <1>6, <2>2 DEF TryAcquire
      <3> QED BY <3>1, WaitingEffect DEF Effect
    <2> QED BY <2>1, <2>2
  <1>7. ASSUME NEW j \in Jobs, Acquire(j) PROVE Effect
    BY <1>7, StartingEffect DEF Effect
  <1>8. ASSUME NEW j \in Jobs, Finish(j) PROVE Effect
    BY <1>8, FinishEffect DEF Effect
  <1>9. ASSUME NEW j \in Jobs, Lose(j) PROVE Effect
    <2>1. job[j] # "running" /\ job' = [job EXCEPT ![j] = "done"]
          /\ at' = at /\ permits' = permits
      BY <1>9 DEF Lose
    <2> QED BY <2>1, WaitingEffect DEF Effect
  <1>10. ASSUME NEW w \in Workers, Restart(w) PROVE Effect
    BY <1>10, RestartEffect DEF Effect
  <1> QED
    BY <1>1, <1>2, <1>3, <1>4, <1>5, <1>6, <1>7, <1>8, <1>9, <1>10
       DEF Next, ChannelStep, HandlerStep

(* None of the four ways unbalances them. *)
LEMMA EffectKeepsBalance ==
  ASSUME PoolInv, Effect
  PROVE  /\ PermitsBalanced'
         /\ permits' \in [Workers -> 0..Permits]
  <1> USE DEF PoolInv
  <1>t. /\ permits \in [Workers -> 0..Permits]
        /\ Permits \in Nat
        /\ \A w \in Workers : permits[w] + Cardinality(RunningAt(w)) = Permits
        /\ \A w \in Workers : Cardinality(RunningAt(w)) \in Nat
    BY PoolAssumption, FiniteJobs DEF TypeOK, PermitsBalanced
  <1>1. CASE Keep
    BY <1>1, <1>t DEF Keep, PermitsBalanced
  <1>2. ASSUME NEW w \in Workers, Reset(w)
        PROVE  PermitsBalanced' /\ permits' \in [Workers -> 0..Permits]
    <2>1. Cardinality({}) = 0
      BY FS_EmptySet
    <2> QED BY <1>2, <1>t, <2>1 DEF Reset, PermitsBalanced
  <1>3. ASSUME NEW w \in Workers, NEW j \in Jobs, Take(w, j)
        PROVE  PermitsBalanced' /\ permits' \in [Workers -> 0..Permits]
    <2>1. Cardinality(RunningAt(w) \cup {j}) = Cardinality(RunningAt(w)) + 1
      BY <1>3, FiniteJobs, FS_AddElement DEF Take
    <2>2. permits' \in [Workers -> 0..Permits]
      BY <1>3, <1>t DEF Take
    <2>3. ASSUME NEW v \in Workers
          PROVE  permits'[v] + Cardinality(RunningAt(v)') = Permits
      <3>1. CASE v = w
        <4>1. permits'[v] = permits[w] - 1
          BY <1>3, <1>t, <3>1 DEF Take
        <4>2. RunningAt(v)' = RunningAt(w) \cup {j}
          BY <1>3, <3>1 DEF Take
        <4>3. Cardinality(RunningAt(v)') = Cardinality(RunningAt(w)) + 1
          BY <4>2, <2>1
        <4> QED BY <4>1, <4>3, <1>t
      <3>2. CASE v # w
        <4>1. permits'[v] = permits[v] /\ RunningAt(v)' = RunningAt(v)
          BY <1>3, <1>t, <3>2 DEF Take
        <4> QED BY <4>1, <1>t
      <3> QED BY <3>1, <3>2
    <2> QED BY <2>2, <2>3 DEF PermitsBalanced
  <1>4. ASSUME NEW w \in Workers, NEW j \in Jobs, Give(w, j)
        PROVE  PermitsBalanced' /\ permits' \in [Workers -> 0..Permits]
    <2>1. Cardinality(RunningAt(w) \ {j}) = Cardinality(RunningAt(w)) - 1
      BY <1>4, FiniteJobs, FS_RemoveElement DEF Give
    <2>2. Cardinality(RunningAt(w) \ {j}) \in Nat
      BY FiniteJobs, FS_RemoveElement, FS_CardinalityType
    <2>3. permits' \in [Workers -> 0..Permits]
      BY <1>4, <1>t, <2>1, <2>2 DEF Give
    <2>4. ASSUME NEW v \in Workers
          PROVE  permits'[v] + Cardinality(RunningAt(v)') = Permits
      <3>1. CASE v = w
        <4>1. permits'[v] = permits[w] + 1
          BY <1>4, <1>t, <3>1 DEF Give
        <4>2. RunningAt(v)' = RunningAt(w) \ {j}
          BY <1>4, <3>1 DEF Give
        <4>3. Cardinality(RunningAt(v)') = Cardinality(RunningAt(w)) - 1
          BY <4>2, <2>1
        <4> QED BY <4>1, <4>3, <1>t
      <3>2. CASE v # w
        <4>1. permits'[v] = permits[v] /\ RunningAt(v)' = RunningAt(v)
          BY <1>4, <1>t, <3>2 DEF Give
        <4> QED BY <4>1, <1>t
      <3> QED BY <3>1, <3>2
    <2> QED BY <2>3, <2>4 DEF PermitsBalanced
  <1> QED BY <1>1, <1>2, <1>3, <1>4 DEF Effect

LEMMA PoolInvInit == Init => PoolInv
  <1> SUFFICES ASSUME Init PROVE PoolInv
    OBVIOUS
  <1>1. TypeOK
    <2>1. 1 \in Attempts /\ Permits \in 0..Permits /\ 0 \in 0..MaxFaults
      BY PoolAssumption DEF Attempts
    <2>2. <<>> \in Seq((SUBSET Workers) \ {{}})
      OBVIOUS
    <2> QED BY <2>1, <2>2 DEF Init, TypeOK, CallStates, JobStates
  <1>2. AttemptsInOrder
    BY JobPairs DEF Init, AttemptsInOrder
  <1>3. SentSomewhere
    BY DEF Init, SentSomewhere
  <1>4. PermitsBalanced
    <2>1. \A w : RunningAt(w) = {}
      BY DEF Init, RunningAt
    <2>2. Cardinality({}) = 0
      BY FS_EmptySet
    <2>3. \A w \in Workers : permits[w] = Permits
      BY DEF Init
    <2>4. \A w \in Workers : Cardinality(RunningAt(w)) = 0
      BY <2>1, <2>2
    <2> QED BY <2>3, <2>4, PoolAssumption DEF PermitsBalanced
  <1> QED BY <1>1, <1>2, <1>3, <1>4 DEF PoolInv

LEMMA PoolInvStep == PoolInv /\ [Next]_vars => PoolInv'
  <1> SUFFICES ASSUME PoolInv, [Next]_vars PROVE PoolInv'
    OBVIOUS
  <1>i. CallInv
    BY DEF PoolInv, CallInv
  <1>b. PermitsBalanced' /\ permits' \in [Workers -> 0..Permits]
    BY <1>i, EveryEffect, EffectKeepsBalance
  <1> SUFFICES CallInv'
    BY <1>b DEF PoolInv, CallInv
  <1>t. next \in Nat /\ faults \in 0..MaxFaults /\ job \in [Jobs -> JobStates]
        /\ call \in [Calls -> CallStates]
    BY DEF PoolInv, TypeOK
  <1>1. CASE UNCHANGED vars
    BY <1>1, <1>i, <1>t, <1>b, AnsweringStep DEF vars, callVars, workerVars
  <1>2. ASSUME NEW cfg \in Configs, InitializeStubs(cfg) PROVE CallInv'
    BY <1>2, <1>i, StubStep
  <1>3. ASSUME NEW c \in Calls, CallWorker(c) \/ Retry(c) PROVE CallInv'
    BY <1>3, <1>i, SendingStep
  <1>4. ASSUME NEW c \in Calls, BreakConnection(c) PROVE CallInv'
    <2>1. /\ call' = [call EXCEPT ![c] = AfterRetryable(c)]
          /\ call[c] = "pending"
          /\ UNCHANGED <<stubVars, next, stub, attempt, at, permits, job>>
          /\ faults' \in 0..MaxFaults
      BY <1>4, <1>i, FaultType DEF BreakConnection, workerVars
    <2>2. call' \in [Calls -> CallStates]
      BY <1>i, <1>t, <2>1, AfterRetryableType DEF CallStates
    <2>3. \A d \in Calls :
            \/ call'[d] = call[d]
            \/ /\ call[d] \in {"pending", "backoff"}
               /\ \/ call'[d] \in {"ok", "err"}
                  \/ call'[d] = "backoff" /\ attempt[d] < MaxAttempts
      BY <1>i, <1>t, <2>1, AfterRetryableType
    <2> QED BY <1>i, <1>b, <1>t, <2>1, <2>2, <2>3, AnsweringStep
  <1>5. ASSUME NEW c \in Calls, DeadlineExceeded(c) PROVE CallInv'
    <2>1. /\ call' = [call EXCEPT ![c] = "err"]
          /\ call[c] \in {"pending", "backoff"}
          /\ UNCHANGED <<stubVars, next, stub, attempt, at, permits, job, faults>>
      BY <1>5 DEF DeadlineExceeded, workerVars
    <2>2. call' \in [Calls -> CallStates]
      BY <1>t, <2>1 DEF CallStates
    <2>3. \A d \in Calls :
            \/ call'[d] = call[d]
            \/ call[d] \in {"pending", "backoff"} /\ call'[d] \in {"ok", "err"}
      BY <1>t, <2>1
    <2> QED BY <1>i, <1>b, <1>t, <2>1, <2>2, <2>3, AnsweringStep
  <1>6. ASSUME NEW j \in Jobs, TryAcquire(j) \/ Acquire(j) \/ Lose(j) PROVE CallInv'
    <2>1. /\ UNCHANGED <<stubVars, next, stub, attempt, at, call, faults>>
          /\ job[j] # "none"
          /\ \E st \in {"running", "queued", "done"} : job' = [job EXCEPT ![j] = st]
      BY <1>6 DEF TryAcquire, Acquire, Lose, callVars
    <2>2. job' \in [Jobs -> JobStates] /\ \A k \in Jobs : job'[k] = "none" <=> job[k] = "none"
      BY <1>t, <2>1 DEF JobStates
    <2> QED BY <1>i, <1>b, <1>t, <2>1, <2>2, AnsweringStep
  <1>7. ASSUME NEW j \in Jobs, Finish(j) PROVE CallInv'
    <2>1. /\ UNCHANGED <<stubVars, next, stub, attempt, at, faults>>
          /\ job[j] = "running" /\ job' = [job EXCEPT ![j] = "done"]
          /\ \E status \in {"ok", "err", "retryable"} : Answer(j, status)
      BY <1>7 DEF Finish
    <2>2. job' \in [Jobs -> JobStates] /\ \A k \in Jobs : job'[k] = "none" <=> job[k] = "none"
      BY <1>t, <2>1 DEF JobStates
    <2> QED BY <1>i, <1>b, <1>t, <2>1, <2>2, AnswerLemma, AnsweringStep
  <1>8. ASSUME NEW w \in Workers, Restart(w) PROVE CallInv'
    <2>1. /\ UNCHANGED <<stubVars, next, stub, attempt, at>>
          /\ job' = [j \in Jobs |-> IF Alive(j) /\ at[j] = w THEN "done" ELSE job[j]]
          /\ call' = [c \in Calls |->
               IF \E a \in Attempts :
                    Awaited(<<c, a>>) /\ Alive(<<c, a>>) /\ at[<<c, a>>] = w
               THEN AfterRetryable(c)
               ELSE call[c]]
          /\ faults' \in 0..MaxFaults
      BY <1>8, <1>i, FaultType DEF Restart
    <2>2. job' \in [Jobs -> JobStates] /\ \A k \in Jobs : job'[k] = "none" <=> job[k] = "none"
      BY <1>t, <2>1 DEF JobStates, Alive
    <2>3. \A c \in Calls, a \in Attempts : Awaited(<<c, a>>) => call[c] = "pending"
      BY DEF Awaited
    <2>4. \A d \in Calls :
            \/ call'[d] = call[d]
            \/ /\ call[d] \in {"pending", "backoff"}
               /\ \/ call'[d] \in {"ok", "err"}
                  \/ call'[d] = "backoff" /\ attempt[d] < MaxAttempts
      BY <1>i, <2>1, <2>3, AfterRetryableType
    <2>5. call' \in [Calls -> CallStates]
      BY <1>i, <1>t, <2>1, AfterRetryableType DEF CallStates
    <2> QED BY <1>i, <1>b, <1>t, <2>1, <2>2, <2>4, <2>5, AnsweringStep
  <1> QED
    BY <1>1, <1>2, <1>3, <1>4, <1>5, <1>6, <1>7, <1>8 DEF Next, ChannelStep, HandlerStep

(* Every permit is free or held by one running handler, at every worker    *)
(* and whatever was given up, repeated, lost or restarted.                 *)
THEOREM NoPermitLeaks == Spec => []PermitsBalanced
  <1>1. PoolInv => PermitsBalanced
    BY DEF PoolInv
  <1> QED BY <1>1, PoolInvInit, PoolInvStep, PTL DEF Spec

(* Every variable keeps its type: no semaphore counts below zero or above  *)
(* its limit, and no call is attempted more often than the policy allows.  *)
THEOREM PoolTyping == Spec => []TypeOK
  <1>1. PoolInv => TypeOK
    BY DEF PoolInv
  <1> QED BY <1>1, PoolInvInit, PoolInvStep, PTL DEF Spec

(* The inductive invariant: the types, the permits, and where the jobs of  *)
(* each call can be.                                                       *)
THEOREM PoolInvariant == Spec => []PoolInv
  BY PoolInvInit, PoolInvStep, PTL DEF Spec

(* A call that returned is not touched again: every step that changes what *)
(* a caller sees starts from a call that is idle, or that its channel still*)
(* works on.                                                               *)
LEMMA ReturnedStep ==
  ASSUME CallInv, [Next]_vars, NEW c \in Calls, call[c] \in Returned
  PROVE  call'[c] = call[c]
  <1>t. call \in [Calls -> CallStates]
    BY DEF CallInv, TypeOK
  <1>r. call[c] # "idle" /\ call[c] # "pending" /\ call[c] # "backoff"
    BY DEF Returned
  <1>1. CASE UNCHANGED vars
    BY <1>1 DEF vars, callVars
  <1>2. ASSUME NEW cfg \in Configs, InitializeStubs(cfg) PROVE call'[c] = call[c]
    BY <1>2 DEF InitializeStubs, callVars
  <1>3. ASSUME NEW d \in Calls, CallWorker(d) PROVE call'[c] = call[c]
    <2>1. d # c
      BY <1>3, <1>r DEF CallWorker
    <2> QED BY <1>3, <1>t, <2>1 DEF CallWorker
  <1>4. ASSUME NEW d \in Calls, ChannelStep(d) PROVE call'[c] = call[c]
    <2>1. d # c
      BY <1>4, <1>r DEF ChannelStep, Retry, BreakConnection, DeadlineExceeded
    <2> QED BY <1>4, <1>t, <2>1 DEF ChannelStep, Retry, BreakConnection, DeadlineExceeded
  <1>5. ASSUME NEW j \in Jobs, TryAcquire(j) \/ Acquire(j) \/ Lose(j) PROVE call'[c] = call[c]
    BY <1>5 DEF TryAcquire, Acquire, Lose, callVars
  <1>6. ASSUME NEW j \in Jobs, Finish(j) PROVE call'[c] = call[c]
    <2>1. PICK status \in {"ok", "err", "retryable"} : Answer(j, status)
      BY <1>6 DEF Finish
    <2> QED BY <2>1, <1>r, <1>t DEF Answer, Awaited
  <1>7. ASSUME NEW w \in Workers, Restart(w) PROVE call'[c] = call[c]
    <2>1. \A a \in Attempts : ~Awaited(<<c, a>>)
      BY <1>r DEF Awaited
    <2> QED BY <1>7, <2>1 DEF Restart
  <1> QED
    BY <1>1, <1>2, <1>3, <1>4, <1>5, <1>6, <1>7 DEF Next, HandlerStep

(* What a caller was told stays, whichever attempts of the call are still  *)
(* at work.                                                                *)
THEOREM ReturnsOnce == Spec => ReturnedOnce
  <1>1. PoolInv /\ [Next]_vars
        => [\A c \in Calls : call[c] \in Returned => call'[c] = call[c]]_vars
    BY ReturnedStep DEF PoolInv, CallInv
  <1> QED BY <1>1, PoolInvariant, PTL DEF Spec, ReturnedOnce

(* The pool implements the admission control of each worker. *)
THEOREM AdmissionImplemented == Spec => AdmissionSpec
  <1> DEFINE run == [w \in Workers |-> RunningAt(w)]
  <1>1. Init => Admission!Init
    BY DEF Init, Admission!Init, RunningAt
  <1>2. PoolInv /\ [Next]_vars => [Admission!Next]_run
    <2> SUFFICES ASSUME PoolInv, [Next]_vars PROVE Admission!Next \/ run' = run
      OBVIOUS
    <2>1. Effect
      BY EveryEffect DEF PoolInv, CallInv
    <2>2. CASE Keep
      BY <2>2 DEF Keep
    <2>3. ASSUME NEW w \in Workers, Reset(w) PROVE Admission!Restart(w)
      BY <2>3 DEF Reset, Admission!Restart
    <2>4. ASSUME NEW w \in Workers, NEW j \in Jobs, Take(w, j) PROVE Admission!Admit(w, j)
      <3>1. Cardinality(run[w]) < Permits
        <4>1. permits[w] + Cardinality(RunningAt(w)) = Permits
          BY DEF PoolInv, PermitsBalanced
        <4>2. permits[w] \in Nat /\ permits[w] > 0 /\ Cardinality(RunningAt(w)) \in Nat
          BY <2>4, FiniteJobs, PoolAssumption DEF Take, PoolInv, TypeOK
        <4> QED BY <4>1, <4>2, PoolAssumption
      <3>2. \A v \in Workers : j \notin run[v]
        BY <2>4 DEF Take
      <3>3. run' = [run EXCEPT ![w] = @ \cup {j}]
        BY <2>4 DEF Take
      <3>4. Cardinality(run[w]) = Admission!Cardinality(run[w])
        BY DEF Cardinality, Admission!Cardinality
      <3> QED BY <3>1, <3>2, <3>3, <3>4 DEF Admission!Admit
    <2>5. ASSUME NEW w \in Workers, NEW j \in Jobs, Give(w, j) PROVE Admission!Leave(w, j)
      <3>1. j \in run[w] /\ run' = [run EXCEPT ![w] = @ \ {j}]
        BY <2>5 DEF Give
      <3> QED BY <3>1 DEF Admission!Leave
    <2> QED BY <2>1, <2>2, <2>3, <2>4, <2>5 DEF Effect, Admission!Next
  <1> QED BY <1>1, <1>2, PoolInvariant, PTL DEF Spec, AdmissionSpec, Admission!Spec
=============================================================================
