----------------------------- MODULE WorkerPool -----------------------------
(***************************************************************************)
(* The worker service: the stubs the aggregator process shares out round-  *)
(* robin, the retries of a GetProfileData call by its channel, and the     *)
(* semaphore by which each worker limits what it processes at a time.      *)
(*                                                                         *)
(* A call is repeated by its channel, so several attempts of one call may  *)
(* be at workers at once: the one the channel waits for, and earlier ones  *)
(* that were given up but run on, for a handler never looks whether its    *)
(* client is still there.  An attempt is a job <<call, attempt>>.          *)
(***************************************************************************)
EXTENDS Integers, Sequences, FiniteSets

CONSTANTS
  Calls,       \* invocations of CallWorkerService; each is used once
  Workers,     \* worker processes
  Nowhere,     \* the place of a job that was never sent
  Configs,     \* values of --worker_service_address: sequences of addresses,
               \* an address being the set of workers it resolves to
  Permits,     \* max_concurrent_requests of every worker
  MaxAttempts, \* maxAttempts of the retry policy
  MaxFaults    \* bound: broken connections and restarts of workers

ASSUME PoolAssumption ==
  /\ IsFiniteSet(Calls)
  /\ Nowhere \notin Workers
  /\ Configs \subseteq Seq((SUBSET Workers) \ {{}})
  /\ Permits \in Nat \ {0}
  /\ MaxAttempts \in Nat \ {0}
  /\ MaxFaults \in Nat

VARIABLES
  stubs,       \* gStubs: the addresses, in order
  initialized, \* gStubsInitialized
  next,        \* gCurrentStubIndex
  stub,        \* stub[c]: index of the stub that call c was given, 0 if none
  call,        \* call[c]: what the caller sees
  attempt,     \* attempt[c]: the attempt the channel waits for
  job,         \* job[j]: the handler of an attempt
  at,          \* at[j]: the worker the attempt was sent to
  permits,     \* permits[w]: the value of semaphore_
  faults       \* number of faults so far, for MaxFaults

stubVars   == <<stubs, initialized>>
callVars   == <<call, attempt>>
workerVars == <<job, at, permits>>
vars       == <<stubVars, next, stub, callVars, workerVars, faults>>

Attempts   == 1..MaxAttempts
Jobs       == Calls \X Attempts
CallStates == {"idle", "pending", "backoff", "ok", "err"}
Returned   == {"ok", "err"}
JobStates  == {"none", "sent", "queued", "running", "done"}

RunningAt(w) == {j \in Jobs : job[j] = "running" /\ at[j] = w}
Awaited(j)   == call[j[1]] = "pending" /\ attempt[j[1]] = j[2]

Init ==
  /\ stubs = <<>>
  /\ initialized = FALSE
  /\ next = 0
  /\ stub = [c \in Calls |-> 0]
  /\ call = [c \in Calls |-> "idle"]
  /\ attempt = [c \in Calls |-> 1]
  /\ job = [j \in Jobs |-> "none"]
  /\ at = [j \in Jobs |-> Nowhere]
  /\ permits = [w \in Workers |-> Permits]
  /\ faults = 0

Fault ==
  /\ faults < MaxFaults
  /\ faults' = faults + 1
-----------------------------------------------------------------------------
(* InitializeStubs: the first configuration stays, an empty one too. *)
InitializeStubs(cfg) ==
  /\ initialized' = TRUE
  /\ stubs' = IF initialized THEN stubs ELSE cfg
  /\ UNCHANGED <<next, stub, callVars, workerVars, faults>>

NextStub == (next % Len(stubs)) + 1

(* The channel sends an attempt to a worker behind the stub's address. *)
Send(j, s) ==
  \E w \in stubs[s] :
    /\ job' = [job EXCEPT ![j] = "sent"]
    /\ at' = [at EXCEPT ![j] = w]

(* CallWorkerService: GetNextStub, then the blocking RPC. *)
CallWorker(c) ==
  /\ call[c] = "idle"
  /\ \/ /\ initialized /\ stubs # <<>>
        /\ call' = [call EXCEPT ![c] = "pending"]
        /\ stub' = [stub EXCEPT ![c] = NextStub]
        /\ next' = next + 1
        /\ Send(<<c, 1>>, NextStub)
     \/ /\ ~initialized \/ stubs = <<>>
        /\ call' = [call EXCEPT ![c] = "err"]
        /\ UNCHANGED <<stub, next, job, at>>
  /\ UNCHANGED <<stubVars, attempt, permits, faults>>
-----------------------------------------------------------------------------
(* GetProfileData at a worker. *)

(* Slip: a handler that finds no permit goes on without one. *)
TryAcquireGoesOn(j) ==
  /\ job[j] = "sent"
  /\ job' = [job EXCEPT ![j] = "running"]
  /\ permits' = [permits EXCEPT ![at[j]] = IF @ > 0 THEN @ - 1 ELSE 0]
  /\ UNCHANGED <<stubVars, next, stub, callVars, at, faults>>

TryAcquire(j) ==
  /\ job[j] = "sent"
  /\ \/ /\ permits[at[j]] > 0
        /\ job' = [job EXCEPT ![j] = "running"]
        /\ permits' = [permits EXCEPT ![at[j]] = @ - 1]
     \/ /\ permits[at[j]] = 0
        /\ job' = [job EXCEPT ![j] = "queued"]
        /\ UNCHANGED permits
  /\ UNCHANGED <<stubVars, next, stub, callVars, at, faults>>

(* Slip: a handler that waited does not take the permit. *)
AcquireWithoutTaking(j) ==
  /\ job[j] = "queued"
  /\ permits[at[j]] > 0
  /\ job' = [job EXCEPT ![j] = "running"]
  /\ UNCHANGED <<stubVars, next, stub, callVars, at, permits, faults>>

(* Acquire: waiters and newcomers race for a released permit. *)
Acquire(j) ==
  /\ job[j] = "queued"
  /\ permits[at[j]] > 0
  /\ job' = [job EXCEPT ![j] = "running"]
  /\ permits' = [permits EXCEPT ![at[j]] = @ - 1]
  /\ UNCHANGED <<stubVars, next, stub, callVars, at, faults>>

(* A status that the policy lists is retried while attempts are left. *)
AfterRetryable(c) == IF attempt[c] < MaxAttempts THEN "backoff" ELSE "err"

(* Slip: an answer is taken although nobody waits for that attempt. *)
AnswerAnyway(j, status) ==
  call' = [call EXCEPT ![j[1]] =
             IF status = "retryable" THEN AfterRetryable(j[1]) ELSE status]

Answer(j, status) ==
  call' = IF Awaited(j)
          THEN [call EXCEPT ![j[1]] =
                  IF status = "retryable" THEN AfterRetryable(j[1]) ELSE status]
          ELSE call

(* Slip: the permit is released only when Map succeeds. *)
FinishReleasesOnSuccess(j) ==
  /\ job[j] = "running"
  /\ job' = [job EXCEPT ![j] = "done"]
  /\ \E status \in {"ok", "err", "retryable"} :
       /\ permits' = [permits EXCEPT ![at[j]] = IF status = "ok" THEN @ + 1 ELSE @]
       /\ Answer(j, status)
  /\ UNCHANGED <<stubVars, next, stub, attempt, at, faults>>

(* Map returns, or the tool is unknown; the cleanup releases the permit on *)
(* every path.                                                             *)
Finish(j) ==
  /\ job[j] = "running"
  /\ job' = [job EXCEPT ![j] = "done"]
  /\ permits' = [permits EXCEPT ![at[j]] = @ + 1]
  /\ \E status \in {"ok", "err", "retryable"} : Answer(j, status)
  /\ UNCHANGED <<stubVars, next, stub, attempt, at, faults>>
-----------------------------------------------------------------------------
(* The channel. *)

Retry(c) ==
  /\ call[c] = "backoff"
  /\ call' = [call EXCEPT ![c] = "pending"]
  /\ attempt' = [attempt EXCEPT ![c] = @ + 1]
  /\ Send(<<c, attempt[c] + 1>>, stub[c])
  /\ UNCHANGED <<stubVars, next, stub, permits, faults>>

(* No keepalive answer, or the 10 minutes of grace after the connection's  *)
(* 50 seconds are over: UNAVAILABLE, while the handler runs on.            *)
BreakConnection(c) ==
  /\ call[c] = "pending"
  /\ Fault
  /\ call' = [call EXCEPT ![c] = AfterRetryable(c)]
  /\ UNCHANGED <<stubVars, next, stub, attempt, workerVars>>

(* The 30 minutes of the whole call, backoffs included, are over. *)
DeadlineExceeded(c) ==
  /\ call[c] \in {"pending", "backoff"}
  /\ call' = [call EXCEPT ![c] = "err"]
  /\ UNCHANGED <<stubVars, next, stub, attempt, workerVars, faults>>

(* A request whose client is gone may never reach a handler. *)
Lose(j) ==
  /\ job[j] = "sent"
  /\ ~Awaited(j)
  /\ job' = [job EXCEPT ![j] = "done"]
  /\ UNCHANGED <<stubVars, next, stub, callVars, at, permits, faults>>

Alive(j) == job[j] \in {"sent", "queued", "running"}

(* Slip: the permits that were out when the worker died stay out. *)
RestartLosesPermits(w) ==
  /\ Fault
  /\ job' = [j \in Jobs |-> IF Alive(j) /\ at[j] = w THEN "done" ELSE job[j]]
  /\ call' = [c \in Calls |->
       IF \E a \in Attempts : Awaited(<<c, a>>) /\ Alive(<<c, a>>) /\ at[<<c, a>>] = w
       THEN AfterRetryable(c)
       ELSE call[c]]
  /\ UNCHANGED <<stubVars, next, stub, attempt, at, permits>>

(* A worker process dies with its handlers and starts again. *)
Restart(w) ==
  /\ Fault
  /\ job' = [j \in Jobs |-> IF Alive(j) /\ at[j] = w THEN "done" ELSE job[j]]
  /\ permits' = [permits EXCEPT ![w] = Permits]
  /\ call' = [c \in Calls |->
       IF \E a \in Attempts : Awaited(<<c, a>>) /\ Alive(<<c, a>>) /\ at[<<c, a>>] = w
       THEN AfterRetryable(c)
       ELSE call[c]]
  /\ UNCHANGED <<stubVars, next, stub, attempt, at>>
-----------------------------------------------------------------------------
HandlerStep(j) == TryAcquire(j) \/ Acquire(j) \/ Finish(j)

ChannelStep(c) == Retry(c) \/ BreakConnection(c) \/ DeadlineExceeded(c)

Next ==
  \/ \E cfg \in Configs : InitializeStubs(cfg)
  \/ \E c \in Calls : CallWorker(c) \/ ChannelStep(c)
  \/ \E j \in Jobs : HandlerStep(j) \/ Lose(j)
  \/ \E w \in Workers : Restart(w)

Spec == Init /\ [][Next]_vars

(* Handler threads run, Map returns, and the backoff of a channel ends.    *)
(* Nothing is assumed of the deadline.                                     *)
Fairness ==
  /\ \A j \in Jobs : WF_vars(HandlerStep(j))
  /\ \A c \in Calls : WF_vars(Retry(c))

FairSpec == Spec /\ Fairness
-----------------------------------------------------------------------------
(* Every variable has its type: the semaphore of a worker in particular    *)
(* never counts below zero or above max_concurrent_requests, and no call   *)
(* is attempted more often than the retry policy allows.                   *)
TypeOK ==
  /\ stubs \in Seq((SUBSET Workers) \ {{}})
  /\ initialized \in BOOLEAN
  /\ next \in Nat
  /\ stub \in [Calls -> Nat]
  /\ call \in [Calls -> CallStates]
  /\ attempt \in [Calls -> Attempts]
  /\ job \in [Jobs -> JobStates]
  /\ at \in [Jobs -> Workers \cup {Nowhere}]
  /\ permits \in [Workers -> 0..Permits]
  /\ faults \in 0..MaxFaults

(* A permit is held by exactly the handlers that run: none leaks when a    *)
(* call was given up, repeated, failed or lost with its worker.            *)
PermitsBalanced ==
  \A w \in Workers : permits[w] + Cardinality(RunningAt(w)) = Permits

(* What a caller was told stays: the late answer of an attempt that was    *)
(* given up reaches nobody.                                                *)
ReturnedOnce ==
  [][\A c \in Calls : call[c] \in Returned => call'[c] = call[c]]_vars

(* Each worker admits jobs as AdmissionControl promises. *)
Admission == INSTANCE AdmissionControl
  WITH running <- [w \in Workers |-> RunningAt(w)]

AdmissionSpec == Admission!Spec

(* Every call returns, without the help of its deadline, when Map does. *)
CallsReturn == \A c \in Calls : call[c] = "pending" ~> call[c] \in Returned

(* A handler that waits for a permit gets it, also behind handlers nobody  *)
(* waits for any more.                                                     *)
QueueDrains == \A j \in Jobs : job[j] = "queued" ~> job[j] = "done"
=============================================================================
