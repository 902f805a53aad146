--------------------------- MODULE OpStatsSession ---------------------------
(***************************************************************************)
(* The op-stats cache of one session directory, and the requests that      *)
(* share it.  Every tool built from OpStats (overview page, op profile,    *)
(* kernel stats, ...) is served by SessionSnapshotToToolsData, which may   *)
(* clear the cache, then either computes the combined OpStats in process   *)
(* or scatters one Map call per host to the worker service and reduces     *)
(* the files they wrote.  Nothing locks the directory: requests, workers   *)
(* and retried calls meet only in the files.                               *)
(*                                                                         *)
(* A file is <host>.op_stats_v2.pb for a host or for ALL_HOSTS.  Its       *)
(* contents are abstracted to the set of hosts whose stats it holds: {h}   *)
(* for a whole host file, {} for a file that was opened (truncated) and    *)
(* not yet, or never, completely written.                                  *)
(***************************************************************************)
EXTENDS Integers, FiniteSets

CONSTANTS
  Hosts,       \* the hosts that have an xplane file in the session
  AllHosts,    \* kAllHostsIdentifier, the name of the combined cache
  Requests,    \* tool requests; each is used once
  Selections,  \* the sets of hosts that requests may ask for
  MaxAttempts, \* maxAttempts of the gRPC retry policy
  MaxFaults    \* bound: crashes, write and conversion failures, broken calls

ASSUME SessionAssumption ==
  /\ Hosts # {}
  /\ AllHosts \notin Hosts
  /\ Selections \subseteq (SUBSET Hosts) \ {{}}
  /\ MaxAttempts \in Nat \ {0}
  /\ MaxFaults \in Nat

VARIABLES
  pc,      \* control point of each request
  hosts,   \* hosts[r]: the hosts whose xplanes the request selected
  fresh,   \* fresh[r]: use_saved_result was false
  legacy,  \* legacy[r]: the fallback to ConvertMultiXSpacesToToolData is taken
  todo,    \* todo[r]: files the current loop of the request has still to visit
  acc,     \* acc[r]: hosts whose stats the request has gathered; its answer
  call,    \* call[r][h]: the GetProfileData RPC for host h
  attempt, \* attempt[r][h]: the attempt of that RPC the channel waits for
  work,    \* work[r][h][a]: the Map execution a worker runs for attempt a
  file,    \* the session directory
  clean,   \* history: nothing disturbed the request so far (see Start)
  faults   \* number of faults so far, for MaxFaults

reqVars  == <<pc, hosts, fresh, legacy, todo, acc>>
workVars == <<call, attempt, work>>
vars     == <<reqVars, workVars, file, clean, faults>>

Attempts == 1..MaxAttempts
Files    == Hosts \cup {AllHosts}

(* A writer of a file: a worker's Map attempt, or (attempt 0) the request. *)
Writers == Requests \X (0..MaxAttempts)

Answered   == {"reduced", "cached", "converted"}
Finished   == Answered \cup {"error"}
PC         == Finished \cup {"idle", "list", "clear", "decide", "probe", "map",
                             "reduce", "write", "local", "read", "convert", "save"}
CallStates == {"none", "pending", "ok", "invalid", "err"}
WorkStates == {"idle", "check", "convert", "write"}
FileStates == [exists : BOOLEAN, writers : SUBSET Writers,
               shared : BOOLEAN, data : SUBSET Hosts]

Absent == [exists |-> FALSE, writers |-> {}, shared |-> FALSE, data |-> {}]

IsSingle(S) == \E h \in Hosts : S = {h}
-----------------------------------------------------------------------------
(* Operations on files.  WriteBinaryProto truncates the file when it opens *)
(* it and the bytes are there when it closes it; a reader between the two  *)
(* sees a short file, which fails to parse or parses as a smaller message. *)
(* shared: two writers had the file open at once, and whichever closes may *)
(* leave its bytes, the other's, or a mix that reads like a short file.    *)

OpenedFile(f, w) ==
  [file EXCEPT ![f] = [exists |-> TRUE, writers |-> @.writers \cup {w},
                       shared |-> @.writers # {}, data |-> {}]]

(* A file that was deleted since w opened it stays deleted. *)
ClosedFile(f, w, c) ==
  IF w \in file[f].writers
  THEN [file EXCEPT ![f] = [exists |-> @.exists, writers |-> @.writers \ {w},
                            shared |-> @.shared /\ @.writers # {w}, data |-> c]]
  ELSE file

CloseFile(f, w, c) ==
  \E d \in IF file[f].shared THEN {c, file[f].data, {}} ELSE {c} :
    file' = ClosedFile(f, w, d)

AbandonFile(f, w) ==
  \E d \in {file[f].data, {}} : file' = ClosedFile(f, w, d)

CanRead(f, c) ==
  /\ file[f].exists
  /\ \/ c = file[f].data
     \/ c = {} /\ file[f].writers # {}

CanFailToRead(f) ==
  \/ ~file[f].exists
  \/ file[f].writers # {}
  \/ file[f].data = {}

Damaged(f) == file[f].exists /\ (file[f].writers # {} \/ file[f].data = {})
-----------------------------------------------------------------------------
Init ==
  /\ pc = [r \in Requests |-> "idle"]
  /\ hosts = [r \in Requests |-> {}]
  /\ fresh = [r \in Requests |-> FALSE]
  /\ legacy = [r \in Requests |-> FALSE]
  /\ todo = [r \in Requests |-> {}]
  /\ acc = [r \in Requests |-> {}]
  /\ call = [r \in Requests |-> [h \in Hosts |-> "none"]]
  /\ attempt = [r \in Requests |-> [h \in Hosts |-> 1]]
  /\ work = [r \in Requests |-> [h \in Hosts |-> [a \in Attempts |-> "idle"]]]
  /\ file = [f \in Files |-> Absent]
  /\ clean = [r \in Requests |-> FALSE]
  /\ faults = 0

Goto(r, p) == pc' = [pc EXCEPT ![r] = p]

Fault ==
  /\ faults < MaxFaults
  /\ faults' = faults + 1

Running(r)  == pc[r] \notin Finished \cup {"idle"}
Working(r)  == \E h \in Hosts, a \in Attempts : work[r][h][a] # "idle"
Others(r)   == Requests \ {r}

(* An InvalidArgument or Unimplemented status sends the request once to    *)
(* the legacy converter; any other status is the request's answer.         *)
FailWith(r, code) ==
  IF code = "invalid" /\ ~legacy[r]
  THEN Goto(r, "local") /\ legacy' = [legacy EXCEPT ![r] = TRUE]
  ELSE Goto(r, "error") /\ UNCHANGED legacy
-----------------------------------------------------------------------------
(* Slip: the cache is cleared whatever use_saved_result says. *)
StartAlwaysClears(r) ==
  /\ pc[r] = "idle"
  /\ \E S \in Selections :
       /\ hosts' = [hosts EXCEPT ![r] = S]
       /\ Goto(r, "list")
  /\ UNCHANGED <<fresh, legacy, todo, acc, workVars, file, clean, faults>>

(* SessionSnapshotToToolsData.  A request selects one host, or all whose   *)
(* xplane is there when it comes (more may arrive later).  clean[r]        *)
(* records that r started with no other request or Map execution under way *)
(* and, unless r clears the cache first, with no damaged file; Start of    *)
(* another request, a repeated Map call and a crash of one end that.       *)
Start(r) ==
  /\ pc[r] = "idle"
  /\ \E S \in Selections, f \in BOOLEAN :
       /\ hosts' = [hosts EXCEPT ![r] = S]
       /\ fresh' = [fresh EXCEPT ![r] = f]
       /\ Goto(r, IF f THEN "list" ELSE "decide")
       /\ clean' = [q \in Requests |->
            IF q = r
            THEN /\ \A o \in Others(r) : ~Running(o) /\ ~Working(o)
                 /\ f \/ \A g \in Files : ~Damaged(g)
            ELSE clean[q] /\ ~Running(q)]
  /\ UNCHANGED <<legacy, todo, acc, workVars, file, faults>>

(* Slip: only the per-host files are listed. *)
ListHostFilesOnly(r) ==
  /\ pc[r] = "list"
  /\ todo' = [todo EXCEPT ![r] = {f \in Hosts : file[f].exists}]
  /\ Goto(r, "clear")
  /\ UNCHANGED <<hosts, fresh, legacy, acc, workVars, file, clean, faults>>

(* ClearCacheFiles: list the directory, then delete what was listed; a     *)
(* file that is gone by then fails the request.                            *)
ListCacheFiles(r) ==
  /\ pc[r] = "list"
  /\ todo' = [todo EXCEPT ![r] = {f \in Files : file[f].exists}]
  /\ Goto(r, "clear")
  /\ UNCHANGED <<hosts, fresh, legacy, acc, workVars, file, clean, faults>>

DeleteCacheFile(r) ==
  /\ pc[r] = "clear"
  /\ \E f \in todo[r] :
       \/ /\ file[f].exists
          /\ file' = [file EXCEPT ![f] = Absent]
          /\ todo' = [todo EXCEPT ![r] = @ \ {f}]
          /\ UNCHANGED pc
       \/ /\ ~file[f].exists
          /\ Goto(r, "error")
          /\ UNCHANGED <<file, todo>>
  /\ UNCHANGED <<hosts, fresh, legacy, acc, workVars, clean, faults>>

FinishClear(r) ==
  /\ pc[r] = "clear"
  /\ todo[r] = {}
  /\ Goto(r, "decide")
  /\ UNCHANGED <<hosts, fresh, legacy, todo, acc, workVars, file, clean, faults>>
-----------------------------------------------------------------------------
(* RunMapReduce: one pool thread and one RPC per host.                     *)
Scatter(r) ==
  /\ Goto(r, "map")
  /\ call' = [call EXCEPT ![r] = [h \in Hosts |->
                IF h \in hosts[r] THEN "pending" ELSE "none"]]
  /\ work' = [work EXCEPT ![r] = [h \in Hosts |-> [a \in Attempts |->
                IF h \in hosts[r] /\ a = 1 THEN "check" ELSE "idle"]]]
  /\ UNCHANGED attempt

(* ShouldUseWorkerService: a single host is processed locally; otherwise   *)
(* the workers are used unless saved results are wanted and all are there. *)
Decide(r) ==
  /\ pc[r] = "decide"
  /\ \/ /\ IsSingle(hosts[r])
        /\ Goto(r, "local")
        /\ UNCHANGED <<todo, workVars>>
     \/ /\ ~IsSingle(hosts[r])
        /\ fresh[r]
        /\ Scatter(r)
        /\ UNCHANGED todo
     \/ /\ ~IsSingle(hosts[r])
        /\ ~fresh[r]
        /\ Goto(r, "probe")
        /\ todo' = [todo EXCEPT ![r] = hosts[r]]
        /\ UNCHANGED workVars
  /\ UNCHANGED <<hosts, fresh, legacy, acc, file, clean, faults>>

(* AreAllOpStatsCached: the per-host files are probed one by one.          *)
ProbeCache(r) ==
  /\ pc[r] = "probe"
  /\ \/ /\ todo[r] = {}
        /\ Goto(r, "local")
        /\ UNCHANGED <<todo, workVars>>
     \/ \E h \in todo[r] :
          \/ /\ file[h].exists
             /\ todo' = [todo EXCEPT ![r] = @ \ {h}]
             /\ UNCHANGED <<pc, workVars>>
          \/ /\ ~file[h].exists
             /\ todo' = [todo EXCEPT ![r] = {}]
             /\ Scatter(r)
  /\ UNCHANGED <<hosts, fresh, legacy, acc, file, clean, faults>>
-----------------------------------------------------------------------------
(* A worker's GetProfileData running OpStatsProcessor::Map for one attempt *)
(* of the call of r for h.  Only the attempt the channel waits for answers *)
(* the call; an earlier one runs on and writes its file all the same.      *)
Respond(r, h, a, status) ==
  call' = IF call[r][h] = "pending" /\ attempt[r][h] = a
          THEN [call EXCEPT ![r][h] = status]
          ELSE call

SetWork(r, h, a, w) == work' = [work EXCEPT ![r][h][a] = w]

(* A file that exists is the answer, whoever wrote it and however far.     *)
MapCheckCache(r, h, a) ==
  /\ work[r][h][a] = "check"
  /\ \/ /\ file[h].exists
        /\ SetWork(r, h, a, "idle")
        /\ Respond(r, h, a, "ok")
     \/ /\ ~file[h].exists
        /\ SetWork(r, h, a, "convert")
        /\ UNCHANGED call
  /\ UNCHANGED <<reqVars, attempt, file, clean, faults>>

(* Slip: the path is returned before the file is written. *)
MapAnswersEarly(r, h, a) ==
  /\ work[r][h][a] = "convert"
  /\ SetWork(r, h, a, "write")
  /\ file' = OpenedFile(h, <<r, a>>)
  /\ Respond(r, h, a, "ok")
  /\ UNCHANGED <<reqVars, attempt, clean, faults>>

MapConvert(r, h, a) ==
  /\ work[r][h][a] = "convert"
  /\ SetWork(r, h, a, "write")
  /\ file' = OpenedFile(h, <<r, a>>)
  /\ UNCHANGED <<reqVars, call, attempt, clean, faults>>

MapCloseFile(r, h, a) ==
  /\ work[r][h][a] = "write"
  /\ SetWork(r, h, a, "idle")
  /\ CloseFile(h, <<r, a>>, {h})
  /\ Respond(r, h, a, "ok")
  /\ UNCHANGED <<reqVars, attempt, clean, faults>>

(* Converting or writing fails.  The client retries some statuses: the     *)
(* call then stays pending and CallRetried or CallFails decides it.        *)
MapFails(r, h, a) ==
  /\ work[r][h][a] \in {"convert", "write"}
  /\ Fault
  /\ SetWork(r, h, a, "idle")
  /\ IF work[r][h][a] = "write" THEN AbandonFile(h, <<r, a>>) ELSE UNCHANGED file
  /\ \E status \in {"invalid", "err", "pending"} : Respond(r, h, a, status)
  /\ UNCHANGED <<reqVars, attempt, clean>>

(* A worker process dies; what it had open stays as short as it was.       *)
WorkerCrash(r, h, a) ==
  /\ work[r][h][a] # "idle"
  /\ Fault
  /\ SetWork(r, h, a, "idle")
  /\ IF work[r][h][a] = "write" THEN AbandonFile(h, <<r, a>>) ELSE UNCHANGED file
  /\ UNCHANGED <<reqVars, call, attempt, clean>>

(* Slip: maxAttempts is not enforced. *)
RetriedWithoutLimit(r, h) ==
  /\ call[r][h] = "pending"
  /\ Fault
  /\ attempt' = [attempt EXCEPT ![r][h] = @ + 1]
  /\ SetWork(r, h, attempt[r][h] + 1, "check")
  /\ clean' = [clean EXCEPT ![r] = FALSE]
  /\ UNCHANGED <<reqVars, call, file>>

(* The channel repeats a call it got a retryable status for: the attempt   *)
(* failed, its worker died, or only its connection broke.                  *)
CallRetried(r, h) ==
  /\ call[r][h] = "pending"
  /\ attempt[r][h] < MaxAttempts
  /\ Fault
  /\ attempt' = [attempt EXCEPT ![r][h] = @ + 1]
  /\ SetWork(r, h, attempt[r][h] + 1, "check")
  /\ clean' = [clean EXCEPT ![r] = FALSE]
  /\ UNCHANGED <<reqVars, call, file>>

(* Slip: the calls have no deadline. *)
FailsAfterLastAttempt(r, h) ==
  /\ call[r][h] = "pending"
  /\ attempt[r][h] = MaxAttempts
  /\ call' = [call EXCEPT ![r][h] = "err"]
  /\ UNCHANGED <<reqVars, attempt, work, file, clean, faults>>

(* No stub, no attempts left, or the 30 minutes of the call are over.  A   *)
(* worker that already checks, converts or writes is not told.             *)
CallFails(r, h) ==
  /\ call[r][h] = "pending"
  /\ call' = [call EXCEPT ![r][h] = "err"]
  /\ \/ UNCHANGED work
     \/ /\ work[r][h][attempt[r][h]] = "check"
        /\ SetWork(r, h, attempt[r][h], "idle")
  /\ UNCHANGED <<reqVars, attempt, file, clean, faults>>
-----------------------------------------------------------------------------
(* Slip: failed hosts are skipped, the others are reduced. *)
JoinSkipsFailed(r) ==
  /\ pc[r] = "map"
  /\ \A h \in hosts[r] : call[r][h] # "pending"
  /\ Goto(r, "reduce")
  /\ todo' = [todo EXCEPT ![r] = {h \in hosts[r] : call[r][h] = "ok"}]
  /\ acc' = [acc EXCEPT ![r] = {}]
  /\ UNCHANGED <<hosts, fresh, legacy, workVars, file, clean, faults>>

(* Slip: Reduce takes every per-host file of the directory. *)
JoinTakesWholeDirectory(r) ==
  /\ pc[r] = "map"
  /\ \A h \in hosts[r] : call[r][h] = "ok"
  /\ Goto(r, "reduce")
  /\ todo' = [todo EXCEPT ![r] = {h \in Hosts : file[h].exists}]
  /\ acc' = [acc EXCEPT ![r] = {}]
  /\ UNCHANGED <<hosts, fresh, legacy, workVars, file, clean, faults>>

(* The pool's destructor waits for every call; the first bad status is the *)
(* request's, otherwise the map outputs go to Reduce.                      *)
JoinCalls(r) ==
  /\ pc[r] = "map"
  /\ \A h \in hosts[r] : call[r][h] # "pending"
  /\ \/ /\ \A h \in hosts[r] : call[r][h] = "ok"
        /\ Goto(r, "reduce")
        /\ todo' = [todo EXCEPT ![r] = hosts[r]]
        /\ acc' = [acc EXCEPT ![r] = {}]
        /\ UNCHANGED legacy
     \/ \E h \in hosts[r] :
          /\ call[r][h] # "ok"
          /\ FailWith(r, call[r][h])
          /\ UNCHANGED <<todo, acc>>
  /\ UNCHANGED <<hosts, fresh, workVars, file, clean, faults>>

ReduceReadFile(r) ==
  /\ pc[r] = "reduce"
  /\ \E h \in todo[r] :
       \/ \E c \in SUBSET Hosts :
            /\ CanRead(h, c)
            /\ acc' = [acc EXCEPT ![r] = @ \cup c]
            /\ todo' = [todo EXCEPT ![r] = @ \ {h}]
            /\ UNCHANGED pc
       \/ /\ CanFailToRead(h)
          /\ Goto(r, "error")
          /\ UNCHANGED <<acc, todo>>
  /\ UNCHANGED <<hosts, fresh, legacy, workVars, file, clean, faults>>

(* CombineAllOpStats, then the combined cache is written.                  *)
ReduceCombine(r) ==
  /\ pc[r] = "reduce"
  /\ todo[r] = {}
  /\ Goto(r, "write")
  /\ file' = OpenedFile(AllHosts, <<r, 0>>)
  /\ UNCHANGED <<hosts, fresh, legacy, todo, acc, workVars, clean, faults>>

ReduceClose(r) ==
  /\ pc[r] = "write"
  /\ CloseFile(AllHosts, <<r, 0>>, acc[r])
  /\ \/ Goto(r, "reduced") /\ UNCHANGED <<legacy, faults>>
     \/ Fault /\ \E code \in {"invalid", "err"} : FailWith(r, code)
  /\ UNCHANGED <<hosts, fresh, todo, acc, workVars, clean>>

ReduceWriteFails(r) ==
  /\ pc[r] = "write"
  /\ Fault
  /\ AbandonFile(AllHosts, <<r, 0>>)
  /\ Goto(r, "error")
  /\ UNCHANGED <<hosts, fresh, legacy, todo, acc, workVars, clean>>
-----------------------------------------------------------------------------
(* ProcessSession: ConvertMultiXSpaceToCombinedOpStatsWithCache.           *)
LocalCheckCache(r) ==
  /\ pc[r] = "local"
  /\ Goto(r, IF file[AllHosts].exists THEN "read" ELSE "convert")
  /\ UNCHANGED <<hosts, fresh, legacy, todo, acc, workVars, file, clean, faults>>

LocalReadCache(r) ==
  /\ pc[r] = "read"
  /\ \/ \E c \in SUBSET Hosts :
          /\ CanRead(AllHosts, c)
          /\ acc' = [acc EXCEPT ![r] = c]
          /\ Goto(r, "cached")
     \/ /\ CanFailToRead(AllHosts)
        /\ Goto(r, "error")
        /\ UNCHANGED acc
  /\ UNCHANGED <<hosts, fresh, legacy, todo, workVars, file, clean, faults>>

(* Every selected xplane is converted and combined in process.             *)
LocalConvert(r) ==
  /\ pc[r] = "convert"
  /\ acc' = [acc EXCEPT ![r] = hosts[r]]
  /\ Goto(r, "save")
  /\ file' = OpenedFile(AllHosts, <<r, 0>>)
  /\ UNCHANGED <<hosts, fresh, legacy, todo, workVars, clean, faults>>

LocalConvertFails(r) ==
  /\ pc[r] = "convert"
  /\ Fault
  /\ \E code \in {"invalid", "err"} : FailWith(r, code)
  /\ UNCHANGED <<hosts, fresh, todo, acc, workVars, file, clean>>

(* A failure to write the combined cache is only logged.                   *)
LocalClose(r) ==
  /\ pc[r] = "save"
  /\ Goto(r, "converted")
  /\ \/ CloseFile(AllHosts, <<r, 0>>, acc[r]) /\ UNCHANGED faults
     \/ Fault /\ AbandonFile(AllHosts, <<r, 0>>)
  /\ UNCHANGED <<hosts, fresh, legacy, todo, acc, workVars, clean>>
-----------------------------------------------------------------------------
RequestStep(r) ==
  \/ ListCacheFiles(r)
  \/ DeleteCacheFile(r)
  \/ FinishClear(r)
  \/ Decide(r)
  \/ ProbeCache(r)
  \/ JoinCalls(r)
  \/ ReduceReadFile(r)
  \/ ReduceCombine(r)
  \/ ReduceClose(r)
  \/ LocalCheckCache(r)
  \/ LocalReadCache(r)
  \/ LocalConvert(r)
  \/ LocalClose(r)

RequestFault(r) == ReduceWriteFails(r) \/ LocalConvertFails(r)

MapStep(r, h, a) ==
  \/ MapCheckCache(r, h, a)
  \/ MapConvert(r, h, a)
  \/ MapCloseFile(r, h, a)

MapFault(r, h, a) == MapFails(r, h, a) \/ WorkerCrash(r, h, a)

CallFault(r, h) == CallRetried(r, h) \/ CallFails(r, h)

Next ==
  \E r \in Requests :
    \/ Start(r)
    \/ RequestStep(r)
    \/ RequestFault(r)
    \/ \E h \in Hosts :
         \/ CallFault(r, h)
         \/ \E a \in Attempts : MapStep(r, h, a) \/ MapFault(r, h, a)

Spec == Init /\ [][Next]_vars

(* The threads of a running process are scheduled, and a call that stays   *)
(* pending runs into its deadline.                                         *)
Fairness ==
  \A r \in Requests :
    /\ WF_vars(RequestStep(r))
    /\ \A h \in Hosts : WF_vars(CallFails(r, h))

FairSpec == Spec /\ Fairness
-----------------------------------------------------------------------------
(* Every variable has its type; files hold stats of session hosts only.    *)
TypeOK ==
  /\ pc \in [Requests -> PC]
  /\ hosts \in [Requests -> SUBSET Hosts]
  /\ fresh \in [Requests -> BOOLEAN]
  /\ legacy \in [Requests -> BOOLEAN]
  /\ todo \in [Requests -> SUBSET Files]
  /\ acc \in [Requests -> SUBSET Hosts]
  /\ call \in [Requests -> [Hosts -> CallStates]]
  /\ attempt \in [Requests -> [Hosts -> Attempts]]
  /\ work \in [Requests -> [Hosts -> [Attempts -> WorkStates]]]
  /\ file \in [Files -> FileStates]
  /\ clean \in [Requests -> BOOLEAN]
  /\ faults \in 0..MaxFaults

(* A computed answer (by Reduce or by the in-process conversion) never     *)
(* contains the stats of a host the request did not select, whatever other *)
(* requests, retries and crashes did to the shared directory meanwhile.    *)
ComputedFromOwnHosts ==
  \A r \in Requests : pc[r] \in {"reduced", "converted"} => acc[r] \subseteq hosts[r]

(* A request that no other request, repeated call or crash overlapped, and *)
(* that cleared the cache first or went through Reduce over undamaged      *)
(* files, answers with every selected host and no other: damage left by    *)
(* earlier crashes and races does not survive use_saved_result=false.      *)
UndisturbedAnswerIsComplete ==
  \A r \in Requests :
    (clean[r] /\ (pc[r] = "reduced" \/ (fresh[r] /\ pc[r] \in Answered)))
      => acc[r] = hosts[r]

(* An undisturbed request fails only because something it ran failed:      *)
(* never on a file of its own that vanished or was caught half written.    *)
UndisturbedErrorHasCause ==
  \A r \in Requests :
    (clean[r] /\ pc[r] = "error")
      => faults > 0 \/ \E h \in Hosts : call[r][h] \in {"err", "invalid"}

(* When Reduce runs, every Map call of the request has returned a path: an *)
(* error of one host is never reduced away.                                *)
ReduceHasEveryHost ==
  \A r \in Requests : pc[r] \in {"reduce", "write", "reduced"} =>
    \A h \in hosts[r] : call[r][h] = "ok"

(* A cache file disappears only while a request with use_saved_result=false*)
(* clears the cache; saved results are never dropped by a reader, a worker *)
(* or a failure.                                                           *)
OnlyRefreshDeletes ==
  [][\A f \in Files : (file[f].exists /\ ~file'[f].exists) =>
       \E r \in Requests : fresh[r] /\ pc[r] = "clear" /\ f \in todo[r]]_vars

(* Every request is answered, with data or an error: the pool's join does  *)
(* not wait forever for a dead worker, whatever failed.                    *)
EveryRequestAnswered ==
  \A r \in Requests : Running(r) ~> pc[r] \in Finished

(* "Retrieves and processes the tool data for a run and a host"            *)
(* (profile_plugin.py): the answer to a request for some hosts is about    *)
(* those hosts.                                                            *)
AnswerIsForSelectedHosts ==
  \A r \in Requests :
    (clean[r] /\ faults = 0 /\ pc[r] \in Answered) => acc[r] = hosts[r]
=============================================================================
