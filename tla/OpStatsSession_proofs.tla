----------------------- MODULE OpStatsSession_proofs -----------------------
(***************************************************************************)
(* Proofs about OpStatsSession, for every set of hosts, requests and       *)
(* selections, every number of attempts and any number of faults.          *)
(***************************************************************************)
EXTENDS OpStatsSession, TLAPS

(* What opening and closing a file leave in the directory: a well-typed    *)
(* file, every other file as it was.                                       *)
LEMMA OpenedFileLemma ==
  ASSUME TypeOK, NEW f \in Files, NEW w \in Writers
  PROVE  /\ OpenedFile(f, w) \in [Files -> FileStates]
         /\ OpenedFile(f, w)[f].exists
         /\ OpenedFile(f, w)[f].data = {}
         /\ \A g \in Files \ {f} : OpenedFile(f, w)[g] = file[g]
  BY DEF OpenedFile, TypeOK, FileStates

LEMMA ClosedFileLemma ==
  ASSUME TypeOK, NEW f \in Files, NEW w \in Writers, NEW c \in SUBSET Hosts
  PROVE  /\ ClosedFile(f, w, c) \in [Files -> FileStates]
         /\ ClosedFile(f, w, c)[f].exists = file[f].exists
         /\ ClosedFile(f, w, c)[f].data \in {c, file[f].data}
         /\ \A g \in Files \ {f} : ClosedFile(f, w, c)[g] = file[g]
  <1>1. CASE w \in file[f].writers
    BY <1>1 DEF ClosedFile, TypeOK, FileStates
  <1>2. CASE w \notin file[f].writers
    BY <1>2 DEF ClosedFile, TypeOK, FileStates
  <1> QED BY <1>1, <1>2

LEMMA CloseFileLemma ==
  ASSUME TypeOK, NEW f \in Files, NEW w \in Writers, NEW c \in SUBSET Hosts,
         CloseFile(f, w, c)
  PROVE  /\ file' \in [Files -> FileStates]
         /\ file'[f].exists = file[f].exists
         /\ file'[f].data \in {c, file[f].data, {}}
         /\ \A g \in Files \ {f} : file'[g] = file[g]
  <1>1. PICK d \in {c, file[f].data, {}} : file' = ClosedFile(f, w, d)
    BY DEF CloseFile
  <1>2. d \in SUBSET Hosts
    BY DEF TypeOK, FileStates
  <1> QED BY <1>1, <1>2, ClosedFileLemma

LEMMA AbandonFileLemma ==
  ASSUME TypeOK, NEW f \in Files, NEW w \in Writers, AbandonFile(f, w)
  PROVE  /\ file' \in [Files -> FileStates]
         /\ file'[f].exists = file[f].exists
         /\ file'[f].data \in {file[f].data, {}}
         /\ \A g \in Files \ {f} : file'[g] = file[g]
  <1>1. PICK d \in {file[f].data, {}} : file' = ClosedFile(f, w, d)
    BY DEF AbandonFile
  <1>2. d \in SUBSET Hosts
    BY DEF TypeOK, FileStates
  <1> QED BY <1>1, <1>2, ClosedFileLemma

LEMMA WriterTypes ==
  /\ \A r \in Requests : <<r, 0>> \in Writers
  /\ \A r \in Requests, a \in Attempts : <<r, a>> \in Writers
  BY SessionAssumption DEF Writers, Attempts
-----------------------------------------------------------------------------
(* Actions that fail a request either end it or start the legacy fallback. *)
LEMMA FailWithLemma ==
  ASSUME TypeOK, NEW r \in Requests, NEW code, FailWith(r, code)
  PROVE  /\ \/ Goto(r, "local")
            \/ Goto(r, "error")
         /\ legacy' \in [Requests -> BOOLEAN]
  BY DEF FailWith, TypeOK

LEMMA GotoType ==
  ASSUME TypeOK, NEW r \in Requests, NEW p \in PC, Goto(r, p)
  PROVE  pc' \in [Requests -> PC]
  BY DEF Goto, TypeOK

LEMMA SetWorkType ==
  ASSUME TypeOK, NEW r \in Requests, NEW h \in Hosts, NEW a \in Attempts,
         NEW w \in WorkStates, SetWork(r, h, a, w)
  PROVE  work' \in [Requests -> [Hosts -> [Attempts -> WorkStates]]]
  BY DEF SetWork, TypeOK

LEMMA RespondType ==
  ASSUME TypeOK, NEW r \in Requests, NEW h \in Hosts, NEW a \in Attempts,
         NEW s \in CallStates, Respond(r, h, a, s)
  PROVE  call' \in [Requests -> [Hosts -> CallStates]]
  BY DEF Respond, TypeOK

(* A response never overwrites a call that has returned. *)
LEMMA RespondKeepsOk ==
  ASSUME TypeOK, NEW r \in Requests, NEW h \in Hosts, NEW a \in Attempts, NEW s,
         Respond(r, h, a, s)
  PROVE  \A q \in Requests, g \in Hosts : call[q][g] = "ok" => call'[q][g] = "ok"
  BY DEF Respond, TypeOK

LEMMA FaultType ==
  ASSUME TypeOK, Fault
  PROVE  faults' \in 0..MaxFaults
  BY SessionAssumption DEF Fault, TypeOK

LEMMA ScatterType ==
  ASSUME TypeOK, NEW r \in Requests, Scatter(r)
  PROVE  /\ pc' \in [Requests -> PC]
         /\ call' \in [Requests -> [Hosts -> CallStates]]
         /\ attempt' \in [Requests -> [Hosts -> Attempts]]
         /\ work' \in [Requests -> [Hosts -> [Attempts -> WorkStates]]]
  BY DEF Scatter, Goto, TypeOK, PC, CallStates, WorkStates
-----------------------------------------------------------------------------
(* Every step of a request keeps the types. *)
LEMMA RequestStepType ==
  ASSUME TypeOK, NEW r \in Requests, Start(r) \/ RequestStep(r) \/ RequestFault(r)
  PROVE  TypeOK'
  <1> USE GotoType DEF PC, Finished, Answered
  <1>1. CASE Start(r)
    <2>1. PICK S \in Selections, f \in BOOLEAN :
            /\ hosts' = [hosts EXCEPT ![r] = S]
            /\ fresh' = [fresh EXCEPT ![r] = f]
            /\ Goto(r, IF f THEN "list" ELSE "decide")
            /\ clean' = [q \in Requests |->
                 IF q = r
                 THEN /\ \A o \in Others(r) : ~Running(o) /\ ~Working(o)
                      /\ f \/ \A g \in Files : ~Damaged(g)
                 ELSE clean[q] /\ ~Running(q)]
      BY <1>1 DEF Start
    <2>2. pc' \in [Requests -> PC]
      BY <2>1
    <2>3. hosts' \in [Requests -> SUBSET Hosts] /\ fresh' \in [Requests -> BOOLEAN]
      BY <2>1, SessionAssumption DEF TypeOK
    <2>4. clean' \in [Requests -> BOOLEAN]
      BY <2>1, Zenon
    <2> QED BY <1>1, <2>2, <2>3, <2>4 DEF Start, TypeOK, workVars
  <1>2. CASE ListCacheFiles(r)
    BY <1>2 DEF ListCacheFiles, TypeOK, workVars
  <1>3. CASE DeleteCacheFile(r)
    <2>1. Absent \in FileStates
      BY DEF Absent, FileStates
    <2>2. /\ file' \in [Files -> FileStates]
          /\ todo' \in [Requests -> SUBSET Files]
          /\ pc' \in [Requests -> PC]
      <3>1. PICK f \in todo[r] :
              \/ /\ file' = [file EXCEPT ![f] = Absent]
                 /\ todo' = [todo EXCEPT ![r] = @ \ {f}]
                 /\ UNCHANGED pc
              \/ Goto(r, "error") /\ UNCHANGED <<file, todo>>
        BY <1>3 DEF DeleteCacheFile
      <3>2. CASE Goto(r, "error") /\ UNCHANGED <<file, todo>>
        BY <3>2 DEF TypeOK
      <3>3. CASE /\ file' = [file EXCEPT ![f] = Absent]
                 /\ todo' = [todo EXCEPT ![r] = @ \ {f}]
                 /\ UNCHANGED pc
        BY <3>3, <2>1 DEF TypeOK
      <3> QED BY <3>1, <3>2, <3>3
    <2> QED BY <1>3, <2>2 DEF DeleteCacheFile, TypeOK, workVars
  <1>4. CASE FinishClear(r)
    BY <1>4 DEF FinishClear, TypeOK, workVars
  <1>5. CASE Decide(r)
    <2>1. /\ pc' \in [Requests -> PC]
          /\ call' \in [Requests -> [Hosts -> CallStates]]
          /\ attempt' \in [Requests -> [Hosts -> Attempts]]
          /\ work' \in [Requests -> [Hosts -> [Attempts -> WorkStates]]]
      BY <1>5, ScatterType DEF Decide, TypeOK, workVars
    <2>2. todo' \in [Requests -> SUBSET Files]
      BY <1>5 DEF Decide, TypeOK, Files
    <2> QED BY <1>5, <2>1, <2>2 DEF Decide, TypeOK
  <1>6. CASE ProbeCache(r)
    <2>1. /\ pc' \in [Requests -> PC]
          /\ call' \in [Requests -> [Hosts -> CallStates]]
          /\ attempt' \in [Requests -> [Hosts -> Attempts]]
          /\ work' \in [Requests -> [Hosts -> [Attempts -> WorkStates]]]
      <3>1. CASE Scatter(r)
        BY <3>1, ScatterType
      <3>2. CASE Goto(r, "local") /\ UNCHANGED workVars
        BY <3>2 DEF TypeOK, workVars
      <3>3. CASE UNCHANGED <<pc, workVars>>
        BY <3>3 DEF TypeOK, workVars
      <3> QED BY <1>6, <3>1, <3>2, <3>3 DEF ProbeCache
    <2>2. todo' \in [Requests -> SUBSET Files]
      <3>1. PICK T \in SUBSET todo[r] :
              todo' = todo \/ todo' = [todo EXCEPT ![r] = T]
        BY <1>6 DEF ProbeCache
      <3>2. todo \in [Requests -> SUBSET Files]
        BY DEF TypeOK
      <3> QED BY <3>1, <3>2
    <2> QED BY <1>6, <2>1, <2>2 DEF ProbeCache, TypeOK
  <1>7. CASE JoinCalls(r)
    <2>1. pc' \in [Requests -> PC] /\ legacy' \in [Requests -> BOOLEAN]
      <3>1. CASE Goto(r, "reduce") /\ UNCHANGED legacy
        BY <3>1 DEF TypeOK
      <3>2. ASSUME NEW h \in Hosts, FailWith(r, call[r][h])
            PROVE  pc' \in [Requests -> PC] /\ legacy' \in [Requests -> BOOLEAN]
        BY <3>2, FailWithLemma
      <3>3. hosts[r] \subseteq Hosts
        BY DEF TypeOK
      <3> QED BY <1>7, <3>1, <3>2, <3>3 DEF JoinCalls
    <2>2. /\ todo' \in [Requests -> SUBSET Files]
          /\ acc' \in [Requests -> SUBSET Hosts]
      BY <1>7 DEF JoinCalls, TypeOK, Files
    <2> QED BY <1>7, <2>1, <2>2 DEF JoinCalls, TypeOK, workVars
  <1>8. CASE ReduceReadFile(r)
    <2>1. /\ pc' \in [Requests -> PC]
          /\ acc' \in [Requests -> SUBSET Hosts]
          /\ todo' \in [Requests -> SUBSET Files]
      <3>1. PICK h \in todo[r] :
              \/ \E c \in SUBSET Hosts :
                   /\ acc' = [acc EXCEPT ![r] = @ \cup c]
                   /\ todo' = [todo EXCEPT ![r] = @ \ {h}]
                   /\ UNCHANGED pc
              \/ Goto(r, "error") /\ UNCHANGED <<acc, todo>>
        BY <1>8 DEF ReduceReadFile
      <3>2. CASE Goto(r, "error") /\ UNCHANGED <<acc, todo>>
        BY <3>2 DEF TypeOK
      <3>3. ASSUME NEW c \in SUBSET Hosts,
                   acc' = [acc EXCEPT ![r] = @ \cup c],
                   todo' = [todo EXCEPT ![r] = @ \ {h}],
                   UNCHANGED pc
            PROVE  /\ pc' \in [Requests -> PC]
                   /\ acc' \in [Requests -> SUBSET Hosts]
                   /\ todo' \in [Requests -> SUBSET Files]
        BY <3>3 DEF TypeOK
      <3> QED BY <3>1, <3>2, <3>3
    <2> QED BY <1>8, <2>1 DEF ReduceReadFile, TypeOK, workVars
  <1>9. CASE ReduceCombine(r)
    BY <1>9, OpenedFileLemma, WriterTypes DEF ReduceCombine, TypeOK, workVars, Files
  <1>10. CASE ReduceClose(r)
    <2>1. file' \in [Files -> FileStates]
      <3>1. AllHosts \in Files /\ <<r, 0>> \in Writers /\ acc[r] \in SUBSET Hosts
        BY WriterTypes DEF TypeOK, Files
      <3> QED BY <1>10, <3>1, CloseFileLemma DEF ReduceClose
    <2>2. /\ pc' \in [Requests -> PC]
          /\ legacy' \in [Requests -> BOOLEAN]
          /\ faults' \in 0..MaxFaults
      <3>1. CASE Goto(r, "reduced") /\ UNCHANGED <<legacy, faults>>
        BY <3>1 DEF TypeOK
      <3>2. ASSUME NEW code, Fault, FailWith(r, code)
            PROVE  /\ pc' \in [Requests -> PC]
                   /\ legacy' \in [Requests -> BOOLEAN]
                   /\ faults' \in 0..MaxFaults
        BY <3>2, FailWithLemma, FaultType
      <3> QED BY <1>10, <3>1, <3>2 DEF ReduceClose
    <2> QED BY <1>10, <2>1, <2>2 DEF ReduceClose, TypeOK, workVars
  <1>11. CASE LocalCheckCache(r)
    BY <1>11 DEF LocalCheckCache, TypeOK, workVars
  <1>12. CASE LocalReadCache(r)
    BY <1>12 DEF LocalReadCache, TypeOK, workVars
  <1>13. CASE LocalConvert(r)
    BY <1>13, OpenedFileLemma, WriterTypes DEF LocalConvert, TypeOK, workVars, Files
  <1>14. CASE LocalClose(r)
    <2>1. AllHosts \in Files /\ <<r, 0>> \in Writers /\ acc[r] \in SUBSET Hosts
      BY WriterTypes DEF TypeOK, Files
    <2>2. file' \in [Files -> FileStates] /\ faults' \in 0..MaxFaults
      <3>1. CASE CloseFile(AllHosts, <<r, 0>>, acc[r]) /\ UNCHANGED faults
        BY <3>1, <2>1, CloseFileLemma DEF TypeOK
      <3>2. CASE Fault /\ AbandonFile(AllHosts, <<r, 0>>)
        BY <3>2, <2>1, AbandonFileLemma, FaultType
      <3> QED BY <1>14, <3>1, <3>2 DEF LocalClose
    <2>3. pc' \in [Requests -> PC]
      BY <1>14 DEF LocalClose
    <2> QED BY <1>14, <2>2, <2>3 DEF LocalClose, TypeOK, workVars
  <1>15. CASE ReduceWriteFails(r)
    <2>1. AllHosts \in Files /\ <<r, 0>> \in Writers
      BY WriterTypes DEF Files
    <2>2. /\ file' \in [Files -> FileStates]
          /\ faults' \in 0..MaxFaults
          /\ pc' \in [Requests -> PC]
      BY <1>15, <2>1, AbandonFileLemma, FaultType DEF ReduceWriteFails
    <2> QED BY <1>15, <2>2 DEF ReduceWriteFails, TypeOK, workVars
  <1>16. CASE LocalConvertFails(r)
    BY <1>16, FailWithLemma, FaultType DEF LocalConvertFails, TypeOK, workVars
  <1> QED
    BY <1>1, <1>2, <1>3, <1>4, <1>5, <1>6, <1>7, <1>8, <1>9, <1>10, <1>11,
       <1>12, <1>13, <1>14, <1>15, <1>16 DEF RequestStep, RequestFault

(* So does every step of a worker or a call. *)
LEMMA CallStepType ==
  ASSUME TypeOK, NEW r \in Requests, NEW h \in Hosts,
         \/ CallFault(r, h)
         \/ \E a \in Attempts : MapStep(r, h, a) \/ MapFault(r, h, a)
  PROVE  TypeOK'
  <1> USE SetWorkType, RespondType DEF WorkStates, CallStates
  <1>1. ASSUME NEW a \in Attempts, MapCheckCache(r, h, a) PROVE TypeOK'
    BY <1>1 DEF MapCheckCache, TypeOK, reqVars
  <1>2. ASSUME NEW a \in Attempts, MapConvert(r, h, a) PROVE TypeOK'
    BY <1>2, OpenedFileLemma, WriterTypes DEF MapConvert, TypeOK, reqVars, Files
  <1>3. ASSUME NEW a \in Attempts, MapCloseFile(r, h, a) PROVE TypeOK'
    <2>1. file' \in [Files -> FileStates]
      <3>1. h \in Files /\ <<r, a>> \in Writers /\ {h} \in SUBSET Hosts
        BY WriterTypes DEF Files
      <3> QED BY <1>3, <3>1, CloseFileLemma DEF MapCloseFile
    <2>2. /\ work' \in [Requests -> [Hosts -> [Attempts -> WorkStates]]]
          /\ call' \in [Requests -> [Hosts -> CallStates]]
      BY <1>3 DEF MapCloseFile
    <2> QED BY <1>3, <2>1, <2>2 DEF MapCloseFile, TypeOK, reqVars
  <1>4. ASSUME NEW a \in Attempts, MapFails(r, h, a) PROVE TypeOK'
    <2>1. file' \in [Files -> FileStates]
      BY <1>4, AbandonFileLemma, WriterTypes DEF MapFails, TypeOK, Files
    <2>2. /\ work' \in [Requests -> [Hosts -> [Attempts -> WorkStates]]]
          /\ call' \in [Requests -> [Hosts -> CallStates]]
          /\ faults' \in 0..MaxFaults
      BY <1>4, FaultType DEF MapFails
    <2> QED BY <1>4, <2>1, <2>2 DEF MapFails, TypeOK, reqVars
  <1>5. ASSUME NEW a \in Attempts, WorkerCrash(r, h, a) PROVE TypeOK'
    BY <1>5, AbandonFileLemma, WriterTypes, FaultType
       DEF WorkerCrash, TypeOK, reqVars, Files
  <1>6. CASE CallRetried(r, h)
    BY <1>6, FaultType, SessionAssumption DEF CallRetried, TypeOK, reqVars, Attempts
  <1>7. CASE CallFails(r, h)
    BY <1>7 DEF CallFails, TypeOK, reqVars
  <1> QED
    BY <1>1, <1>2, <1>3, <1>4, <1>5, <1>6, <1>7 DEF CallFault, MapStep, MapFault

(* Every variable keeps its type: files hold stats of session hosts only,  *)
(* whichever requests, workers and faults interleave.                      *)
THEOREM Typing == Spec => []TypeOK
  <1>1. Init => TypeOK
    BY SessionAssumption
       DEF Init, TypeOK, PC, CallStates, WorkStates, FileStates, Absent, Attempts
  <1>2. TypeOK /\ [Next]_vars => TypeOK'
    <2> SUFFICES ASSUME TypeOK, [Next]_vars PROVE TypeOK'
      OBVIOUS
    <2>1. CASE Next
      BY <2>1, RequestStepType, CallStepType DEF Next
    <2>2. CASE UNCHANGED vars
      BY <2>2 DEF TypeOK, vars, reqVars, workVars
    <2> QED BY <2>1, <2>2
  <1> QED BY <1>1, <1>2, PTL DEF Spec
-----------------------------------------------------------------------------
(* The inductive invariant behind the safety theorems below: what a host's *)
(* file may hold, and what a request has gathered by the time it is in     *)
(* Reduce or has converted in process.  Nothing here mentions other        *)
(* requests: it is what remains true under every interleaving.             *)
HostFilesHoldTheirHost == \A h \in Hosts : file[h].data \subseteq {h}

GathersOwnHosts ==
  \A r \in Requests :
    /\ pc[r] = "reduce" => todo[r] \subseteq hosts[r]
    /\ pc[r] \in {"reduce", "write", "reduced"} => acc[r] \subseteq hosts[r]
    /\ pc[r] \in {"save", "converted"} => acc[r] = hosts[r]

ClearsOnlyWhenFresh == \A r \in Requests : pc[r] \in {"list", "clear"} => fresh[r]

SafetyInv ==
  /\ TypeOK
  /\ HostFilesHoldTheirHost
  /\ GathersOwnHosts
  /\ ReduceHasEveryHost
  /\ ClearsOnlyWhenFresh

LEMMA HostFilesStep == SafetyInv /\ Next => HostFilesHoldTheirHost'
  <1> SUFFICES ASSUME SafetyInv, NEW r \in Requests,
                      \/ Start(r) \/ RequestStep(r) \/ RequestFault(r)
                      \/ \E h \in Hosts :
                           \/ CallFault(r, h)
                           \/ \E a \in Attempts : MapStep(r, h, a) \/ MapFault(r, h, a)
               PROVE  HostFilesHoldTheirHost'
    BY DEF Next
  <1> USE DEF SafetyInv
  <1>f. AllHosts \in Files /\ AllHosts \notin Hosts /\ Hosts \subseteq Files
    BY SessionAssumption DEF Files
  <1>u. ASSUME UNCHANGED file PROVE HostFilesHoldTheirHost'
    BY <1>u DEF HostFilesHoldTheirHost
  <1>o. ASSUME \A h \in Hosts : file'[h] = file[h] PROVE HostFilesHoldTheirHost'
    BY <1>o DEF HostFilesHoldTheirHost
  <1>1. CASE DeleteCacheFile(r)
    <2>1. CASE UNCHANGED file
      BY <2>1, <1>u
    <2>2. CASE \E f \in todo[r] : file' = [file EXCEPT ![f] = Absent]
      BY <2>2, <1>f DEF HostFilesHoldTheirHost, Absent, TypeOK
    <2> QED BY <1>1, <2>1, <2>2 DEF DeleteCacheFile
  <1>2. CASE ReduceCombine(r) \/ LocalConvert(r)
    BY <1>2, <1>f, <1>o, OpenedFileLemma, WriterTypes DEF ReduceCombine, LocalConvert
  <1>3. CASE ReduceClose(r)
    <2>1. acc[r] \in SUBSET Hosts
      BY DEF TypeOK
    <2> QED BY <1>3, <2>1, <1>f, <1>o, CloseFileLemma, WriterTypes DEF ReduceClose
  <1>4. CASE LocalClose(r)
    <2>1. acc[r] \in SUBSET Hosts
      BY DEF TypeOK
    <2> QED BY <1>4, <2>1, <1>f, <1>o, CloseFileLemma, AbandonFileLemma, WriterTypes
            DEF LocalClose
  <1>5. CASE ReduceWriteFails(r)
    BY <1>5, <1>f, <1>o, AbandonFileLemma, WriterTypes DEF ReduceWriteFails
  <1>6. ASSUME NEW h \in Hosts, NEW a \in Attempts, MapConvert(r, h, a)
        PROVE  HostFilesHoldTheirHost'
    BY <1>6, <1>f, OpenedFileLemma, WriterTypes DEF MapConvert, HostFilesHoldTheirHost
  <1>7. ASSUME NEW h \in Hosts, NEW a \in Attempts, MapCloseFile(r, h, a)
        PROVE  HostFilesHoldTheirHost'
    <2>1. {h} \in SUBSET Hosts /\ h \in Files /\ <<r, a>> \in Writers
      BY <1>f, WriterTypes
    <2>2. /\ file'[h].data \in {{h}, file[h].data, {}}
          /\ \A g \in Files \ {h} : file'[g] = file[g]
      BY <1>7, <2>1, CloseFileLemma DEF MapCloseFile
    <2> QED BY <2>2, <1>f DEF HostFilesHoldTheirHost
  <1>8. ASSUME NEW h \in Hosts, NEW a \in Attempts, MapFault(r, h, a)
        PROVE  HostFilesHoldTheirHost'
    <2>1. CASE UNCHANGED file
      BY <2>1, <1>u
    <2>2. CASE AbandonFile(h, <<r, a>>)
      <3>1. /\ file'[h].data \in {file[h].data, {}}
            /\ \A g \in Files \ {h} : file'[g] = file[g]
        BY <2>2, <1>f, AbandonFileLemma, WriterTypes
      <3> QED BY <3>1, <1>f DEF HostFilesHoldTheirHost
    <2> QED BY <1>8, <2>1, <2>2 DEF MapFault, MapFails, WorkerCrash
  <1>9. ASSUME NEW h \in Hosts, NEW a \in Attempts,
               CallFault(r, h) \/ MapCheckCache(r, h, a)
        PROVE  HostFilesHoldTheirHost'
    BY <1>9, <1>u DEF CallFault, CallRetried, CallFails, MapCheckCache
  <1>10. CASE \/ Start(r) \/ ListCacheFiles(r) \/ FinishClear(r) \/ Decide(r)
              \/ ProbeCache(r) \/ JoinCalls(r) \/ ReduceReadFile(r)
              \/ LocalCheckCache(r) \/ LocalReadCache(r) \/ LocalConvertFails(r)
    BY <1>10, <1>u
       DEF Start, ListCacheFiles, FinishClear, Decide, ProbeCache, JoinCalls,
           ReduceReadFile, LocalCheckCache, LocalReadCache, LocalConvertFails
  <1>11. \E a : a \in Attempts
    BY SessionAssumption DEF Attempts
  <1> QED
    BY <1>1, <1>2, <1>3, <1>4, <1>5, <1>6, <1>7, <1>8, <1>9, <1>10, <1>11
       DEF RequestStep, RequestFault, MapStep

(* What a request gathers, and what it knows of its calls, changes only by *)
(* its own steps; a call that is not pending keeps its status.             *)
LEMMA RequestFactsStep ==
  SafetyInv /\ Next => GathersOwnHosts' /\ ReduceHasEveryHost' /\ ClearsOnlyWhenFresh'
  <1> DEFINE Facts == GathersOwnHosts /\ ReduceHasEveryHost /\ ClearsOnlyWhenFresh
  <1> SUFFICES ASSUME SafetyInv, NEW r \in Requests,
                      \/ Start(r) \/ RequestStep(r) \/ RequestFault(r)
                      \/ \E h \in Hosts :
                           \/ CallFault(r, h)
                           \/ \E a \in Attempts : MapStep(r, h, a) \/ MapFault(r, h, a)
               PROVE  Facts'
    BY DEF Next
  <1> USE DEF SafetyInv, TypeOK, GathersOwnHosts, ReduceHasEveryHost, ClearsOnlyWhenFresh
  <1>1. CASE Start(r)
    <2>1. PICK S \in Selections, f \in BOOLEAN :
            /\ hosts' = [hosts EXCEPT ![r] = S]
            /\ fresh' = [fresh EXCEPT ![r] = f]
            /\ pc' = [pc EXCEPT ![r] = IF f THEN "list" ELSE "decide"]
      BY <1>1 DEF Start, Goto
    <2>2. UNCHANGED <<todo, acc, call>>
      BY <1>1 DEF Start, workVars
    <2> QED BY <2>1, <2>2
  <1>2. CASE ListCacheFiles(r) \/ DeleteCacheFile(r) \/ FinishClear(r)
    <2>1. /\ UNCHANGED <<hosts, fresh, acc, call>>
          /\ \A q \in Requests \ {r} : pc'[q] = pc[q] /\ todo'[q] = todo[q]
          /\ fresh[r] /\ pc'[r] \in {"clear", "error", "decide"}
      <3>1. CASE ListCacheFiles(r)
        BY <3>1 DEF ListCacheFiles, Goto, workVars
      <3>2. CASE DeleteCacheFile(r)
        BY <3>2 DEF DeleteCacheFile, Goto, workVars
      <3>3. CASE FinishClear(r)
        BY <3>3 DEF FinishClear, Goto, workVars
      <3> QED BY <1>2, <3>1, <3>2, <3>3
    <2> QED BY <2>1
  <1>3. CASE Decide(r) \/ ProbeCache(r)
    <2>1. /\ UNCHANGED <<hosts, fresh, acc>>
          /\ \A q \in Requests \ {r} :
               pc'[q] = pc[q] /\ todo'[q] = todo[q] /\ call'[q] = call[q]
          /\ pc'[r] \in {"local", "map", "probe"}
      BY <1>3 DEF Decide, ProbeCache, Scatter, Goto, workVars
    <2>2. GathersOwnHosts'
      <3> SUFFICES ASSUME NEW q \in Requests PROVE GathersOwnHosts!(q)'
        OBVIOUS
      <3>1. CASE q = r
        BY <2>1, <3>1
      <3>2. CASE q # r
        BY <2>1, <3>2
      <3> QED BY <3>1, <3>2
    <2>3. ReduceHasEveryHost'
      <3> SUFFICES ASSUME NEW q \in Requests PROVE ReduceHasEveryHost!(q)'
        OBVIOUS
      <3>1. CASE q = r
        BY <2>1, <3>1
      <3>2. CASE q # r
        BY <2>1, <3>2
      <3> QED BY <3>1, <3>2
    <2>4. ClearsOnlyWhenFresh'
      BY <2>1
    <2> QED BY <2>2, <2>3, <2>4
  <1>4. CASE JoinCalls(r)
    <2>1. /\ UNCHANGED <<hosts, fresh, call>>
          /\ \A q \in Requests \ {r} :
               pc'[q] = pc[q] /\ todo'[q] = todo[q] /\ acc'[q] = acc[q]
          /\ \/ /\ pc'[r] = "reduce" /\ todo'[r] = hosts[r] /\ acc'[r] = {}
                /\ \A h \in hosts[r] : call[r][h] = "ok"
             \/ pc'[r] \in {"local", "error"}
      BY <1>4 DEF JoinCalls, FailWith, Goto, workVars
    <2> QED BY <2>1
  <1>5. CASE ReduceReadFile(r)
    <2>1. PICK h \in todo[r] :
            \/ \E c \in SUBSET Hosts :
                 /\ CanRead(h, c)
                 /\ acc' = [acc EXCEPT ![r] = @ \cup c]
                 /\ todo' = [todo EXCEPT ![r] = @ \ {h}]
                 /\ UNCHANGED pc
            \/ pc' = [pc EXCEPT ![r] = "error"] /\ UNCHANGED <<acc, todo>>
      BY <1>5 DEF ReduceReadFile, Goto
    <2>2. pc[r] = "reduce" /\ UNCHANGED <<hosts, fresh, call>>
      BY <1>5 DEF ReduceReadFile, workVars
    <2>3. CASE pc' = [pc EXCEPT ![r] = "error"] /\ UNCHANGED <<acc, todo>>
      BY <2>2, <2>3
    <2>4. ASSUME NEW c \in SUBSET Hosts, CanRead(h, c),
                 acc' = [acc EXCEPT ![r] = @ \cup c],
                 todo' = [todo EXCEPT ![r] = @ \ {h}],
                 UNCHANGED pc
          PROVE  Facts'
      <3>1. h \in hosts[r]
        BY <2>2
      <3>2. c \subseteq {h}
        BY <2>4, <3>1 DEF CanRead, HostFilesHoldTheirHost
      <3> QED BY <2>2, <2>4, <3>1, <3>2
    <2> QED BY <2>1, <2>3, <2>4
  <1>6. CASE ReduceCombine(r) \/ ReduceClose(r) \/ ReduceWriteFails(r)
    <2>1. /\ UNCHANGED <<hosts, fresh, todo, acc, call>>
          /\ \A q \in Requests \ {r} : pc'[q] = pc[q]
          /\ pc[r] \in {"reduce", "write"}
          /\ pc'[r] \in {"write", "reduced", "local", "error"}
      BY <1>6 DEF ReduceCombine, ReduceClose, ReduceWriteFails, FailWith, Goto, workVars
    <2>2. GathersOwnHosts'
      <3> SUFFICES ASSUME NEW q \in Requests PROVE GathersOwnHosts!(q)'
        OBVIOUS
      <3>1. CASE q = r
        BY <2>1, <3>1
      <3>2. CASE q # r
        BY <2>1, <3>2
      <3> QED BY <3>1, <3>2
    <2>3. ReduceHasEveryHost'
      <3> SUFFICES ASSUME NEW q \in Requests PROVE ReduceHasEveryHost!(q)'
        OBVIOUS
      <3>1. CASE q = r
        BY <2>1, <3>1
      <3>2. CASE q # r
        BY <2>1, <3>2
      <3> QED BY <3>1, <3>2
    <2>4. ClearsOnlyWhenFresh'
      BY <2>1
    <2> QED BY <2>2, <2>3, <2>4
  <1>7. CASE LocalCheckCache(r) \/ LocalReadCache(r) \/ LocalConvertFails(r)
    <2>1. /\ UNCHANGED <<hosts, fresh, todo, call>>
          /\ \A q \in Requests \ {r} : pc'[q] = pc[q] /\ acc'[q] = acc[q]
          /\ pc'[r] \in {"read", "convert", "cached", "local", "error"}
      BY <1>7 DEF LocalCheckCache, LocalReadCache, LocalConvertFails, FailWith, Goto, workVars
    <2> QED BY <2>1
  <1>8. CASE LocalConvert(r) \/ LocalClose(r)
    <2>1. /\ UNCHANGED <<hosts, fresh, todo, call>>
          /\ \A q \in Requests \ {r} : pc'[q] = pc[q] /\ acc'[q] = acc[q]
          /\ pc'[r] \in {"save", "converted"}
          /\ acc'[r] = hosts[r]
      BY <1>8 DEF LocalConvert, LocalClose, Goto, workVars
    <2> QED BY <2>1
  <1>9. CASE \E h \in Hosts :
               \/ CallFault(r, h)
               \/ \E a \in Attempts : MapStep(r, h, a) \/ MapFault(r, h, a)
    <2>1. /\ UNCHANGED reqVars
          /\ \A q \in Requests, g \in Hosts :
               call[q][g] = "ok" => call'[q][g] = "ok"
      <3>1. ASSUME NEW h \in Hosts, CallFault(r, h) PROVE <2>1
        BY <3>1 DEF CallFault, CallRetried, CallFails
      <3>2. ASSUME NEW h \in Hosts, NEW a \in Attempts, MapStep(r, h, a) PROVE <2>1
        BY <3>2, RespondKeepsOk DEF MapStep, MapCheckCache, MapConvert, MapCloseFile
      <3>3. ASSUME NEW h \in Hosts, NEW a \in Attempts, MapFault(r, h, a) PROVE <2>1
        BY <3>3, RespondKeepsOk DEF MapFault, MapFails, WorkerCrash
      <3> QED BY <1>9, <3>1, <3>2, <3>3
    <2> QED BY <2>1 DEF reqVars
  <1> QED
    BY <1>1, <1>2, <1>3, <1>4, <1>5, <1>6, <1>7, <1>8, <1>9 DEF RequestStep, RequestFault

(* The strengthened invariant holds in every reachable state. *)
THEOREM Safety == Spec => []SafetyInv
  <1>1. Init => SafetyInv
    <2>1. Init => TypeOK
      BY SessionAssumption
         DEF Init, TypeOK, PC, CallStates, WorkStates, FileStates, Absent, Attempts
    <2> QED
      BY <2>1 DEF Init, SafetyInv, HostFilesHoldTheirHost, GathersOwnHosts,
                  ReduceHasEveryHost, ClearsOnlyWhenFresh, Absent, Files
  <1>2. SafetyInv /\ TypeOK' /\ [Next]_vars => SafetyInv'
    <2>1. CASE Next
      BY <2>1, HostFilesStep, RequestFactsStep DEF SafetyInv
    <2>2. CASE UNCHANGED vars
      BY <2>2 DEF SafetyInv, TypeOK, HostFilesHoldTheirHost, GathersOwnHosts,
                  ReduceHasEveryHost, ClearsOnlyWhenFresh, vars, reqVars, workVars
    <2> QED BY <2>1, <2>2
  <1> QED BY <1>1, <1>2, Typing, PTL DEF Spec

(* A computed answer never holds the stats of an unselected host: the      *)
(* per-host files hold their own host only, and Reduce reads no others.    *)
THEOREM OwnHosts == Spec => []ComputedFromOwnHosts
  <1>1. SafetyInv => ComputedFromOwnHosts
    BY DEF SafetyInv, GathersOwnHosts, ComputedFromOwnHosts, TypeOK
  <1> QED BY <1>1, Safety, PTL

(* Reduce runs only when every Map call of its request succeeded. *)
THEOREM EveryHostMapped == Spec => []ReduceHasEveryHost
  <1>1. SafetyInv => ReduceHasEveryHost
    BY DEF SafetyInv
  <1> QED BY <1>1, Safety, PTL

(* Only a request with use_saved_result=false deletes cache files. *)
THEOREM SavedResultsSurvive == Spec => OnlyRefreshDeletes
  <1> DEFINE Kept == \A f \in Files : (file[f].exists /\ ~file'[f].exists) =>
                       \E r \in Requests : fresh[r] /\ pc[r] = "clear" /\ f \in todo[r]
  <1>1. SafetyInv /\ [Next]_vars => Kept
    <2> SUFFICES ASSUME SafetyInv, [Next]_vars, NEW f \in Files,
                        file[f].exists, ~file'[f].exists
                 PROVE  \E r \in Requests : fresh[r] /\ pc[r] = "clear" /\ f \in todo[r]
      OBVIOUS
    <2>f. AllHosts \in Files /\ Hosts \subseteq Files
      BY DEF Files
    <2>1. Next
      BY DEF vars
    <2>2. PICK r \in Requests :
            \/ Start(r) \/ RequestStep(r) \/ RequestFault(r)
            \/ \E h \in Hosts :
                 \/ CallFault(r, h)
                 \/ \E a \in Attempts : MapStep(r, h, a) \/ MapFault(r, h, a)
      BY <2>1 DEF Next
    <2>3. TypeOK
      BY DEF SafetyInv
    <2>4. acc[r] \in SUBSET Hosts
      BY <2>3 DEF TypeOK
    <2>5. CASE DeleteCacheFile(r)
      BY <2>3, <2>5 DEF DeleteCacheFile, SafetyInv, ClearsOnlyWhenFresh, TypeOK
    <2>6. CASE RequestStep(r) /\ ~DeleteCacheFile(r)
      BY <2>3, <2>4, <2>6, <2>f, WriterTypes, OpenedFileLemma, CloseFileLemma,
         AbandonFileLemma
         DEF RequestStep, ListCacheFiles, FinishClear, Decide, ProbeCache, JoinCalls,
             ReduceReadFile, ReduceCombine, ReduceClose, LocalCheckCache,
             LocalReadCache, LocalConvert, LocalClose
    <2>7. CASE Start(r) \/ RequestFault(r)
      BY <2>3, <2>7, <2>f, WriterTypes, AbandonFileLemma
         DEF Start, RequestFault, ReduceWriteFails, LocalConvertFails
    <2>8. ASSUME NEW h \in Hosts, CallFault(r, h) PROVE FALSE
      BY <2>8 DEF CallFault, CallRetried, CallFails
    <2>9. ASSUME NEW h \in Hosts, NEW a \in Attempts, MapStep(r, h, a) PROVE FALSE
      <3>1. {h} \in SUBSET Hosts /\ h \in Files /\ <<r, a>> \in Writers
        BY <2>f, WriterTypes
      <3> QED BY <2>3, <2>9, <3>1, OpenedFileLemma, CloseFileLemma
              DEF MapStep, MapCheckCache, MapConvert, MapCloseFile
    <2>10. ASSUME NEW h \in Hosts, NEW a \in Attempts, MapFault(r, h, a) PROVE FALSE
      <3>1. h \in Files /\ <<r, a>> \in Writers
        BY <2>f, WriterTypes
      <3> QED BY <2>3, <2>10, <3>1, AbandonFileLemma DEF MapFault, MapFails, WorkerCrash
    <2> QED BY <2>2, <2>5, <2>6, <2>7, <2>8, <2>9, <2>10
  <1> QED BY <1>1, Safety, PTL DEF Spec, OnlyRefreshDeletes
-----------------------------------------------------------------------------
(* The second inductive invariant, behind the theorems about undisturbed   *)
(* requests.  SessionInv ties the calls, Map executions and open files to  *)
(* the control point of their request, in every state.                     *)
StepOf(r) ==
  \/ Start(r) \/ RequestStep(r) \/ RequestFault(r)
  \/ \E h \in Hosts :
       \/ CallFault(r, h)
       \/ \E a \in Attempts : MapStep(r, h, a) \/ MapFault(r, h, a)

IdleUntilScattered(r) ==
  pc[r] \in {"idle", "list", "clear", "decide", "probe"} =>
    \A h \in Hosts :
      /\ call[r][h] = "none"
      /\ attempt[r][h] = 1
      /\ \A a \in Attempts : work[r][h][a] = "idle"

CallsOfMap(r) ==
  \A h \in Hosts :
    /\ call[r][h] = "pending" => pc[r] = "map" /\ h \in hosts[r]
    /\ pc[r] = "map" /\ h \in hosts[r] => call[r][h] # "none"

NoWorkPastAttempt(r) ==
  \A h \in Hosts, a \in Attempts : work[r][h][a] # "idle" => a <= attempt[r][h]

SelectsHosts(r) == pc[r] # "idle" => hosts[r] # {}

CallInv(r) ==
  /\ IdleUntilScattered(r)
  /\ CallsOfMap(r)
  /\ NoWorkPastAttempt(r)
  /\ SelectsHosts(r)

(* A writer is a Map execution or a request that is about to close the     *)
(* file; nobody else has it open.                                          *)
Writing(q, a, f) ==
  \/ f = AllHosts /\ a = 0 /\ pc[q] \in {"write", "save"}
  \/ f \in Hosts /\ a \in Attempts /\ work[q][f][a] = "write"

WritersAreAtWork ==
  \A f \in Files, q \in Requests, a \in 0..MaxAttempts :
    <<q, a>> \in file[f].writers => Writing(q, a, f)

SharedWhileOpen == \A f \in Files : file[f].shared => file[f].writers # {}

SessionInv ==
  /\ SafetyInv
  /\ \A r \in Requests : CallInv(r)
  /\ WritersAreAtWork
  /\ SharedWhileOpen

(* While an undisturbed request runs it is alone, and the directory holds  *)
(* what its own steps made of it.                                          *)
OpenedOnlyBy(f, w) == file[f].exists /\ file[f].writers = {w} /\ ~file[f].shared

Alone(r) == \A o \in Others(r) : ~Running(o) /\ ~Working(o)

NothingShared == \A f \in Files : ~file[f].shared

OwnWork(r) ==
  \A h \in Hosts :
    /\ work[r][h][1] = "check" => ~Damaged(h)
    /\ work[r][h][1] = "write" => OpenedOnlyBy(h, <<r, 1>>)
    /\ call[r][h] = "ok" =>
         file[h].exists /\ ~Damaged(h) /\ work[r][h][1] = "idle"

OwnFiles(r) ==
  /\ pc[r] = "clear" => todo[r] = {f \in Files : file[f].exists}
  /\ pc[r] \in {"decide", "probe"} => \A f \in Files : ~Damaged(f)
  /\ pc[r] \in {"write", "save"} => OpenedOnlyBy(AllHosts, <<r, 0>>)
  /\ pc[r] \notin {"list", "clear", "write", "save"} =>
       /\ ~Damaged(AllHosts)
       /\ fresh[r] /\ file[AllHosts].exists => file[AllHosts].data = hosts[r]
  /\ pc[r] = "read" => file[AllHosts].exists

Gathering(r) ==
  /\ pc[r] = "reduce" => hosts[r] \subseteq todo[r] \cup acc[r]
  /\ pc[r] = "write" => acc[r] = hosts[r]

OwnDirectory(r) == NothingShared /\ OwnWork(r) /\ OwnFiles(r) /\ Gathering(r)

FirstAttemptOnly(r) ==
  \A h \in Hosts :
    /\ attempt[r][h] = 1
    /\ \A a \in Attempts \ {1} : work[r][h][a] = "idle"

Outcome(r) ==
  /\ pc[r] = "reduced" \/ (fresh[r] /\ pc[r] \in Answered) => acc[r] = hosts[r]
  /\ pc[r] = "error" =>
       faults > 0 \/ \E h \in Hosts : call[r][h] \in {"err", "invalid"}

Undisturbed(r) ==
  /\ pc[r] # "idle"
  /\ FirstAttemptOnly(r)
  /\ Outcome(r)
  /\ Running(r) => Alone(r) /\ OwnDirectory(r)

UndisturbedInv == \A r \in Requests : clean[r] => Undisturbed(r)

(* A step of one request, of its calls or of its workers leaves the rest   *)
(* of every other request as it was; only faults and clean are shared.     *)
Untouched(q) ==
  /\ pc'[q] = pc[q] /\ hosts'[q] = hosts[q] /\ fresh'[q] = fresh[q]
  /\ todo'[q] = todo[q] /\ acc'[q] = acc[q]
  /\ call'[q] = call[q] /\ attempt'[q] = attempt[q] /\ work'[q] = work[q]
  /\ clean'[q] => clean[q]

LEMMA OthersUntouched ==
  ASSUME TypeOK, NEW r \in Requests, StepOf(r)
  PROVE  (\A q \in Requests \ {r} : Untouched(q)) /\ faults' >= faults
  <1> USE DEF TypeOK, reqVars, workVars, Goto, Fault, Untouched
  <1>1. CASE Start(r)
    BY <1>1 DEF Start
  <1>2. CASE ListCacheFiles(r) \/ DeleteCacheFile(r) \/ FinishClear(r)
    BY <1>2 DEF ListCacheFiles, DeleteCacheFile, FinishClear
  <1>3. CASE Decide(r) \/ ProbeCache(r)
    BY <1>3 DEF Decide, ProbeCache, Scatter
  <1>4. CASE JoinCalls(r) \/ ReduceReadFile(r) \/ ReduceCombine(r)
    BY <1>4 DEF JoinCalls, ReduceReadFile, ReduceCombine, FailWith
  <1>5. CASE ReduceClose(r) \/ RequestFault(r)
    BY <1>5 DEF ReduceClose, RequestFault, ReduceWriteFails, LocalConvertFails, FailWith
  <1>6. CASE LocalCheckCache(r) \/ LocalReadCache(r) \/ LocalConvert(r) \/ LocalClose(r)
    BY <1>6 DEF LocalCheckCache, LocalReadCache, LocalConvert, LocalClose
  <1>7. ASSUME NEW h \in Hosts, CallFault(r, h)
        PROVE  (\A q \in Requests \ {r} : Untouched(q)) /\ faults' >= faults
    BY <1>7 DEF CallFault, CallRetried, CallFails, SetWork
  <1>8. ASSUME NEW h \in Hosts, NEW a \in Attempts, MapStep(r, h, a)
        PROVE  (\A q \in Requests \ {r} : Untouched(q)) /\ faults' >= faults
    BY <1>8 DEF MapStep, MapCheckCache, MapConvert, MapCloseFile, SetWork, Respond
  <1>9. ASSUME NEW h \in Hosts, NEW a \in Attempts, MapFault(r, h, a)
        PROVE  (\A q \in Requests \ {r} : Untouched(q)) /\ faults' >= faults
    BY <1>9 DEF MapFault, MapFails, WorkerCrash, SetWork, Respond
  <1> QED
    BY <1>1, <1>2, <1>3, <1>4, <1>5, <1>6, <1>7, <1>8, <1>9 DEF StepOf, RequestStep

(* What a worker or a failing call changes of its request: no work starts, *)
(* and a call can only be answered while it is pending.                    *)
CallProgress(r, h) ==
  /\ UNCHANGED <<reqVars, attempt>>
  /\ call[r][h] = "pending" \/ \E a \in Attempts : work[r][h][a] # "idle"
  /\ \A g \in Hosts : \/ call'[r][g] = call[r][g]
                     \/ /\ call[r][g] = "pending"
                        /\ call'[r][g] \in {"ok", "invalid", "err"}
  /\ \A g \in Hosts, a \in Attempts :
       work[r][g][a] = "idle" => work'[r][g][a] = "idle"

LEMMA SetWorkLemma ==
  ASSUME TypeOK, NEW r \in Requests, NEW h \in Hosts, NEW a \in Attempts, NEW w,
         SetWork(r, h, a, w)
  PROVE  /\ work'[r][h][a] = w
         /\ \A g \in Hosts, b \in Attempts :
              g # h \/ b # a => work'[r][g][b] = work[r][g][b]
  <1>1. work'[r] = [work[r] EXCEPT ![h] = [work[r][h] EXCEPT ![a] = w]]
    BY DEF SetWork, TypeOK
  <1>2. work[r] \in [Hosts -> [Attempts -> WorkStates]]
    BY DEF TypeOK
  <1>3. work'[r][h] = [work[r][h] EXCEPT ![a] = w]
    BY <1>1, <1>2
  <1>4. \A g \in Hosts \ {h} : work'[r][g] = work[r][g]
    BY <1>1, <1>2
  <1>5. work[r][h] \in [Attempts -> WorkStates]
    BY <1>2
  <1>6. \A b \in Attempts \ {a} : work'[r][h][b] = work[r][h][b]
    BY <1>3, <1>5
  <1> QED BY <1>3, <1>4, <1>5, <1>6

LEMMA RespondLemma ==
  ASSUME TypeOK, NEW r \in Requests, NEW h \in Hosts, NEW a \in Attempts, NEW s,
         Respond(r, h, a, s)
  PROVE  /\ \A g \in Hosts \ {h} : call'[r][g] = call[r][g]
         /\ call'[r][h] = IF call[r][h] = "pending" /\ attempt[r][h] = a
                           THEN s ELSE call[r][h]
  BY DEF Respond, TypeOK

LEMMA CallProgressLemma ==
  ASSUME TypeOK, NEW r \in Requests, NEW h \in Hosts,
         CallFails(r, h) \/ \E a \in Attempts : MapStep(r, h, a) \/ MapFault(r, h, a)
  PROVE  CallProgress(r, h)
  <1>1. CASE CallFails(r, h)
    <2>1. /\ call[r][h] = "pending" /\ call'[r][h] = "err"
          /\ \A g \in Hosts \ {h} : call'[r][g] = call[r][g]
      BY <1>1 DEF CallFails, TypeOK
    <2>2. attempt[r][h] \in Attempts
      BY DEF TypeOK
    <2>3. \A g \in Hosts, b \in Attempts :
            work[r][g][b] = "idle" => work'[r][g][b] = "idle"
      BY <1>1, <2>2, SetWorkLemma DEF CallFails
    <2> QED BY <1>1, <2>1, <2>3 DEF CallFails, CallProgress
  <1>2. ASSUME NEW a \in Attempts, work[r][h][a] # "idle",
               UNCHANGED <<reqVars, attempt>>,
               NEW w, SetWork(r, h, a, w),
               \/ UNCHANGED call
               \/ \E s \in {"ok", "invalid", "err", "pending"} : Respond(r, h, a, s)
        PROVE  CallProgress(r, h)
    <2>1. \A g \in Hosts : \/ call'[r][g] = call[r][g]
                          \/ /\ call[r][g] = "pending"
                             /\ call'[r][g] \in {"ok", "invalid", "err"}
      BY <1>2, RespondLemma
    <2>2. \A g \in Hosts, b \in Attempts :
            work[r][g][b] = "idle" => work'[r][g][b] = "idle"
      BY <1>2, SetWorkLemma
    <2> QED BY <1>2, <2>1, <2>2 DEF CallProgress
  <1>3. ASSUME NEW a \in Attempts, MapStep(r, h, a) PROVE CallProgress(r, h)
    BY <1>3, <1>2 DEF MapStep, MapCheckCache, MapConvert, MapCloseFile
  <1>4. ASSUME NEW a \in Attempts, MapFault(r, h, a) PROVE CallProgress(r, h)
    BY <1>4, <1>2 DEF MapFault, MapFails, WorkerCrash
  <1> QED BY <1>1, <1>3, <1>4

(* How the calls and the Map executions of r change with its control point. *)
LEMMA CallInvStep ==
  ASSUME TypeOK, NEW r \in Requests, CallInv(r), StepOf(r)
  PROVE  CallInv(r)'
  <1> USE DEF TypeOK, CallInv, IdleUntilScattered, CallsOfMap, NoWorkPastAttempt,
              SelectsHosts
  <1>1. CASE Start(r)
    <2>1. PICK S \in Selections : hosts' = [hosts EXCEPT ![r] = S]
      BY <1>1 DEF Start
    <2>2. S # {}
      BY SessionAssumption
    <2>3. pc[r] = "idle" /\ pc'[r] \in {"list", "decide"} /\ UNCHANGED workVars
      BY <1>1 DEF Start, Goto
    <2> QED BY <2>1, <2>2, <2>3 DEF workVars
  <1>2. CASE ListCacheFiles(r) \/ DeleteCacheFile(r) \/ FinishClear(r)
    <2>1. /\ pc[r] \in {"list", "clear"} /\ pc'[r] \in {"clear", "decide", "error"}
          /\ UNCHANGED <<hosts, workVars>>
      BY <1>2 DEF ListCacheFiles, DeleteCacheFile, FinishClear, Goto
    <2> QED BY <2>1 DEF workVars
  <1>3. ASSUME pc[r] \in {"decide", "probe"}, Scatter(r), UNCHANGED hosts
        PROVE  CallInv(r)'
    BY <1>3, SessionAssumption DEF Scatter, Goto, Attempts
  <1>4. ASSUME pc[r] \in {"decide", "probe"}, pc'[r] \in {"probe", "local"},
               UNCHANGED <<hosts, workVars>>
        PROVE  CallInv(r)'
    BY <1>4 DEF workVars
  <1>5. CASE Decide(r)
    BY <1>5, <1>3, <1>4 DEF Decide, Goto
  <1>6. CASE ProbeCache(r)
    BY <1>6, <1>3, <1>4 DEF ProbeCache, Goto
  <1>7. CASE JoinCalls(r)
    <2>1. /\ pc[r] = "map" /\ pc'[r] \in {"reduce", "local", "error"}
          /\ \A h \in hosts[r] : call[r][h] # "pending"
          /\ UNCHANGED <<hosts, workVars>>
      BY <1>7 DEF JoinCalls, FailWith, Goto
    <2> QED BY <2>1 DEF workVars
  <1>8. CASE ReduceReadFile(r) \/ ReduceCombine(r) \/ ReduceClose(r) \/ RequestFault(r)
    <2>1. /\ pc[r] \in {"reduce", "write", "convert"}
          /\ pc'[r] \in {"reduce", "write", "reduced", "local", "error"}
          /\ UNCHANGED <<hosts, workVars>>
      BY <1>8 DEF ReduceReadFile, ReduceCombine, ReduceClose, RequestFault,
                  ReduceWriteFails, LocalConvertFails, FailWith, Goto
    <2> QED BY <2>1 DEF workVars
  <1>9. CASE LocalCheckCache(r) \/ LocalReadCache(r) \/ LocalConvert(r) \/ LocalClose(r)
    <2>1. /\ pc[r] \in {"local", "read", "convert", "save"}
          /\ pc'[r] \in {"read", "convert", "cached", "error", "save", "converted"}
          /\ UNCHANGED <<hosts, workVars>>
      BY <1>9 DEF LocalCheckCache, LocalReadCache, LocalConvert, LocalClose, Goto
    <2> QED BY <2>1 DEF workVars
  <1>10. ASSUME NEW h \in Hosts, CallRetried(r, h) PROVE CallInv(r)'
    <2>1. attempt[r][h] + 1 \in Attempts
      BY <1>10, SessionAssumption DEF CallRetried, Attempts
    <2> QED BY <1>10, <2>1 DEF CallRetried, SetWork, reqVars, Attempts
  <1>11. ASSUME NEW h \in Hosts, CallProgress(r, h) PROVE CallInv(r)'
    <2>1. IdleUntilScattered(r)'
      BY <1>11 DEF CallProgress, reqVars
    <2>2. CallsOfMap(r)'
      BY <1>11 DEF CallProgress, reqVars
    <2>3. NoWorkPastAttempt(r)' /\ SelectsHosts(r)'
      BY <1>11 DEF CallProgress, reqVars
    <2> QED BY <2>1, <2>2, <2>3
  <1> QED
    BY <1>1, <1>2, <1>5, <1>6, <1>7, <1>8, <1>9, <1>10, <1>11,
       CallProgressLemma DEF StepOf, RequestStep, CallFault

(* Who has a file open after a step: opening adds one writer, closing and  *)
(* abandoning take it away, and nothing else touches the writers.          *)
LEMMA OpenWriters ==
  ASSUME TypeOK, NEW f \in Files, NEW w \in Writers, file' = OpenedFile(f, w)
  PROVE  /\ \A g \in Files \ {f} : file'[g] = file[g]
         /\ file'[f].exists /\ file'[f].data = {}
         /\ file'[f].writers = file[f].writers \cup {w}
         /\ file'[f].shared <=> file[f].writers # {}
  <1>1. file'[f] = [exists |-> TRUE, writers |-> file[f].writers \cup {w},
                    shared |-> file[f].writers # {}, data |-> {}]
    BY DEF OpenedFile, TypeOK
  <1> QED BY <1>1 DEF OpenedFile, TypeOK

LEMMA CloseWriters ==
  ASSUME TypeOK, SharedWhileOpen, NEW f \in Files, NEW w \in Writers,
         NEW c \in SUBSET Hosts, CloseFile(f, w, c) \/ AbandonFile(f, w)
  PROVE  /\ \A g \in Files \ {f} : file'[g] = file[g]
         /\ file'[f].writers = file[f].writers \ {w}
         /\ file'[f].shared => file'[f].writers # {}
  <1>1. PICK d \in {c, file[f].data, {}} : file' = ClosedFile(f, w, d)
    BY DEF CloseFile, AbandonFile
  <1>2. CASE w \in file[f].writers
    BY <1>1, <1>2 DEF ClosedFile, TypeOK, FileStates
  <1>3. CASE w \notin file[f].writers
    BY <1>1, <1>3 DEF ClosedFile, TypeOK, FileStates, SharedWhileOpen
  <1> QED BY <1>2, <1>3

(* A file keeps the writers it had, except that a step of r may open or    *)
(* close one file, or delete it; and r itself moves accordingly.           *)
LEMMA WritersStep ==
  ASSUME SessionInv, TypeOK', NEW r \in Requests, StepOf(r)
  PROVE  WritersAreAtWork' /\ SharedWhileOpen'
  <1> USE DEF SessionInv, SafetyInv
  <1>f. AllHosts \in Files /\ AllHosts \notin Hosts /\ Hosts \subseteq Files
    BY SessionAssumption DEF Files
  <1>w. /\ 0 \in 0..MaxAttempts /\ Attempts \subseteq 0..MaxAttempts /\ 0 \notin Attempts
        /\ <<r, 0>> \in Writers /\ \A a \in Attempts : <<r, a>> \in Writers
    BY SessionAssumption, WriterTypes DEF Attempts
  <1>q. \A q \in Requests \ {r}, a \in 0..MaxAttempts, f \in Files :
          Writing(q, a, f) => Writing(q, a, f)'
    BY OthersUntouched DEF Untouched, Writing
  <1>d. ASSUME NEW g \in Files,
               \A f \in Files \ {g} : file'[f] = file[f],
               file'[g].shared => file'[g].writers # {}
        PROVE  SharedWhileOpen'
    BY <1>d DEF SharedWhileOpen
  <1>u. ASSUME UNCHANGED file,
               \A a \in 0..MaxAttempts, f \in Files : Writing(r, a, f) => Writing(r, a, f)'
        PROVE  WritersAreAtWork' /\ SharedWhileOpen'
    BY <1>u, <1>q DEF WritersAreAtWork, SharedWhileOpen
  <1>o. ASSUME NEW a \in 0..MaxAttempts, NEW f \in Files,
               file' = OpenedFile(f, <<r, a>>), <<r, a>> \in Writers,
               Writing(r, a, f)',
               \A b \in 0..MaxAttempts, g \in Files : Writing(r, b, g) => Writing(r, b, g)'
        PROVE  WritersAreAtWork' /\ SharedWhileOpen'
    <2>0. f \in Files /\ <<r, a>> \in Writers /\ file' = OpenedFile(f, <<r, a>>)
      BY <1>o
    <2>1. /\ \A g \in Files \ {f} : file'[g] = file[g]
          /\ file'[f].writers = file[f].writers \cup {<<r, a>>}
      BY <2>0, OpenWriters
    <2>2. SharedWhileOpen'
      BY <2>1, <1>d
    <2>3. WritersAreAtWork'
      <3> SUFFICES ASSUME NEW g \in Files, NEW q \in Requests, NEW b \in 0..MaxAttempts,
                          <<q, b>> \in file'[g].writers
                   PROVE  Writing(q, b, g)'
        BY DEF WritersAreAtWork
      <3>1. CASE <<q, b>> \in file[g].writers
        BY <3>1, <1>o, <1>q DEF WritersAreAtWork
      <3>2. CASE <<q, b>> \notin file[g].writers
        BY <2>1, <3>2, <1>o
      <3> QED BY <3>1, <3>2
    <2> QED BY <2>2, <2>3
  <1>c. ASSUME NEW a \in 0..MaxAttempts, NEW f \in Files, <<r, a>> \in Writers,
               \/ \E c \in SUBSET Hosts : CloseFile(f, <<r, a>>, c)
               \/ AbandonFile(f, <<r, a>>),
               \A b \in 0..MaxAttempts, g \in Files :
                 Writing(r, b, g) /\ (b # a \/ g # f) => Writing(r, b, g)'
        PROVE  WritersAreAtWork' /\ SharedWhileOpen'
    <2>0. PICK c \in SUBSET Hosts : CloseFile(f, <<r, a>>, c) \/ AbandonFile(f, <<r, a>>)
      BY <1>c
    <2>1. /\ \A g \in Files \ {f} : file'[g] = file[g]
          /\ file'[f].writers = file[f].writers \ {<<r, a>>}
          /\ file'[f].shared => file'[f].writers # {}
      BY <1>c, <2>0, CloseWriters
    <2>2. SharedWhileOpen'
      BY <2>1, <1>d
    <2>3. WritersAreAtWork'
      <3> SUFFICES ASSUME NEW g \in Files, NEW q \in Requests, NEW b \in 0..MaxAttempts,
                          <<q, b>> \in file'[g].writers
                   PROVE  Writing(q, b, g)'
        BY DEF WritersAreAtWork
      <3>1. <<q, b>> \in file[g].writers /\ (q # r \/ b # a \/ g # f)
        BY <2>1
      <3>2. Writing(q, b, g)
        BY <3>1 DEF WritersAreAtWork
      <3> QED BY <3>1, <3>2, <1>q, <1>c
    <2> QED BY <2>2, <2>3
  <1>1. CASE Start(r)
    BY <1>1, <1>u DEF Start, Writing, Goto, workVars, TypeOK
  <1>2. CASE ListCacheFiles(r) \/ FinishClear(r)
    BY <1>2, <1>u DEF ListCacheFiles, FinishClear, Writing, Goto, workVars, TypeOK
  <1>3. CASE DeleteCacheFile(r)
    <2>1. \A a \in 0..MaxAttempts, f \in Files : Writing(r, a, f) => Writing(r, a, f)'
      BY <1>3 DEF DeleteCacheFile, Writing, Goto, workVars, TypeOK
    <2>2. CASE UNCHANGED file
      BY <2>1, <2>2, <1>u
    <2>3. CASE \E f \in todo[r] : file' = [file EXCEPT ![f] = Absent]
      <3>1. PICK f \in Files : file' = [file EXCEPT ![f] = Absent]
        BY <2>3 DEF TypeOK
      <3>2. \A g \in Files \ {f} : file'[g] = file[g]
        BY <3>1 DEF TypeOK
      <3>3. file'[f] = Absent
        BY <3>1 DEF TypeOK
      <3>4. SharedWhileOpen'
        BY <3>2, <3>3, <1>d DEF Absent
      <3> QED BY <2>1, <3>2, <3>3, <3>4, <1>q DEF WritersAreAtWork, Absent
    <2> QED BY <1>3, <2>2, <2>3 DEF DeleteCacheFile
  <1>4. CASE Decide(r) \/ ProbeCache(r)
    <2>1. /\ pc[r] \in {"decide", "probe"} /\ UNCHANGED file
          /\ pc'[r] \in {"local", "map", "probe"}
      BY <1>4 DEF Decide, ProbeCache, Scatter, Goto, TypeOK
    <2>2. \A a \in 0..MaxAttempts, f \in Files : ~Writing(r, a, f)
      BY <2>1, <1>f DEF Writing, CallInv, IdleUntilScattered
    <2> QED BY <2>1, <2>2, <1>u
  <1>5. CASE JoinCalls(r) \/ ReduceReadFile(r) \/ LocalCheckCache(r) \/ LocalReadCache(r)
             \/ LocalConvertFails(r)
    BY <1>5, <1>u DEF JoinCalls, ReduceReadFile, LocalCheckCache, LocalReadCache,
                      LocalConvertFails, FailWith, Writing, Goto, workVars, TypeOK
  <1>6. CASE ReduceCombine(r) \/ LocalConvert(r)
    <2>1. file' = OpenedFile(AllHosts, <<r, 0>>) /\ pc'[r] \in {"write", "save"}
          /\ UNCHANGED work
      BY <1>6 DEF ReduceCombine, LocalConvert, Goto, workVars, TypeOK
    <2> QED BY <2>1, <1>o, <1>f, <1>w DEF Writing
  <1>7. CASE ReduceClose(r) \/ LocalClose(r) \/ ReduceWriteFails(r)
    <2>1. /\ acc[r] \in SUBSET Hosts /\ UNCHANGED work
          /\ \/ CloseFile(AllHosts, <<r, 0>>, acc[r])
             \/ AbandonFile(AllHosts, <<r, 0>>)
      BY <1>7 DEF ReduceClose, LocalClose, ReduceWriteFails, workVars, TypeOK
    <2>2. \A b \in 0..MaxAttempts, g \in Files :
            Writing(r, b, g) /\ (b # 0 \/ g # AllHosts) => Writing(r, b, g)'
      BY <2>1 DEF Writing
    <2> QED BY <2>1, <2>2, <1>c, <1>f, <1>w
  <1>s. ASSUME NEW h \in Hosts, NEW a \in Attempts, NEW w, SetWork(r, h, a, w),
               UNCHANGED pc
        PROVE  \A b \in 0..MaxAttempts, g \in Files :
                 Writing(r, b, g) /\ (b # a \/ g # h) => Writing(r, b, g)'
    BY <1>s, SetWorkLemma DEF Writing
  <1>t. ASSUME NEW h \in Hosts, NEW a \in Attempts, work[r][h][a] # "write",
               NEW w, SetWork(r, h, a, w), UNCHANGED pc
        PROVE  \A b \in 0..MaxAttempts, g \in Files : Writing(r, b, g) => Writing(r, b, g)'
    BY <1>t, <1>f, SetWorkLemma DEF Writing
  <1>8. ASSUME NEW h \in Hosts, CallRetried(r, h) PROVE WritersAreAtWork' /\ SharedWhileOpen'
    <2>1. attempt[r][h] + 1 \in Attempts /\ ~(attempt[r][h] + 1 <= attempt[r][h])
      BY <1>8, SessionAssumption DEF CallRetried, TypeOK, Attempts
    <2>2. work[r][h][attempt[r][h] + 1] = "idle"
      BY <2>1 DEF CallInv, NoWorkPastAttempt
    <2> QED BY <1>8, <2>1, <2>2, <1>t, <1>u DEF CallRetried, reqVars
  <1>9. ASSUME NEW h \in Hosts, CallFails(r, h) PROVE WritersAreAtWork' /\ SharedWhileOpen'
    <2>1. attempt[r][h] \in Attempts
      BY DEF TypeOK
    <2>2. CASE UNCHANGED work
      BY <1>9, <2>2, <1>u DEF CallFails, Writing, reqVars
    <2>3. CASE /\ work[r][h][attempt[r][h]] = "check"
               /\ SetWork(r, h, attempt[r][h], "idle")
      BY <1>9, <2>1, <2>3, <1>t, <1>u DEF CallFails, reqVars
    <2> QED BY <1>9, <2>2, <2>3 DEF CallFails
  <1>10. ASSUME NEW h \in Hosts, NEW a \in Attempts, MapCheckCache(r, h, a)
         PROVE  WritersAreAtWork' /\ SharedWhileOpen'
    BY <1>10, <1>t, <1>u DEF MapCheckCache, reqVars
  <1>11. ASSUME NEW h \in Hosts, NEW a \in Attempts, MapConvert(r, h, a)
         PROVE  WritersAreAtWork' /\ SharedWhileOpen'
    <2>1. /\ file' = OpenedFile(h, <<r, a>>) /\ UNCHANGED pc
          /\ SetWork(r, h, a, "write") /\ work[r][h][a] # "write"
      BY <1>11 DEF MapConvert, reqVars
    <2>2. work'[r][h][a] = "write"
      BY <2>1, SetWorkLemma
    <2>3. Writing(r, a, h)' /\ h \in Files
      BY <2>2, <1>f DEF Writing
    <2>4. \A b \in 0..MaxAttempts, g \in Files : Writing(r, b, g) => Writing(r, b, g)'
      BY <2>1, <1>t
    <2> QED BY <2>1, <2>3, <2>4, <1>o, <1>w
  <1>12. ASSUME NEW h \in Hosts, NEW a \in Attempts, MapCloseFile(r, h, a) \/ MapFault(r, h, a)
         PROVE  WritersAreAtWork' /\ SharedWhileOpen'
    <2>1. /\ SetWork(r, h, a, "idle") /\ UNCHANGED pc
          /\ \/ CloseFile(h, <<r, a>>, {h})
             \/ AbandonFile(h, <<r, a>>)
             \/ work[r][h][a] # "write" /\ UNCHANGED file
      BY <1>12 DEF MapCloseFile, MapFault, MapFails, WorkerCrash, reqVars
    <2>2. CASE work[r][h][a] # "write" /\ UNCHANGED file
      BY <2>1, <2>2, <1>t, <1>u
    <2>3. CASE CloseFile(h, <<r, a>>, {h}) \/ AbandonFile(h, <<r, a>>)
      <3>1. \A b \in 0..MaxAttempts, g \in Files :
              Writing(r, b, g) /\ (b # a \/ g # h) => Writing(r, b, g)'
        BY <2>1, <1>s
      <3>2. {h} \in SUBSET Hosts /\ h \in Files
        BY <1>f
      <3> QED BY <2>3, <3>1, <3>2, <1>c, <1>w
    <2> QED BY <2>1, <2>2, <2>3
  <1> QED
    BY <1>1, <1>2, <1>3, <1>4, <1>5, <1>6, <1>7, <1>8, <1>9, <1>10,
       <1>11, <1>12 DEF StepOf, RequestStep, RequestFault, CallFault, MapStep, MapFault

LEMMA CallInvUntouched ==
  ASSUME NEW q \in Requests, CallInv(q), Untouched(q)
  PROVE  CallInv(q)'
  BY DEF CallInv, IdleUntilScattered, CallsOfMap, NoWorkPastAttempt, SelectsHosts, Untouched

(* Calls, Map executions and open files match the control points of their  *)
(* requests in every reachable state.                                      *)
THEOREM SessionSafety == Spec => []SessionInv
  <1>1. Init => SessionInv
    <2>1. Init => TypeOK
      BY SessionAssumption
         DEF Init, TypeOK, PC, CallStates, WorkStates, FileStates, Absent, Attempts
    <2>2. Init => SafetyInv
      BY <2>1 DEF Init, SafetyInv, HostFilesHoldTheirHost, GathersOwnHosts,
                  ReduceHasEveryHost, ClearsOnlyWhenFresh, Absent, Files
    <2>3. Init => \A r \in Requests : CallInv(r)
      BY DEF Init, CallInv, IdleUntilScattered, CallsOfMap, NoWorkPastAttempt, SelectsHosts
    <2>4. Init => WritersAreAtWork /\ SharedWhileOpen
      BY DEF Init, WritersAreAtWork, SharedWhileOpen, Absent
    <2> QED BY <2>2, <2>3, <2>4 DEF SessionInv
  <1>2. SessionInv /\ SafetyInv' /\ [Next]_vars => SessionInv'
    <2>1. ASSUME SessionInv, SafetyInv', NEW r \in Requests, StepOf(r) PROVE SessionInv'
      <3>1. TypeOK /\ TypeOK'
        BY <2>1 DEF SessionInv, SafetyInv
      <3>2. CallInv(r)'
        BY <2>1, <3>1, CallInvStep DEF SessionInv
      <3>3. ASSUME NEW q \in Requests \ {r} PROVE CallInv(q)'
        BY <2>1, <3>1, OthersUntouched, CallInvUntouched DEF SessionInv
      <3>4. WritersAreAtWork' /\ SharedWhileOpen'
        BY <2>1, <3>1, WritersStep
      <3> QED BY <2>1, <3>2, <3>3, <3>4 DEF SessionInv
    <2>2. SessionInv /\ SafetyInv' /\ UNCHANGED vars => SessionInv'
      BY DEF SessionInv, CallInv, IdleUntilScattered, CallsOfMap, NoWorkPastAttempt,
             SelectsHosts, WritersAreAtWork, Writing, SharedWhileOpen,
             vars, reqVars, workVars
    <2> QED BY <2>1, <2>2 DEF Next, StepOf
  <1> QED BY <1>1, <1>2, Safety, PTL DEF Spec
-----------------------------------------------------------------------------
(* What only one writer opened, that writer closes as it means to.         *)
LEMMA SoleClose ==
  ASSUME TypeOK, NEW f \in Files, NEW w \in Writers, NEW c \in SUBSET Hosts,
         OpenedOnlyBy(f, w), CloseFile(f, w, c) \/ AbandonFile(f, w)
  PROVE  /\ \A g \in Files \ {f} : file'[g] = file[g]
         /\ file'[f].exists /\ file'[f].writers = {} /\ ~file'[f].shared
         /\ CloseFile(f, w, c) => file'[f].data = c
  <1>1. CASE CloseFile(f, w, c)
    <2>1. file' = ClosedFile(f, w, c)
      BY <1>1 DEF CloseFile, OpenedOnlyBy
    <2>2. file' = [file EXCEPT ![f] = [exists |-> file[f].exists,
                     writers |-> file[f].writers \ {w},
                     shared |-> file[f].shared /\ file[f].writers # {w}, data |-> c]]
      BY <2>1 DEF ClosedFile, OpenedOnlyBy
    <2> QED BY <2>2 DEF OpenedOnlyBy, TypeOK
  <1>2. CASE AbandonFile(f, w) /\ ~CloseFile(f, w, c)
    <2>1. PICK d : file' = ClosedFile(f, w, d)
      BY <1>2 DEF AbandonFile
    <2>2. file' = [file EXCEPT ![f] = [exists |-> file[f].exists,
                     writers |-> file[f].writers \ {w},
                     shared |-> file[f].shared /\ file[f].writers # {w}, data |-> d]]
      BY <2>1 DEF ClosedFile, OpenedOnlyBy
    <2> QED BY <1>2, <2>2 DEF OpenedOnlyBy, TypeOK
  <1> QED BY <1>1, <1>2

(* A request that is alone finds nobody at a file it does not write.       *)
LEMMA NobodyWrites ==
  ASSUME SessionInv, NEW r \in Requests, Alone(r), FirstAttemptOnly(r)
  PROVE  /\ pc[r] \notin {"write", "save"} => file[AllHosts].writers = {}
         /\ \A h \in Hosts : work[r][h][1] # "write" => file[h].writers = {}
  <1> USE DEF SessionInv, SafetyInv
  <1>1. ASSUME NEW f \in Files, NEW w \in file[f].writers
        PROVE  \E a \in 0..MaxAttempts : Writing(r, a, f)
    <2>1. file[f].writers \subseteq Requests \X (0..MaxAttempts)
      BY DEF TypeOK, FileStates, Writers
    <2>2. PICK q \in Requests, a \in 0..MaxAttempts : w = <<q, a>>
      BY <2>1
    <2>3. Writing(q, a, f)
      BY <2>2 DEF WritersAreAtWork
    <2>4. Running(q) \/ Working(q)
      BY <2>3 DEF Writing, Running, Working, Finished, Answered
    <2>5. q = r
      BY <2>4 DEF Alone, Others
    <2> QED BY <2>3, <2>5
  <1>2. AllHosts \in Files /\ AllHosts \notin Hosts /\ Hosts \subseteq Files
    BY SessionAssumption DEF Files
  <1>3. \A h \in Hosts, a \in Attempts : work[r][h][a] = "write" => a = 1
    BY DEF FirstAttemptOnly
  <1> QED BY <1>1, <1>2, <1>3 DEF Writing

(* An undisturbed request that runs is the only one that takes a step.     *)
LEMMA OneRuns ==
  ASSUME SessionInv, NEW r \in Requests, StepOf(r), ~Start(r),
         NEW q \in Requests \ {r}, Alone(q)
  PROVE  FALSE
  <1> USE DEF Others, Alone, Running, Finished, Answered
  <1>1. CASE RequestStep(r) \/ RequestFault(r)
    BY <1>1 DEF RequestStep, ListCacheFiles, DeleteCacheFile, FinishClear, Decide,
                ProbeCache, JoinCalls, ReduceReadFile, ReduceCombine, ReduceClose,
                LocalCheckCache, LocalReadCache, LocalConvert, LocalClose,
                RequestFault, ReduceWriteFails, LocalConvertFails
  <1>2. ASSUME NEW h \in Hosts, CallFault(r, h) PROVE FALSE
    <2>1. call[r][h] = "pending"
      BY <1>2 DEF CallFault, CallRetried, CallFails
    <2>2. pc[r] = "map"
      BY <2>1 DEF SessionInv, CallInv, CallsOfMap
    <2> QED BY <2>2
  <1>3. ASSUME NEW h \in Hosts, NEW a \in Attempts, MapStep(r, h, a) \/ MapFault(r, h, a)
        PROVE  FALSE
    <2>1. work[r][h][a] # "idle"
      BY <1>3 DEF MapStep, MapCheckCache, MapConvert, MapCloseFile, MapFault, MapFails,
                  WorkerCrash
    <2> QED BY <2>1 DEF Working
  <1> QED BY <1>1, <1>2, <1>3 DEF StepOf

(* Only Start sets a request running.                                      *)
LEMMA StaysFinished ==
  ASSUME SessionInv, NEW r \in Requests, StepOf(r), ~Start(r), Running(r)'
  PROVE  Running(r)
  <1> USE DEF Running, Finished, Answered
  <1>1. CASE RequestStep(r) \/ RequestFault(r)
    BY <1>1 DEF RequestStep, ListCacheFiles, DeleteCacheFile, FinishClear, Decide,
                ProbeCache, JoinCalls, ReduceReadFile, ReduceCombine, ReduceClose,
                LocalCheckCache, LocalReadCache, LocalConvert, LocalClose,
                RequestFault, ReduceWriteFails, LocalConvertFails
  <1>2. ASSUME NEW h \in Hosts,
               CallFault(r, h) \/ \E a \in Attempts : MapStep(r, h, a) \/ MapFault(r, h, a)
        PROVE  UNCHANGED pc
    BY <1>2 DEF CallFault, CallRetried, CallFails, MapStep, MapCheckCache, MapConvert,
                MapCloseFile, MapFault, MapFails, WorkerCrash, reqVars
  <1> QED BY <1>1, <1>2 DEF StepOf

(* The outcome of a finished request stands, whatever others do next.      *)
LEMMA OutcomeStands ==
  ASSUME TypeOK, NEW q \in Requests, Untouched(q), faults' >= faults, faults' \in Nat,
         Undisturbed(q), ~Running(q)
  PROVE  Undisturbed(q)'
  <1> USE DEF Untouched, Undisturbed
  <1>1. FirstAttemptOnly(q)'
    BY DEF FirstAttemptOnly
  <1>2. Outcome(q)'
    BY DEF Outcome, TypeOK
  <1>3. ~Running(q)' /\ pc'[q] # "idle"
    BY DEF Running
  <1> QED BY <1>1, <1>2, <1>3

(* Each step of an undisturbed request, with what it leaves behind.        *)
Follows(r) ==
  /\ pc'[r] # "idle"
  /\ FirstAttemptOnly(r)'
  /\ Outcome(r)'
  /\ Running(r)' => OwnDirectory(r)'

(* While nothing of the calls and files moves, only the facts about the    *)
(* control point change.                                                   *)
LEMMA QuietStep ==
  ASSUME NEW r \in Requests, FirstAttemptOnly(r), NothingShared, OwnWork(r),
         UNCHANGED <<workVars, file>>
  PROVE  FirstAttemptOnly(r)' /\ NothingShared' /\ OwnWork(r)'
  BY DEF workVars, FirstAttemptOnly, NothingShared, OwnWork, Damaged, OpenedOnlyBy

LEMMA OwnWorkKept ==
  ASSUME NEW r \in Requests, OwnWork(r), UNCHANGED <<work, file>>,
         \A h \in Hosts : call'[r][h] = "ok" => call[r][h] = "ok"
  PROVE  OwnWork(r)'
  BY DEF OwnWork, Damaged, OpenedOnlyBy

LEMMA ClearFollows ==
  ASSUME SessionInv, SessionInv', NEW r \in Requests, Undisturbed(r),
         ListCacheFiles(r) \/ DeleteCacheFile(r) \/ FinishClear(r)
  PROVE  Follows(r)
  <1> USE DEF SessionInv, SafetyInv, Undisturbed, Follows, Running, Finished, Answered,
              OwnDirectory, Goto
  <1>f. AllHosts \in Files /\ Hosts \subseteq Files
    BY DEF Files
  <1>1. CASE ListCacheFiles(r)
    <2>1. /\ pc[r] = "list" /\ pc'[r] = "clear" /\ UNCHANGED <<workVars, file>>
          /\ todo'[r] = {f \in Files : file[f].exists}
      BY <1>1 DEF ListCacheFiles, TypeOK
    <2>2. FirstAttemptOnly(r)' /\ NothingShared' /\ OwnWork(r)'
      BY <2>1, QuietStep
    <2> QED BY <2>1, <2>2 DEF OwnFiles, Gathering, Outcome
  <1>2. CASE FinishClear(r)
    <2>1. /\ pc[r] = "clear" /\ pc'[r] = "decide" /\ UNCHANGED <<workVars, file>>
          /\ todo[r] = {}
      BY <1>2 DEF FinishClear, TypeOK
    <2>2. FirstAttemptOnly(r)' /\ NothingShared' /\ OwnWork(r)'
      BY <2>1, QuietStep
    <2>3. \A f \in Files : ~file[f].exists /\ ~file'[f].exists
      BY <2>1 DEF OwnFiles
    <2>4. \A f \in Files : ~Damaged(f)'
      BY <2>3 DEF Damaged
    <2>5. OwnFiles(r)'
      BY <2>1, <2>3, <2>4, <1>f DEF OwnFiles
    <2> QED BY <2>1, <2>2, <2>5 DEF Gathering, Outcome
  <1>3. CASE DeleteCacheFile(r)
    <2>1. /\ pc[r] = "clear" /\ todo[r] = {f \in Files : file[f].exists}
          /\ UNCHANGED workVars
      BY <1>3 DEF DeleteCacheFile, OwnFiles
    <2>2. PICK f \in todo[r] : /\ file' = [file EXCEPT ![f] = Absent]
                               /\ todo' = [todo EXCEPT ![r] = @ \ {f}]
                               /\ UNCHANGED pc
      BY <1>3, <2>1 DEF DeleteCacheFile
    <2>3. f \in Files /\ file'[f] = Absent /\ \A g \in Files \ {f} : file'[g] = file[g]
      BY <2>1, <2>2 DEF TypeOK
    <2>4. todo'[r] = todo[r] \ {f}
      BY <2>2 DEF TypeOK
    <2>5. todo'[r] = {g \in Files : file'[g].exists}
      BY <2>1, <2>3, <2>4 DEF Absent
    <2>6. NothingShared'
      BY <2>1, <2>3 DEF NothingShared, Absent
    <2>7. FirstAttemptOnly(r)'
      BY <2>1 DEF FirstAttemptOnly, workVars
    <2>8. OwnWork(r)'
      <3>1. CallInv(r)' /\ pc'[r] = "clear"
        BY <2>1, <2>2
      <3>2. 1 \in Attempts
        BY SessionAssumption DEF Attempts
      <3> QED BY <3>1, <3>2 DEF CallInv, IdleUntilScattered, OwnWork
    <2> QED BY <2>1, <2>2, <2>5, <2>6, <2>7, <2>8 DEF OwnFiles, Gathering, Outcome
  <1> QED BY <1>1, <1>2, <1>3

LEMMA DispatchFollows ==
  ASSUME SessionInv, SessionInv', NEW r \in Requests, Undisturbed(r),
         Decide(r) \/ ProbeCache(r)
  PROVE  Follows(r)
  <1> USE DEF SessionInv, SafetyInv, Undisturbed, Follows, Running, Finished, Answered,
              OwnDirectory, Goto
  <1>f. AllHosts \in Files /\ Hosts \subseteq Files
    BY DEF Files
  <1>0. pc[r] \in {"decide", "probe"} /\ UNCHANGED <<hosts, fresh, acc, file, faults>>
    BY DEF Decide, ProbeCache
  <1>1. CASE pc'[r] \in {"local", "probe"} /\ UNCHANGED workVars
    <2>1. FirstAttemptOnly(r)' /\ NothingShared' /\ OwnWork(r)'
      BY <1>0, <1>1, QuietStep
    <2> QED BY <1>0, <1>1, <2>1, <1>f DEF OwnFiles, Gathering, Outcome, Damaged
  <1>2. CASE Scatter(r)
    <2>1. pc'[r] = "map"
      BY <1>2 DEF Scatter, TypeOK
    <2>2. /\ attempt' = attempt
          /\ \A h \in Hosts : call'[r][h] \in {"pending", "none"}
          /\ \A h \in Hosts, a \in Attempts :
               work'[r][h][a] = IF h \in hosts[r] /\ a = 1 THEN "check" ELSE "idle"
      BY <1>2 DEF Scatter, TypeOK
    <2>3. \A f \in Files : ~Damaged(f) /\ ~Damaged(f)'
      BY <1>0 DEF OwnFiles, Damaged
    <2>4. 1 \in Attempts
      BY SessionAssumption DEF Attempts
    <2>5. FirstAttemptOnly(r)'
      BY <2>2 DEF FirstAttemptOnly
    <2>6. OwnWork(r)'
      BY <2>2, <2>3, <2>4, <1>f DEF OwnWork
    <2>7. NothingShared'
      BY <1>0 DEF NothingShared
    <2>8. OwnFiles(r)'
      BY <1>0, <2>1, <2>3, <1>f DEF OwnFiles
    <2> QED BY <2>1, <2>5, <2>6, <2>7, <2>8 DEF Gathering, Outcome
  <1>3. Scatter(r) \/ (pc'[r] \in {"local", "probe"} /\ UNCHANGED workVars)
    BY <1>0 DEF Decide, ProbeCache, TypeOK
  <1> QED BY <1>1, <1>2, <1>3

LEMMA JoinFollows ==
  ASSUME SessionInv, SessionInv', NEW r \in Requests, Undisturbed(r), JoinCalls(r)
  PROVE  Follows(r)
  <1> USE DEF SessionInv, SafetyInv, Undisturbed, Follows, Running, Finished, Answered,
              OwnDirectory, Goto
  <1>1. /\ pc[r] = "map" /\ UNCHANGED <<hosts, fresh, workVars, file, faults>>
        /\ \A h \in hosts[r] : call[r][h] # "pending"
    BY DEF JoinCalls
  <1>2. FirstAttemptOnly(r)' /\ NothingShared' /\ OwnWork(r)'
    BY <1>1, QuietStep
  <1>3. CASE pc'[r] = "reduce" /\ todo'[r] = hosts[r]
    BY <1>1, <1>2, <1>3 DEF OwnFiles, Gathering, Outcome, Damaged
  <1>4. CASE pc'[r] \in {"local", "error"} /\ \E h \in hosts[r] : call[r][h] # "ok"
    <2>1. PICK h \in hosts[r] : call[r][h] # "ok"
      BY <1>4
    <2>2. h \in Hosts
      BY DEF TypeOK
    <2>3. call[r][h] \in {"err", "invalid"}
      BY <1>1, <2>1, <2>2 DEF CallInv, CallsOfMap, TypeOK, CallStates
    <2>4. call'[r][h] \in {"err", "invalid"}
      BY <1>1, <2>3 DEF workVars
    <2> QED BY <1>1, <1>2, <1>4, <2>2, <2>4 DEF OwnFiles, Gathering, Outcome, Damaged
  <1>5. \/ pc'[r] = "reduce" /\ todo'[r] = hosts[r]
        \/ pc'[r] \in {"local", "error"} /\ \E h \in hosts[r] : call[r][h] # "ok"
    BY DEF JoinCalls, FailWith, TypeOK
  <1> QED BY <1>3, <1>4, <1>5

LEMMA ReduceFollows ==
  ASSUME SessionInv, SessionInv', NEW r \in Requests, Undisturbed(r),
         ReduceReadFile(r) \/ ReduceCombine(r) \/ ReduceClose(r) \/ ReduceWriteFails(r)
  PROVE  Follows(r)
  <1> USE DEF SessionInv, SafetyInv, Undisturbed, Follows, Running, Finished, Answered,
              OwnDirectory, Goto
  <1>f. AllHosts \in Files /\ AllHosts \notin Hosts /\ Hosts \subseteq Files
    BY SessionAssumption DEF Files
  <1>0. /\ pc[r] \in {"reduce", "write"} /\ UNCHANGED <<hosts, fresh, workVars>>
        /\ Alone(r) /\ FirstAttemptOnly(r)'
    BY DEF ReduceReadFile, ReduceCombine, ReduceClose, ReduceWriteFails,
           FirstAttemptOnly, workVars
  <1>h. hosts[r] # {}
    BY <1>0 DEF CallInv, SelectsHosts
  <1>w. ASSUME \A h \in Hosts : file'[h] = file[h] PROVE OwnWork(r)'
    BY <1>0, <1>w DEF OwnWork, Damaged, OpenedOnlyBy, workVars
  <1>s. ASSUME \A h \in Hosts : file'[h] = file[h], ~file'[AllHosts].shared
        PROVE  NothingShared'
    BY <1>0, <1>s DEF NothingShared, Files
  <1>1. CASE ReduceReadFile(r)
    <2>1. pc[r] = "reduce" /\ UNCHANGED <<file, faults>>
      BY <1>1 DEF ReduceReadFile
    <2>2. todo[r] \subseteq hosts[r] /\ hosts[r] \subseteq Hosts
      BY <2>1 DEF GathersOwnHosts, TypeOK
    <2>3. \A h \in todo[r] : /\ file[h].exists /\ file[h].writers = {}
                             /\ file[h].data = {h}
      BY <2>1, <2>2 DEF ReduceHasEveryHost, OwnWork, Damaged, HostFilesHoldTheirHost
    <2>4. PICK h \in todo[r], c \in SUBSET Hosts :
            /\ CanRead(h, c)
            /\ acc' = [acc EXCEPT ![r] = @ \cup c]
            /\ todo' = [todo EXCEPT ![r] = @ \ {h}]
            /\ UNCHANGED pc
      BY <1>1, <2>3 DEF ReduceReadFile, CanFailToRead
    <2>5. c = {h}
      BY <2>3, <2>4 DEF CanRead
    <2>6. acc'[r] = acc[r] \cup {h} /\ todo'[r] = todo[r] \ {h}
      BY <2>4, <2>5 DEF TypeOK
    <2>7. Gathering(r)'
      BY <1>0, <2>1, <2>4, <2>6 DEF Gathering
    <2>8. OwnWork(r)' /\ NothingShared'
      BY <2>1, QuietStep, <1>0
    <2> QED BY <1>0, <2>1, <2>4, <2>7, <2>8 DEF OwnFiles, Outcome, Damaged
  <1>2. CASE ReduceCombine(r)
    <2>1. /\ pc[r] = "reduce" /\ todo[r] = {} /\ pc'[r] = "write" /\ acc'[r] = acc[r]
          /\ file' = OpenedFile(AllHosts, <<r, 0>>)
      BY <1>2 DEF ReduceCombine, TypeOK
    <2>2. acc[r] = hosts[r]
      BY <2>1 DEF GathersOwnHosts, Gathering
    <2>3. file[AllHosts].writers = {}
      BY <1>0, <2>1, NobodyWrites
    <2>4. /\ \A h \in Hosts : file'[h] = file[h]
          /\ file'[AllHosts].exists /\ file'[AllHosts].writers = {<<r, 0>>}
          /\ ~file'[AllHosts].shared
      BY <2>1, <2>3, <1>f, OpenWriters, WriterTypes
    <2>5. OwnWork(r)' /\ NothingShared'
      BY <2>4, <1>w, <1>s
    <2> QED BY <1>0, <2>1, <2>2, <2>4, <2>5
            DEF OwnFiles, OpenedOnlyBy, Gathering, Outcome
  <1>3. CASE ReduceClose(r)
    <2>1. /\ pc[r] = "write" /\ CloseFile(AllHosts, <<r, 0>>, acc[r])
          /\ UNCHANGED acc /\ acc[r] \in SUBSET Hosts
      BY <1>3 DEF ReduceClose, TypeOK
    <2>2. OpenedOnlyBy(AllHosts, <<r, 0>>) /\ acc[r] = hosts[r]
      BY <2>1 DEF OwnFiles, Gathering
    <2>3. /\ \A h \in Hosts : file'[h] = file[h]
          /\ file'[AllHosts].exists /\ file'[AllHosts].writers = {}
          /\ ~file'[AllHosts].shared /\ file'[AllHosts].data = hosts[r]
      BY <2>1, <2>2, <1>f, SoleClose, WriterTypes
    <2>4. OwnWork(r)' /\ NothingShared'
      BY <2>3, <1>w, <1>s
    <2>5. pc'[r] = "reduced" \/ (pc'[r] \in {"local", "error"} /\ faults' > 0)
      BY <1>3 DEF ReduceClose, FailWith, Fault, TypeOK
    <2> QED BY <1>0, <1>h, <2>1, <2>2, <2>3, <2>4, <2>5
            DEF OwnFiles, Damaged, Gathering, Outcome
  <1>4. CASE ReduceWriteFails(r)
    <2>1. pc'[r] = "error" /\ faults' > 0
      BY <1>4 DEF ReduceWriteFails, Fault, TypeOK
    <2> QED BY <1>0, <2>1 DEF Outcome
  <1> QED BY <1>1, <1>2, <1>3, <1>4

LEMMA LocalFollows ==
  ASSUME SessionInv, SessionInv', NEW r \in Requests, Undisturbed(r),
         \/ LocalCheckCache(r) \/ LocalReadCache(r) \/ LocalConvert(r) \/ LocalClose(r)
         \/ LocalConvertFails(r)
  PROVE  Follows(r)
  <1> USE DEF SessionInv, SafetyInv, Undisturbed, Follows, Running, Finished, Answered,
              OwnDirectory, Goto
  <1>f. AllHosts \in Files /\ AllHosts \notin Hosts /\ Hosts \subseteq Files
    BY SessionAssumption DEF Files
  <1>0. /\ pc[r] \in {"local", "read", "convert", "save"}
        /\ UNCHANGED <<hosts, fresh, workVars>>
        /\ Alone(r) /\ FirstAttemptOnly(r)'
    BY DEF LocalCheckCache, LocalReadCache, LocalConvert, LocalClose, LocalConvertFails,
           FirstAttemptOnly, workVars
  <1>1. CASE LocalCheckCache(r)
    <2>1. /\ pc[r] = "local" /\ UNCHANGED <<file, acc, faults>>
          /\ pc'[r] = IF file[AllHosts].exists THEN "read" ELSE "convert"
      BY <1>1 DEF LocalCheckCache, TypeOK
    <2>2. OwnWork(r)' /\ NothingShared'
      BY <2>1, QuietStep, <1>0
    <2> QED BY <1>0, <2>1, <2>2 DEF OwnFiles, Damaged, Gathering, Outcome
  <1>2. CASE LocalReadCache(r)
    <2>1. /\ pc[r] = "read" /\ ~CanFailToRead(AllHosts)
      BY <1>2 DEF LocalReadCache, OwnFiles, CanFailToRead, Damaged
    <2>2. PICK c \in SUBSET Hosts : /\ CanRead(AllHosts, c)
                                    /\ acc' = [acc EXCEPT ![r] = c]
                                    /\ pc' = [pc EXCEPT ![r] = "cached"]
      BY <1>2, <2>1 DEF LocalReadCache
    <2>3. c = file[AllHosts].data
      BY <2>1, <2>2 DEF CanRead, CanFailToRead
    <2>4. fresh[r] => acc'[r] = hosts[r]
      BY <2>1, <2>2, <2>3 DEF OwnFiles, CanFailToRead, TypeOK
    <2>5. pc'[r] = "cached"
      BY <2>2 DEF TypeOK
    <2> QED BY <1>0, <2>4, <2>5 DEF Outcome
  <1>3. CASE LocalConvert(r)
    <2>1. /\ pc[r] = "convert" /\ pc'[r] = "save" /\ file' = OpenedFile(AllHosts, <<r, 0>>)
      BY <1>3 DEF LocalConvert, TypeOK
    <2>2. file[AllHosts].writers = {}
      BY <1>0, <2>1, NobodyWrites
    <2>3. /\ \A h \in Hosts : file'[h] = file[h]
          /\ file'[AllHosts].exists /\ file'[AllHosts].writers = {<<r, 0>>}
          /\ ~file'[AllHosts].shared
      BY <2>1, <2>2, <1>f, OpenWriters, WriterTypes
    <2>4. OwnWork(r)'
      BY <1>0, <2>1, <2>3 DEF OwnWork, Damaged, OpenedOnlyBy, workVars
    <2>5. NothingShared'
      BY <2>1, <2>3 DEF NothingShared, Files
    <2> QED BY <1>0, <2>1, <2>3, <2>4, <2>5
            DEF OwnFiles, OpenedOnlyBy, Gathering, Outcome
  <1>4. CASE LocalClose(r)
    <2>1. pc[r] = "save" /\ pc'[r] = "converted" /\ UNCHANGED acc
      BY <1>4 DEF LocalClose, TypeOK
    <2>2. acc[r] = hosts[r]
      BY <2>1 DEF GathersOwnHosts
    <2> QED BY <1>0, <2>1, <2>2 DEF Outcome
  <1>5. CASE LocalConvertFails(r)
    <2>1. /\ pc[r] = "convert" /\ pc'[r] \in {"local", "error"} /\ UNCHANGED file
          /\ faults' > 0
      BY <1>5 DEF LocalConvertFails, FailWith, Fault, TypeOK
    <2>2. OwnWork(r)' /\ NothingShared'
      BY <2>1, QuietStep, <1>0
    <2> QED BY <1>0, <2>1, <2>2 DEF OwnFiles, Damaged, Gathering, Outcome
  <1> QED BY <1>1, <1>2, <1>3, <1>4, <1>5

(* A worker's step, or a failing call, of an undisturbed request.          *)
LEMMA CallFollows ==
  ASSUME SessionInv, SessionInv', NEW r \in Requests, Undisturbed(r),
         NEW h \in Hosts,
         CallFails(r, h) \/ \E a \in Attempts : MapStep(r, h, a) \/ MapFault(r, h, a)
  PROVE  Follows(r)
  <1> USE DEF SessionInv, SafetyInv
  <1>f. AllHosts \in Files /\ AllHosts \notin Hosts /\ Hosts \subseteq Files
    BY SessionAssumption DEF Files
  <1>a. 1 \in Attempts /\ \A a \in Attempts : <<r, a>> \in Writers
    BY SessionAssumption, WriterTypes DEF Attempts
  <1>p. CallProgress(r, h) /\ UNCHANGED reqVars
    BY CallProgressLemma DEF CallProgress
  <1>1. FirstAttemptOnly(r)'
    BY <1>p DEF Undisturbed, FirstAttemptOnly, CallProgress
  <1>2. Outcome(r)'
    <2>1. faults' >= faults /\ faults \in Nat /\ faults' \in Nat
      <3>1. StepOf(r)
        BY DEF StepOf, CallFault
      <3> QED BY <3>1, OthersUntouched DEF TypeOK
    <2> QED BY <1>p, <2>1 DEF Undisturbed, Outcome, CallProgress, reqVars
  <1>3. pc[r] \notin {"idle", "list", "clear", "decide", "probe"} /\ pc'[r] = pc[r]
    BY <1>p DEF CallProgress, CallInv, IdleUntilScattered, reqVars
  <1>4. ASSUME Running(r) PROVE OwnDirectory(r)'
    <2>0. Alone(r) /\ FirstAttemptOnly(r) /\ NothingShared /\ OwnWork(r) /\ OwnFiles(r)
          /\ Gathering(r)
      BY <1>4 DEF Undisturbed, OwnDirectory
    <2>1. Gathering(r)'
      BY <1>p, <2>0 DEF Gathering, reqVars
    <2>2. ASSUME \A f \in Files \ {h} : file'[f] = file[f], ~file'[h].shared
          PROVE  OwnFiles(r)' /\ NothingShared'
      BY <1>p, <1>f, <1>3, <2>0, <2>2
         DEF OwnFiles, NothingShared, OpenedOnlyBy, Damaged, reqVars
    <2>3. ASSUME NEW w \in WorkStates, SetWork(r, h, 1, w),
                 \A g \in Hosts \ {h} : file'[g] = file[g] /\ call'[r][g] = call[r][g],
                 w = "write" => OpenedOnlyBy(h, <<r, 1>>)',
                 w = "check" => ~Damaged(h)',
                 call'[r][h] = "ok" => file'[h].exists /\ ~Damaged(h)' /\ w = "idle"
          PROVE  OwnWork(r)'
      <3> SUFFICES ASSUME NEW g \in Hosts PROVE OwnWork(r)!(g)'
        BY DEF OwnWork
      <3>1. CASE g = h
        <4>1. work'[r][h][1] = w
          BY <2>3, <1>a, SetWorkLemma
        <4> QED BY <2>3, <3>1, <4>1
      <3>2. CASE g # h
        <4>1. /\ work'[r][g][1] = work[r][g][1] /\ file'[g] = file[g]
              /\ call'[r][g] = call[r][g]
          BY <2>3, <3>2, <1>a, SetWorkLemma
        <4> QED BY <2>0, <4>1 DEF OwnWork, OpenedOnlyBy, Damaged
      <3> QED BY <3>1, <3>2
    <2>4. CASE CallFails(r, h)
      <3>1. /\ UNCHANGED file /\ call' = [call EXCEPT ![r][h] = "err"]
            /\ \/ UNCHANGED work
               \/ SetWork(r, h, 1, "idle")
        BY <2>0, <2>4 DEF CallFails, FirstAttemptOnly
      <3>2. OwnFiles(r)' /\ NothingShared'
        BY <3>1, <2>0, <2>2, <1>f DEF NothingShared
      <3>3. /\ \A g \in Hosts \ {h} : file'[g] = file[g] /\ call'[r][g] = call[r][g]
            /\ call'[r][h] = "err"
        BY <3>1, <1>f DEF TypeOK
      <3>4. OwnWork(r)'
        <4>1. CASE UNCHANGED work
          BY <3>1, <3>3, <4>1, <2>0, OwnWorkKept
        <4>2. CASE SetWork(r, h, 1, "idle")
          BY <3>3, <4>2, <2>3 DEF WorkStates
        <4> QED BY <3>1, <4>1, <4>2
      <3> QED BY <2>1, <3>2, <3>4 DEF OwnDirectory
    <2>5. ASSUME NEW a \in Attempts, MapStep(r, h, a) \/ MapFault(r, h, a)
          PROVE  a = 1 /\ work[r][h][1] # "idle" /\ call[r][h] # "ok"
      <3>1. work[r][h][a] # "idle"
        BY <2>5 DEF MapStep, MapCheckCache, MapConvert, MapCloseFile, MapFault,
                    MapFails, WorkerCrash
      <3>2. a = 1
        BY <2>0, <3>1 DEF FirstAttemptOnly
      <3> QED BY <2>0, <3>1, <3>2 DEF OwnWork
    <2>6. ASSUME MapCheckCache(r, h, 1) PROVE OwnDirectory(r)'
      <3>1. /\ UNCHANGED file /\ work[r][h][1] = "check" /\ ~Damaged(h)
            /\ \/ /\ file[h].exists /\ SetWork(r, h, 1, "idle") /\ Respond(r, h, 1, "ok")
               \/ SetWork(r, h, 1, "convert") /\ UNCHANGED call
        BY <2>0, <2>6 DEF MapCheckCache, OwnWork
      <3>2. OwnFiles(r)' /\ NothingShared'
        BY <3>1, <2>0, <2>2, <1>f DEF NothingShared
      <3>3. ~Damaged(h)' /\ \A g \in Hosts \ {h} : file'[g] = file[g]
        BY <3>1, <1>f DEF Damaged
      <3>4. CASE file[h].exists /\ SetWork(r, h, 1, "idle") /\ Respond(r, h, 1, "ok")
        <4>1. \A g \in Hosts \ {h} : call'[r][g] = call[r][g]
          BY <3>4, <1>a, RespondLemma
        <4>2. OwnWork(r)'
          BY <3>1, <3>3, <3>4, <4>1, <2>3 DEF WorkStates
        <4> QED BY <2>1, <3>2, <4>2 DEF OwnDirectory
      <3>5. CASE SetWork(r, h, 1, "convert") /\ UNCHANGED call
        <4>1. call[r][h] # "ok"
          BY <3>1, <2>0 DEF OwnWork
        <4>2. OwnWork(r)'
          BY <3>3, <3>5, <4>1, <2>3 DEF WorkStates
        <4> QED BY <2>1, <3>2, <4>2 DEF OwnDirectory
      <3> QED BY <3>1, <3>4, <3>5
    <2>7. ASSUME MapConvert(r, h, 1) PROVE OwnDirectory(r)'
      <3>1. /\ work[r][h][1] = "convert" /\ SetWork(r, h, 1, "write") /\ UNCHANGED call
            /\ file' = OpenedFile(h, <<r, 1>>)
        BY <2>7 DEF MapConvert
      <3>2. file[h].writers = {} /\ call[r][h] # "ok"
        BY <2>0, <3>1, NobodyWrites DEF OwnWork
      <3>3. /\ \A f \in Files \ {h} : file'[f] = file[f]
            /\ OpenedOnlyBy(h, <<r, 1>>)'
        BY <3>1, <3>2, <1>f, <1>a, OpenWriters DEF OpenedOnlyBy
      <3>4. OwnFiles(r)' /\ NothingShared'
        BY <3>3, <2>2 DEF OpenedOnlyBy
      <3>5. OwnWork(r)'
        BY <3>1, <3>2, <3>3, <1>f, <2>3 DEF WorkStates
      <3> QED BY <2>1, <3>4, <3>5 DEF OwnDirectory
    <2>8. ASSUME MapCloseFile(r, h, 1) PROVE OwnDirectory(r)'
      <3>1. /\ work[r][h][1] = "write" /\ SetWork(r, h, 1, "idle")
            /\ CloseFile(h, <<r, 1>>, {h}) /\ Respond(r, h, 1, "ok")
        BY <2>8 DEF MapCloseFile
      <3>2. OpenedOnlyBy(h, <<r, 1>>)
        BY <2>0, <3>1 DEF OwnWork
      <3>3. /\ \A f \in Files \ {h} : file'[f] = file[f]
            /\ file'[h].exists /\ file'[h].writers = {} /\ ~file'[h].shared
            /\ file'[h].data = {h}
        BY <3>1, <3>2, <1>f, <1>a, SoleClose
      <3>4. OwnFiles(r)' /\ NothingShared'
        BY <3>3, <2>2
      <3>5. \A g \in Hosts \ {h} : call'[r][g] = call[r][g]
        BY <3>1, <1>a, RespondLemma
      <3>6. ~Damaged(h)'
        BY <3>3 DEF Damaged
      <3>7. OwnWork(r)'
        BY <3>1, <3>3, <3>5, <3>6, <1>f, <2>3 DEF WorkStates
      <3> QED BY <2>1, <3>4, <3>7 DEF OwnDirectory
    <2>9. ASSUME MapFault(r, h, 1), call[r][h] # "ok" PROVE OwnDirectory(r)'
      <3>1. /\ SetWork(r, h, 1, "idle")
            /\ \/ work[r][h][1] = "write" /\ AbandonFile(h, <<r, 1>>)
               \/ UNCHANGED file
            /\ \/ UNCHANGED call
               \/ \E s \in {"invalid", "err", "pending"} : Respond(r, h, 1, s)
        BY <2>9 DEF MapFault, MapFails, WorkerCrash
      <3>2. /\ \A f \in Files \ {h} : file'[f] = file[f]
            /\ ~file'[h].shared
        <4>1. CASE UNCHANGED file
          BY <4>1, <2>0, <1>f DEF NothingShared
        <4>2. CASE work[r][h][1] = "write" /\ AbandonFile(h, <<r, 1>>)
          <5>1. OpenedOnlyBy(h, <<r, 1>>) /\ {h} \in SUBSET Hosts
            BY <4>2, <2>0 DEF OwnWork
          <5> QED BY <4>2, <5>1, <1>f, <1>a, SoleClose
        <4> QED BY <3>1, <4>1, <4>2
      <3>3. OwnFiles(r)' /\ NothingShared'
        BY <3>2, <2>2
      <3>4. call'[r][h] # "ok" /\ \A g \in Hosts \ {h} : call'[r][g] = call[r][g]
        BY <3>1, <2>9, <1>a, RespondLemma
      <3>5. OwnWork(r)'
        BY <3>1, <3>2, <3>4, <1>f, <2>3 DEF WorkStates
      <3> QED BY <2>1, <3>3, <3>5 DEF OwnDirectory
    <2> QED BY <2>4, <2>5, <2>6, <2>7, <2>8, <2>9 DEF MapStep
  <1>5. Running(r)' => Running(r)
    BY <1>3 DEF Running
  <1> QED BY <1>1, <1>2, <1>3, <1>4, <1>5 DEF Follows

(* What is true of an undisturbed request, while it runs and once it has   *)
(* its answer, is inductive: it took the directory clean or cleared it,    *)
(* and until another request starts only its own steps change anything.    *)
THEOREM UndisturbedSafety == Spec => []UndisturbedInv
  <1>1. Init => UndisturbedInv
    BY DEF Init, UndisturbedInv
  <1>2. ASSUME SessionInv, SessionInv', UndisturbedInv, NEW r \in Requests, StepOf(r),
               NEW q \in Requests, clean'[q]
        PROVE  Undisturbed(q)'
    <2> USE DEF SessionInv, SafetyInv
    <2>0. /\ \A o \in Requests \ {r} : Untouched(o)
          /\ faults' >= faults /\ faults' \in Nat
      BY <1>2, OthersUntouched DEF TypeOK
    <2>1. CASE Start(r) /\ q = r
      <3>1. PICK f \in BOOLEAN :
              /\ fresh' = [fresh EXCEPT ![r] = f]
              /\ pc' = [pc EXCEPT ![r] = IF f THEN "list" ELSE "decide"]
              /\ clean' = [o \in Requests |->
                   IF o = r
                   THEN /\ \A p \in Others(r) : ~Running(p) /\ ~Working(p)
                        /\ f \/ \A g \in Files : ~Damaged(g)
                   ELSE clean[o] /\ ~Running(o)]
        BY <2>1 DEF Start, Goto
      <3>2. pc[r] = "idle" /\ UNCHANGED <<workVars, file>>
        BY <2>1 DEF Start
      <3>3. /\ Alone(r) /\ (f \/ \A g \in Files : ~Damaged(g))
        BY <1>2, <2>1, <3>1 DEF Alone
      <3>4. /\ pc'[r] = IF f THEN "list" ELSE "decide"
            /\ fresh'[r] = f
        BY <1>2, <3>1 DEF TypeOK
      <3>5. 1 \in Attempts
        BY SessionAssumption DEF Attempts
      <3>6. CallInv(r)
        BY <1>2
      <3>7. FirstAttemptOnly(r) /\ OwnWork(r)
        BY <3>2, <3>5, <3>6 DEF CallInv, IdleUntilScattered, FirstAttemptOnly, OwnWork
      <3>8. NothingShared
        <4>1. /\ file[AllHosts].writers = {}
              /\ \A h \in Hosts : file[h].writers = {}
          BY <1>2, <3>2, <3>3, <3>5, <3>6, <3>7, NobodyWrites DEF CallInv, IdleUntilScattered
        <4> QED BY <1>2, <4>1 DEF SharedWhileOpen, NothingShared, Files
      <3>9. FirstAttemptOnly(r)' /\ OwnWork(r)' /\ NothingShared'
        BY <3>2, <3>7, <3>8, QuietStep
      <3>10. Alone(r)'
        BY <2>0, <3>3 DEF Alone, Others, Untouched, Running, Working
      <3>11. OwnFiles(r)'
        BY <3>2, <3>3, <3>4 DEF OwnFiles, Damaged, Files
      <3> QED BY <2>1, <3>4, <3>9, <3>10, <3>11
              DEF Undisturbed, OwnDirectory, Gathering, Outcome, Answered
    <2>2. CASE Start(r) /\ q # r
      <3>1. clean[q] /\ ~Running(q)
        BY <1>2, <2>2 DEF Start
      <3> QED BY <1>2, <2>0, <2>2, <3>1, OutcomeStands DEF UndisturbedInv
    <2>3. CASE ~Start(r) /\ q # r
      <3>1. clean[q] /\ Undisturbed(q)
        BY <1>2, <2>0, <2>3 DEF UndisturbedInv, Untouched
      <3>2. ~Running(q)
        BY <1>2, <2>3, <3>1, OneRuns DEF Undisturbed
      <3> QED BY <1>2, <2>0, <2>3, <3>1, <3>2, OutcomeStands
    <2>4. CASE ~Start(r) /\ q = r
      <3>1. clean[r] /\ \A h \in Hosts : ~CallRetried(r, h)
        <4>1. ASSUME NEW h \in Hosts, CallRetried(r, h) PROVE FALSE
          BY <1>2, <2>4, <4>1 DEF CallRetried, TypeOK
        <4>2. UNCHANGED clean
          BY <1>2, <2>4, <4>1
             DEF StepOf, RequestStep, ListCacheFiles, DeleteCacheFile, FinishClear,
                 Decide, ProbeCache, JoinCalls, ReduceReadFile, ReduceCombine,
                 ReduceClose, LocalCheckCache, LocalReadCache, LocalConvert, LocalClose,
                 RequestFault, ReduceWriteFails, LocalConvertFails, CallFault, CallFails,
                 MapStep, MapCheckCache, MapConvert, MapCloseFile, MapFault, MapFails,
                 WorkerCrash
        <4> QED BY <1>2, <2>4, <4>1, <4>2
      <3>2. Undisturbed(r)
        BY <1>2, <3>1 DEF UndisturbedInv
      <3>3. Follows(r)
        BY <1>2, <2>4, <3>1, <3>2, ClearFollows, DispatchFollows, JoinFollows,
           ReduceFollows, LocalFollows, CallFollows
           DEF StepOf, RequestStep, RequestFault, CallFault
      <3>4. Running(r)' => Running(r)
        BY <1>2, <2>4, StaysFinished
      <3>5. Alone(r) => Alone(r)'
        BY <2>0 DEF Alone, Others, Untouched, Running, Working
      <3> QED BY <2>4, <3>2, <3>3, <3>4, <3>5 DEF Follows, Undisturbed
    <2> QED BY <2>1, <2>2, <2>3, <2>4
  <1>3. SessionInv /\ SessionInv' /\ UndisturbedInv /\ [Next]_vars => UndisturbedInv'
    <2>1. UndisturbedInv /\ UNCHANGED vars => UndisturbedInv'
      BY DEF UndisturbedInv, Undisturbed, FirstAttemptOnly, Outcome, Running, Alone,
             Working, OwnDirectory, NothingShared, OwnWork, OwnFiles, Gathering,
             Damaged, OpenedOnlyBy, vars, reqVars, workVars
    <2> QED BY <1>2, <2>1 DEF Next, StepOf, UndisturbedInv
  <1> QED BY <1>1, <1>3, SessionSafety, PTL DEF Spec

(* The answer of an undisturbed request that reduced the per-host files or *)
(* refreshed the cache holds every selected host and no other.             *)
THEOREM AnswerComplete == Spec => []UndisturbedAnswerIsComplete
  <1>1. UndisturbedInv => UndisturbedAnswerIsComplete
    BY DEF UndisturbedInv, Undisturbed, Outcome, UndisturbedAnswerIsComplete
  <1> QED BY <1>1, UndisturbedSafety, PTL

(* An undisturbed request never fails on its own files: some write,        *)
(* conversion or call failed.                                              *)
THEOREM ErrorHasCause == Spec => []UndisturbedErrorHasCause
  <1>1. UndisturbedInv => UndisturbedErrorHasCause
    BY DEF UndisturbedInv, Undisturbed, Outcome, UndisturbedErrorHasCause
  <1> QED BY <1>1, UndisturbedSafety, PTL
=============================================================================
