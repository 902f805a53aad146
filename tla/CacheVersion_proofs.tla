------------------------- MODULE CacheVersion_proofs -------------------------
(* Proofs about CacheVersion: an old cache that is marked as current, and  *)
(* an old answer, always have one of the named causes, for any tools, any  *)
(* jobs and any number of upgrades.                                        *)
EXTENDS CacheVersion, TLAPS

NoOldCache == \A c \in Cleared : ~Old(c)

(* A request that obeyed the flag and is past its clear. *)
HasCleared(j) ==
  /\ ~task[j] /\ ~saved[j] /\ tool[j] \notin Forgetful
  /\ pc[j] \in {"lookup", "read", "compute", "open", "stamp"}

(* A request that found the version file current. *)
Trusts(j) == ~task[j] /\ saved[j] /\ pc[j] \in {"lookup", "read", "compute"}

(* What a job knows of the caches at each point. *)
JobInv(j) ==
  /\ pc[j] = "delete" => \A c \in Cleared : Old(c) => c \in todo[j]
  /\ HasCleared(j) => NoOldCache
  /\ Trusts(j) => blame # {} \/ NoOldCache
  /\ pc[j] \in {"list", "delete"} =>
       ~task[j] /\ ~saved[j] /\ tool[j] \notin Forgetful
  /\ pc[j] \in {"open", "stamp"} => task[j] \/ ~saved[j]
  /\ pc[j] = "next" => task[j]
  /\ pc[j] = "idle" => ~task[j]

(* The strengthening.  An old cache cannot appear while the plugin runs,   *)
(* so what a job has made sure of stays true whatever the others do.       *)
CacheInv ==
  /\ TypeOK
  /\ OldCacheMarkedHasCause
  /\ \A j \in Jobs : JobInv(j)

-----------------------------------------------------------------------------
(* Versions, and None, are integers. *)
LEMMA VersionIsInt ==
  ASSUME NEW v \in Versions \cup {None}
  PROVE  v \in Int
<1>1. CASE v \in Versions
  BY <1>1, CacheAssumption
<1>2. CASE v = None
  BY <1>2 DEF None
<1> QED
  BY <1>1, <1>2

(* Each variable keeps to its values. *)
THEOREM CacheTyping == Spec => []TypeOK
<1> USE CacheAssumption DEF None
<1>1. Init => TypeOK
  <2> SUFFICES ASSUME Init PROVE TypeOK
    OBVIOUS
  <2>1. tool \in [Jobs -> Tools]
    <3> DEFINE any == CHOOSE t \in Tools : TRUE
    <3>1. any \in Tools
      OBVIOUS
    <3>2. tool = [j \in Jobs |-> any]
      BY DEF Init
    <3> HIDE DEF any
    <3> QED
      BY <3>1, <3>2
  <2>2. plugin \in Versions /\ versionFile <= plugin
    BY DEF Init
  <2>3. cache \in [Caches -> Versions \cup {None}] /\ \A c \in Caches : cache[c] <= plugin
    BY <2>2 DEF Init
  <2>4. /\ pc \in [Jobs -> PC] /\ task \in [Jobs -> BOOLEAN]
        /\ saved \in [Jobs -> BOOLEAN] /\ todo \in [Jobs -> SUBSET Cleared]
        /\ rest \in [Jobs -> SUBSET Tools]
        /\ answer \in [Jobs -> Versions \cup {None}]
    BY DEF Init, PC
  <2>5. blame \subseteq Causes /\ faults \in 0..MaxFaults
    BY DEF Init
  <2> QED
    BY <2>1, <2>2, <2>3, <2>4, <2>5 DEF TypeOK, Init
<1>2. TypeOK /\ [Next]_vars => TypeOK'
  <2> SUFFICES ASSUME TypeOK, [Next]_vars PROVE TypeOK'
    OBVIOUS
  <2> USE DEF TypeOK, Goto, PC, Ended, Causes, Fault
  <2>1. ASSUME NEW j \in Jobs, StartRequest(j) PROVE TypeOK'
    BY <2>1 DEF StartRequest
  <2>2. ASSUME NEW j \in Jobs, ListCacheFiles(j) PROVE TypeOK'
    BY <2>2 DEF ListCacheFiles
  <2>3. ASSUME NEW j \in Jobs, DeleteCacheFile(j) PROVE TypeOK'
    BY <2>3 DEF DeleteCacheFile
  <2>4. ASSUME NEW j \in Jobs, CannotDelete(j) PROVE TypeOK'
    BY <2>4 DEF CannotDelete
  <2>5. ASSUME NEW j \in Jobs, FinishClear(j) PROVE TypeOK'
    BY <2>5 DEF FinishClear
  <2>6. ASSUME NEW j \in Jobs, LookUp(j) PROVE TypeOK'
    BY <2>6 DEF LookUp
  <2>7. ASSUME NEW j \in Jobs, ReadCache(j) PROVE TypeOK'
    BY <2>7 DEF ReadCache, AfterConversion
  <2>8. ASSUME NEW j \in Jobs, Compute(j) PROVE TypeOK'
    BY <2>8 DEF Compute, AfterConversion
  <2>9. ASSUME NEW j \in Jobs, ConversionFails(j) PROVE TypeOK'
    BY <2>9 DEF ConversionFails, AfterConversion
  <2>10. ASSUME NEW j \in Jobs, OpenVersionFile(j) PROVE TypeOK'
    BY <2>10 DEF OpenVersionFile
  <2>11. ASSUME NEW j \in Jobs, WriteVersionFile(j) PROVE TypeOK'
    BY <2>11 DEF WriteVersionFile, AfterStamp
  <2>12. ASSUME NEW j \in Jobs, CannotWriteVersion(j) PROVE TypeOK'
    BY <2>12 DEF CannotWriteVersion, AfterStamp
  <2>13. ASSUME NEW j \in Jobs, StartTask(j) PROVE TypeOK'
    BY <2>13 DEF StartTask
  <2>14. ASSUME NEW j \in Jobs, NextTool(j) PROVE TypeOK'
    BY <2>14 DEF NextTool
  <2>15. CASE Restart
    <3>1. PICK v \in Versions :
            /\ v >= plugin
            /\ plugin' = v
            /\ blame' = IF v = plugin THEN blame
                        ELSE IF versionFile = None \/ TextBefore(versionFile, v)
                        THEN {} ELSE {"text"}
      BY <2>15 DEF Restart
    <3>2. blame' \subseteq Causes
      BY <3>1
    <3>3. versionFile' <= plugin' /\ \A c \in Caches : cache'[c] <= plugin'
      <4>1. plugin \in Int /\ v \in Int /\ versionFile \in Int
        OBVIOUS
      <4>2. \A c \in Caches : cache[c] \in Int /\ cache[c] <= plugin
        <5> TAKE c \in Caches
        <5>1. cache[c] \in Versions \cup {None}
          OBVIOUS
        <5>2. cache[c] <= plugin
          OBVIOUS
        <5>3. cache[c] \in Int
          BY <5>1, VersionIsInt
        <5> QED
          BY <5>2, <5>3
      <4> QED
        BY <4>1, <4>2, <3>1, <2>15 DEF Restart
    <3> QED
      BY <3>1, <3>2, <3>3, <2>15 DEF Restart
  <2>16. CASE UNCHANGED vars
    BY <2>16 DEF vars, jobVars
  <2> QED
    BY <2>1, <2>2, <2>3, <2>4, <2>5, <2>6, <2>7, <2>8, <2>9, <2>10, <2>11,
       <2>12, <2>13, <2>14, <2>15, <2>16 DEF Next, RequestStep
<1> QED
  BY <1>1, <1>2, PTL DEF Spec

JobStep(j) == RequestStep(j) \/ StartTask(j) \/ NextTool(j)

(* What a step of job j leaves alone: the plugin and the other jobs.  No   *)
(* cache becomes old, for the step only deletes or writes the plugin's own *)
(* version; and a cause is forgotten only where no cache is old.           *)
Frame(j) ==
  /\ plugin' = plugin
  /\ \A c \in Cleared : Old(c)' => Old(c)
  /\ \A k \in Jobs \ {j} :
       /\ pc'[k] = pc[k] /\ task'[k] = task[k] /\ tool'[k] = tool[k]
       /\ saved'[k] = saved[k] /\ todo'[k] = todo[k]
  /\ blame \subseteq blame' \/ NoOldCache

LEMMA StepFrame ==
  ASSUME CacheInv, NEW j \in Jobs, JobStep(j)
  PROVE  Frame(j)
<1> USE CacheAssumption DEF TypeOK, Goto, Frame, Old
<1>0. TypeOK
  BY DEF CacheInv
<1>1. CASE StartRequest(j)
  BY <1>0, <1>1 DEF StartRequest
<1>2. CASE ListCacheFiles(j)
  BY <1>0, <1>2 DEF ListCacheFiles
<1>3. CASE DeleteCacheFile(j)
  BY <1>0, <1>3 DEF DeleteCacheFile
<1>4. CASE CannotDelete(j)
  BY <1>0, <1>4 DEF CannotDelete
<1>5. CASE FinishClear(j)
  <2>1. NoOldCache
    BY <1>5 DEF FinishClear, CacheInv, JobInv, NoOldCache
  <2> QED
    BY <1>0, <1>5, <2>1 DEF FinishClear
<1>6. CASE LookUp(j)
  BY <1>0, <1>6 DEF LookUp
<1>7. CASE ReadCache(j)
  BY <1>0, <1>7 DEF ReadCache
<1>8. CASE Compute(j)
  BY <1>0, <1>8 DEF Compute
<1>9. CASE ConversionFails(j)
  BY <1>0, <1>9 DEF ConversionFails
<1>10. CASE OpenVersionFile(j)
  BY <1>0, <1>10 DEF OpenVersionFile
<1>11. CASE WriteVersionFile(j)
  BY <1>0, <1>11 DEF WriteVersionFile
<1>12. CASE CannotWriteVersion(j)
  BY <1>0, <1>12 DEF CannotWriteVersion
<1>13. CASE StartTask(j)
  BY <1>0, <1>13 DEF StartTask
<1>14. CASE NextTool(j)
  BY <1>0, <1>14 DEF NextTool
<1> QED
  BY <1>1, <1>2, <1>3, <1>4, <1>5, <1>6, <1>7, <1>8, <1>9, <1>10, <1>11,
     <1>12, <1>13, <1>14 DEF JobStep, RequestStep

(* A job keeps what it knows while another one takes a step. *)
LEMMA OthersKeep ==
  ASSUME NEW j \in Jobs, NEW k \in Jobs \ {j}, Frame(j), JobInv(k)
  PROVE  JobInv(k)'
BY DEF Frame, JobInv, HasCleared, Trusts, NoOldCache

(* What a job knows after a step of its own. *)
LEMMA OwnStep ==
  ASSUME CacheInv, NEW j \in Jobs, JobStep(j)
  PROVE  JobInv(j)'
<1> USE DEF TypeOK, Goto, JobInv, HasCleared, Trusts, NoOldCache
<1>0. /\ TypeOK /\ JobInv(j) /\ OldCacheMarkedHasCause
      /\ plugin' = plugin /\ \A c \in Cleared : Old(c)' => Old(c)
  BY StepFrame DEF CacheInv, Frame
<1>1. CASE StartRequest(j)
  BY <1>0, <1>1 DEF StartRequest, OldCacheMarkedHasCause
<1>2. CASE ListCacheFiles(j)
  BY <1>0, <1>2 DEF ListCacheFiles, Old
<1>3. CASE DeleteCacheFile(j)
  <2>1. PICK c \in todo[j] : /\ cache' = [cache EXCEPT ![c] = None]
                             /\ todo' = [todo EXCEPT ![j] = @ \ {c}]
    BY <1>3 DEF DeleteCacheFile
  <2>2. pc' = pc /\ task' = task /\ saved' = saved /\ tool' = tool
    BY <1>3 DEF DeleteCacheFile
  <2>3. pc[j] = "delete"
    BY <1>3 DEF DeleteCacheFile
  <2>4. ASSUME NEW d \in Cleared, Old(d)' PROVE d \in todo'[j]
    <3>1. d \in todo[j]
      BY <1>0, <2>3, <2>4
    <3>2. d \in Caches /\ d # c
      BY <1>0, <2>1, <2>4, CacheAssumption DEF Old
    <3> QED
      BY <1>0, <2>1, <3>1, <3>2
  <2> QED
    BY <1>0, <2>2, <2>3, <2>4
<1>4. CASE CannotDelete(j)
  BY <1>0, <1>4 DEF CannotDelete
<1>5. CASE FinishClear(j)
  BY <1>0, <1>5 DEF FinishClear
<1>6. CASE LookUp(j)
  BY <1>0, <1>6 DEF LookUp
<1>7. CASE ReadCache(j)
  BY <1>0, <1>7 DEF ReadCache, AfterConversion
<1>8. CASE Compute(j)
  BY <1>0, <1>8 DEF Compute, AfterConversion
<1>9. CASE ConversionFails(j)
  BY <1>0, <1>9 DEF ConversionFails, AfterConversion
<1>10. CASE OpenVersionFile(j)
  BY <1>0, <1>10 DEF OpenVersionFile
<1>11. CASE WriteVersionFile(j)
  BY <1>0, <1>11 DEF WriteVersionFile, AfterStamp
<1>12. CASE CannotWriteVersion(j)
  BY <1>0, <1>12 DEF CannotWriteVersion, AfterStamp
<1>13. CASE StartTask(j)
  BY <1>0, <1>13 DEF StartTask
<1>14. CASE NextTool(j)
  BY <1>0, <1>14 DEF NextTool
<1> QED
  BY <1>1, <1>2, <1>3, <1>4, <1>5, <1>6, <1>7,
     <1>8, <1>9, <1>10, <1>11, <1>12, <1>13, <1>14 DEF JobStep, RequestStep

(* A step of a job marks no old cache without a cause. *)
LEMMA MarkingStep ==
  ASSUME CacheInv, NEW j \in Jobs, JobStep(j)
  PROVE  OldCacheMarkedHasCause'
<1> USE DEF OldCacheMarkedHasCause, Outdated
<1>0. /\ TypeOK /\ JobInv(j) /\ OldCacheMarkedHasCause /\ Frame(j)
  BY StepFrame DEF CacheInv
<1>k. (NoOldCache \/ (blame # {} => blame' # {}))
      /\ plugin' = plugin /\ \A c \in Cleared : Old(c)' => Old(c)
  BY <1>0 DEF Frame
<1> USE <1>k DEF NoOldCache
<1>1. CASE StartRequest(j)
  BY <1>0, <1>1 DEF StartRequest
<1>2. CASE ListCacheFiles(j)
  BY <1>0, <1>2 DEF ListCacheFiles
<1>3. CASE DeleteCacheFile(j)
  BY <1>0, <1>3 DEF DeleteCacheFile
<1>4. CASE CannotDelete(j)
  BY <1>0, <1>4 DEF CannotDelete
<1>5. CASE FinishClear(j)
  BY <1>0, <1>5 DEF FinishClear
<1>6. CASE LookUp(j)
  BY <1>0, <1>6 DEF LookUp
<1>7. CASE ReadCache(j)
  BY <1>0, <1>7 DEF ReadCache
<1>8. CASE Compute(j)
  BY <1>0, <1>8 DEF Compute
<1>9. CASE ConversionFails(j)
  BY <1>0, <1>9 DEF ConversionFails
<1>10. CASE OpenVersionFile(j)
  BY <1>0, <1>10 DEF OpenVersionFile
<1>11. CASE WriteVersionFile(j)
  <2>1. CASE task[j] \/ tool[j] \in Forgetful
    BY <1>0, <1>11, <2>1 DEF WriteVersionFile
  <2>2. CASE ~task[j] /\ tool[j] \notin Forgetful
    <3>1. HasCleared(j)
      BY <1>0, <1>11, <2>2 DEF WriteVersionFile, JobInv, HasCleared
    <3> QED
      BY <1>0, <3>1 DEF JobInv
  <2> QED
    BY <2>1, <2>2
<1>12. CASE CannotWriteVersion(j)
  BY <1>0, <1>12 DEF CannotWriteVersion
<1>13. CASE StartTask(j)
  BY <1>0, <1>13 DEF StartTask
<1>14. CASE NextTool(j)
  BY <1>0, <1>14 DEF NextTool
<1> QED
  BY <1>1, <1>2, <1>3, <1>4, <1>5, <1>6, <1>7,
     <1>8, <1>9, <1>10, <1>11, <1>12, <1>13, <1>14 DEF JobStep, RequestStep

(* A restart leaves no job under way; whatever older versions marked is    *)
(* outdated, or text order is the cause.                                   *)
LEMMA RestartStep ==
  ASSUME CacheInv, Restart
  PROVE  OldCacheMarkedHasCause' /\ \A j \in Jobs : JobInv(j)'
<1>0. TypeOK /\ OldCacheMarkedHasCause /\ \A j \in Jobs : JobInv(j)
  BY DEF CacheInv
<1>1. OldCacheMarkedHasCause'
  BY <1>0 DEF Restart, OldCacheMarkedHasCause, Outdated, Old
<1>2. ASSUME NEW j \in Jobs PROVE JobInv(j)'
  <2>1. pc'[j] \in Ended \cup {"idle"} /\ (pc'[j] = "idle" => pc[j] = "idle")
    BY DEF Restart, Ended
  <2>2. task'[j] = task[j]
    BY DEF Restart
  <2> QED
    BY <1>0, <2>1, <2>2 DEF JobInv, HasCleared, Trusts, Ended
<1> QED
  BY <1>1, <1>2

(* The strengthened invariant. *)
THEOREM CacheInvariant == Spec => []CacheInv
<1>1. Init /\ TypeOK => CacheInv
  <2>1. Init => OldCacheMarkedHasCause /\ \A j \in Jobs : JobInv(j)
    BY DEF Init, OldCacheMarkedHasCause, Outdated, JobInv, HasCleared, Trusts
  <2> QED
    BY <2>1 DEF CacheInv
<1>2. CacheInv /\ TypeOK' /\ [Next]_vars => CacheInv'
  <2> SUFFICES ASSUME CacheInv, TypeOK', [Next]_vars PROVE CacheInv'
    OBVIOUS
  <2>1. ASSUME NEW j \in Jobs, JobStep(j) PROVE CacheInv'
    <3>1. JobInv(j)' /\ OldCacheMarkedHasCause'
      BY <2>1, OwnStep, MarkingStep
    <3>2. \A k \in Jobs \ {j} : JobInv(k)'
      BY <2>1, StepFrame, OthersKeep DEF CacheInv
    <3> QED
      BY <3>1, <3>2 DEF CacheInv
  <2>2. CASE Restart
    BY <2>2, RestartStep DEF CacheInv
  <2>3. CASE UNCHANGED vars
    BY <2>3 DEF CacheInv, vars, jobVars, OldCacheMarkedHasCause, Outdated, Old,
                JobInv, HasCleared, Trusts, NoOldCache
  <2> QED
    BY <2>1, <2>2, <2>3 DEF Next, JobStep
<1> QED
  BY <1>1, <1>2, CacheTyping, PTL DEF Spec

(* While the version file is taken for current, an old cache among those a *)
(* refresh clears has one of the named causes: it is never the work of two *)
(* refreshes at once, a crash, or a deletion or a write that failed.       *)
THEOREM MarkedCachesAreCurrent == Spec => []OldCacheMarkedHasCause
BY CacheInvariant, PTL DEF CacheInv

(* A request serves an old result only through a tool that leaves the flag *)
(* out or from a cache that was marked with a cause.                       *)
THEOREM AnswersAreCurrent == Spec => OldAnswerHasCause
<1>1. ASSUME CacheInv, [Next]_vars, NEW j \in Jobs,
             answer'[j] # answer[j], answer'[j] # plugin, ~task[j],
             CacheOf[tool[j]] \in Cleared, tool[j] \notin Forgetful
      PROVE  blame # {}
  <2>0. TypeOK /\ JobInv(j)
    BY <1>1 DEF CacheInv
  <2>1. ReadCache(j)
    BY <1>1, <2>0 DEF Next, RequestStep, vars, jobVars, TypeOK, StartRequest,
      ListCacheFiles, DeleteCacheFile, CannotDelete, FinishClear, LookUp,
      ReadCache, Compute, ConversionFails, OpenVersionFile, WriteVersionFile,
      CannotWriteVersion, StartTask, NextTool, Restart
  <2>2. Old(CacheOf[tool[j]])
    BY <1>1, <2>0, <2>1 DEF ReadCache, Old, TypeOK
  <2>3. HasCleared(j) \/ Trusts(j)
    BY <1>1, <2>0, <2>1 DEF ReadCache, HasCleared, Trusts, TypeOK
  <2> QED
    BY <1>1, <2>0, <2>2, <2>3 DEF JobInv, NoOldCache
<1>2. CacheInv /\ [Next]_vars =>
        [\A j \in Jobs :
           answer'[j] # answer[j] /\ answer'[j] # plugin /\ ~task[j]
             => \/ CacheOf[tool[j]] \notin Cleared
                \/ tool[j] \in Forgetful
                \/ blame # {}]_vars
  BY <1>1
<1> QED
  BY <1>2, CacheInvariant, PTL DEF Spec, OldAnswerHasCause
=============================================================================
