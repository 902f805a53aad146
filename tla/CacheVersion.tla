---------------------------- MODULE CacheVersion ----------------------------
(***************************************************************************)
(* cache_version.txt: how the plugin tells that the caches of a session    *)
(* directory were written by an older version of itself.  data_impl reads  *)
(* it before a conversion, asks the conversion to clear the caches when it *)
(* is missing or older, and writes its own version after it.  The          *)
(* background task of /generate_cache writes the version first and then    *)
(* converts.  Requests, the task, and upgrades of the plugin interleave;   *)
(* the directory has no lock.                                              *)
(*                                                                         *)
(* A version is the last varying component of major.minor.patch.  What a   *)
(* conversion or a cache file contains is the version that computed it.    *)
(***************************************************************************)
EXTENDS Integers

CONSTANTS
  Tools,      \* tools served from xplanes
  Caches,     \* kinds of cache files
  CacheOf,    \* CacheOf[t]: the kind that tool t reads and writes
  Cleared,    \* kinds whose suffix ClearCacheFiles knows
  Forgetful,  \* tools whose options leave use_saved_result out
  Jobs,       \* /data requests and /generate_cache tasks; each is used once
  Versions,   \* versions of the plugin, the bound on upgrades
  MaxFaults   \* bound: conversions, deletions and version writes that fail

None == 0     \* no file, an empty version file, no answer

ASSUME CacheAssumption ==
  /\ Tools # {}
  /\ CacheOf \in [Tools -> Caches]
  /\ Cleared \subseteq Caches
  /\ Forgetful \subseteq Tools
  /\ Versions \subseteq 1..99
  /\ MaxFaults \in Nat

VARIABLES
  plugin,       \* the version of the running plugin
  versionFile,  \* what cache_version.txt says
  cache,        \* cache[c]: the version that wrote the files of kind c
  pc,           \* control point of each job
  task,         \* task[j]: j is a _generate_cache_task
  tool,         \* tool[j]: the tool j converts for
  saved,        \* saved[j]: use_saved_result of a request
  todo,         \* todo[j]: kinds of file that j has listed and not deleted
  rest,         \* rest[j]: tools that the task has still to convert for
  answer,       \* answer[j]: the version whose results j served last
  blame,        \* history: why an old cache may be marked as current
  faults        \* number of faults so far, for MaxFaults

jobVars == <<pc, task, tool, saved, todo, rest, answer>>
vars    == <<plugin, versionFile, cache, jobVars, blame, faults>>

Causes == {"tool", "task", "text"}
Ended  == {"done", "failed", "killed"}
PC     == Ended \cup {"idle", "list", "delete", "lookup", "read", "compute",
                      "open", "stamp", "next"}

(* Versions are compared as Python strings, digit by digit. *)
Digits(v) == IF v < 10 THEN <<v>> ELSE <<v \div 10, v % 10>>

TextBefore(v, w) ==
  LET s == Digits(v)
      t == Digits(w)
      k == IF v < 10 THEN 1 ELSE 2
      n == IF w < 10 THEN 1 ELSE 2
  IN \E i \in 1..n : /\ \A j \in 1..(i - 1) : j <= k /\ s[j] = t[j]
                     /\ i <= k => s[i] < t[i]

Outdated == versionFile = None \/ TextBefore(versionFile, plugin)

Old(c) == cache[c] \notin {None, plugin}

Goto(j, p) == pc' = [pc EXCEPT ![j] = p]

Fault ==
  /\ faults < MaxFaults
  /\ faults' = faults + 1

Init ==
  /\ plugin \in Versions
  /\ versionFile = None
  /\ cache = [c \in Caches |-> None]
  /\ pc = [j \in Jobs |-> "idle"]
  /\ task = [j \in Jobs |-> FALSE]
  /\ tool = [j \in Jobs |-> CHOOSE t \in Tools : TRUE]
  /\ saved = [j \in Jobs |-> TRUE]
  /\ todo = [j \in Jobs |-> {}]
  /\ rest = [j \in Jobs |-> {}]
  /\ answer = [j \in Jobs |-> None]
  /\ blame = {}
  /\ faults = 0
-----------------------------------------------------------------------------
(* Slip: a version file that cannot be found forces no refresh. *)
StartWithoutVersionFile(j) ==
  /\ pc[j] = "idle"
  /\ \E t \in Tools : tool' = [tool EXCEPT ![j] = t]
  /\ \E asked \in BOOLEAN :
       saved' = [saved EXCEPT ![j] = asked /\ (versionFile # None => ~Outdated)]
  /\ Goto(j, IF saved'[j] \/ tool'[j] \in Forgetful THEN "lookup" ELSE "list")
  /\ UNCHANGED <<plugin, versionFile, cache, task, todo, rest, answer, blame,
                 faults>>

(* data_impl up to the conversion.  The user may ask for a refresh; the    *)
(* version file may force one.  The conversion starts with                 *)
(* ClearCacheFiles only if the flag is among its options.                  *)
StartRequest(j) ==
  /\ pc[j] = "idle"
  /\ \E t \in Tools : tool' = [tool EXCEPT ![j] = t]
  /\ \E asked \in BOOLEAN :
       saved' = [saved EXCEPT ![j] = asked /\ ~Outdated]
  /\ Goto(j, IF saved'[j] \/ tool'[j] \in Forgetful THEN "lookup" ELSE "list")
  /\ UNCHANGED <<plugin, versionFile, cache, task, todo, rest, answer, blame,
                 faults>>

(* Slip: only the kind that the tool itself reads is listed. *)
ListOwnCacheFiles(j) ==
  /\ pc[j] = "list"
  /\ todo' = [todo EXCEPT ![j] = {c \in Cleared \cap {CacheOf[tool[j]]} :
                                   cache[c] # None}]
  /\ Goto(j, "delete")
  /\ UNCHANGED <<plugin, versionFile, cache, task, tool, saved, rest, answer,
                 blame, faults>>

(* ClearCacheFiles: GetChildren, then DeleteFile one by one. *)
ListCacheFiles(j) ==
  /\ pc[j] = "list"
  /\ todo' = [todo EXCEPT ![j] = {c \in Cleared : cache[c] # None}]
  /\ Goto(j, "delete")
  /\ UNCHANGED <<plugin, versionFile, cache, task, tool, saved, rest, answer,
                 blame, faults>>

DeleteCacheFile(j) ==
  /\ pc[j] = "delete"
  /\ \E c \in todo[j] :
       /\ cache[c] # None
       /\ cache' = [cache EXCEPT ![c] = None]
       /\ todo' = [todo EXCEPT ![j] = @ \ {c}]
  /\ UNCHANGED <<plugin, versionFile, pc, task, tool, saved, rest, answer,
                 blame, faults>>

(* A file that another job deleted in between is an error, and listing or  *)
(* deleting may fail; the status is raised as a RuntimeError, which        *)
(* data_impl does not catch.                                               *)
CannotDelete(j) ==
  /\ \/ pc[j] = "list" /\ Fault
     \/ /\ pc[j] = "delete"
        /\ \E c \in todo[j] :
             IF cache[c] = None THEN UNCHANGED faults ELSE Fault
  /\ Goto(j, "failed")
  /\ UNCHANGED <<plugin, versionFile, cache, task, tool, saved, todo, rest,
                 answer, blame>>

FinishClear(j) ==
  /\ pc[j] = "delete"
  /\ todo[j] = {}
  /\ blame' = {}
  /\ Goto(j, "lookup")
  /\ UNCHANGED <<plugin, versionFile, cache, task, tool, saved, todo, rest,
                 answer, faults>>
-----------------------------------------------------------------------------
(* The conversion of a tool: a cache file that is there is read, else the  *)
(* xplanes are converted and the result is saved.                          *)

AfterConversion(j) ==
  IF task[j] THEN "next" ELSE IF saved[j] THEN "done" ELSE "open"

LookUp(j) ==
  /\ pc[j] = "lookup"
  /\ Goto(j, IF cache[CacheOf[tool[j]]] # None THEN "read" ELSE "compute")
  /\ UNCHANGED <<plugin, versionFile, cache, task, tool, saved, todo, rest,
                 answer, blame, faults>>

ReadCache(j) ==
  /\ pc[j] = "read"
  /\ cache[CacheOf[tool[j]]] # None
  /\ answer' = [answer EXCEPT ![j] = cache[CacheOf[tool[j]]]]
  /\ Goto(j, AfterConversion(j))
  /\ UNCHANGED <<plugin, versionFile, cache, task, tool, saved, todo, rest,
                 blame, faults>>

Compute(j) ==
  /\ pc[j] = "compute"
  /\ cache' = [cache EXCEPT ![CacheOf[tool[j]]] = plugin]
  /\ answer' = [answer EXCEPT ![j] = plugin]
  /\ Goto(j, AfterConversion(j))
  /\ UNCHANGED <<plugin, versionFile, task, tool, saved, todo, rest, blame,
                 faults>>

(* A failed conversion, or a cache file deleted before it was read.  Most  *)
(* tools return no data and go on; some raise.  A task goes on either way. *)
ConversionFails(j) ==
  /\ \/ pc[j] = "read" /\ cache[CacheOf[tool[j]]] = None /\ UNCHANGED faults
     \/ pc[j] \in {"read", "compute"} /\ Fault
  /\ \/ Goto(j, AfterConversion(j))
     \/ ~task[j] /\ Goto(j, "failed")
  /\ UNCHANGED <<plugin, versionFile, cache, task, tool, saved, todo, rest,
                 answer, blame>>
-----------------------------------------------------------------------------
(* _write_cache_version_file: open truncates the file, an error is logged. *)

AfterStamp(j) == IF task[j] THEN "next" ELSE "done"

OpenVersionFile(j) ==
  /\ pc[j] = "open"
  /\ versionFile' = None
  /\ Goto(j, "stamp")
  /\ UNCHANGED <<plugin, cache, task, tool, saved, todo, rest, answer, blame,
                 faults>>

(* The history: a task, or a tool that did not clear, may mark old caches. *)
WriteVersionFile(j) ==
  /\ pc[j] = "stamp"
  /\ versionFile' = plugin
  /\ blame' = blame \cup (IF task[j] THEN {"task"} ELSE {})
                    \cup (IF ~task[j] /\ tool[j] \in Forgetful THEN {"tool"} ELSE {})
  /\ Goto(j, AfterStamp(j))
  /\ UNCHANGED <<plugin, cache, task, tool, saved, todo, rest, answer, faults>>

CannotWriteVersion(j) ==
  /\ pc[j] \in {"open", "stamp"}
  /\ Fault
  /\ Goto(j, AfterStamp(j))
  /\ UNCHANGED <<plugin, versionFile, cache, task, tool, saved, todo, rest,
                 answer, blame>>

(* _generate_cache_task, in a pool of one thread.  Its parameters are those *)
(* of the /generate_cache request, so the saved results are used.          *)
StartTask(j) ==
  /\ pc[j] = "idle"
  /\ \A k \in Jobs : task[k] => pc[k] \in Ended
  /\ task' = [task EXCEPT ![j] = TRUE]
  /\ saved' = [saved EXCEPT ![j] = TRUE]
  /\ \E T \in (SUBSET Tools) \ {{}} : rest' = [rest EXCEPT ![j] = T]
  /\ Goto(j, "open")
  /\ UNCHANGED <<plugin, versionFile, cache, tool, todo, answer, blame, faults>>

NextTool(j) ==
  /\ pc[j] = "next"
  /\ IF rest[j] = {}
     THEN Goto(j, "done") /\ UNCHANGED <<tool, rest>>
     ELSE \E t \in rest[j] :
            /\ tool' = [tool EXCEPT ![j] = t]
            /\ rest' = [rest EXCEPT ![j] = @ \ {t}]
            /\ Goto(j, "lookup")
  /\ UNCHANGED <<plugin, versionFile, cache, task, saved, todo, answer, blame,
                 faults>>

(* Slip: the caches may be newer than the plugin that starts. *)
RestartAnyVersion ==
  /\ plugin' \in Versions
  /\ pc' = [j \in Jobs |-> IF pc[j] \in Ended \cup {"idle"} THEN pc[j]
                                                           ELSE "killed"]
  /\ todo' = [j \in Jobs |-> {}]
  /\ rest' = [j \in Jobs |-> {}]
  /\ UNCHANGED <<versionFile, cache, task, tool, saved, answer, blame, faults>>

(* The plugin ends with everything it was doing, and a version no older    *)
(* starts.  The history notes a version file that text order takes for     *)
(* newer; what older versions marked is outdated otherwise.                *)
Restart ==
  /\ \E v \in Versions :
       /\ v >= plugin
       /\ v > plugin \/ \E j \in Jobs : pc[j] \notin Ended \cup {"idle"}
       /\ plugin' = v
       /\ blame' = IF v = plugin THEN blame
                   ELSE IF versionFile = None \/ TextBefore(versionFile, v)
                   THEN {} ELSE {"text"}
  /\ pc' = [j \in Jobs |-> IF pc[j] \in Ended \cup {"idle"} THEN pc[j]
                                                           ELSE "killed"]
  /\ todo' = [j \in Jobs |-> {}]
  /\ rest' = [j \in Jobs |-> {}]
  /\ UNCHANGED <<versionFile, cache, task, tool, saved, answer, faults>>
-----------------------------------------------------------------------------
RequestStep(j) ==
  \/ StartRequest(j) \/ ListCacheFiles(j) \/ DeleteCacheFile(j)
  \/ CannotDelete(j) \/ FinishClear(j) \/ LookUp(j) \/ ReadCache(j)
  \/ Compute(j) \/ ConversionFails(j) \/ OpenVersionFile(j)
  \/ WriteVersionFile(j) \/ CannotWriteVersion(j)

Next ==
  \/ \E j \in Jobs : RequestStep(j) \/ StartTask(j) \/ NextTool(j)
  \/ Restart

Spec == Init /\ [][Next]_vars
-----------------------------------------------------------------------------
(* Each variable holds one of its values, and no file is newer than the    *)
(* plugin.                                                                 *)
TypeOK ==
  /\ plugin \in Versions
  /\ versionFile \in Versions \cup {None} /\ versionFile <= plugin
  /\ cache \in [Caches -> Versions \cup {None}]
  /\ \A c \in Caches : cache[c] <= plugin
  /\ pc \in [Jobs -> PC]
  /\ task \in [Jobs -> BOOLEAN]
  /\ tool \in [Jobs -> Tools]
  /\ saved \in [Jobs -> BOOLEAN]
  /\ todo \in [Jobs -> SUBSET Cleared]
  /\ rest \in [Jobs -> SUBSET Tools]
  /\ answer \in [Jobs -> Versions \cup {None}]
  /\ blame \subseteq Causes
  /\ faults \in 0..MaxFaults

(* When the version file is taken for current while a cache that a refresh *)
(* clears is of an older version, then since the last complete clear a     *)
(* tool without the flag or a background task wrote the version, or the    *)
(* upgrade was one whose version text order puts first.  Concurrent        *)
(* refreshes, crashes between the clear and the version, and failures of   *)
(* either are never the cause.                                             *)
OldCacheMarkedHasCause ==
  ~Outdated /\ (\E c \in Cleared : Old(c)) => blame # {}

(* A request that serves an older version's result from a cache that a     *)
(* refresh clears does so through a tool without the flag, or one of the   *)
(* causes above marked the cache as current.  It holds of the whole        *)
(* request: the version file was read long before the cache.               *)
OldAnswerHasCause ==
  [][\A j \in Jobs :
       answer'[j] # answer[j] /\ answer'[j] # plugin /\ ~task[j]
         => \/ CacheOf[tool[j]] \notin Cleared
            \/ tool[j] \in Forgetful
            \/ blame # {}]_vars

(* "Check if the cache file exists and if the cache file version is less   *)
(* than the current plugin version, clear the cache." (profile_plugin.py,  *)
(* before the check): a request that is about to write the version leaves  *)
(* no older cache behind.                                                  *)
OutdatedCachesAreCleared ==
  \A j \in Jobs : pc[j] \in {"open", "stamp"} /\ ~task[j]
                  => \A c \in Cleared : ~Old(c)
=============================================================================
