---------------------------- MODULE TraceTables -----------------------------
(***************************************************************************)
(* The trace viewer's tables (streaming_trace_viewer_processor.cc).  Each  *)
(* host has three LevelDB tables: the events, their metadata, and a trie   *)
(* of names for the search.  A request makes the tables of a host when the *)
(* events table does not exist, and then loads the ones it needs.  It runs *)
(* in process (ProcessSession, host by host), or as Map calls, one per     *)
(* host, followed by a Reduce that skips the hosts it cannot load.         *)
(***************************************************************************)
EXTENDS Naturals, FiniteSets

CONSTANTS
  TtHosts,
  TtRequests,  \* requests for trace_viewer@; each is used once
  TtMaxFaults  \* bound: failed writes, crashes and refreshes

ASSUME TtAssumption == TtHosts # {} /\ TtMaxFaults \in Nat

VARIABLES
  ttTable,   \* ttTable[h][t]: absent, open or whole
  ttMadeBy,  \* ttMadeBy[h][t]: the request that created the table last
  ttPc,      \* control point of each request
  ttWants,   \* view, detail or search: what the request loads
  ttReduce,  \* ttReduce[r]: the request runs as Map and Reduce
  ttHost,    \* ttHost[r][h]: how far the request is with host h
  ttClean,   \* history: nothing disturbed the request so far
  ttDamaged, \* history: a writer was cut short since the last quiet refresh
  ttFaults

ttVars == <<ttTable, ttMadeBy, ttPc, ttWants, ttReduce, ttHost, ttClean,
            ttDamaged, ttFaults>>

Tables == {"events", "metadata", "trie"}

(* Tables opened by each of the three branches of LoadTraceEventsContainer. *)
Needs == [view   |-> {"events"},
          detail |-> {"events", "metadata"},
          search |-> {"events", "trie"}]

TtEnded   == {"answered", "error", "lost"}
HostSteps == {"check", "new_events", "new_metadata", "new_trie", "write",
              "load", "loaded", "empty", "skipped"}
Done      == {"loaded", "empty", "skipped"}
TtActive  == {r \in TtRequests : ttPc[r] = "run"}

TtInit ==
  /\ ttTable = [h \in TtHosts |-> [t \in Tables |-> "absent"]]
  /\ ttMadeBy = [h \in TtHosts |-> [t \in Tables |-> {}]]
  /\ ttPc = [r \in TtRequests |-> "idle"]
  /\ ttWants = [r \in TtRequests |-> "view"]
  /\ ttReduce = [r \in TtRequests |-> FALSE]
  /\ ttHost = [r \in TtRequests |-> [h \in TtHosts |-> "check"]]
  /\ ttClean = [r \in TtRequests |-> FALSE]
  /\ ttDamaged = FALSE
  /\ ttFaults = 0

TtStart(r, w, reduce) ==
  /\ ttPc[r] = "idle"
  /\ ttPc' = [ttPc EXCEPT ![r] = "run"]
  /\ ttWants' = [ttWants EXCEPT ![r] = w]
  /\ ttReduce' = [ttReduce EXCEPT ![r] = reduce]
  /\ ttClean' = [q \in TtRequests |->
                   IF q = r THEN ~ttDamaged /\ TtActive = {}
                            ELSE ttClean[q] /\ q \notin TtActive]
  /\ UNCHANGED <<ttTable, ttMadeBy, ttHost, ttDamaged, ttFaults>>

(* ProcessSession handles one host at a time; Map calls run side by side.  *)
Works(r, h) ==
  /\ ttPc[r] = "run"
  /\ ttReduce[r] \/ \A g \in TtHosts \ {h} : ttHost[r][g] \in Done \cup {"check"}

At(r, h, step) == Works(r, h) /\ ttHost[r][h] = step

HostGoto(r, h, step) ==
  /\ ttHost' = [ttHost EXCEPT ![r][h] = step]
  /\ UNCHANGED <<ttPc, ttWants, ttReduce, ttClean, ttDamaged, ttFaults>>

(* FileExists of the events table stands for all three. *)
CheckTables(r, h) ==
  /\ At(r, h, "check")
  /\ HostGoto(r, h, IF ttTable[h]["events"] = "absent" THEN "new_events" ELSE "load")
  /\ UNCHANGED <<ttTable, ttMadeBy>>

(* NewWritableFile truncates: one table after the other. *)
CreateTable(r, h) ==
  \E s \in {<<"events", "new_metadata">>, <<"metadata", "new_trie">>, <<"trie", "write">>} :
    /\ At(r, h, CASE s[1] = "events" -> "new_events"
                  [] s[1] = "metadata" -> "new_metadata"
                  [] s[1] = "trie" -> "new_trie")
    /\ ttTable' = [ttTable EXCEPT ![h][s[1]] = "open"]
    /\ ttMadeBy' = [ttMadeBy EXCEPT ![h][s[1]] = {r}]
    /\ HostGoto(r, h, s[2])

(* DoStoreAsLevelDbTables writes the three tables in three threads, so they *)
(* become whole in any order; a table deleted meanwhile stays deleted, and *)
(* one that another request truncated meanwhile is left to that request.   *)
WriteTable(r, h) ==
  /\ At(r, h, "write")
  /\ \E t \in Tables :
       /\ ttTable[h][t] = "open"
       /\ ttMadeBy[h][t] = {r}
       /\ ttTable' = [ttTable EXCEPT ![h][t] = "whole"]
  /\ UNCHANGED <<ttMadeBy, ttPc, ttWants, ttReduce, ttHost, ttClean, ttDamaged, ttFaults>>

(* Wrong: the writing threads are not joined. *)
TablesNotJoined(r, h) ==
  /\ At(r, h, "write")
  /\ HostGoto(r, h, "load")
  /\ UNCHANGED <<ttTable, ttMadeBy>>

(* JoinAll of the three threads. *)
TablesWritten(r, h) ==
  /\ At(r, h, "write")
  /\ \A t \in Tables : ~(ttTable[h][t] = "open" /\ ttMadeBy[h][t] = {r})
  /\ HostGoto(r, h, "load")
  /\ UNCHANGED <<ttTable, ttMadeBy>>

(* A search without a trie finds nothing, without an error; every other    *)
(* needed table has to be there and complete.                              *)
LoadOf(r, h) ==
  LET t == ttTable[h] n == Needs[ttWants[r]] IN
  IF ttReduce[r] /\ (t["metadata"] = "absent" \/ t["trie"] = "absent") THEN "skipped"
  ELSE IF ttWants[r] = "search" /\ t["trie"] = "absent" THEN "empty"
  ELSE IF \A k \in n : t[k] = "whole" THEN "loaded"
  ELSE "skipped"

(* Reduce starts when every Map call has returned. *)
LoadTables(r, h) ==
  /\ At(r, h, "load")
  /\ ttReduce[r] => \A g \in TtHosts : ttHost[r][g] \in Done \cup {"load"}
  /\ ttHost' = [ttHost EXCEPT ![r][h] = LoadOf(r, h)]
  /\ ttPc' = [ttPc EXCEPT ![r] =
                IF LoadOf(r, h) = "skipped" /\ ~ttReduce[r] THEN "error" ELSE @]
  /\ UNCHANGED <<ttTable, ttMadeBy, ttWants, ttReduce, ttClean, ttDamaged, ttFaults>>

(* SerializeAndSetOutput; Reduce fails only if it could load no host. *)
TtAnswer(r) ==
  /\ ttPc[r] = "run"
  /\ \A h \in TtHosts : ttHost[r][h] \in Done
  /\ ttPc' = [ttPc EXCEPT ![r] =
                IF \A h \in TtHosts : ttHost[r][h] = "skipped" THEN "error" ELSE "answered"]
  /\ UNCHANGED <<ttTable, ttMadeBy, ttWants, ttReduce, ttHost, ttClean, ttDamaged, ttFaults>>

TtFault(S, p) ==
  /\ ttFaults < TtMaxFaults
  /\ ttFaults' = ttFaults + 1
  /\ ttPc' = [r \in TtRequests |-> IF r \in S THEN p ELSE ttPc[r]]
  /\ ttClean' = [r \in TtRequests |-> ttClean[r] /\ r \notin TtActive]
  /\ UNCHANGED <<ttWants, ttReduce, ttHost>>

(* A table cannot be created or written: the request fails, and Map calls  *)
(* that fail make the whole request fail.                                  *)
TtWriteFails(r) ==
  /\ \E h \in TtHosts, s \in {"new_events", "new_metadata", "new_trie", "write"} :
       At(r, h, s)
  /\ TtFault({r}, "error")
  /\ ttDamaged' = TRUE
  /\ UNCHANGED <<ttTable, ttMadeBy>>

TtCrash ==
  /\ TtActive # {}
  /\ TtFault(TtActive, "lost")
  /\ ttDamaged' = TRUE
  /\ UNCHANGED <<ttTable, ttMadeBy>>

(* ClearCacheFiles of a request for any tool with use_saved_result=false.  *)
TtClear ==
  /\ TtFault({}, "idle")
  /\ ttTable' = [h \in TtHosts |-> [t \in Tables |-> "absent"]]
  /\ ttDamaged' = (TtActive # {})
  /\ UNCHANGED ttMadeBy

TtHostStep(r, h) ==
  \/ CheckTables(r, h) \/ CreateTable(r, h) \/ WriteTable(r, h)
  \/ TablesWritten(r, h) \/ LoadTables(r, h)

TtNext ==
  \/ TtCrash
  \/ TtClear
  \/ \E r \in TtRequests :
       \/ \E w \in DOMAIN Needs, reduce \in BOOLEAN : TtStart(r, w, reduce)
       \/ \E h \in TtHosts : TtHostStep(r, h)
       \/ TtAnswer(r)
       \/ TtWriteFails(r)

TtSpec == TtInit /\ [][TtNext]_ttVars
-----------------------------------------------------------------------------
TtTypeOK ==
  /\ ttTable \in [TtHosts -> [Tables -> {"absent", "open", "whole"}]]
  /\ ttMadeBy \in [TtHosts -> [Tables -> SUBSET TtRequests]]
  /\ ttPc \in [TtRequests -> TtEnded \cup {"idle", "run"}]
  /\ ttWants \in [TtRequests -> DOMAIN Needs]
  /\ ttReduce \in [TtRequests -> BOOLEAN]
  /\ ttHost \in [TtRequests -> [TtHosts -> HostSteps]]
  /\ ttClean \in [TtRequests -> BOOLEAN]
  /\ ttDamaged \in BOOLEAN
  /\ ttFaults \in 0..TtMaxFaults

(* A request that nothing overlapped, in a directory where no writer was   *)
(* cut short since the last quiet refresh, shows every host: it does not   *)
(* fail, Reduce skips nobody, and no search is answered without its trie.  *)
TtUndisturbedAnswer ==
  \A r \in TtRequests : ttClean[r] /\ ttPc[r] \in TtEnded =>
    ttPc[r] = "answered" /\ \A h \in TtHosts : ttHost[r][h] = "loaded"

=============================================================================
