---------------------------- MODULE ToolDiscovery ----------------------------
(***************************************************************************)
(* Which tools, and which HLO modules, the plugin shows for a run.  The    *)
(* list of tools is kept in .cached_tools.json with the states of the      *)
(* xplane files; the modules are extracted to one file each when the list  *)
(* is computed for the first time.  Xplanes of further hosts may still be  *)
(* arriving, requests interleave, and nothing locks the directory.         *)
(*                                                                         *)
(* The list is abstracted to "none" (no tool: the conversion failed),      *)
(* "base", or "hlo" (with memory_viewer and graph_viewer).                 *)
(***************************************************************************)
EXTENDS Integers, FiniteSets

CONSTANTS
  Hosts,     \* hosts that write an xplane file
  Modules,   \* HLO modules
  NoModule,  \* NO_MODULE, the file name that stands for no modules
  HloOf,     \* HloOf[h]: the modules in the xplane of h
  Requests,  \* requests for the tools or for the modules; each is used once
  MaxFaults  \* bound: failures of reads, writes and conversions, restarts

ASSUME DiscoveryAssumption ==
  /\ Hosts # {}
  /\ NoModule \notin Modules
  /\ HloOf \in [Hosts -> SUBSET Modules]
  /\ MaxFaults \in Nat

VARIABLES
  xplane,    \* xplane[h]: how much of the file of h is there
  hlo,       \* the modules that have a file, and NoModule
  toolsFile, \* .cached_tools.json
  pc,        \* control point of each request
  wants,     \* wants[r]: what r asks for
  rec,       \* rec[r]: the contents r has loaded or is about to save
  base,      \* base[r]: the xplanes as they were when r listed them
  todo,      \* todo[r]: xplanes to read, or module files to write
  found,     \* found[r]: the modules r has extracted or listed
  late,      \* history: an xplane was complete too late for the modules
  stopped,   \* history: an extraction ended between its files
  faults     \* number of faults so far, for MaxFaults

dirVars == <<xplane, hlo, toolsFile>>
reqVars == <<pc, wants, rec, base, todo, found>>
vars    == <<dirVars, reqVars, late, stopped, faults>>

XplaneStates == {"absent", "partial", "whole"}
Lists        == {"none", "base", "hlo"}
Causes       == {"moved", "failed"}
Ended        == {"done", "killed"}
PC           == Ended \cup {"idle", "compare", "invalidate", "list", "find",
                            "extract", "write", "names", "states", "open",
                            "save", "modules"}
Records   == [files : [Hosts -> XplaneStates], list : Lists, why : SUBSET Causes]
FileNames == Modules \cup {NoModule}

NoRecord == [files |-> [h \in Hosts |-> "absent"], list |-> "none", why |-> {}]

(* valid: the contents parse as JSON; otherwise the record means nothing.  *)
NoFile == [exists |-> FALSE, writers |-> {}, shared |-> FALSE, valid |-> FALSE,
           content |-> NoRecord]

ListOf(M) == IF M = {} THEN "base" ELSE "hlo"

(* The modules that the xplanes which are complete contain. *)
AllModules == UNION {HloOf[h] : h \in {g \in Hosts : xplane[g] = "whole"}}

Listed(r) == {h \in Hosts : base[r][h] # "absent"}

Goto(r, p) == pc' = [pc EXCEPT ![r] = p]

Fault ==
  /\ faults < MaxFaults
  /\ faults' = faults + 1

Init ==
  /\ xplane \in [Hosts -> XplaneStates]
  /\ \E h \in Hosts : xplane[h] # "absent"
  /\ hlo = {}
  /\ toolsFile = NoFile
  /\ pc = [r \in Requests |-> "idle"]
  /\ wants = [r \in Requests |-> "tools"]
  /\ rec = [r \in Requests |-> NoRecord]
  /\ base = [r \in Requests |-> NoRecord.files]
  /\ todo = [r \in Requests |-> {}]
  /\ found = [r \in Requests |-> {}]
  /\ late = FALSE
  /\ stopped = FALSE
  /\ faults = 0
-----------------------------------------------------------------------------
(* A host writes its xplane. *)

OpenXplane(h) ==
  /\ xplane[h] = "absent"
  /\ xplane' = [xplane EXCEPT ![h] = "partial"]
  /\ UNCHANGED <<hlo, toolsFile, reqVars, late, stopped, faults>>

(* Requests that extract modules and will not read h, or not again. *)
Passed(r, h) ==
  \/ pc[r] = "find" /\ h \notin Listed(r)
  \/ pc[r] = "extract" /\ h \notin todo[r]
  \/ pc[r] = "write"

CloseXplane(h) ==
  /\ xplane[h] = "partial"
  /\ xplane' = [xplane EXCEPT ![h] = "whole"]
  /\ late' = (late \/ hlo # {} \/ \E r \in Requests : Passed(r, h))
  /\ UNCHANGED <<hlo, toolsFile, reqVars, stopped, faults>>
-----------------------------------------------------------------------------
(* generate_tools_of_run: ToolsCache.load. *)

(* read_json.  Whatever cannot be read or parsed is deleted afterwards,    *)
(* also a file that was not there yet.                                     *)
Load(r) ==
  /\ pc[r] = "idle"
  /\ \/ /\ toolsFile.valid
        /\ rec' = [rec EXCEPT ![r] = toolsFile.content]
        /\ Goto(r, "compare")
        /\ UNCHANGED faults
     \/ /\ IF toolsFile.valid THEN Fault ELSE UNCHANGED faults
        /\ Goto(r, "invalidate")
        /\ UNCHANGED rec
  /\ UNCHANGED <<dirVars, wants, base, todo, found, late, stopped>>

(* Slip: the names of the files are compared, not their states. *)
CompareNames(r) ==
  /\ pc[r] = "compare"
  /\ IF \A h \in Hosts : rec[r].files[h] = "absent" <=> xplane[h] = "absent"
     THEN Goto(r, "done") ELSE Goto(r, "invalidate")
  /\ UNCHANGED <<dirVars, wants, rec, base, todo, found, late, stopped, faults>>

(* get_xplane_file_states: a list whose files are unchanged is the answer. *)
(* A file that is still being written may have grown.                      *)
CompareStates(r) ==
  /\ pc[r] = "compare"
  /\ \/ rec[r].files = xplane /\ Goto(r, "done") /\ UNCHANGED faults
     \/ /\ rec[r].files # xplane \/ \E h \in Hosts : xplane[h] = "partial"
        /\ Goto(r, "invalidate")
        /\ UNCHANGED faults
     \/ Goto(r, "invalidate") /\ Fault
  /\ UNCHANGED <<dirVars, wants, rec, base, todo, found, late, stopped>>

Invalidate(r) ==
  /\ pc[r] = "invalidate"
  /\ toolsFile' = NoFile
  /\ rec' = [rec EXCEPT ![r] = NoRecord]
  /\ Goto(r, "list")
  /\ UNCHANGED <<xplane, hlo, wants, base, todo, found, late, stopped, faults>>
-----------------------------------------------------------------------------
(* xspace_to_tool_names: what is converted are the xplanes in the listing. *)

(* hlo_module_list_impl: the modules that have a file, else a conversion.  *)
StartModuleList(r) ==
  /\ pc[r] = "idle"
  /\ wants' = [wants EXCEPT ![r] = "modules"]
  /\ \/ /\ found' = [found EXCEPT ![r] = hlo]
        /\ Goto(r, IF hlo # {} THEN "done" ELSE "list")
        /\ UNCHANGED faults
     \/ Fault /\ Goto(r, "list") /\ UNCHANGED found
  /\ UNCHANGED <<dirVars, rec, base, todo, late, stopped>>

ListXplanes(r) ==
  /\ pc[r] = "list"
  /\ \/ /\ base' = [base EXCEPT ![r] = xplane]
        /\ Goto(r, "find")
        /\ UNCHANGED faults
     \/ Fault /\ Goto(r, "done") /\ UNCHANGED base
  /\ UNCHANGED <<dirVars, wants, rec, todo, found, late, stopped>>

(* A conversion that fails is a list of no tools, and it goes on. *)
ConversionFails(r) ==
  /\ rec' = [rec EXCEPT ![r].list = "none", ![r].why = @ \cup {"failed"}]
  /\ Goto(r, IF wants[r] = "tools" THEN "states" ELSE "modules")

(* ConvertMultiXSpaceToHloProto: any module file means that all are there. *)
FindModules(r) ==
  /\ pc[r] = "find"
  /\ \/ hlo # {} /\ Goto(r, "names") /\ UNCHANGED <<rec, todo, faults>>
     \/ /\ hlo = {}
        /\ Goto(r, "extract")
        /\ todo' = [todo EXCEPT ![r] = Listed(r)]
        /\ UNCHANGED <<rec, faults>>
     \/ Fault /\ ConversionFails(r) /\ UNCHANGED todo
  /\ UNCHANGED <<dirVars, wants, base, found, late, stopped>>

(* A file that is not complete does not parse, or reads as a shorter one.  *)
CanRead(h, M) ==
  \/ xplane[h] = "whole" /\ M = HloOf[h]
  \/ xplane[h] = "partial" /\ M \subseteq HloOf[h]

CannotRead(h) ==
  \/ xplane[h] = "partial" /\ UNCHANGED faults
  \/ xplane[h] = "whole" /\ Fault

(* Slip: the first xplane stands for all of them. *)
ReadFirstXplane(r) ==
  /\ pc[r] = "extract"
  /\ todo[r] = Listed(r)
  /\ \E h \in todo[r], M \in SUBSET Modules :
       /\ CanRead(h, M)
       /\ found' = [found EXCEPT ![r] = M]
       /\ todo' = [todo EXCEPT ![r] = {}]
  /\ UNCHANGED <<dirVars, pc, wants, rec, base, late, stopped, faults>>

ReadXplane(r) ==
  /\ pc[r] = "extract"
  /\ \E h \in todo[r], M \in SUBSET Modules :
       /\ CanRead(h, M)
       /\ found' = [found EXCEPT ![r] = @ \cup M]
       /\ todo' = [todo EXCEPT ![r] = @ \ {h}]
  /\ UNCHANGED <<dirVars, pc, wants, rec, base, late, stopped, faults>>

ReadXplaneFails(r) ==
  /\ pc[r] = "extract"
  /\ \E h \in todo[r] : CannotRead(h)
  /\ ConversionFails(r)
  /\ UNCHANGED <<dirVars, wants, base, todo, found, late, stopped>>

StartModuleFiles(r) ==
  /\ pc[r] = "extract"
  /\ todo[r] = {}
  /\ todo' = [todo EXCEPT ![r] = IF found[r] = {} THEN {NoModule} ELSE found[r]]
  /\ Goto(r, "write")
  /\ UNCHANGED <<dirVars, wants, rec, base, found, late, stopped, faults>>

WriteModuleFile(r) ==
  /\ pc[r] = "write"
  /\ \E m \in todo[r] :
       /\ hlo' = hlo \cup {m}
       /\ todo' = [todo EXCEPT ![r] = @ \ {m}]
       /\ IF todo[r] = {m} THEN Goto(r, "names") ELSE UNCHANGED pc
  /\ UNCHANGED <<xplane, toolsFile, wants, rec, base, found, late, stopped, faults>>

WriteModuleFileFails(r) ==
  /\ pc[r] = "write"
  /\ Fault
  /\ ConversionFails(r)
  /\ \E m \in todo[r] : hlo' \in {hlo, hlo \cup {m}}
  /\ stopped' = TRUE
  /\ todo' = [todo EXCEPT ![r] = {}]
  /\ UNCHANGED <<xplane, toolsFile, wants, base, found, late>>

(* GetAvailableToolNames: the first xplane decides, whichever is listed    *)
(* first.                                                                  *)
ReadToolNames(r) ==
  /\ pc[r] = "names"
  /\ \E h \in Listed(r) :
       \/ \E M \in SUBSET Modules :
            /\ CanRead(h, M)
            /\ rec' = [rec EXCEPT ![r].list = ListOf(M)]
            /\ Goto(r, IF wants[r] = "tools" THEN "states" ELSE "modules")
            /\ UNCHANGED faults
       \/ CannotRead(h) /\ ConversionFails(r)
  /\ UNCHANGED <<dirVars, wants, base, todo, found, late, stopped>>

ListModules(r) ==
  /\ pc[r] = "modules"
  /\ \/ found' = [found EXCEPT ![r] = hlo] /\ UNCHANGED faults
     \/ found' = [found EXCEPT ![r] = {}] /\ Fault
  /\ Goto(r, "done")
  /\ UNCHANGED <<dirVars, wants, rec, base, todo, late, stopped>>
-----------------------------------------------------------------------------
(* ToolsCache.save: the states are taken when the list is there.           *)
TakeStates(r) ==
  /\ pc[r] = "states"
  /\ \/ /\ rec' = [rec EXCEPT
             ![r].files = xplane,
             ![r].why = @ \cup IF xplane = base[r] THEN {} ELSE {"moved"}]
        /\ Goto(r, "open")
        /\ UNCHANGED faults
     \/ Fault /\ Goto(r, "done") /\ UNCHANGED rec
  /\ UNCHANGED <<dirVars, wants, base, todo, found, late, stopped>>

(* write_json: opening truncates. *)
OpenToolsFile(r) ==
  /\ pc[r] = "open"
  /\ toolsFile' = [exists |-> TRUE, writers |-> toolsFile.writers \cup {r},
                   shared |-> toolsFile.writers # {}, valid |-> FALSE,
                   content |-> NoRecord]
  /\ Goto(r, "save")
  /\ UNCHANGED <<xplane, hlo, wants, rec, base, todo, found, late, stopped, faults>>

(* What a file holds when a writer is done with it.  Of two that had it    *)
(* open at once, either one's contents stay, or a mix that is not JSON.    *)
Closed(r, c) ==
  [exists |-> TRUE, writers |-> toolsFile.writers \ {r},
   shared |-> toolsFile.shared /\ toolsFile.writers # {r},
   valid |-> c # NoRecord, content |-> c]

CloseToolsFile(r) ==
  /\ pc[r] = "save"
  /\ IF r \notin toolsFile.writers
     THEN UNCHANGED toolsFile
     ELSE \E c \in IF toolsFile.shared THEN {rec[r], toolsFile.content, NoRecord}
                                       ELSE {rec[r]} :
            toolsFile' = Closed(r, c)
  /\ Goto(r, "done")
  /\ UNCHANGED <<xplane, hlo, wants, rec, base, todo, found, late, stopped, faults>>

SaveFails(r) ==
  /\ pc[r] \in {"open", "save"}
  /\ Fault
  /\ toolsFile' = IF r \in toolsFile.writers
                  THEN Closed(r, toolsFile.content) ELSE toolsFile
  /\ Goto(r, "done")
  /\ UNCHANGED <<xplane, hlo, wants, rec, base, todo, found, late, stopped>>
-----------------------------------------------------------------------------
(* Slip: a writer that was killed still counts as one. *)
RestartKeepsWriters ==
  /\ Fault
  /\ pc' = [r \in Requests |-> IF pc[r] \in Ended \cup {"idle"} THEN pc[r]
                                                               ELSE "killed"]
  /\ stopped' = (stopped \/ \E r \in Requests : pc[r] = "write")
  /\ UNCHANGED <<dirVars, wants, rec, base, todo, found, late>>

(* The server ends with all its requests and starts again. *)
Restart ==
  /\ Fault
  /\ pc' = [r \in Requests |-> IF pc[r] \in Ended \cup {"idle"} THEN pc[r]
                                                               ELSE "killed"]
  /\ stopped' = (stopped \/ \E r \in Requests : pc[r] = "write")
  /\ toolsFile' = [toolsFile EXCEPT !.writers = {}, !.shared = FALSE]
  /\ UNCHANGED <<xplane, hlo, wants, rec, base, todo, found, late>>

RequestStep(r) ==
  \/ Load(r) \/ CompareStates(r) \/ Invalidate(r)
  \/ StartModuleList(r) \/ ListXplanes(r) \/ FindModules(r)
  \/ ReadXplane(r) \/ ReadXplaneFails(r) \/ StartModuleFiles(r)
  \/ WriteModuleFile(r) \/ WriteModuleFileFails(r) \/ ReadToolNames(r)
  \/ ListModules(r) \/ TakeStates(r) \/ OpenToolsFile(r) \/ CloseToolsFile(r)
  \/ SaveFails(r)

Next ==
  \/ \E h \in Hosts : OpenXplane(h) \/ CloseXplane(h)
  \/ \E r \in Requests : RequestStep(r)
  \/ Restart

Spec == Init /\ [][Next]_vars
-----------------------------------------------------------------------------
(* Each variable has its type, a request that writes module files has only *)
(* those left to do, and only one that is saving has the tools file open.  *)
TypeOK ==
  /\ xplane \in [Hosts -> XplaneStates]
  /\ hlo \subseteq FileNames
  /\ toolsFile \in [exists : BOOLEAN, writers : SUBSET Requests,
                    shared : BOOLEAN, valid : BOOLEAN, content : Records]
  /\ pc \in [Requests -> PC]
  /\ wants \in [Requests -> {"tools", "modules"}]
  /\ rec \in [Requests -> Records]
  /\ base \in [Requests -> [Hosts -> XplaneStates]]
  /\ todo \in [Requests -> SUBSET (Hosts \cup FileNames)]
  /\ found \in [Requests -> SUBSET FileNames]
  /\ late \in BOOLEAN /\ stopped \in BOOLEAN
  /\ faults \in 0..MaxFaults
  /\ \A r \in Requests : pc[r] = "write" => todo[r] \subseteq FileNames
  /\ \A r \in toolsFile.writers : pc[r] = "save"

(* The list that load accepts is the one of an xplane that is there and    *)
(* complete, unless the files changed while the saved list was computed,   *)
(* or its conversion failed: interleaved loads, saves and invalidations,   *)
(* broken files and restarts never make an outdated list pass.             *)
AcceptedListHasCause ==
  [][\A r \in Requests :
       /\ pc[r] = "compare" /\ pc'[r] = "done" /\ rec[r].why = {}
       /\ \A h \in Hosts : xplane[h] \in {"absent", "whole"}
       => \E h \in Hosts : xplane[h] = "whole" /\ rec[r].list = ListOf(HloOf[h])]_vars

(* "If the profiler finds a filename with hlo proto suffix, this means HLO *)
(* proto was already generated previously" (xplane_to_hlo.cc): when nobody *)
(* is writing module files and some exist, all modules of the complete     *)
(* xplanes have theirs, and NO_MODULE is there only if there are none;     *)
(* unless an xplane came too late or an extraction was stopped.            *)
ModulesCompleteOrCause ==
  /\ hlo # {} /\ \A r \in Requests : pc[r] # "write"
  /\ ~late /\ ~stopped
  => /\ AllModules \subseteq hlo
     /\ NoModule \in hlo => AllModules = {}

(* The same comment, taken at its word: a request whose conversion is over *)
(* finds the modules of every complete xplane that it listed.              *)
ListedModulesHaveFiles ==
  \A r \in Requests :
    (pc[r] = "states" /\ rec[r].why = {} /\ \A q \in Requests : pc[q] # "write") =>
      \A h \in Hosts : base[r][h] = "whole" => HloOf[h] \subseteq hlo
=============================================================================
