------------------------ MODULE ToolDiscovery_proofs ------------------------
(***************************************************************************)
(* Type correctness of ToolDiscovery; that a tool list which load accepts  *)
(* belongs to an xplane that is there, but for the named causes; and that  *)
(* the modules that have a file are all of them, but for theirs.           *)
(***************************************************************************)
EXTENDS ToolDiscovery, TLAPS

LEMMA NoRecordType == NoRecord \in Records
  BY DEF NoRecord, Records, XplaneStates, Lists, Causes

LEMMA NoFileType ==
  NoFile \in [exists : BOOLEAN, writers : SUBSET Requests,
              shared : BOOLEAN, valid : BOOLEAN, content : Records]
  BY NoRecordType DEF NoFile

LEMMA FaultType ==
  ASSUME TypeOK, Fault \/ UNCHANGED faults
  PROVE  faults' \in 0..MaxFaults
  BY DiscoveryAssumption DEF Fault, TypeOK

LEMMA GotoType ==
  ASSUME TypeOK, NEW r \in Requests, NEW p \in PC, Goto(r, p)
  PROVE  pc' \in [Requests -> PC]
  BY DEF Goto, TypeOK

(* A request that is not saving can move without touching who writes.      *)
LEMMA WritersStay ==
  ASSUME TypeOK, NEW r \in Requests, NEW p \in PC, Goto(r, p), pc[r] # "save",
         UNCHANGED toolsFile
  PROVE  \A q \in toolsFile'.writers : pc'[q] = "save"
  BY DEF Goto, TypeOK

(* One that does not go on to write leaves what the others have to write.  *)
LEMMA TargetsStay ==
  ASSUME TypeOK, NEW r \in Requests, NEW p \in PC, Goto(r, p), p # "write",
         \A q \in Requests \ {r} : todo'[q] = todo[q]
  PROVE  \A q \in Requests : pc'[q] = "write" => todo'[q] \subseteq FileNames
  BY DEF Goto, TypeOK

LEMMA ListOfType == \A S : ListOf(S) \in Lists
  BY DEF ListOf, Lists

(* What a failed conversion leaves. *)
LEMMA ConversionFailsType ==
  ASSUME TypeOK, NEW r \in Requests, ConversionFails(r)
  PROVE  /\ rec' \in [Requests -> Records]
         /\ Goto(r, "states") \/ Goto(r, "modules")
         /\ rec'[r].why # {}
         /\ \A q \in Requests \ {r} : rec'[q] = rec[q]
  <1>1. rec \in [Requests -> Records]
    BY DEF TypeOK
  <1>2. rec' = [rec EXCEPT ![r].list = "none", ![r].why = @ \cup {"failed"}]
    BY DEF ConversionFails
  <1>3. Goto(r, "states") \/ Goto(r, "modules")
    BY DEF ConversionFails
  <1> HIDE DEF ConversionFails
  <1>4. rec' \in [Requests -> Records]
    BY <1>1, <1>2 DEF Records, Lists, Causes
  <1>5. rec'[r].why # {} /\ \A q \in Requests \ {r} : rec'[q] = rec[q]
    BY <1>1, <1>2 DEF Records
  <1> QED BY <1>3, <1>4, <1>5

LEMMA ClosedType ==
  ASSUME TypeOK, NEW r \in Requests, NEW c \in Records
  PROVE  /\ Closed(r, c) \in [exists : BOOLEAN, writers : SUBSET Requests,
                              shared : BOOLEAN, valid : BOOLEAN,
                              content : Records]
         /\ Closed(r, c).content = c
         /\ Closed(r, c).valid <=> c # NoRecord
         /\ Closed(r, c).writers = toolsFile.writers \ {r}
  BY DEF Closed, TypeOK
-----------------------------------------------------------------------------
(* Every step of a request keeps the types. *)
LEMMA RequestStepType ==
  ASSUME TypeOK, NEW r \in Requests, RequestStep(r)
  PROVE  TypeOK'
  <1> USE DEF PC, Ended, dirVars
  <1>1. CASE Load(r)
    <2>1. PICK p \in {"compare", "invalidate"} : Goto(r, p)
      BY <1>1 DEF Load
    <2>2. rec' \in [Requests -> Records]
      BY <1>1 DEF Load, TypeOK
    <2>3. faults' \in 0..MaxFaults
      BY <1>1, FaultType DEF Load
    <2> QED BY <1>1, <2>1, <2>2, <2>3, GotoType, WritersStay, TargetsStay DEF Load, TypeOK
  <1>2. CASE CompareStates(r)
    <2>1. PICK p \in {"done", "invalidate"} : Goto(r, p)
      BY <1>2 DEF CompareStates
    <2>2. faults' \in 0..MaxFaults
      BY <1>2, FaultType DEF CompareStates
    <2> QED BY <1>2, <2>1, <2>2, GotoType, WritersStay, TargetsStay DEF CompareStates, TypeOK
  <1>3. CASE Invalidate(r)
    <2>1. pc' \in [Requests -> PC]
      BY <1>3, GotoType DEF Invalidate
    <2>2. toolsFile'.writers = {}
      BY <1>3 DEF Invalidate, NoFile
    <2>3. rec' \in [Requests -> Records]
      BY <1>3, NoRecordType DEF Invalidate, TypeOK
    <2> QED BY <1>3, <2>1, <2>2, <2>3, NoFileType, TargetsStay DEF Invalidate, TypeOK
  <1>4. CASE StartModuleList(r)
    <2>1. PICK p \in {"done", "list"} : Goto(r, p)
      BY <1>4 DEF StartModuleList
    <2>2. /\ wants' \in [Requests -> {"tools", "modules"}]
          /\ found' \in [Requests -> SUBSET FileNames]
      BY <1>4 DEF StartModuleList, TypeOK
    <2>3. faults' \in 0..MaxFaults
      BY <1>4, FaultType DEF StartModuleList
    <2> QED
      BY <1>4, <2>1, <2>2, <2>3, GotoType, WritersStay, TargetsStay DEF StartModuleList, TypeOK
  <1>5. CASE ListXplanes(r)
    <2>1. PICK p \in {"find", "done"} : Goto(r, p)
      BY <1>5 DEF ListXplanes
    <2>2. base' \in [Requests -> [Hosts -> XplaneStates]]
      BY <1>5 DEF ListXplanes, TypeOK
    <2>3. faults' \in 0..MaxFaults
      BY <1>5, FaultType DEF ListXplanes
    <2> QED
      BY <1>5, <2>1, <2>2, <2>3, GotoType, WritersStay, TargetsStay DEF ListXplanes, TypeOK
  <1>6. CASE FindModules(r)
    <2>1. PICK p \in {"names", "extract", "states", "modules"} : Goto(r, p)
      BY <1>6, ConversionFailsType DEF FindModules
    <2>2. rec' \in [Requests -> Records]
      BY <1>6, ConversionFailsType DEF FindModules, TypeOK
    <2>3. todo' \in [Requests -> SUBSET (Hosts \cup FileNames)]
      BY <1>6 DEF FindModules, TypeOK, Listed
    <2>4. faults' \in 0..MaxFaults
      BY <1>6, FaultType DEF FindModules
    <2> QED
      BY <1>6, <2>1, <2>2, <2>3, <2>4, GotoType, WritersStay, TargetsStay DEF FindModules, TypeOK
  <1>7. CASE ReadXplane(r)
    <2>1. PICK h \in todo[r], M \in SUBSET Modules :
            /\ found' = [found EXCEPT ![r] = @ \cup M]
            /\ todo' = [todo EXCEPT ![r] = @ \ {h}]
      BY <1>7 DEF ReadXplane
    <2>2. found' \in [Requests -> SUBSET FileNames]
      BY <2>1 DEF TypeOK, FileNames
    <2>3. todo' \in [Requests -> SUBSET (Hosts \cup FileNames)]
      BY <2>1 DEF TypeOK
    <2> QED BY <1>7, <2>2, <2>3 DEF ReadXplane, TypeOK
  <1>8. CASE ReadXplaneFails(r)
    <2>1. faults' \in 0..MaxFaults
      BY <1>8, FaultType DEF ReadXplaneFails, CannotRead
    <2> QED
      BY <1>8, <2>1, ConversionFailsType, GotoType, WritersStay, TargetsStay
         DEF ReadXplaneFails, TypeOK
  <1>9. CASE StartModuleFiles(r)
    <2>1. /\ todo' \in [Requests -> SUBSET (Hosts \cup FileNames)]
          /\ todo'[r] \subseteq FileNames
      BY <1>9 DEF StartModuleFiles, TypeOK, FileNames
    <2>2. \A q \in Requests : pc'[q] = "write" => todo'[q] \subseteq FileNames
      BY <1>9, <2>1 DEF StartModuleFiles, TypeOK, Goto
    <2> QED BY <1>9, <2>1, <2>2, GotoType, WritersStay DEF StartModuleFiles, TypeOK
  <1>10. CASE WriteModuleFile(r)
    <2>1. PICK m \in todo[r] :
            /\ hlo' = hlo \cup {m}
            /\ todo' = [todo EXCEPT ![r] = @ \ {m}]
            /\ IF todo[r] = {m} THEN Goto(r, "names") ELSE UNCHANGED pc
      BY <1>10 DEF WriteModuleFile
    <2>2. pc[r] = "write" /\ todo[r] \subseteq FileNames
      BY <1>10 DEF WriteModuleFile, TypeOK
    <2>3. hlo' \subseteq FileNames
      BY <2>1, <2>2 DEF TypeOK
    <2>4. /\ todo' \in [Requests -> SUBSET (Hosts \cup FileNames)]
          /\ \A q \in Requests : todo'[q] \subseteq todo[q]
      BY <2>1 DEF TypeOK
    <2>5. /\ pc' \in [Requests -> PC]
          /\ \A q \in Requests : pc'[q] = "write" => pc[q] = "write"
          /\ \A q \in Requests : pc[q] = "save" => pc'[q] = "save"
      BY <2>1, <2>2 DEF Goto, TypeOK
    <2>6. \A q \in Requests : pc'[q] = "write" => todo'[q] \subseteq FileNames
      BY <2>4, <2>5 DEF TypeOK
    <2>7. \A q \in toolsFile.writers : pc'[q] = "save"
      BY <2>5 DEF TypeOK
    <2> QED BY <1>10, <2>3, <2>4, <2>5, <2>6, <2>7 DEF WriteModuleFile, TypeOK
  <1>11. CASE WriteModuleFileFails(r)
    <2>1. hlo' \subseteq FileNames
      BY <1>11 DEF WriteModuleFileFails, TypeOK
    <2>2. todo' \in [Requests -> SUBSET (Hosts \cup FileNames)]
      BY <1>11 DEF WriteModuleFileFails, TypeOK
    <2>3. faults' \in 0..MaxFaults
      BY <1>11, FaultType DEF WriteModuleFileFails
    <2>4. PICK p \in {"states", "modules"} : Goto(r, p)
      BY <1>11, ConversionFailsType DEF WriteModuleFileFails
    <2>5. \A q \in Requests \ {r} : todo'[q] = todo[q]
      BY <1>11 DEF WriteModuleFileFails, TypeOK
    <2>6. /\ pc' \in [Requests -> PC]
          /\ \A q \in Requests : pc'[q] = "write" => todo'[q] \subseteq FileNames
      BY <2>4, <2>5, GotoType, TargetsStay
    <2>7. \A q \in toolsFile'.writers : pc'[q] = "save"
      BY <1>11, <2>4, WritersStay DEF WriteModuleFileFails
    <2> QED
      BY <1>11, <2>1, <2>2, <2>3, <2>6, <2>7, ConversionFailsType
         DEF WriteModuleFileFails, TypeOK
  <1>12. CASE ReadToolNames(r)
    <2>1. PICK p \in {"states", "modules"} : Goto(r, p)
      BY <1>12, ConversionFailsType DEF ReadToolNames
    <2>2. rec' \in [Requests -> Records]
      <3>1. ASSUME NEW S, rec' = [rec EXCEPT ![r].list = ListOf(S)]
            PROVE  rec' \in [Requests -> Records]
        <4>1. rec[r] \in Records /\ rec \in [Requests -> Records]
          BY DEF TypeOK
        <4>2. [rec[r] EXCEPT !.list = ListOf(S)] \in Records
          BY <4>1, ListOfType DEF Records
        <4>3. rec' = [rec EXCEPT ![r] = [rec[r] EXCEPT !.list = ListOf(S)]]
          BY <3>1, Zenon
        <4> QED BY <4>1, <4>2, <4>3
      <3> QED BY <1>12, <3>1, ConversionFailsType DEF ReadToolNames
    <2>3. faults' \in 0..MaxFaults
      BY <1>12, FaultType DEF ReadToolNames, CannotRead
    <2> QED
      BY <1>12, <2>1, <2>2, <2>3, GotoType, WritersStay, TargetsStay
         DEF ReadToolNames, TypeOK
  <1>13. CASE ListModules(r)
    <2>1. found' \in [Requests -> SUBSET FileNames]
      BY <1>13 DEF ListModules, TypeOK
    <2>2. faults' \in 0..MaxFaults
      BY <1>13, FaultType DEF ListModules
    <2> QED
      BY <1>13, <2>1, <2>2, GotoType, WritersStay, TargetsStay DEF ListModules, TypeOK
  <1>14. CASE TakeStates(r)
    <2>1. PICK p \in {"open", "done"} : Goto(r, p)
      BY <1>14 DEF TakeStates
    <2>2. rec' \in [Requests -> Records]
      <3>1. rec[r] \in Records /\ rec \in [Requests -> Records]
        BY DEF TypeOK
      <3>2. CASE UNCHANGED rec
        BY <3>1, <3>2
      <3>3. ASSUME NEW W \in SUBSET Causes,
                   rec' = [rec EXCEPT ![r].files = xplane, ![r].why = @ \cup W]
            PROVE  rec' \in [Requests -> Records]
        <4>1. xplane \in [Hosts -> XplaneStates]
          BY DEF TypeOK
        <4>2. [rec[r] EXCEPT !.files = xplane, !.why = @ \cup W] \in Records
          BY <3>1, <4>1 DEF Records
        <4>3. rec' = [rec EXCEPT ![r] =
                [rec[r] EXCEPT !.files = xplane, !.why = @ \cup W]]
          BY <3>3, Zenon
        <4> QED BY <3>1, <4>2, <4>3
      <3> DEFINE W == IF xplane = base[r] THEN {} ELSE {"moved"}
      <3>4. \/ rec' = [rec EXCEPT ![r].files = xplane, ![r].why = @ \cup W]
            \/ UNCHANGED rec
        BY <1>14 DEF TakeStates
      <3>5. W \in SUBSET Causes
        BY DEF Causes
      <3> HIDE DEF W
      <3> QED BY <3>2, <3>3, <3>4, <3>5
    <2>3. faults' \in 0..MaxFaults
      BY <1>14, FaultType DEF TakeStates
    <2> QED
      BY <1>14, <2>1, <2>2, <2>3, GotoType, WritersStay, TargetsStay
         DEF TakeStates, TypeOK
  <1>15. CASE OpenToolsFile(r)
    <2>1. toolsFile' \in [exists : BOOLEAN, writers : SUBSET Requests,
                          shared : BOOLEAN, valid : BOOLEAN, content : Records]
      BY <1>15, NoRecordType DEF OpenToolsFile, TypeOK
    <2>2. \A q \in toolsFile'.writers : pc'[q] = "save"
      BY <1>15 DEF OpenToolsFile, TypeOK, Goto
    <2> QED BY <1>15, <2>1, <2>2, GotoType, TargetsStay DEF OpenToolsFile, TypeOK
  <1>16. CASE CloseToolsFile(r)
    <2>1. \/ r \notin toolsFile.writers /\ UNCHANGED toolsFile
          \/ \E c \in Records : toolsFile' = Closed(r, c)
      BY <1>16, NoRecordType DEF CloseToolsFile, TypeOK
    <2>2. /\ toolsFile' \in [exists : BOOLEAN, writers : SUBSET Requests,
                             shared : BOOLEAN, valid : BOOLEAN, content : Records]
          /\ toolsFile'.writers \subseteq toolsFile.writers \ {r}
      BY <2>1, ClosedType DEF TypeOK
    <2>3. \A q \in toolsFile'.writers : pc'[q] = "save"
      BY <1>16, <2>2 DEF CloseToolsFile, TypeOK, Goto
    <2> QED BY <1>16, <2>2, <2>3, GotoType, TargetsStay DEF CloseToolsFile, TypeOK
  <1>17. CASE SaveFails(r)
    <2>1. \/ r \notin toolsFile.writers /\ UNCHANGED toolsFile
          \/ \E c \in Records : toolsFile' = Closed(r, c)
      BY <1>17 DEF SaveFails, TypeOK
    <2>2. /\ toolsFile' \in [exists : BOOLEAN, writers : SUBSET Requests,
                             shared : BOOLEAN, valid : BOOLEAN, content : Records]
          /\ toolsFile'.writers \subseteq toolsFile.writers \ {r}
      BY <2>1, ClosedType DEF TypeOK
    <2>3. \A q \in toolsFile'.writers : pc'[q] = "save"
      BY <1>17, <2>2 DEF SaveFails, TypeOK, Goto
    <2>4. faults' \in 0..MaxFaults
      BY <1>17, FaultType DEF SaveFails
    <2> QED BY <1>17, <2>2, <2>3, <2>4, GotoType, TargetsStay DEF SaveFails, TypeOK
  <1> QED
    BY <1>1, <1>2, <1>3, <1>4, <1>5, <1>6, <1>7, <1>8, <1>9, <1>10, <1>11, <1>12,
       <1>13, <1>14, <1>15, <1>16, <1>17 DEF RequestStep

LEMMA InitType == Init => TypeOK
  <1> SUFFICES ASSUME Init PROVE TypeOK
    OBVIOUS
  <1>1. NoRecord.files \in [Hosts -> XplaneStates]
    BY DEF NoRecord, XplaneStates
  <1>2. toolsFile.writers = {} /\ rec \in [Requests -> Records]
    BY NoRecordType DEF Init, NoFile
  <1>3. base \in [Requests -> [Hosts -> XplaneStates]]
    BY <1>1 DEF Init
  <1>4. toolsFile \in [exists : BOOLEAN, writers : SUBSET Requests,
                       shared : BOOLEAN, valid : BOOLEAN, content : Records]
    BY NoFileType DEF Init
  <1>5. /\ pc \in [Requests -> PC]
        /\ \A r \in Requests : pc[r] # "write"
    BY DEF Init, PC, Ended
  <1>6. /\ todo \in [Requests -> SUBSET (Hosts \cup FileNames)]
        /\ found \in [Requests -> SUBSET FileNames]
        /\ hlo \subseteq FileNames
    BY DEF Init
  <1>7. faults \in 0..MaxFaults
    BY DiscoveryAssumption DEF Init
  <1> QED
    BY <1>2, <1>3, <1>4, <1>5, <1>6, <1>7 DEF Init, TypeOK

LEMMA NextType == TypeOK /\ [Next]_vars => TypeOK'
  <1> SUFFICES ASSUME TypeOK, [Next]_vars PROVE TypeOK'
    OBVIOUS
  <1>1. ASSUME NEW h \in Hosts, OpenXplane(h) PROVE TypeOK'
    BY <1>1 DEF OpenXplane, TypeOK, XplaneStates, reqVars
  <1>2. ASSUME NEW h \in Hosts, CloseXplane(h) PROVE TypeOK'
    BY <1>2 DEF CloseXplane, TypeOK, XplaneStates, reqVars
  <1>3. ASSUME NEW r \in Requests, RequestStep(r) PROVE TypeOK'
    BY <1>3, RequestStepType
  <1>4. CASE Restart
    <2>1. /\ pc' \in [Requests -> PC]
          /\ \A r \in Requests : pc'[r] # "write"
      BY <1>4 DEF Restart, TypeOK, PC, Ended
    <2>2. /\ toolsFile' \in [exists : BOOLEAN, writers : SUBSET Requests,
                             shared : BOOLEAN, valid : BOOLEAN, content : Records]
          /\ toolsFile'.writers = {}
      BY <1>4 DEF Restart, TypeOK
    <2>3. stopped' \in BOOLEAN
      BY <1>4, Zenon DEF Restart, TypeOK
    <2>4. faults' \in 0..MaxFaults
      BY <1>4, FaultType DEF Restart
    <2> QED BY <1>4, <2>1, <2>2, <2>3, <2>4 DEF Restart, TypeOK
  <1>5. CASE UNCHANGED vars
    BY <1>5 DEF vars, dirVars, reqVars, TypeOK
  <1> QED BY <1>1, <1>2, <1>3, <1>4, <1>5 DEF Next

(* Every variable keeps its type, whichever requests, hosts and faults     *)
(* interleave; in particular nobody but a request that is saving has the   *)
(* tools file open.                                                        *)
THEOREM Typing == Spec => []TypeOK
  BY InitType, NextType, PTL DEF Spec
-----------------------------------------------------------------------------
(* AcceptedListHasCause says nothing of the file, nor of what a request is *)
(* about to save; the invariant does.  OfWhole is what the property asks   *)
(* of a record, and the states of the xplanes only ever grow, so a list    *)
(* saved with unmoved states was read from what those states say.          *)

OfWhole(f, c) ==
  c.why = {} /\ (\A h \in Hosts : f[h] \in {"absent", "whole"}) =>
    \E h \in Hosts : f[h] = "whole" /\ c.list = ListOf(HloOf[h])

(* f are states that the xplanes had, now or earlier. *)
Before(f) ==
  \A h \in Hosts : f[h] = "absent" \/ f[h] = xplane[h] \/ xplane[h] = "whole"

Converting == {"find", "extract", "write", "names", "states"}

FileInv ==
  /\ toolsFile.valid => toolsFile.content # NoRecord
  /\ toolsFile.content = NoRecord \/ OfWhole(toolsFile.content.files, toolsFile.content)

RequestInv(r) ==
  /\ pc[r] \in {"compare", "open", "save"} => OfWhole(rec[r].files, rec[r])
  /\ pc[r] \in Converting => Before(base[r])
  /\ pc[r] = "states" /\ base[r] = xplane => OfWhole(base[r], rec[r])

ListInv == TypeOK /\ FileInv /\ \A r \in Requests : RequestInv(r)

(* A step of r leaves the other requests and the xplanes alone. *)
LEMMA OthersStay ==
  ASSUME TypeOK, NEW r \in Requests, RequestStep(r), NEW q \in Requests \ {r}
  PROVE  /\ pc'[q] = pc[q] /\ rec'[q] = rec[q] /\ base'[q] = base[q]
         /\ UNCHANGED xplane
  <1> USE DEF TypeOK, Goto, dirVars
  <1>1. CASE Load(r) \/ CompareStates(r) \/ Invalidate(r) \/ StartModuleList(r)
    BY <1>1 DEF Load, CompareStates, Invalidate, StartModuleList
  <1>2. CASE ListXplanes(r) \/ FindModules(r) \/ ReadXplane(r) \/ ReadXplaneFails(r)
    BY <1>2 DEF ListXplanes, FindModules, ReadXplane, ReadXplaneFails, ConversionFails
  <1>3. CASE StartModuleFiles(r) \/ WriteModuleFile(r) \/ WriteModuleFileFails(r)
    BY <1>3 DEF StartModuleFiles, WriteModuleFile, WriteModuleFileFails, ConversionFails
  <1>4. CASE ReadToolNames(r)
    BY <1>4 DEF ReadToolNames, ConversionFails
  <1>5. CASE ListModules(r) \/ TakeStates(r)
    BY <1>5 DEF ListModules, TakeStates
  <1>6. CASE OpenToolsFile(r) \/ CloseToolsFile(r) \/ SaveFails(r)
    BY <1>6 DEF OpenToolsFile, CloseToolsFile, SaveFails
  <1> QED BY <1>1, <1>2, <1>3, <1>4, <1>5, <1>6 DEF RequestStep

(* The tools file only ever holds a list that a request was about to save. *)
LEMMA FileStep ==
  ASSUME ListInv, NEW r \in Requests, RequestStep(r)
  PROVE  FileInv'
  <1> USE DEF dirVars
  <1>1. CASE UNCHANGED toolsFile
    BY <1>1 DEF ListInv, FileInv, OfWhole
  <1>2. CASE Invalidate(r) \/ OpenToolsFile(r)
    BY <1>2 DEF Invalidate, OpenToolsFile, NoFile, FileInv
  <1>3. ASSUME NEW c \in {rec[r], toolsFile.content, NoRecord},
               toolsFile' = Closed(r, c),
               OfWhole(rec[r].files, rec[r])
        PROVE  FileInv'
    <2>1. c \in Records /\ (c = NoRecord \/ OfWhole(c.files, c))
      BY <1>3, NoRecordType DEF ListInv, TypeOK, FileInv
    <2>2. toolsFile'.content = c /\ (toolsFile'.valid <=> c # NoRecord)
      BY <1>3, <2>1, ClosedType DEF ListInv
    <2> QED BY <2>1, <2>2 DEF FileInv, OfWhole
  <1>4. CASE CloseToolsFile(r)
    <2>1. OfWhole(rec[r].files, rec[r])
      BY <1>4 DEF CloseToolsFile, ListInv, RequestInv
    <2> QED BY <1>1, <1>3, <1>4, <2>1 DEF CloseToolsFile
  <1>5. CASE SaveFails(r)
    <2>1. OfWhole(rec[r].files, rec[r])
      BY <1>5 DEF SaveFails, ListInv, RequestInv
    <2> QED BY <1>1, <1>3, <1>5, <2>1 DEF SaveFails
  <1>6. CASE Load(r) \/ CompareStates(r) \/ StartModuleList(r) \/ ListXplanes(r)
    BY <1>1, <1>6 DEF Load, CompareStates, StartModuleList, ListXplanes
  <1>7. CASE FindModules(r) \/ ReadXplane(r) \/ ReadXplaneFails(r)
    BY <1>1, <1>7 DEF FindModules, ReadXplane, ReadXplaneFails
  <1>8. CASE StartModuleFiles(r) \/ WriteModuleFile(r) \/ WriteModuleFileFails(r)
    BY <1>1, <1>8 DEF StartModuleFiles, WriteModuleFile, WriteModuleFileFails
  <1>9. CASE ReadToolNames(r) \/ ListModules(r) \/ TakeStates(r)
    BY <1>1, <1>9 DEF ReadToolNames, ListModules, TakeStates
  <1> QED
    BY <1>2, <1>4, <1>5, <1>6, <1>7, <1>8, <1>9 DEF RequestStep

(* A list read from an xplane whose listed states still hold is the list   *)
(* of a complete one, if they are all complete.                            *)
LEMMA ReadList ==
  ASSUME ListInv, NEW r \in Requests, ReadToolNames(r)
  PROVE  base[r] = xplane => OfWhole(base[r], rec'[r])
  <1>1. CASE ConversionFails(r)
    BY <1>1, ConversionFailsType DEF ListInv, OfWhole
  <1>2. ASSUME NEW h \in Listed(r), NEW M \in SUBSET Modules, CanRead(h, M),
               rec' = [rec EXCEPT ![r].list = ListOf(M)]
        PROVE  base[r] = xplane => OfWhole(base[r], rec'[r])
    <2>1. h \in Hosts /\ base[r][h] # "absent"
      BY <1>2 DEF Listed
    <2>2. rec'[r].list = ListOf(M)
      BY <1>2 DEF ListInv, TypeOK, Records
    <2>3. xplane[h] = "whole" => M = HloOf[h]
      BY <1>2 DEF CanRead
    <2> QED BY <2>1, <2>2, <2>3 DEF OfWhole
  <1> QED BY <1>1, <1>2 DEF ReadToolNames

(* Every step of r keeps the invariant of r. *)
LEMMA OwnStep ==
  ASSUME ListInv, NEW r \in Requests, RequestStep(r)
  PROVE  RequestInv(r)'
  <1> USE DEF Converting, dirVars
  <1>0. /\ TypeOK /\ RequestInv(r)
        /\ \A p \in PC : Goto(r, p) => pc'[r] = p
        /\ base[r] \in [Hosts -> XplaneStates] /\ rec[r] \in Records
    BY DEF ListInv, TypeOK, Goto
  <1>1. ASSUME NEW p \in PC \ (Converting \cup {"compare", "open", "save"}), Goto(r, p)
        PROVE  RequestInv(r)'
    BY <1>0, <1>1 DEF RequestInv
  <1>2. ASSUME NEW p \in Converting \ {"states"}, Goto(r, p), UNCHANGED <<xplane, base>>,
               pc[r] \in Converting
        PROVE  RequestInv(r)'
    BY <1>0, <1>2 DEF RequestInv, Before, PC, Ended
  <1>3. ASSUME Goto(r, "states"), rec'[r].why # {}, UNCHANGED <<xplane, base>>,
               pc[r] \in Converting
        PROVE  RequestInv(r)'
    BY <1>0, <1>3 DEF RequestInv, Before, OfWhole, PC
  <1>4. ASSUME ConversionFails(r), UNCHANGED <<xplane, base>>, pc[r] \in Converting
        PROVE  RequestInv(r)'
    BY <1>0, <1>1, <1>3, <1>4, ConversionFailsType DEF PC
  <1>5. CASE Load(r)
    <2>1. CASE Goto(r, "invalidate")
      BY <1>1, <2>1 DEF PC
    <2>2. ASSUME toolsFile.valid, rec' = [rec EXCEPT ![r] = toolsFile.content],
                 Goto(r, "compare")
          PROVE  RequestInv(r)'
      <3>1. rec'[r] = toolsFile.content
        BY <2>2 DEF ListInv, TypeOK
      <3>2. OfWhole(toolsFile.content.files, toolsFile.content)
        BY <2>2 DEF ListInv, FileInv
      <3> QED BY <1>0, <2>2, <3>1, <3>2 DEF RequestInv, OfWhole, PC
    <2> QED BY <1>5, <2>1, <2>2 DEF Load
  <1>6. CASE CompareStates(r) \/ Invalidate(r) \/ StartModuleList(r)
    BY <1>1, <1>6 DEF CompareStates, Invalidate, StartModuleList, PC, Ended
  <1>7. CASE ListXplanes(r)
    <2>1. CASE Goto(r, "done")
      BY <1>1, <2>1 DEF PC, Ended
    <2>2. CASE base' = [base EXCEPT ![r] = xplane] /\ Goto(r, "find")
      <3>1. base'[r] = xplane /\ xplane' = xplane
        BY <1>0, <1>7, <2>2 DEF TypeOK, ListXplanes
      <3> QED BY <1>0, <2>2, <3>1 DEF RequestInv, Before, PC
    <2> QED BY <1>7, <2>1, <2>2 DEF ListXplanes
  <1>8. CASE FindModules(r)
    BY <1>2, <1>4, <1>8 DEF FindModules
  <1>9. CASE ReadXplane(r)
    BY <1>0, <1>9 DEF ReadXplane, RequestInv, Before
  <1>10. CASE ReadXplaneFails(r) \/ WriteModuleFileFails(r)
    BY <1>4, <1>10 DEF ReadXplaneFails, WriteModuleFileFails
  <1>11. CASE StartModuleFiles(r)
    BY <1>2, <1>11 DEF StartModuleFiles
  <1>12. CASE WriteModuleFile(r)
    <2>1. CASE Goto(r, "names")
      BY <1>2, <1>12, <2>1 DEF WriteModuleFile
    <2>2. CASE UNCHANGED pc
      BY <1>0, <1>12, <2>2 DEF WriteModuleFile, RequestInv, Before
    <2> QED BY <1>12, <2>1, <2>2 DEF WriteModuleFile
  <1>13. CASE ReadToolNames(r)
    <2>1. base[r] = xplane => OfWhole(base[r], rec'[r])
      BY <1>13, ReadList
    <2>2. Before(base[r]) /\ UNCHANGED <<xplane, base>>
      BY <1>0, <1>13 DEF ReadToolNames, RequestInv
    <2>3. Goto(r, "states") \/ Goto(r, "modules")
      BY <1>13, <1>0, ConversionFailsType DEF ReadToolNames
    <2>4. CASE Goto(r, "modules")
      BY <1>1, <2>4 DEF PC
    <2>5. CASE Goto(r, "states")
      BY <1>0, <2>1, <2>2, <2>5 DEF RequestInv, Before, OfWhole, PC
    <2> QED BY <2>3, <2>4, <2>5
  <1>14. CASE ListModules(r) \/ SaveFails(r) \/ CloseToolsFile(r)
    BY <1>1, <1>14 DEF ListModules, SaveFails, CloseToolsFile, PC, Ended
  <1>15. CASE TakeStates(r)
    <2>1. CASE Goto(r, "done")
      BY <1>1, <2>1 DEF PC, Ended
    <2> DEFINE W == IF xplane = base[r] THEN {} ELSE {"moved"}
    <2>2. ASSUME rec' = [rec EXCEPT ![r].files = xplane, ![r].why = @ \cup W],
                 Goto(r, "open")
          PROVE  RequestInv(r)'
      <3>1. /\ rec'[r].files = xplane
            /\ rec'[r].list = rec[r].list
            /\ rec'[r].why = rec[r].why \cup W
        <4>1. rec'[r] = [rec[r] EXCEPT !.files = xplane, !.why = @ \cup W]
          BY <1>0, <2>2 DEF TypeOK
        <4> HIDE DEF W
        <4> QED BY <1>0, <4>1 DEF Records
      <3>2. base[r] = xplane => OfWhole(base[r], rec[r])
        BY <1>0, <1>15 DEF TakeStates, RequestInv
      <3>3. OfWhole(rec'[r].files, rec'[r])
        <4>1. CASE base[r] = xplane
          BY <3>1, <3>2, <4>1 DEF OfWhole
        <4>2. CASE base[r] # xplane
          BY <3>1, <4>2 DEF OfWhole
        <4> QED BY <4>1, <4>2
      <3>4. pc'[r] = "open"
        BY <1>0, <2>2 DEF PC
      <3> QED BY <3>3, <3>4 DEF RequestInv, OfWhole
    <2> QED BY <1>15, <2>1, <2>2 DEF TakeStates
  <1>16. CASE OpenToolsFile(r)
    BY <1>0, <1>16 DEF OpenToolsFile, RequestInv, OfWhole, PC
  <1> QED
    BY <1>5, <1>6, <1>7, <1>8, <1>9, <1>10, <1>11, <1>12, <1>13, <1>14, <1>15, <1>16
       DEF RequestStep

(* Xplanes only grow: what a request listed stays behind them, and if they *)
(* have moved they do not come back to it.                                 *)
LEMMA XplaneGrows ==
  ASSUME ListInv, NEW h \in Hosts, OpenXplane(h) \/ CloseXplane(h)
  PROVE  FileInv' /\ \A r \in Requests : RequestInv(r)'
  <1>1. UNCHANGED <<toolsFile, reqVars>>
    BY DEF OpenXplane, CloseXplane, reqVars
  <1>2. FileInv'
    BY <1>1 DEF ListInv, FileInv, OfWhole
  <1>3. ASSUME NEW r \in Requests PROVE RequestInv(r)'
    <2>1. /\ base[r] \in [Hosts -> XplaneStates]
          /\ xplane \in [Hosts -> XplaneStates]
      BY DEF ListInv, TypeOK
    <2>2. \/ xplane[h] = "absent" /\ xplane' = [xplane EXCEPT ![h] = "partial"]
          \/ xplane[h] = "partial" /\ xplane' = [xplane EXCEPT ![h] = "whole"]
      BY DEF OpenXplane, CloseXplane
    <2>3. Before(base[r]) => Before(base[r])' /\ base[r] # xplane'
      BY <1>1, <2>1, <2>2 DEF Before, reqVars
    <2>4. RequestInv(r)
      BY DEF ListInv
    <2>5. /\ pc' = pc /\ rec' = rec /\ base' = base
      BY <1>1 DEF reqVars
    <2> QED BY <2>3, <2>4, <2>5 DEF RequestInv, OfWhole, Converting
  <1> QED BY <1>2, <1>3

LEMMA ListInvariance == Spec => []ListInv
  <1>1. Init => ListInv
    <2> SUFFICES ASSUME Init PROVE ListInv
      OBVIOUS
    <2>1. TypeOK
      BY InitType
    <2>2. FileInv
      BY DEF Init, FileInv, NoFile
    <2>3. \A r \in Requests : RequestInv(r)
      BY DEF Init, RequestInv, Converting
    <2> QED BY <2>1, <2>2, <2>3 DEF ListInv
  <1>2. ListInv /\ [Next]_vars => ListInv'
    <2> SUFFICES ASSUME ListInv, [Next]_vars PROVE ListInv'
      OBVIOUS
    <2>0. TypeOK'
      BY NextType DEF ListInv
    <2>1. ASSUME NEW h \in Hosts, OpenXplane(h) \/ CloseXplane(h) PROVE ListInv'
      BY <2>0, <2>1, XplaneGrows DEF ListInv
    <2>2. ASSUME NEW r \in Requests, RequestStep(r) PROVE ListInv'
      <3>1. FileInv'
        BY <2>2, FileStep
      <3>2. RequestInv(r)'
        BY <2>2, OwnStep
      <3>3. ASSUME NEW q \in Requests \ {r} PROVE RequestInv(q)'
        <4>1. /\ pc'[q] = pc[q] /\ rec'[q] = rec[q] /\ base'[q] = base[q]
              /\ xplane' = xplane
          BY <2>2, OthersStay DEF ListInv
        <4>2. RequestInv(q)
          BY DEF ListInv
        <4> QED BY <4>1, <4>2 DEF RequestInv, Before, OfWhole
      <3> QED BY <2>0, <3>1, <3>2, <3>3 DEF ListInv
    <2>3. CASE Restart
      <3>1. FileInv'
        BY <2>3 DEF Restart, ListInv, FileInv, TypeOK, OfWhole
      <3>2. ASSUME NEW r \in Requests PROVE RequestInv(r)'
        BY <2>3 DEF Restart, RequestInv, Converting, Ended
      <3> QED BY <2>0, <3>1, <3>2 DEF ListInv
    <2>4. CASE UNCHANGED vars
      <3>1. FileInv'
        BY <2>4 DEF vars, dirVars, ListInv, FileInv, OfWhole
      <3>2. ASSUME NEW r \in Requests PROVE RequestInv(r)'
        BY <2>4 DEF vars, dirVars, reqVars, ListInv, RequestInv, Before, OfWhole
      <3> QED BY <2>0, <3>1, <3>2 DEF ListInv
    <2> QED BY <2>1, <2>2, <2>3, <2>4 DEF Next
  <1> QED BY <1>1, <1>2, PTL DEF Spec

(* The tool list that load accepts is the one of a complete xplane, unless *)
(* the files moved while it was computed or its conversion failed, however *)
(* many requests load, save and invalidate the file at once.               *)
THEOREM AcceptedLists == Spec => AcceptedListHasCause
  <1> DEFINE Accepts(r) ==
        /\ pc[r] = "compare" /\ pc'[r] = "done" /\ rec[r].why = {}
        /\ \A h \in Hosts : xplane[h] \in {"absent", "whole"}
  <1>1. ListInv /\ [Next]_vars =>
          [\A r \in Requests : Accepts(r) =>
             \E h \in Hosts : xplane[h] = "whole" /\ rec[r].list = ListOf(HloOf[h])]_vars
    <2> SUFFICES ASSUME ListInv, Next, NEW r \in Requests, Accepts(r)
                 PROVE  \E h \in Hosts : /\ xplane[h] = "whole"
                                         /\ rec[r].list = ListOf(HloOf[h])
      OBVIOUS
    <2>1. ~Restart /\ \A h \in Hosts : ~OpenXplane(h) /\ ~CloseXplane(h)
      BY DEF Restart, Ended, OpenXplane, CloseXplane, reqVars
    <2>2. PICK q \in Requests : RequestStep(q)
      BY <2>1 DEF Next
    <2>3. q = r
      BY <2>2, OthersStay DEF ListInv
    <2>4. CompareStates(r)
      BY <2>2, <2>3 DEF RequestStep, Load, Invalidate, StartModuleList, ListXplanes,
         FindModules, ReadXplane, ReadXplaneFails, StartModuleFiles, WriteModuleFile,
         WriteModuleFileFails, ReadToolNames, ListModules, TakeStates, OpenToolsFile,
         CloseToolsFile, SaveFails
    <2>5. rec[r].files = xplane
      BY <2>4 DEF CompareStates, Goto, ListInv, TypeOK
    <2>6. OfWhole(rec[r].files, rec[r])
      BY DEF ListInv, RequestInv
    <2> QED BY <2>5, <2>6 DEF OfWhole
  <1> QED BY <1>1, ListInvariance, PTL DEF Spec, AcceptedListHasCause
-----------------------------------------------------------------------------
(* ModulesCompleteOrCause looks at moments when nobody extracts.  The      *)
(* invariant follows every extraction: unless an xplane came too late, the *)
(* complete ones are all still to be read, or read; what has been found is *)
(* in a file or still to be written; and once there are files, they are    *)
(* all there, or somebody is writing them, or a writer was stopped.        *)

Seeking == {"idle", "compare", "invalidate", "list", "find", "extract", "write"}

Whole == {h \in Hosts : xplane[h] = "whole"}

Toward(r) ==
  /\ pc[r] = "find" => Whole \subseteq Listed(r)
  /\ pc[r] = "extract" => \A h \in Whole : h \in todo[r] \/ HloOf[h] \subseteq found[r]
  /\ pc[r] = "write" => AllModules \subseteq found[r]

ExtractInv(r) ==
  /\ pc[r] \in Seeking => NoModule \notin found[r]
  /\ pc[r] = "write" => /\ todo[r] \subseteq (IF found[r] = {} THEN {NoModule} ELSE found[r])
                        /\ found[r] \subseteq todo[r] \cup hlo
  /\ late \/ Toward(r)

FilesInv ==
  ~late =>
    /\ NoModule \in hlo => AllModules = {}
    /\ hlo # {} /\ ~stopped =>
         AllModules \subseteq hlo \/ \E r \in Requests : pc[r] = "write"

ModulesInv == TypeOK /\ FilesInv /\ \A r \in Requests : ExtractInv(r)

(* A step of r leaves the extractions of the others alone, and takes no    *)
(* file and no history away.                                               *)
LEMMA ExtractionsApart ==
  ASSUME TypeOK, NEW r \in Requests, RequestStep(r)
  PROVE  /\ \A q \in Requests \ {r} : todo'[q] = todo[q] /\ found'[q] = found[q]
         /\ hlo \subseteq hlo' /\ late' = late /\ (stopped => stopped')
         /\ xplane' = xplane
  <1> USE DEF TypeOK, dirVars
  <1>1. CASE Load(r) \/ CompareStates(r) \/ Invalidate(r) \/ StartModuleList(r)
    BY <1>1 DEF Load, CompareStates, Invalidate, StartModuleList
  <1>2. CASE ListXplanes(r) \/ FindModules(r) \/ ReadXplane(r) \/ ReadXplaneFails(r)
    BY <1>2 DEF ListXplanes, FindModules, ReadXplane, ReadXplaneFails
  <1>3. CASE StartModuleFiles(r) \/ WriteModuleFile(r) \/ WriteModuleFileFails(r)
    BY <1>3 DEF StartModuleFiles, WriteModuleFile, WriteModuleFileFails
  <1>4. CASE ReadToolNames(r) \/ ListModules(r) \/ TakeStates(r)
    BY <1>4 DEF ReadToolNames, ListModules, TakeStates
  <1>5. CASE OpenToolsFile(r) \/ CloseToolsFile(r) \/ SaveFails(r)
    BY <1>5 DEF OpenToolsFile, CloseToolsFile, SaveFails
  <1> QED BY <1>1, <1>2, <1>3, <1>4, <1>5 DEF RequestStep

(* Every extraction keeps the invariant in its own steps: it reads all it  *)
(* has listed, and writes all it has read.                                 *)
LEMMA OwnExtraction ==
  ASSUME ModulesInv, NEW r \in Requests, RequestStep(r)
  PROVE  ExtractInv(r)'
  <1> USE DEF Seeking, dirVars
  <1>0. /\ TypeOK /\ ExtractInv(r) /\ FilesInv
        /\ \A p \in PC : Goto(r, p) => pc'[r] = p
        /\ found[r] \subseteq FileNames
        /\ xplane' = xplane /\ late' = late
    BY ExtractionsApart DEF ModulesInv, TypeOK, Goto
  <1>1. ASSUME NEW p \in PC \ Seeking, Goto(r, p)
        PROVE  ExtractInv(r)'
    BY <1>0, <1>1 DEF ExtractInv, Toward
  <1>2. ASSUME NEW p \in {"idle", "compare", "invalidate", "list"}, Goto(r, p),
               NoModule \notin found'[r]
        PROVE  ExtractInv(r)'
    BY <1>0, <1>2 DEF ExtractInv, Toward, PC
  <1>3. ASSUME ConversionFails(r) PROVE ExtractInv(r)'
    BY <1>0, <1>1, <1>3, ConversionFailsType DEF PC
  <1>4. CASE Load(r) \/ CompareStates(r) \/ Invalidate(r)
    <2>1. NoModule \notin found[r] /\ found' = found
      BY <1>0, <1>4 DEF Load, CompareStates, Invalidate, ExtractInv
    <2> QED BY <1>1, <1>2, <1>4, <2>1 DEF Load, CompareStates, Invalidate, PC, Ended
  <1>5. CASE StartModuleList(r)
    <2>1. NoModule \notin found[r]
      BY <1>0, <1>5 DEF StartModuleList, ExtractInv
    <2>2. CASE Goto(r, "done")
      BY <1>1, <2>2 DEF PC, Ended
    <2>3. CASE found' = [found EXCEPT ![r] = hlo] /\ hlo = {} /\ Goto(r, "list")
      <3>1. found'[r] = {}
        BY <1>0, <2>3 DEF TypeOK
      <3> QED BY <1>2, <2>3, <3>1
    <2>4. CASE Goto(r, "list") /\ UNCHANGED found
      BY <1>2, <2>1, <2>4
    <2> QED BY <1>5, <2>2, <2>3, <2>4 DEF StartModuleList
  <1>6. CASE ListXplanes(r)
    <2>1. CASE Goto(r, "done")
      BY <1>1, <2>1 DEF PC, Ended
    <2>2. CASE base' = [base EXCEPT ![r] = xplane] /\ Goto(r, "find")
      <3>1. base'[r] = xplane /\ pc'[r] = "find" /\ found' = found
        BY <1>0, <1>6, <2>2 DEF TypeOK, ListXplanes, PC
      <3>2. NoModule \notin found[r]
        BY <1>0, <1>6 DEF ListXplanes, ExtractInv
      <3>3. (Whole \subseteq Listed(r))'
        BY <1>0, <3>1 DEF Whole, Listed
      <3> QED BY <3>1, <3>2, <3>3 DEF ExtractInv, Toward
    <2> QED BY <1>6, <2>1, <2>2 DEF ListXplanes
  <1>7. CASE FindModules(r)
    <2>1. CASE Goto(r, "names")
      BY <1>1, <2>1 DEF PC
    <2>2. CASE Goto(r, "extract") /\ todo' = [todo EXCEPT ![r] = Listed(r)]
      <3>1. pc'[r] = "extract" /\ todo'[r] = Listed(r) /\ found' = found
        BY <1>0, <1>7, <2>2 DEF FindModules, TypeOK, PC
      <3>2. NoModule \notin found[r] /\ (late \/ Whole \subseteq Listed(r))
        BY <1>0, <1>7 DEF FindModules, ExtractInv, Toward
      <3> QED BY <1>0, <3>1, <3>2 DEF ExtractInv, Toward, Whole
    <2> QED BY <1>3, <1>7, <2>1, <2>2 DEF FindModules
  <1>8. CASE ReadXplane(r)
    <2>1. PICK h \in todo[r], M \in SUBSET Modules :
            /\ CanRead(h, M)
            /\ found' = [found EXCEPT ![r] = @ \cup M]
            /\ todo' = [todo EXCEPT ![r] = @ \ {h}]
      BY <1>8 DEF ReadXplane
    <2>2. /\ found'[r] = found[r] \cup M /\ todo'[r] = todo[r] \ {h}
          /\ pc'[r] = "extract" /\ pc[r] = "extract"
      BY <1>0, <1>8, <2>1 DEF ReadXplane, TypeOK
    <2>3. NoModule \notin found'[r]
      BY <1>0, <2>2, DiscoveryAssumption DEF ExtractInv
    <2>4. ASSUME ~late, NEW g \in Whole
          PROVE  g \in todo'[r] \/ HloOf[g] \subseteq found'[r]
      <3>1. g \in todo[r] \/ HloOf[g] \subseteq found[r]
        BY <1>0, <2>2, <2>4 DEF ExtractInv, Toward
      <3>2. g = h => M = HloOf[g]
        BY <2>1 DEF Whole, CanRead
      <3> QED BY <2>2, <3>1, <3>2
    <2> QED BY <1>0, <2>2, <2>3, <2>4 DEF ExtractInv, Toward, Whole
  <1>9. CASE ReadXplaneFails(r) \/ WriteModuleFileFails(r)
    BY <1>3, <1>9 DEF ReadXplaneFails, WriteModuleFileFails
  <1>10. CASE StartModuleFiles(r)
    <2>1. /\ pc'[r] = "write" /\ found' = found /\ hlo' = hlo
          /\ todo'[r] = IF found[r] = {} THEN {NoModule} ELSE found[r]
      BY <1>0, <1>10 DEF StartModuleFiles, TypeOK, PC
    <2>2. NoModule \notin found[r]
      BY <1>0, <1>10 DEF StartModuleFiles, ExtractInv
    <2>3. late \/ AllModules \subseteq found[r]
      BY <1>0, <1>10 DEF StartModuleFiles, ExtractInv, Toward, AllModules, Whole
    <2> QED BY <1>0, <2>1, <2>2, <2>3 DEF ExtractInv, Toward, AllModules
  <1>11. CASE WriteModuleFile(r)
    <2>1. CASE Goto(r, "names")
      BY <1>1, <2>1 DEF PC
    <2>2. CASE UNCHANGED pc
      <3>1. PICK m \in todo[r] : /\ hlo' = hlo \cup {m}
                                 /\ todo' = [todo EXCEPT ![r] = @ \ {m}]
        BY <1>11 DEF WriteModuleFile
      <3>2. todo'[r] = todo[r] \ {m} /\ found' = found /\ pc[r] = "write"
        BY <1>0, <1>11, <3>1 DEF WriteModuleFile, TypeOK
      <3> QED BY <1>0, <2>2, <3>1, <3>2 DEF ExtractInv, Toward, AllModules
    <2> QED BY <1>11, <2>1, <2>2 DEF WriteModuleFile
  <1>12. CASE ReadToolNames(r)
    BY <1>1, <1>3, <1>12 DEF ReadToolNames, PC
  <1>13. CASE ListModules(r) \/ TakeStates(r) \/ OpenToolsFile(r) \/ CloseToolsFile(r)
              \/ SaveFails(r)
    BY <1>1, <1>13
       DEF ListModules, TakeStates, OpenToolsFile, CloseToolsFile, SaveFails, PC, Ended
  <1> QED
    BY <1>4, <1>5, <1>6, <1>7, <1>8, <1>9, <1>10, <1>11, <1>12, <1>13 DEF RequestStep

(* Only writing a module file adds one, and the last one of an extraction  *)
(* makes them complete.                                                    *)
LEMMA FilesStep ==
  ASSUME ModulesInv, NEW r \in Requests, RequestStep(r)
  PROVE  FilesInv'
  <1>0. /\ TypeOK /\ ExtractInv(r) /\ FilesInv
        /\ xplane' = xplane /\ late' = late /\ (stopped => stopped')
        /\ AllModules' = AllModules
        /\ \A q \in Requests \ {r} : pc'[q] = pc[q]
    BY OthersStay, ExtractionsApart DEF ModulesInv, AllModules
  <1>1. ASSUME UNCHANGED hlo, pc[r] # "write" PROVE FilesInv'
    BY <1>0, <1>1 DEF FilesInv
  <1>2. ASSUME NEW m \in todo[r], hlo' \in {hlo, hlo \cup {m}}, pc[r] = "write", ~late
        PROVE  NoModule \in hlo' => AllModules = {}
    BY <1>0, <1>2 DEF ExtractInv, Toward, FilesInv, Seeking
  <1>3. CASE WriteModuleFile(r)
    <2>1. PICK m \in todo[r] :
            /\ hlo' = hlo \cup {m}
            /\ IF todo[r] = {m} THEN Goto(r, "names") ELSE UNCHANGED pc
      BY <1>3 DEF WriteModuleFile
    <2>2. pc[r] = "write"
      BY <1>3 DEF WriteModuleFile
    <2>3. ~late /\ todo[r] = {m} => AllModules \subseteq hlo'
      BY <1>0, <2>1, <2>2 DEF ExtractInv, Toward
    <2>4. todo[r] # {m} => pc'[r] = "write"
      BY <2>1, <2>2
    <2> QED BY <1>0, <1>2, <2>1, <2>2, <2>3, <2>4 DEF FilesInv
  <1>4. CASE WriteModuleFileFails(r)
    BY <1>0, <1>2, <1>4 DEF WriteModuleFileFails, FilesInv
  <1>5. CASE Load(r) \/ CompareStates(r) \/ Invalidate(r) \/ StartModuleList(r)
    BY <1>1, <1>5 DEF Load, CompareStates, Invalidate, StartModuleList, dirVars
  <1>6. CASE ListXplanes(r) \/ FindModules(r) \/ ReadXplane(r) \/ ReadXplaneFails(r)
             \/ StartModuleFiles(r)
    BY <1>1, <1>6
       DEF ListXplanes, FindModules, ReadXplane, ReadXplaneFails, StartModuleFiles, dirVars
  <1>7. CASE ReadToolNames(r) \/ ListModules(r) \/ TakeStates(r)
    BY <1>1, <1>7 DEF ReadToolNames, ListModules, TakeStates, dirVars
  <1>8. CASE OpenToolsFile(r) \/ CloseToolsFile(r) \/ SaveFails(r)
    BY <1>1, <1>8 DEF OpenToolsFile, CloseToolsFile, SaveFails
  <1> QED BY <1>3, <1>4, <1>5, <1>6, <1>7, <1>8 DEF RequestStep

(* An xplane that is complete only now is still to be read by whoever      *)
(* extracts; otherwise it is late.                                         *)
LEMMA XplaneArrives ==
  ASSUME ModulesInv, NEW h \in Hosts, OpenXplane(h) \/ CloseXplane(h)
  PROVE  FilesInv' /\ \A r \in Requests : ExtractInv(r)'
  <1>0. /\ UNCHANGED <<hlo, pc, base, todo, found, stopped>>
        /\ xplane \in [Hosts -> XplaneStates]
        /\ \A r \in Requests : ExtractInv(r)
        /\ FilesInv
    BY DEF OpenXplane, CloseXplane, reqVars, ModulesInv, TypeOK
  <1>1. CASE OpenXplane(h)
    <2>1. Whole' = Whole /\ AllModules' = AllModules /\ late' = late
      BY <1>0, <1>1 DEF OpenXplane, Whole, AllModules, XplaneStates
    <2> QED BY <1>0, <2>1 DEF FilesInv, ExtractInv, Toward, Listed
  <1>2. CASE CloseXplane(h)
    <2>1. Whole' = Whole \cup {h}
      BY <1>0, <1>2 DEF CloseXplane, Whole
    <2>2. ~late' => ~late /\ hlo = {} /\ \A r \in Requests : ~Passed(r, h)
      BY <1>2 DEF CloseXplane
    <2>3. FilesInv'
      BY <1>0, <2>2 DEF FilesInv
    <2>4. ASSUME NEW r \in Requests PROVE ExtractInv(r)'
      <3>1. ~late' => Toward(r)'
        BY <1>0, <2>1, <2>2 DEF ExtractInv, Toward, Passed, Listed
      <3> QED BY <1>0, <3>1 DEF ExtractInv
    <2> QED BY <2>3, <2>4
  <1> QED BY <1>1, <1>2

LEMMA ModulesInvariance == Spec => []ModulesInv
  <1>1. Init => ModulesInv
    <2> SUFFICES ASSUME Init PROVE ModulesInv
      OBVIOUS
    <2>1. FilesInv
      BY DEF Init, FilesInv
    <2>2. \A r \in Requests : ExtractInv(r)
      BY DEF Init, ExtractInv, Toward
    <2> QED BY <2>1, <2>2, InitType DEF ModulesInv
  <1>2. ModulesInv /\ [Next]_vars => ModulesInv'
    <2> SUFFICES ASSUME ModulesInv, [Next]_vars PROVE ModulesInv'
      OBVIOUS
    <2>0. TypeOK'
      BY NextType DEF ModulesInv
    <2>1. ASSUME NEW h \in Hosts, OpenXplane(h) \/ CloseXplane(h) PROVE ModulesInv'
      BY <2>0, <2>1, XplaneArrives DEF ModulesInv
    <2>2. ASSUME NEW r \in Requests, RequestStep(r) PROVE ModulesInv'
      <3>1. FilesInv' /\ ExtractInv(r)'
        BY <2>2, FilesStep, OwnExtraction
      <3>2. ASSUME NEW q \in Requests \ {r} PROVE ExtractInv(q)'
        <4>1. /\ pc'[q] = pc[q] /\ base'[q] = base[q] /\ xplane' = xplane
              /\ todo'[q] = todo[q] /\ found'[q] = found[q]
              /\ hlo \subseteq hlo' /\ late' = late
          BY <2>2, OthersStay, ExtractionsApart DEF ModulesInv
        <4>2. ExtractInv(q)
          BY DEF ModulesInv
        <4> QED BY <4>1, <4>2 DEF ExtractInv, Toward, Whole, AllModules, Listed
      <3> QED BY <2>0, <3>1, <3>2 DEF ModulesInv
    <2>3. CASE Restart
      <3>1. /\ UNCHANGED <<xplane, hlo, base, todo, found, late>>
            /\ \A r \in Requests : pc'[r] = pc[r] \/ pc'[r] = "killed"
            /\ ~stopped' => ~stopped /\ \A r \in Requests : pc[r] # "write"
        BY <2>3 DEF Restart, ModulesInv, TypeOK
      <3>2. FilesInv'
        BY <3>1 DEF ModulesInv, FilesInv, AllModules
      <3>3. ASSUME NEW r \in Requests PROVE ExtractInv(r)'
        <4>1. ExtractInv(r)
          BY DEF ModulesInv
        <4> QED BY <3>1, <4>1 DEF ExtractInv, Toward, Whole, AllModules, Listed, Seeking
      <3> QED BY <2>0, <3>2, <3>3 DEF ModulesInv
    <2>4. CASE UNCHANGED vars
      <3>1. UNCHANGED <<xplane, hlo, pc, base, todo, found, late, stopped>>
        BY <2>4 DEF vars, dirVars, reqVars
      <3>2. FilesInv'
        BY <3>1 DEF ModulesInv, FilesInv, AllModules
      <3>3. ASSUME NEW r \in Requests PROVE ExtractInv(r)'
        <4>1. ExtractInv(r)
          BY DEF ModulesInv
        <4> QED BY <3>1, <4>1 DEF ExtractInv, Toward, Whole, AllModules, Listed
      <3> QED BY <2>0, <3>2, <3>3 DEF ModulesInv
    <2> QED BY <2>1, <2>2, <2>3, <2>4 DEF Next
  <1> QED BY <1>1, <1>2, PTL DEF Spec

(* When module files exist and nobody is writing any, those of all         *)
(* complete xplanes are there, and NO_MODULE only if there are none; but   *)
(* for an xplane that was late and an extraction that was stopped, and     *)
(* whatever the number of extractions at the same time.                    *)
THEOREM ModuleFiles == Spec => []ModulesCompleteOrCause
  <1>1. ModulesInv => ModulesCompleteOrCause
    BY DEF ModulesInv, FilesInv, ModulesCompleteOrCause
  <1> QED BY <1>1, ModulesInvariance, PTL
=============================================================================
