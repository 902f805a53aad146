-------------------------- MODULE DcnStats_proofs ---------------------------
(***************************************************************************)
(* Proofs about DcnStats, for any hosts, requests and number of faults:    *)
(* the two verdicts exclude each other, and a request that nothing         *)
(* disturbs is answered as the xplanes say.  And about the smart           *)
(* suggestions, for any profiles and number of faults: the report holds    *)
(* the suggestions it should and no others.                                *)
(***************************************************************************)
EXTENDS DcnStats, SmartSuggestions, TLAPS

(* What a conversion knows of the hosts it has been through.  Nothing is   *)
(* on disk before the first request, so the xplanes are settled by then.   *)
DcnVerdictInv ==
  /\ (\A r \in DcnRequests : dcnPc[r] = "idle") => \A f \in DcnFiles : dcnFile[f] = "absent"
  /\ DcnOneVerdict
  /\ \A r \in DcnRequests : dcnPc[r] = "scan" => DcnHosts \ dcnTodo[r] \subseteq dcnEvents
  /\ \A r \in DcnRequests : dcnPc[r] = "write" =>
       /\ dcnWriting[r] = NoHost => dcnEvents # DcnHosts
       /\ dcnWriting[r] # NoHost => DcnHosts \ dcnTodo[r] \subseteq dcnEvents
       /\ dcnWriting[r] = AllHosts => dcnTodo[r] = {}

(* Unless a writer was cut short, an open file has a writer, and the file  *)
(* of a verdict, or of a host a conversion has been through, is there.     *)
DcnFilesInv ==
  ~dcnDamaged =>
    /\ \A f \in DcnFiles : dcnFile[f] = "open" =>
         \E r \in DcnRequests : dcnPc[r] = "write" /\ dcnWriting[r] = f
    /\ dcnFile[AllHosts] # "absent" => \A h \in DcnHosts : dcnFile[h] # "absent"
    /\ \A r \in DcnRequests :
         /\ dcnPc[r] \in DcnMaking =>
              \A h \in dcnEvents \ dcnTodo[r] : dcnFile[h] # "absent"
         /\ dcnPc[r] = "write" => dcnFile[dcnWriting[r]] # "absent"
         /\ dcnPc[r] = "read" => dcnFile[AllHosts] # "absent"

(* A clean request is alone, and its answer is right. *)
DcnCleanInv ==
  \A r \in DcnRequests : dcnClean[r] =>
    /\ r \in DcnActive => ~dcnDamaged /\ DcnActive = {r}
    /\ dcnPc[r] \in DcnEnded =>
         dcnPc[r] = IF dcnEvents = DcnHosts THEN "stats" ELSE "none"

DcnIInv == DcnTypeOK /\ DcnVerdictInv /\ DcnFilesInv /\ DcnCleanInv

LEMMA DcnInitInv == DcnInit => DcnIInv
<1> SUFFICES ASSUME DcnInit PROVE DcnIInv
  OBVIOUS
<1> USE DcnAssumption DEF DcnInit, DcnFiles, DcnPC, DcnEnded, DcnAnswers, DcnMaking
<1>1. DcnTypeOK
  <2>1. /\ dcnEvents \subseteq DcnHosts
        /\ dcnTodo \in [DcnRequests -> SUBSET DcnHosts]
        /\ dcnFaults \in 0..DcnMaxFaults
    OBVIOUS
  <2>2. QED
    BY <2>1 DEF DcnTypeOK
<1>2. DcnVerdictInv
  BY DEF DcnVerdictInv, DcnOneVerdict
<1>3. DcnFilesInv
  BY DEF DcnFilesInv
<1>4. DcnCleanInv
  BY DEF DcnCleanInv
<1>5. QED
  BY <1>1, <1>2, <1>3, <1>4 DEF DcnIInv
-----------------------------------------------------------------------------
(* The xplanes are written. *)
LEMMA DcnRecordInv == ASSUME DcnIInv, DcnRecord PROVE DcnIInv'
<1> USE DcnAssumption DEF DcnIInv, DcnRecord
<1>1. DcnTypeOK'
  BY DEF DcnTypeOK
<1>2. DcnVerdictInv'
  BY DEF DcnVerdictInv, DcnOneVerdict, DcnFiles
<1>3. DcnFilesInv'
  BY DEF DcnVerdictInv, DcnFilesInv, DcnFiles, DcnMaking
<1>4. DcnCleanInv'
  BY DEF DcnCleanInv, DcnActive, DcnEnded, DcnAnswers
<1>5. QED
  BY <1>1, <1>2, <1>3, <1>4

(* A request starts: those under way are clean no longer. *)
LEMMA DcnStartInv ==
  ASSUME DcnIInv, NEW r \in DcnRequests, NEW t \in DcnHosts \cup {AllHosts}, DcnStart(r, t)
  PROVE  DcnIInv'
<1> USE DcnAssumption DEF DcnIInv, DcnStart, DcnGoto
<1>1. DcnTypeOK'
  BY DEF DcnTypeOK, DcnPC
<1>2. DcnVerdictInv'
  BY DEF DcnTypeOK, DcnVerdictInv, DcnOneVerdict
<1>3. DcnFilesInv'
  BY DEF DcnTypeOK, DcnFilesInv, DcnMaking
<1>4. DcnCleanInv'
  <2> SUFFICES ASSUME NEW q \in DcnRequests, dcnClean'[q]
               PROVE  /\ q \in DcnActive' => ~dcnDamaged' /\ DcnActive' = {q}
                      /\ dcnPc'[q] \in DcnEnded =>
                           dcnPc'[q] = IF dcnEvents' = DcnHosts THEN "stats" ELSE "none"
    BY DEF DcnCleanInv
  <2>1. DcnActive' = DcnActive \cup {r}
    BY DEF DcnTypeOK, DcnActive, DcnEnded, DcnAnswers
  <2>2. CASE q = r
    BY <2>1, <2>2 DEF DcnTypeOK, DcnEnded, DcnAnswers
  <2>3. CASE q # r
    BY <2>1, <2>3 DEF DcnTypeOK, DcnCleanInv
  <2>4. QED
    BY <2>2, <2>3
<1>5. QED
  BY <1>1, <1>2, <1>3, <1>4

(* A step of a request that neither starts nor is cut short: it disturbs   *)
(* nobody, so a clean request needs only that its own answer is right.     *)
LEMMA DcnCleanStep ==
  ASSUME DcnIInv, NEW r \in DcnRequests, NEW p \in DcnPC \ {"idle"},
         r \in DcnActive, DcnGoto(r, p), UNCHANGED <<dcnEvents, dcnClean, dcnDamaged>>,
         dcnClean[r] /\ p \in DcnEnded =>
           p = IF dcnEvents = DcnHosts THEN "stats" ELSE "none"
  PROVE  DcnCleanInv'
  BY DEF DcnIInv, DcnTypeOK, DcnCleanInv, DcnGoto, DcnActive

LEMMA DcnLookForNoHostInv ==
  ASSUME DcnIInv, NEW r \in DcnRequests, DcnLookForNoHost(r) PROVE DcnIInv'
<1> USE DcnAssumption DEF DcnLookForNoHost, DcnGoto
<1>1. DcnTypeOK'
  BY DEF DcnIInv, DcnTypeOK, DcnPC, DcnEnded, DcnAnswers
<1>2. DcnVerdictInv'
  BY DEF DcnIInv, DcnTypeOK, DcnVerdictInv, DcnOneVerdict
<1>3. DcnFilesInv'
  BY DEF DcnIInv, DcnTypeOK, DcnFilesInv, DcnMaking
<1>4. DcnCleanInv'
  <2>1. r \in DcnActive
    BY DEF DcnActive, DcnEnded, DcnAnswers
  <2>2. CASE dcnFile[NoHost] = "absent"
    BY <2>1, <2>2, DcnCleanStep DEF DcnPC, DcnEnded, DcnAnswers
  <2>3. CASE dcnFile[NoHost] # "absent"
    BY <2>1, <2>3, DcnCleanStep
       DEF DcnIInv, DcnVerdictInv, DcnOneVerdict, DcnPC, DcnEnded, DcnAnswers
  <2>4. QED
    BY <2>2, <2>3
<1>5. QED
  BY <1>1, <1>2, <1>3, <1>4 DEF DcnIInv

LEMMA DcnLookForAllHostsInv ==
  ASSUME DcnIInv, NEW r \in DcnRequests, DcnLookForAllHosts(r) PROVE DcnIInv'
<1> USE DcnAssumption DEF DcnLookForAllHosts, DcnGoto
<1>1. DcnTypeOK'
  BY DEF DcnIInv, DcnTypeOK, DcnPC, DcnMaking
<1>2. DcnVerdictInv'
  BY DEF DcnIInv, DcnTypeOK, DcnVerdictInv, DcnOneVerdict
<1>3. DcnFilesInv'
  BY DEF DcnIInv, DcnTypeOK, DcnFilesInv, DcnMaking
<1>4. DcnCleanInv'
  <2>1. r \in DcnActive
    BY DEF DcnActive, DcnEnded, DcnAnswers
  <2>2. QED
    BY <2>1, DcnCleanStep DEF DcnPC, DcnEnded, DcnAnswers, DcnMaking
<1>5. QED
  BY <1>1, <1>2, <1>3, <1>4 DEF DcnIInv

(* A file is opened, of a host that has events, or of a verdict. *)
LEMMA DcnOpenInv ==
  ASSUME DcnIInv, NEW r \in DcnRequests, NEW f \in DcnFiles, dcnPc[r] = "scan", DcnOpen(r, f),
         dcnTodo' \in [DcnRequests -> SUBSET DcnHosts],
         \A q \in DcnRequests \ {r} : dcnTodo'[q] = dcnTodo[q],
         f = NoHost => dcnEvents # DcnHosts,
         f # NoHost => DcnHosts \ dcnTodo'[r] \subseteq dcnEvents,
         f = AllHosts => dcnTodo'[r] = {} /\ dcnTodo[r] = {},
         \A h \in dcnEvents \ dcnTodo'[r] : h = f \/ h \notin dcnTodo[r]
  PROVE  DcnIInv'
<1> USE DcnAssumption DEF DcnOpen, DcnGoto
<1>1. DcnTypeOK'
  BY DEF DcnIInv, DcnTypeOK, DcnPC, DcnMaking
<1>2. DcnVerdictInv'
  <2>1. dcnPc'[r] = "write"
    BY DEF DcnIInv, DcnTypeOK
  <2>2. DcnOneVerdict'
    <3>1. f = AllHosts => dcnEvents = DcnHosts
      BY DEF DcnIInv, DcnTypeOK
    <3>2. \A g \in {NoHost, AllHosts} : g # f => dcnFile'[g] = dcnFile[g]
      BY DEF DcnIInv, DcnTypeOK, DcnFiles
    <3>3. QED
      BY <3>1, <3>2 DEF DcnIInv, DcnVerdictInv, DcnOneVerdict
  <2>3. \A q \in DcnRequests : dcnPc'[q] = "scan" => DcnHosts \ dcnTodo'[q] \subseteq dcnEvents'
    BY DEF DcnIInv, DcnTypeOK, DcnVerdictInv
  <2>4. \A q \in DcnRequests : dcnPc'[q] = "write" =>
          /\ dcnWriting'[q] = NoHost => dcnEvents' # DcnHosts
          /\ dcnWriting'[q] # NoHost => DcnHosts \ dcnTodo'[q] \subseteq dcnEvents'
          /\ dcnWriting'[q] = AllHosts => dcnTodo'[q] = {}
    BY DEF DcnIInv, DcnTypeOK, DcnVerdictInv
  <2>5. QED
    BY <2>1, <2>2, <2>3, <2>4 DEF DcnVerdictInv
<1>3. DcnFilesInv'
  <2> SUFFICES ASSUME ~dcnDamaged PROVE DcnFilesInv'
    BY DEF DcnFilesInv
  <2>1. \A g \in DcnFiles : g # f => dcnFile'[g] = dcnFile[g]
    BY DEF DcnIInv, DcnTypeOK
  <2>2. dcnFile'[f] = "open" /\ dcnPc'[r] = "write" /\ dcnWriting'[r] = f
    BY DEF DcnIInv, DcnTypeOK
  <2>3. \A g \in DcnFiles : dcnFile'[g] = "open" =>
          \E q \in DcnRequests : dcnPc'[q] = "write" /\ dcnWriting'[q] = g
    BY <2>1, <2>2 DEF DcnIInv, DcnTypeOK, DcnFilesInv
  <2>4. dcnFile'[AllHosts] # "absent" => \A h \in DcnHosts : dcnFile'[h] # "absent"
    BY <2>1, <2>2 DEF DcnIInv, DcnTypeOK, DcnFilesInv, DcnFiles, DcnMaking
  <2>5. ASSUME NEW q \in DcnRequests
        PROVE  /\ dcnPc'[q] \in DcnMaking =>
                    \A h \in dcnEvents' \ dcnTodo'[q] : dcnFile'[h] # "absent"
               /\ dcnPc'[q] = "write" => dcnFile'[dcnWriting'[q]] # "absent"
               /\ dcnPc'[q] = "read" => dcnFile'[AllHosts] # "absent"
    <3>1. CASE q = r
      BY <2>1, <2>2, <3>1 DEF DcnIInv, DcnTypeOK, DcnFilesInv, DcnFiles, DcnMaking
    <3>2. CASE q # r
      BY <2>1, <2>2, <3>2 DEF DcnIInv, DcnTypeOK, DcnFilesInv, DcnFiles, DcnMaking
    <3>3. QED
      BY <3>1, <3>2
  <2>6. QED
    BY <2>3, <2>4, <2>5 DEF DcnFilesInv
<1>4. DcnCleanInv'
  <2>1. r \in DcnActive
    BY DEF DcnActive, DcnEnded, DcnAnswers
  <2>2. QED
    BY <2>1, DcnCleanStep DEF DcnPC, DcnEnded, DcnAnswers, DcnMaking
<1>5. QED
  BY <1>1, <1>2, <1>3, <1>4 DEF DcnIInv

LEMMA DcnConvertHostInv ==
  ASSUME DcnIInv, NEW r \in DcnRequests, DcnConvertHost(r) PROVE DcnIInv'
<1>1. PICK h \in dcnTodo[r] :
        /\ dcnTodo' = [dcnTodo EXCEPT ![r] = @ \ {h}]
        /\ DcnOpen(r, IF h \in dcnEvents THEN h ELSE NoHost)
  BY DEF DcnConvertHost
<1>2. /\ h \in DcnHosts /\ h # NoHost /\ h # AllHosts /\ NoHost # AllHosts
      /\ dcnTodo' \in [DcnRequests -> SUBSET DcnHosts]
      /\ dcnTodo'[r] = dcnTodo[r] \ {h}
      /\ \A q \in DcnRequests \ {r} : dcnTodo'[q] = dcnTodo[q]
  BY <1>1, DcnAssumption DEF DcnIInv, DcnTypeOK
<1>3. dcnPc[r] = "scan" /\ DcnHosts \ dcnTodo[r] \subseteq dcnEvents
  BY DEF DcnConvertHost, DcnIInv, DcnVerdictInv
<1>4. CASE h \in dcnEvents
  <2>1. h \in DcnFiles /\ DcnOpen(r, h)
    BY <1>1, <1>2, <1>4 DEF DcnFiles
  <2>2. QED
    BY <1>2, <1>3, <1>4, <2>1, DcnOpenInv
<1>5. CASE h \notin dcnEvents
  <2>1. NoHost \in DcnFiles /\ DcnOpen(r, NoHost)
    BY <1>1, <1>5 DEF DcnFiles
  <2>2. QED
    BY <1>2, <1>3, <1>5, <2>1, DcnOpenInv
<1>6. QED
  BY <1>4, <1>5

LEMMA DcnConvertAllInv ==
  ASSUME DcnIInv, NEW r \in DcnRequests, DcnConvertAll(r) PROVE DcnIInv'
<1>1. AllHosts \in DcnFiles /\ dcnTodo' \in [DcnRequests -> SUBSET DcnHosts]
  BY DEF DcnFiles, DcnConvertAll, DcnIInv, DcnTypeOK
<1>2. QED
  BY <1>1, DcnOpenInv, DcnAssumption DEF DcnConvertAll, DcnIInv, DcnVerdictInv

(* A file is closed; the conversion goes on or has its verdict. *)
LEMMA DcnCloseInv ==
  ASSUME DcnIInv, NEW r \in DcnRequests, DcnClose(r) PROVE DcnIInv'
<1> DEFINE f == dcnWriting[r]
<1>0. /\ f \in DcnFiles /\ DcnAfterWrite(f) \in DcnPC \ {"idle"} /\ dcnPc[r] = "write"
      /\ DcnAfterWrite(f) = "none" <=> f = NoHost
      /\ DcnAfterWrite(f) = "read" <=> f = AllHosts
      /\ DcnAfterWrite(f) \in {"none", "read", "scan"}
  BY DcnAssumption
     DEF DcnClose, DcnIInv, DcnTypeOK, DcnAfterWrite, DcnPC, DcnEnded, DcnAnswers, DcnMaking
<1>1. DcnTypeOK'
  BY <1>0 DEF DcnIInv, DcnTypeOK, DcnClose, DcnGoto
<1>2. \A g \in DcnFiles : /\ dcnFile'[g] = "absent" <=> dcnFile[g] = "absent"
                          /\ dcnFile'[g] = "open" => dcnFile[g] = "open" /\ g # f
  BY <1>0 DEF DcnIInv, DcnTypeOK, DcnClose
<1>3. \A q \in DcnRequests : dcnPc'[q] = IF q = r THEN DcnAfterWrite(f) ELSE dcnPc[q]
  BY DEF DcnIInv, DcnTypeOK, DcnClose, DcnGoto
<1>4. DcnVerdictInv'
  BY <1>0, <1>2, <1>3, DcnAssumption
     DEF DcnIInv, DcnVerdictInv, DcnOneVerdict, DcnClose, DcnFiles
<1>5. DcnFilesInv'
  <2> SUFFICES ASSUME ~dcnDamaged PROVE DcnFilesInv'
    BY DEF DcnFilesInv, DcnClose
  <2>1. \A g \in DcnFiles : dcnFile'[g] = "open" =>
          \E q \in DcnRequests : dcnPc'[q] = "write" /\ dcnWriting'[q] = g
    BY <1>0, <1>2, <1>3 DEF DcnIInv, DcnFilesInv, DcnClose
  <2>2. dcnFile'[AllHosts] # "absent" => \A h \in DcnHosts : dcnFile'[h] # "absent"
    BY <1>2 DEF DcnIInv, DcnFilesInv, DcnFiles
  <2>3. \A q \in DcnRequests :
          /\ dcnPc'[q] \in DcnMaking =>
               \A h \in dcnEvents' \ dcnTodo'[q] : dcnFile'[h] # "absent"
          /\ dcnPc'[q] = "write" => dcnFile'[dcnWriting'[q]] # "absent"
          /\ dcnPc'[q] = "read" => dcnFile'[AllHosts] # "absent"
    BY <1>0, <1>2, <1>3
       DEF DcnIInv, DcnTypeOK, DcnFilesInv, DcnFiles, DcnMaking, DcnClose
  <2>4. QED
    BY <2>1, <2>2, <2>3 DEF DcnFilesInv
<1>6. DcnCleanInv'
  <2>1. r \in DcnActive
    BY <1>0 DEF DcnActive, DcnEnded, DcnAnswers
  <2>2. DcnAfterWrite(f) \in DcnEnded => DcnAfterWrite(f) = "none" /\ dcnEvents # DcnHosts
    BY <1>0 DEF DcnIInv, DcnVerdictInv, DcnEnded, DcnAnswers
  <2>3. QED
    BY <1>0, <2>1, <2>2, DcnCleanStep DEF DcnClose
<1>7. QED
  BY <1>1, <1>4, <1>5, <1>6 DEF DcnIInv

(* The answer of a clean request: the file it reads is there, and whole,   *)
(* since only the request itself could have it open.                       *)
LEMMA DcnReadInv ==
  ASSUME DcnIInv, NEW r \in DcnRequests, DcnRead(r) PROVE DcnIInv'
<1> DEFINE p == IF dcnFile[dcnTarget[r]] = "whole" THEN "stats" ELSE "error"
<1> USE DcnAssumption
<1>1. DcnTypeOK'
  BY DEF DcnIInv, DcnTypeOK, DcnRead, DcnGoto, DcnPC, DcnEnded, DcnAnswers
<1>2. DcnVerdictInv'
  BY DEF DcnIInv, DcnTypeOK, DcnVerdictInv, DcnOneVerdict, DcnRead, DcnGoto
<1>3. DcnFilesInv'
  BY DEF DcnIInv, DcnTypeOK, DcnFilesInv, DcnMaking, DcnRead, DcnGoto
<1>4. r \in DcnActive
  BY DEF DcnRead, DcnActive, DcnEnded, DcnAnswers
<1>5. dcnClean[r] => p = IF dcnEvents = DcnHosts THEN "stats" ELSE "none"
  <2> SUFFICES ASSUME dcnClean[r]
               PROVE  dcnEvents = DcnHosts /\ dcnFile[dcnTarget[r]] = "whole"
    OBVIOUS
  <2>1. ~dcnDamaged /\ DcnActive = {r}
    BY <1>4 DEF DcnIInv, DcnCleanInv
  <2>2. dcnFile[AllHosts] # "absent" /\ dcnTarget[r] \in DcnHosts \cup {AllHosts}
    BY <2>1 DEF DcnRead, DcnIInv, DcnFilesInv, DcnTypeOK
  <2>3. dcnFile[dcnTarget[r]] # "absent"
    BY <2>1, <2>2 DEF DcnIInv, DcnFilesInv
  <2>4. dcnFile[dcnTarget[r]] # "open"
    <3>1. \A q \in DcnRequests : dcnPc[q] # "write"
      BY <2>1 DEF DcnActive, DcnEnded, DcnAnswers, DcnRead
    <3>2. QED
      BY <2>1, <2>2, <3>1 DEF DcnIInv, DcnFilesInv, DcnFiles
  <2>5. QED
    BY <2>2, <2>3, <2>4 DEF DcnIInv, DcnTypeOK, DcnVerdictInv, DcnOneVerdict, DcnFiles
<1>6. DcnCleanInv'
  <2>1. p \in DcnPC \ {"idle"}
    BY DEF DcnPC, DcnEnded, DcnAnswers
  <2>2. DcnGoto(r, p) /\ UNCHANGED <<dcnEvents, dcnClean, dcnDamaged>>
    BY DEF DcnRead
  <2> HIDE DEF p
  <2>3. QED
    BY <1>4, <1>5, <2>1, <2>2, DcnCleanStep
<1>7. QED
  BY <1>1, <1>2, <1>3, <1>6 DEF DcnIInv
-----------------------------------------------------------------------------
(* A fault leaves nobody under way clean. *)
LEMMA DcnFaultClean ==
  ASSUME DcnIInv, NEW S \in SUBSET DcnActive, NEW p \in DcnEnded \cup {"idle"}, DcnFault(S, p)
  PROVE  DcnCleanInv'
<1>1. DcnActive' \subseteq DcnActive
  BY DEF DcnFault, DcnActive
<1>2. \A q \in DcnRequests : dcnClean'[q] =>
        dcnClean[q] /\ q \notin DcnActive /\ dcnPc'[q] = dcnPc[q]
  BY DEF DcnFault, DcnIInv, DcnTypeOK, DcnActive
<1>3. QED
  BY <1>1, <1>2 DEF DcnIInv, DcnCleanInv, DcnFault

(* A writer that is cut short spoils the directory, but no verdict. *)
LEMMA DcnCutShortInv ==
  ASSUME DcnIInv, NEW S \in SUBSET DcnActive, NEW p \in {"error", "lost"},
         DcnFault(S, p), dcnDamaged' = TRUE, UNCHANGED dcnFile
  PROVE  DcnIInv'
<1> USE DcnAssumption DEF DcnFault
<1>1. DcnTypeOK'
  BY DEF DcnIInv, DcnTypeOK, DcnPC, DcnEnded, DcnAnswers
<1>2. \A q \in DcnRequests : dcnPc'[q] = "idle" => dcnPc[q] = "idle"
  BY DEF DcnIInv, DcnTypeOK
<1>3. \A q \in DcnRequests : dcnPc'[q] \in DcnMaking => dcnPc'[q] = dcnPc[q]
  BY DEF DcnIInv, DcnTypeOK, DcnMaking
<1>4. DcnVerdictInv'
  BY <1>2, <1>3 DEF DcnIInv, DcnVerdictInv, DcnOneVerdict, DcnMaking
<1>5. DcnFilesInv'
  BY DEF DcnFilesInv
<1>6. DcnCleanInv'
  BY DcnFaultClean DEF DcnEnded, DcnAnswers
<1>7. QED
  BY <1>1, <1>4, <1>5, <1>6 DEF DcnIInv

(* A refresh deletes all files. *)
LEMMA DcnClearInv == ASSUME DcnIInv, DcnClear PROVE DcnIInv'
<1> USE DcnAssumption
<1>1. dcnPc' = dcnPc
  BY DEF DcnClear, DcnFault, DcnIInv, DcnTypeOK
<1>2. DcnTypeOK'
  BY <1>1 DEF DcnClear, DcnFault, DcnIInv, DcnTypeOK
<1>3. DcnVerdictInv'
  BY <1>1 DEF DcnClear, DcnFault, DcnIInv, DcnVerdictInv, DcnOneVerdict, DcnFiles
<1>4. DcnFilesInv'
  <2>1. dcnDamaged' \/ DcnActive = {}
    BY DEF DcnClear
  <2>2. DcnActive = {} =>
          \A q \in DcnRequests : dcnPc'[q] \notin DcnMaking /\ dcnPc'[q] # "read"
    BY <1>1 DEF DcnActive, DcnEnded, DcnAnswers, DcnMaking
  <2>3. \A g \in DcnFiles : dcnFile'[g] = "absent"
    BY DEF DcnClear
  <2>4. QED
    BY <2>1, <2>2, <2>3 DEF DcnFilesInv, DcnFiles, DcnMaking
<1>5. DcnCleanInv'
  BY DcnFaultClean DEF DcnClear
<1>6. QED
  BY <1>2, <1>3, <1>4, <1>5 DEF DcnIInv

LEMMA DcnInvariance == DcnSpec => []DcnIInv
<1>1. DcnIInv /\ [DcnNext]_dcnVars => DcnIInv'
  <2> SUFFICES ASSUME DcnIInv, [DcnNext]_dcnVars PROVE DcnIInv'
    OBVIOUS
  <2>1. CASE UNCHANGED dcnVars
    BY <2>1 DEF dcnVars, DcnIInv, DcnTypeOK, DcnVerdictInv, DcnOneVerdict,
                DcnFilesInv, DcnCleanInv, DcnActive
  <2>2. CASE DcnCrash
    BY <2>2, DcnCutShortInv DEF DcnCrash
  <2>3. ASSUME NEW r \in DcnRequests, DcnWriteFails(r) PROVE DcnIInv'
    <3>1. {r} \in SUBSET DcnActive
      BY <2>3 DEF DcnWriteFails, DcnActive, DcnEnded, DcnAnswers
    <3>2. QED
      BY <2>3, <3>1, DcnCutShortInv DEF DcnWriteFails
  <2>4. ASSUME NEW r \in DcnRequests, DcnStep(r) PROVE DcnIInv'
    BY <2>4, DcnLookForNoHostInv, DcnLookForAllHostsInv, DcnConvertHostInv,
       DcnConvertAllInv, DcnCloseInv, DcnReadInv DEF DcnStep
  <2>5. QED
    BY <2>1, <2>2, <2>3, <2>4, DcnRecordInv, DcnClearInv, DcnStartInv DEF DcnNext
<1>2. QED
  BY DcnInitInv, <1>1, PTL DEF DcnSpec
-----------------------------------------------------------------------------
(* The variables have their types. *)
THEOREM DcnTypeCorrect == DcnSpec => []DcnTypeOK
<1>1. DcnIInv => DcnTypeOK
  BY DEF DcnIInv
<1>2. QED
  BY DcnInvariance, <1>1, PTL

(* NO_HOST and ALL_HOSTS exclude each other, and say what the xplanes say. *)
THEOREM DcnVerdictIsTrue == DcnSpec => []DcnOneVerdict
<1>1. DcnIInv => DcnOneVerdict
  BY DEF DcnIInv, DcnVerdictInv
<1>2. QED
  BY DcnInvariance, <1>1, PTL

(* A request that nothing disturbs is answered as the xplanes say. *)
THEOREM DcnAnswerIsTrue == DcnSpec => []DcnUndisturbedAnswer
<1>1. DcnIInv => DcnUndisturbedAnswer
  BY DEF DcnIInv, DcnCleanInv, DcnUndisturbedAnswer
<1>2. QED
  BY DcnInvariance, <1>1, PTL
-----------------------------------------------------------------------------
RuleSet == {Rules[i] : i \in DOMAIN Rules}
Message == {"none", "real", "empty"}

(* Nothing happens before a session is opened. *)
SsBeforeOpening ==
  ssProfile = <<>> => ssPhase = "conditions" /\ ssRule = 1 /\ ssReport = {}

(* A rule that is about to generate met its conditions on the session's    *)
(* own data, all of which is at hand, so it has nothing left to fail at.   *)
SsReadyToGenerate ==
  ssPhase = "generate" => Meets(Rules[ssRule], ssProfile) /\ Converts(Rules[ssRule]) = {}

(* While nothing failed the provider keeps no empty message, and no rule   *)
(* that the engine has been through was wrongly passed over.               *)
SsNothingPassedOver ==
  ssFaults = 0 =>
    /\ \A k \in Kinds : ssCache[k] # "empty"
    /\ \A i \in DOMAIN Rules :
         (i < ssRule \/ ssPhase = "reported") /\ Meets(Rules[i], ssProfile) =>
           Rules[i] \in ssReport

SsInv ==
  /\ SsTypeOK
  /\ SsBeforeOpening
  /\ SsSuggestionsAreTrue
  /\ SsReadyToGenerate
  /\ ssPhase # "failed"
  /\ SsNothingPassedOver

LEMMA RulesAreTen ==
  /\ Len(Rules) = 10
  /\ DOMAIN Rules = 1..10
  /\ RuleSet = {"BarrierCores", "CollectiveBound", "ComputeBound", "DataShuffleBound",
                "DataTransferBound", "DebugPrint", "HostProcessingBound", "InputBound",
                "MemoryBound", "TensorCoreIdleBound"}
<1>1. Len(Rules) = 10 /\ DOMAIN Rules = 1..10
  BY DEF Rules
<1>2. RuleSet = {Rules[1], Rules[2], Rules[3], Rules[4], Rules[5],
                 Rules[6], Rules[7], Rules[8], Rules[9], Rules[10]}
  <2>1. 1..10 = {1, 2, 3, 4, 5, 6, 7, 8, 9, 10}
    OBVIOUS
  <2>2. QED
    BY <1>1, <2>1, Zenon DEF RuleSet
<1>3. /\ Rules[1] = "BarrierCores" /\ Rules[2] = "CollectiveBound"
      /\ Rules[3] = "ComputeBound" /\ Rules[4] = "DataShuffleBound"
      /\ Rules[5] = "DataTransferBound" /\ Rules[6] = "DebugPrint"
      /\ Rules[7] = "HostProcessingBound" /\ Rules[8] = "InputBound"
      /\ Rules[9] = "MemoryBound" /\ Rules[10] = "TensorCoreIdleBound"
  BY DEF Rules
<1>4. QED
  BY <1>1, <1>2, <1>3

(* No rule fires on the signals of an empty message. *)
LEMMA NoRuleFiresOnNothing ==
  ASSUME NEW rule \in RuleSet
  PROVE  ~Meets(rule, EmptySignals)
<1> DEFINE s == EmptySignals
<1>1. /\ s.barrier = 0 /\ s.collective = 0 /\ s.mxu = 0 /\ s.hbm = 0 /\ s.shuffle = 0
      /\ s.input = 0 /\ s.debug = 0 /\ s.tpu = FALSE
  BY DEF EmptySignals
<1> HIDE DEF s
<1>2. /\ ~BarrierCoresMeets(s) /\ ~CollectiveBoundMeets(s) /\ ~DataShuffleBoundMeets(s)
      /\ ~ComputeBoundMeets(s) /\ ~MemoryBoundMeets(s) /\ ~DebugPrintMeets(s)
  BY <1>1 DEF BarrierCoresMeets, CollectiveBoundMeets, DataShuffleBoundMeets,
              ComputeBoundMeets, MemoryBoundMeets, DebugPrintMeets
<1>3. ~DataTransferBoundMeets(s) /\ ~HostProcessingBoundMeets(s) /\ ~InputBoundMeets(s)
  BY <1>1 DEF DataTransferBoundMeets, HostProcessingBoundMeets, InputBoundMeets, IsInputBound
<1>4. ~TensorCoreIdleBoundMeets(s)
  BY <1>1 DEF TensorCoreIdleBoundMeets, IsCoreIdle
<1>5. QED
  BY <1>2, <1>3, <1>4, RulesAreTen DEF Meets, s

LEMMA NeedsAreKinds ==
  ASSUME NEW rule \in RuleSet
  PROVE  RuleNeeds(rule) \subseteq Kinds
BY RulesAreTen DEF RuleNeeds, Kinds

LEMMA ProvidesMessages ==
  ASSUME ssCache \in [Kinds -> Message], NEW rule \in RuleSet, NEW failed
  PROVE  Provide(rule, failed) \in [Kinds -> Message]
BY DEF Provide, Kinds, Message

(* A conversion without a failure leaves the rule nothing to convert, and  *)
(* adds no empty message; if there was none, all it needs is there.        *)
LEMMA ProvidedInFull ==
  ASSUME ssCache \in [Kinds -> Message], NEW rule \in RuleSet,
         NEW cache, cache = Provide(rule, {})
  PROVE  /\ \A k \in {"op_stats", "events"} :
            cache[k] = "none" =>
              /\ k \notin RuleNeeds(rule)
              /\ (k = "op_stats" =>
                    \A d \in RuleNeeds(rule) \cap {"overview", "input"} : cache[d] # "none")
         /\ (\A k \in Kinds : ssCache[k] # "empty") =>
              /\ \A k \in Kinds : cache[k] # "empty"
              /\ \A k \in RuleNeeds(rule) : cache[k] = "real"
<1> DEFINE N == RuleNeeds(rule)
           Asked(k) == \/ k \in N
                       \/ k = "op_stats" /\ \E d \in N \cap {"overview", "input"} :
                                              ssCache[d] = "none"
<1>1. N \subseteq Kinds
  BY NeedsAreKinds
<1>2. \A k \in {"op_stats", "events"} :
        k \in Converts(rule) <=> ssCache[k] = "none" /\ Asked(k)
  BY DEF Converts
<1>3. \A k \in {"op_stats", "events"} :
        cache[k] = IF ssCache[k] = "none" /\ Asked(k) THEN "real" ELSE ssCache[k]
  BY <1>2 DEF Provide, Kinds
<1>4. \A k \in {"overview", "input"} :
        cache[k] = IF k \in N /\ ssCache[k] = "none" THEN cache["op_stats"] ELSE ssCache[k]
  BY DEF Provide, Kinds
<1>5. \A k \in Kinds : k \in {"op_stats", "events"} \/ k \in {"overview", "input"}
  BY DEF Kinds
<1>6. \A k \in Kinds : ssCache[k] \in Message
  OBVIOUS
<1> HIDE DEF N
<1>7. \A k \in {"op_stats", "events"} : cache[k] = "none" =>
        k \notin N /\ (k = "op_stats" =>
                         \A d \in N \cap {"overview", "input"} : ssCache[d] # "none")
  BY <1>3
<1>8. \A k \in {"op_stats", "events"} : cache[k] = "none" /\ k = "op_stats" =>
        \A d \in N \cap {"overview", "input"} : cache[d] # "none"
  BY <1>4, <1>7
<1>9. ASSUME \A k \in Kinds : ssCache[k] # "empty"
      PROVE  /\ \A k \in Kinds : cache[k] # "empty"
             /\ \A k \in N : cache[k] = "real"
  <2>1. \A k \in {"op_stats", "events"} : cache[k] # "empty"
    BY <1>3, <1>9 DEF Kinds
  <2>2. \A k \in {"overview", "input"} : cache[k] # "empty"
    BY <1>4, <1>9, <2>1 DEF Kinds
  <2>3. \A k \in N : cache[k] # "none"
    <3>1. \A k \in N \cap {"op_stats", "events"} : cache[k] # "none"
      BY <1>7
    <3>2. \A k \in N \cap {"overview", "input"} : cache[k] # "none"
      BY <1>4, <1>7
    <3>3. QED
      BY <1>1, <1>5, <3>1, <3>2
  <2>4. \A k \in Kinds : cache[k] \in Message
    BY ProvidesMessages
  <2>5. QED
    BY <1>1, <1>5, <2>1, <2>2, <2>3, <2>4 DEF Message
<1>10. QED
  BY <1>7, <1>8, <1>9 DEF N

LEMMA SsInitInv == SsInit => SsInv
BY SsAssumption, RulesAreTen
   DEF SsInit, SsInv, SsTypeOK, SsBeforeOpening, SsSuggestionsAreTrue, SsReadyToGenerate,
       SsNothingPassedOver

LEMMA SsNextInv == SsInv /\ [SsNext]_ssVars => SsInv'
<1> SUFFICES ASSUME SsInv, [SsNext]_ssVars PROVE SsInv'
  OBVIOUS
<1> DEFINE rule == Rules[ssRule]
<1> USE SsAssumption, RulesAreTen
<1>1. /\ ssCache \in [Kinds -> Message]
      /\ ssRule \in 1..10
      /\ ssReport \subseteq RuleSet
      /\ ssFaults \in 0..SsMaxFaults
      /\ ssProfile \in SsProfiles \cup {<<>>}
      /\ ssPhase \in {"conditions", "generate", "reported", "failed"}
  BY DEF SsInv, SsTypeOK, Message, RuleSet
<1>2. rule \in RuleSet
  BY <1>1 DEF RuleSet
<1>3. CASE SsOpen /\ UNCHANGED ssFaults
  <2>1. ssProfile = <<>> /\ ssReport = {} /\ ssRule = 1 /\ ssPhase = "conditions"
    BY <1>3 DEF SsOpen, SsInv, SsBeforeOpening
  <2>2. SsTypeOK' /\ SsBeforeOpening' /\ ssPhase' # "failed"
    BY <1>3, <2>1 DEF SsOpen, SsInv, SsTypeOK, SsBeforeOpening
  <2>3. SsSuggestionsAreTrue' /\ SsReadyToGenerate'
    BY <1>3, <2>1 DEF SsOpen, SsSuggestionsAreTrue, SsReadyToGenerate
  <2>4. SsNothingPassedOver'
    BY <1>3, <2>1 DEF SsOpen, SsInv, SsNothingPassedOver
  <2>5. QED
    BY <2>2, <2>3, <2>4 DEF SsInv
<1>4. ASSUME NEW failed \in SUBSET {"op_stats", "events"},
             ssFaults' = ssFaults + IF failed = {} THEN 0 ELSE 1,
             ssFaults' <= SsMaxFaults,
             CheckConditions(failed)
      PROVE  SsInv'
  <2> DEFINE cache == Provide(rule, failed)
             seen  == SeenBy(rule, cache)
             met   == failed = {} /\ Meets(rule, seen)
  <2>1. /\ ssProfile # <<>> /\ ssPhase = "conditions"
        /\ ssCache' = cache
        /\ ssPhase' = IF met THEN "generate" ELSE NextRule
        /\ ssRule' = IF met \/ ssRule = 10 THEN ssRule ELSE ssRule + 1
        /\ ssProfile' = ssProfile /\ ssReport' = ssReport
    BY <1>4 DEF CheckConditions
  <2>2. cache \in [Kinds -> Message]
    BY <1>1, <1>2, ProvidesMessages
  <2>3. met => Meets(rule, ssProfile)
    BY <1>2, NoRuleFiresOnNothing DEF SeenBy
  <2>4. met => Converts(rule)' = {}
    <3>1. SUFFICES ASSUME met, NEW k \in {"op_stats", "events"}, ssCache'[k] = "none"
                   PROVE  /\ k \notin RuleNeeds(rule)
                          /\ k = "op_stats" =>
                               \A d \in RuleNeeds(rule) \cap {"overview", "input"} :
                                 ssCache'[d] # "none"
      BY <2>1 DEF Converts
    <3>2. ssCache' = Provide(rule, {})
      BY <2>1, <3>1
    <3>3. QED
      BY <1>1, <1>2, <3>1, <3>2, ProvidedInFull
  <2>5. ssFaults' \in 0..SsMaxFaults /\ (ssFaults' = 0 => ssFaults = 0 /\ failed = {})
    BY <1>1, <1>4
  <2>6. ASSUME ssFaults' = 0
        PROVE  /\ \A k \in Kinds : ssCache'[k] # "empty"
               /\ ~met => ~Meets(rule, ssProfile)
    <3>1. ssCache' = Provide(rule, {}) /\ failed = {}
      BY <2>1, <2>5, <2>6
    <3>2. \A k \in Kinds : ssCache[k] # "empty"
      BY <2>5, <2>6 DEF SsInv, SsNothingPassedOver
    <3>3. /\ \A k \in Kinds : ssCache'[k] # "empty"
          /\ \A k \in RuleNeeds(rule) : ssCache'[k] = "real"
      BY <1>1, <1>2, <3>1, <3>2, ProvidedInFull
    <3>4. seen = ssProfile
      BY <2>1, <3>3 DEF SeenBy
    <3>5. QED
      BY <3>1, <3>3, <3>4
  <2> HIDE DEF cache, seen, met
  <2>7. SsTypeOK'
    BY <1>1, <2>1, <2>2, <2>5 DEF SsTypeOK, NextRule, Message, RuleSet
  <2>8. SsBeforeOpening' /\ ssPhase' # "failed"
    BY <2>1 DEF SsBeforeOpening, NextRule
  <2>9. SsSuggestionsAreTrue'
    BY <2>1 DEF SsInv, SsSuggestionsAreTrue
  <2>10. SsReadyToGenerate'
    <3>1. SUFFICES ASSUME ssPhase' = "generate"
                   PROVE  Meets(rule, ssProfile)' /\ Converts(rule)' = {}
      BY <2>1 DEF SsReadyToGenerate, NextRule
    <3>2. met
      BY <2>1, <3>1 DEF NextRule
    <3>3. QED
      BY <2>1, <2>3, <2>4, <3>2
  <2>11. SsNothingPassedOver'
    <3>1. SUFFICES ASSUME ssFaults' = 0, NEW i \in 1..10, Meets(Rules[i], ssProfile),
                          i < ssRule' \/ ssPhase' = "reported"
                   PROVE  Rules[i] \in ssReport
      BY <2>1, <2>6 DEF SsNothingPassedOver
    <3>2. i < ssRule \/ (i = ssRule /\ ~met)
      BY <1>1, <2>1, <3>1 DEF NextRule
    <3>3. i < ssRule
      BY <2>6, <3>1, <3>2
    <3>4. QED
      BY <2>5, <3>1, <3>3 DEF SsInv, SsNothingPassedOver
  <2>12. QED
    BY <2>7, <2>8, <2>9, <2>10, <2>11 DEF SsInv
<1>5. ASSUME NEW failed \in SUBSET {"op_stats", "events"},
             ssFaults' = ssFaults + IF failed = {} THEN 0 ELSE 1,
             ssFaults' <= SsMaxFaults,
             Generate(failed)
      PROVE  SsInv'
  <2>1. ssPhase = "generate" /\ failed = {} /\ Meets(rule, ssProfile)
    BY <1>5 DEF Generate, SsInv, SsReadyToGenerate
  <2>2. /\ ssCache' = Provide(rule, {})
        /\ ssPhase' = NextRule
        /\ ssReport' = ssReport \cup {rule}
        /\ ssRule' = IF ssRule = 10 THEN ssRule ELSE ssRule + 1
        /\ ssProfile' = ssProfile /\ ssFaults' = ssFaults
    BY <1>1, <1>5, <2>1 DEF Generate
  <2>3. ssProfile # <<>>
    BY <2>1 DEF SsInv, SsBeforeOpening
  <2>4. ssCache' \in [Kinds -> Message]
    BY <1>1, <1>2, <2>2, ProvidesMessages
  <2>5. ssPhase' \in {"conditions", "reported"}
    BY <2>2 DEF NextRule
  <2>6. SsTypeOK'
    BY <1>1, <1>2, <2>2, <2>4, <2>5 DEF SsTypeOK, Message, RuleSet
  <2>7. SsBeforeOpening' /\ ssPhase' # "failed" /\ SsReadyToGenerate'
    BY <2>2, <2>3, <2>5 DEF SsBeforeOpening, SsReadyToGenerate
  <2>8. SsSuggestionsAreTrue'
    BY <2>1, <2>2 DEF SsInv, SsSuggestionsAreTrue
  <2>9. SsNothingPassedOver'
    <3>1. SUFFICES ASSUME ssFaults = 0
                   PROVE  /\ \A k \in Kinds : ssCache'[k] # "empty"
                          /\ \A i \in 1..10 : 
                               (i < ssRule' \/ ssPhase' = "reported")
                               /\ Meets(Rules[i], ssProfile) => Rules[i] \in ssReport'
      BY <2>2 DEF SsNothingPassedOver
    <3>2. \A k \in Kinds : ssCache'[k] # "empty"
      BY <1>1, <1>2, <2>2, <3>1, ProvidedInFull DEF SsInv, SsNothingPassedOver
    <3>3. ASSUME NEW i \in 1..10, i < ssRule' \/ ssPhase' = "reported",
                 Meets(Rules[i], ssProfile)
          PROVE  Rules[i] \in ssReport'
      <4>1. i < ssRule \/ i = ssRule
        BY <1>1, <2>2, <3>3 DEF NextRule
      <4>2. CASE i = ssRule
        BY <2>2, <4>2
      <4>3. CASE i < ssRule
        BY <2>2, <3>1, <3>3, <4>3 DEF SsInv, SsNothingPassedOver
      <4>4. QED
        BY <4>1, <4>2, <4>3
    <3>4. QED
      BY <3>2, <3>3
  <2>10. QED
    BY <2>5, <2>6, <2>7, <2>8, <2>9 DEF SsInv
<1>6. CASE UNCHANGED ssVars
  BY <1>6 DEF ssVars, SsInv, SsTypeOK, SsBeforeOpening, SsSuggestionsAreTrue,
              SsReadyToGenerate, SsNothingPassedOver, Converts
<1>7. QED
  BY <1>3, <1>4, <1>5, <1>6 DEF SsNext

THEOREM SuggestionsSafety == SsSpec => []SsInv
<1>1. QED
  BY SsInitInv, SsNextInv, PTL DEF SsSpec

(* For any profiles and any failing conversions of a request for           *)
(* suggestions: what is reported is true of the session, no rule fails     *)
(* after its conditions were met, and without a failure nothing that is    *)
(* true is left out.                                                       *)
THEOREM ReportIsRight == SsSpec => []SsReportIsRight
<1>1. SsInv => SsReportIsRight
  BY DEF SsInv, SsReportIsRight, SsReportIsMade, SsNothingPassedOver
<1>2. QED
  BY <1>1, SuggestionsSafety, PTL
=============================================================================
