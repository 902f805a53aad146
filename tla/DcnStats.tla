------------------------------ MODULE DcnStats ------------------------------
(***************************************************************************)
(* The cached DCN collective stats of a session directory                  *)
(* (xplane_to_dcn_collective_stats.cc).  A request for a host, or for      *)
(* ALL_HOSTS, first looks for a verdict left by an earlier request:        *)
(* NO_HOST (the profile has no stats) or ALL_HOSTS (it has).  Without one  *)
(* it converts the hosts one after the other, writes a file for each, and  *)
(* ends with one of the two verdicts.  Requests share nothing but the      *)
(* files; the refresh of any tool deletes them all.                        *)
(***************************************************************************)
EXTENDS Naturals

CONSTANTS
  DcnHosts,    \* hosts with an xplane in the session
  NoHost,      \* kNoHostIdentifier
  AllHosts,    \* kAllHostsIdentifier
  DcnRequests, \* requests for the tool; each is used once
  DcnMaxFaults \* bound: failed writes, crashes and refreshes

ASSUME DcnAssumption ==
  /\ DcnHosts # {}
  /\ NoHost \notin DcnHosts /\ AllHosts \notin DcnHosts /\ NoHost # AllHosts
  /\ DcnMaxFaults \in Nat

VARIABLES
  dcnEvents,  \* hosts whose xplane has MegaScale events
  dcnFile,    \* each file of the session: absent, open or whole
  dcnPc,      \* control point of each request
  dcnTarget,  \* dcnTarget[r]: the file the request reads in the end
  dcnTodo,    \* dcnTodo[r]: hosts it has still to convert
  dcnWriting, \* dcnWriting[r]: the file it has open
  dcnClean,   \* history: nothing disturbed the request so far
  dcnDamaged, \* history: a writer was cut short since the last quiet refresh
  dcnFaults

dcnVars == <<dcnEvents, dcnFile, dcnPc, dcnTarget, dcnTodo, dcnWriting,
             dcnClean, dcnDamaged, dcnFaults>>

DcnFiles   == DcnHosts \cup {NoHost, AllHosts}
DcnAnswers == {"stats", "none", "error"}
DcnEnded   == DcnAnswers \cup {"lost"}
DcnMaking  == {"scan", "write"}
DcnPC      == DcnEnded \cup DcnMaking \cup {"idle", "no_host", "all_hosts", "read"}

DcnActive == {r \in DcnRequests : dcnPc[r] \notin DcnEnded \cup {"idle"}}

DcnInit ==
  /\ dcnEvents = DcnHosts
  /\ dcnFile = [f \in DcnFiles |-> "absent"]
  /\ dcnPc = [r \in DcnRequests |-> "idle"]
  /\ dcnTarget = [r \in DcnRequests |-> AllHosts]
  /\ dcnTodo = [r \in DcnRequests |-> {}]
  /\ dcnWriting = [r \in DcnRequests |-> NoHost]
  /\ dcnClean = [r \in DcnRequests |-> FALSE]
  /\ dcnDamaged = FALSE
  /\ dcnFaults = 0

(* The profilers of the hosts write their xplanes before the first request. *)
DcnRecord ==
  /\ \A r \in DcnRequests : dcnPc[r] = "idle"
  /\ dcnEvents = DcnHosts
  /\ \E S \in SUBSET DcnHosts : dcnEvents' = S
  /\ UNCHANGED <<dcnFile, dcnPc, dcnTarget, dcnTodo, dcnWriting, dcnClean,
                 dcnDamaged, dcnFaults>>

DcnGoto(r, p) == dcnPc' = [dcnPc EXCEPT ![r] = p]

DcnStart(r, t) ==
  /\ dcnPc[r] = "idle"
  /\ DcnGoto(r, "no_host")
  /\ dcnTarget' = [dcnTarget EXCEPT ![r] = t]
  /\ dcnClean' = [q \in DcnRequests |->
                    IF q = r THEN ~dcnDamaged /\ DcnActive = {}
                             ELSE dcnClean[q] /\ q \notin DcnActive]
  /\ UNCHANGED <<dcnEvents, dcnFile, dcnTodo, dcnWriting, dcnDamaged, dcnFaults>>

(* HasCacheFile lists the directory twice, NO_HOST first. *)
DcnLookForNoHost(r) ==
  /\ dcnPc[r] = "no_host"
  /\ DcnGoto(r, IF dcnFile[NoHost] = "absent" THEN "all_hosts" ELSE "none")
  /\ UNCHANGED <<dcnEvents, dcnFile, dcnTarget, dcnTodo, dcnWriting, dcnClean,
                 dcnDamaged, dcnFaults>>

DcnLookForAllHosts(r) ==
  /\ dcnPc[r] = "all_hosts"
  /\ DcnGoto(r, IF dcnFile[AllHosts] = "absent" THEN "scan" ELSE "read")
  /\ dcnTodo' = [dcnTodo EXCEPT ![r] = DcnHosts]
  /\ UNCHANGED <<dcnEvents, dcnFile, dcnTarget, dcnWriting, dcnClean,
                 dcnDamaged, dcnFaults>>

(* WriteBinaryProto opens, and so truncates, the file; DcnClose ends it. *)
DcnOpen(r, f) ==
  /\ DcnGoto(r, "write")
  /\ dcnFile' = [dcnFile EXCEPT ![f] = "open"]
  /\ dcnWriting' = [dcnWriting EXCEPT ![r] = f]
  /\ UNCHANGED <<dcnEvents, dcnTarget, dcnClean, dcnDamaged, dcnFaults>>

(* Wrong: the first host speaks for all. *)
DcnConvertFirstHost(r) ==
  /\ dcnPc[r] = "scan"
  /\ \E h \in dcnTodo[r] :
       /\ dcnTodo' = [dcnTodo EXCEPT ![r] = {}]
       /\ DcnOpen(r, IF h \in dcnEvents THEN h ELSE NoHost)

(* The hosts come in the order of the directory.  One without MegaScale    *)
(* events ends the conversion with NO_HOST, whatever was written before.   *)
DcnConvertHost(r) ==
  /\ dcnPc[r] = "scan"
  /\ \E h \in dcnTodo[r] :
       /\ dcnTodo' = [dcnTodo EXCEPT ![r] = @ \ {h}]
       /\ DcnOpen(r, IF h \in dcnEvents THEN h ELSE NoHost)

DcnConvertAll(r) ==
  /\ dcnPc[r] = "scan"
  /\ dcnTodo[r] = {}
  /\ DcnOpen(r, AllHosts)
  /\ UNCHANGED dcnTodo

(* Wrong: a host without events does not end the conversion. *)
DcnAfterWriteGoesOn(f) == IF f = AllHosts THEN "read" ELSE "scan"

DcnAfterWrite(f) ==
  CASE f = NoHost -> "none" [] f = AllHosts -> "read" [] OTHER -> "scan"

(* A file deleted while it was open stays deleted. *)
DcnClose(r) ==
  LET f == dcnWriting[r] IN
  /\ dcnPc[r] = "write"
  /\ DcnGoto(r, DcnAfterWrite(f))
  /\ dcnFile' = [dcnFile EXCEPT ![f] = IF @ = "absent" THEN @ ELSE "whole"]
  /\ UNCHANGED <<dcnEvents, dcnTarget, dcnTodo, dcnWriting, dcnClean,
                 dcnDamaged, dcnFaults>>

(* A file that is open reads as an error, or as a message cut short. *)
DcnRead(r) ==
  /\ dcnPc[r] = "read"
  /\ DcnGoto(r, IF dcnFile[dcnTarget[r]] = "whole" THEN "stats" ELSE "error")
  /\ UNCHANGED <<dcnEvents, dcnFile, dcnTarget, dcnTodo, dcnWriting, dcnClean,
                 dcnDamaged, dcnFaults>>

(* A fault that hits the requests in S; what they had open stays open. *)
DcnFault(S, p) ==
  /\ dcnFaults < DcnMaxFaults
  /\ dcnFaults' = dcnFaults + 1
  /\ dcnPc' = [r \in DcnRequests |-> IF r \in S THEN p ELSE dcnPc[r]]
  /\ dcnClean' = [r \in DcnRequests |-> dcnClean[r] /\ r \notin DcnActive]
  /\ UNCHANGED <<dcnEvents, dcnTarget, dcnTodo, dcnWriting>>

DcnWriteFails(r) ==
  /\ dcnPc[r] = "write"
  /\ DcnFault({r}, "error")
  /\ dcnDamaged' = TRUE
  /\ UNCHANGED dcnFile

DcnCrash ==
  /\ DcnActive # {}
  /\ DcnFault(DcnActive, "lost")
  /\ dcnDamaged' = TRUE
  /\ UNCHANGED dcnFile

(* ClearCacheFiles of a request for any tool with use_saved_result=false.  *)
(* It mends the directory unless a conversion is under way.                *)
DcnClear ==
  /\ DcnFault({}, "idle")
  /\ dcnFile' = [f \in DcnFiles |-> "absent"]
  /\ dcnDamaged' = (DcnActive # {})

DcnStep(r) ==
  \/ DcnLookForNoHost(r) \/ DcnLookForAllHosts(r)
  \/ DcnConvertHost(r) \/ DcnConvertAll(r)
  \/ DcnClose(r) \/ DcnRead(r)

DcnNext ==
  \/ DcnRecord
  \/ DcnCrash
  \/ DcnClear
  \/ \E r \in DcnRequests :
       \/ \E t \in DcnHosts \cup {AllHosts} : DcnStart(r, t)
       \/ DcnStep(r)
       \/ DcnWriteFails(r)

DcnSpec == DcnInit /\ [][DcnNext]_dcnVars
-----------------------------------------------------------------------------
DcnTypeOK ==
  /\ dcnEvents \subseteq DcnHosts
  /\ dcnFile \in [DcnFiles -> {"absent", "open", "whole"}]
  /\ dcnPc \in [DcnRequests -> DcnPC]
  /\ dcnTarget \in [DcnRequests -> DcnHosts \cup {AllHosts}]
  /\ dcnTodo \in [DcnRequests -> SUBSET DcnHosts]
  /\ dcnWriting \in [DcnRequests -> DcnFiles]
  /\ dcnClean \in [DcnRequests -> BOOLEAN]
  /\ dcnDamaged \in BOOLEAN
  /\ dcnFaults \in 0..DcnMaxFaults

(* The two verdicts never stand side by side: however the conversions of   *)
(* several requests, crashes and refreshes interleave, a session whose     *)
(* hosts all have MegaScale events never gets NO_HOST, and one with a host *)
(* without them never gets ALL_HOSTS.                                      *)
DcnOneVerdict ==
  /\ dcnFile[NoHost] # "absent" => dcnEvents # DcnHosts
  /\ dcnFile[AllHosts] # "absent" => dcnEvents = DcnHosts

(* A request that no other request, refresh or fault overlapped, in a      *)
(* directory where no writer was cut short since the last quiet refresh,   *)
(* is answered, and as the xplanes say, whichever verdict it found or made. *)
DcnUndisturbedAnswer ==
  \A r \in DcnRequests : dcnClean[r] /\ dcnPc[r] \in DcnEnded =>
    dcnPc[r] = IF dcnEvents = DcnHosts THEN "stats" ELSE "none"
=============================================================================
