------------------------- MODULE TraceViewer_proofs --------------------------
(***************************************************************************)
(* Proofs about the trace viewer, for every number of hosts, requests,     *)
(* calls and faults, and for every trace: the tables on the server, the    *)
(* loading in the browser, the zoom levels of what is stored, and the pool *)
(* that fills a table chunk by chunk.                                      *)
(***************************************************************************)
EXTENDS TraceTables, TraceViewerClient, TraceLayers, ChunkWriter,
        WellFoundedInduction, TLAPS

-----------------------------------------------------------------------------
(* The three tables are opened in this order.                              *)
Creates(r, h, t, from, to) ==
  /\ At(r, h, from)
  /\ ttTable' = [ttTable EXCEPT ![h][t] = "open"]
  /\ ttMadeBy' = [ttMadeBy EXCEPT ![h][t] = {r}]
  /\ HostGoto(r, h, to)

LEMMA CreateTableLemma ==
  ASSUME NEW r, NEW h, CreateTable(r, h)
  PROVE  \/ Creates(r, h, "events", "new_events", "new_metadata")
         \/ Creates(r, h, "metadata", "new_metadata", "new_trie")
         \/ Creates(r, h, "trie", "new_trie", "write")
  <1>1. PICK s \in {<<"events", "new_metadata">>, <<"metadata", "new_trie">>,
                    <<"trie", "write">>} :
          /\ At(r, h, CASE s[1] = "events" -> "new_events"
                        [] s[1] = "metadata" -> "new_metadata"
                        [] s[1] = "trie" -> "new_trie")
          /\ ttTable' = [ttTable EXCEPT ![h][s[1]] = "open"]
          /\ ttMadeBy' = [ttMadeBy EXCEPT ![h][s[1]] = {r}]
          /\ HostGoto(r, h, s[2])
    BY DEF CreateTable
  <1>2. CASE s = <<"events", "new_metadata">>
    BY <1>1, <1>2 DEF Creates
  <1>3. CASE s = <<"metadata", "new_trie">>
    BY <1>1, <1>3 DEF Creates
  <1>4. CASE s = <<"trie", "write">>
    BY <1>1, <1>4 DEF Creates
  <1> QED BY <1>1, <1>2, <1>3, <1>4

(* Every step with a host's tables moves one request at one host.          *)
LEMMA TtTypeStep == TtTypeOK /\ [TtNext]_ttVars => TtTypeOK'
  <1> SUFFICES ASSUME TtTypeOK, TtNext PROVE TtTypeOK'
    BY DEF TtTypeOK, ttVars
  <1> USE DEF TtTypeOK, TtEnded, Tables, HostSteps
  <1>1. ASSUME NEW r \in TtRequests, NEW w \in DOMAIN Needs, NEW reduce \in BOOLEAN,
               TtStart(r, w, reduce)
        PROVE  TtTypeOK'
    <2>1. ttClean' = [q \in TtRequests |->
                        IF q = r THEN ~ttDamaged /\ TtActive = {}
                                 ELSE ttClean[q] /\ q \notin TtActive]
      BY <1>1 DEF TtStart
    <2>2. ttClean' \in [TtRequests -> BOOLEAN]
      <3> HIDE DEF TtTypeOK
      <3> QED BY <2>1, Zenon
    <2> QED BY <1>1, <2>2 DEF TtStart
  <1>2. ASSUME NEW r \in TtRequests, NEW h \in TtHosts, CheckTables(r, h)
        PROVE  TtTypeOK'
    BY <1>2 DEF CheckTables, HostGoto
  <1>3. ASSUME NEW r \in TtRequests, NEW h \in TtHosts, CreateTable(r, h)
        PROVE  TtTypeOK'
    <2>1. PICK t \in Tables, s \in HostSteps :
            /\ ttTable' = [ttTable EXCEPT ![h][t] = "open"]
            /\ ttMadeBy' = [ttMadeBy EXCEPT ![h][t] = {r}]
            /\ HostGoto(r, h, s)
      BY <1>3, CreateTableLemma DEF Creates
    <2> QED BY <2>1 DEF HostGoto
  <1>4. ASSUME NEW r \in TtRequests, NEW h \in TtHosts, WriteTable(r, h)
        PROVE  TtTypeOK'
    <2>1. PICK t \in Tables : ttTable' = [ttTable EXCEPT ![h][t] = "whole"]
      BY <1>4 DEF WriteTable
    <2> QED BY <1>4, <2>1 DEF WriteTable
  <1>5. ASSUME NEW r \in TtRequests, NEW h \in TtHosts, TablesWritten(r, h)
        PROVE  TtTypeOK'
    BY <1>5 DEF TablesWritten, HostGoto
  <1>6. ASSUME NEW r \in TtRequests, NEW h \in TtHosts, LoadTables(r, h)
        PROVE  TtTypeOK'
    <2>1. LoadOf(r, h) \in {"loaded", "empty", "skipped"}
      BY DEF LoadOf
    <2> QED BY <1>6, <2>1 DEF LoadTables
  <1>7. ASSUME NEW r \in TtRequests, TtAnswer(r) PROVE TtTypeOK'
    BY <1>7 DEF TtAnswer
  <1>8. ASSUME NEW S, NEW p \in TtEnded \cup {"idle"}, TtFault(S, p), p = "idle" => S = {}
        PROVE  /\ ttPc' \in [TtRequests -> TtEnded \cup {"idle", "run"}]
               /\ ttClean' \in [TtRequests -> BOOLEAN]
               /\ ttFaults' \in 0..TtMaxFaults
               /\ UNCHANGED <<ttWants, ttReduce, ttHost>>
    <2>1. ttClean' \in [TtRequests -> BOOLEAN]
      <3> HIDE DEF TtTypeOK
      <3> QED BY <1>8, Zenon DEF TtFault
    <2>2. ttFaults' \in 0..TtMaxFaults
      BY <1>8, TtAssumption DEF TtFault
    <2> QED BY <1>8, <2>1, <2>2 DEF TtFault
  <1>9. ASSUME NEW r \in TtRequests, TtWriteFails(r) PROVE TtTypeOK'
    BY <1>9, <1>8 DEF TtWriteFails
  <1>10. CASE TtCrash
    BY <1>10, <1>8 DEF TtCrash
  <1>11. CASE TtClear
    <2>1. (TtActive # {}) \in BOOLEAN
      OBVIOUS
    <2>2. ttTable' \in [TtHosts -> [Tables -> {"absent", "open", "whole"}]]
      BY <1>11 DEF TtClear
    <2> QED BY <1>11, <1>8, <2>1, <2>2 DEF TtClear
  <1> QED
    BY <1>1, <1>2, <1>3, <1>4, <1>5, <1>6, <1>7, <1>9, <1>10, <1>11 DEF TtNext, TtHostStep

LEMMA TtInitType ==
  ASSUME TtInit
  PROVE  TtTypeOK
  <1>1. "view" \in DOMAIN Needs
    BY DEF Needs
  <1>2. 0 \in 0..TtMaxFaults
    BY TtAssumption
  <1>3. /\ ttTable \in [TtHosts -> [Tables -> {"absent", "open", "whole"}]]
        /\ ttMadeBy \in [TtHosts -> [Tables -> SUBSET TtRequests]]
    BY DEF TtInit
  <1>4. /\ ttPc \in [TtRequests -> TtEnded \cup {"idle", "run"}]
        /\ ttHost \in [TtRequests -> [TtHosts -> HostSteps]]
    BY DEF TtInit, HostSteps
  <1>5. /\ ttWants \in [TtRequests -> DOMAIN Needs] /\ ttFaults \in 0..TtMaxFaults
    BY <1>1, <1>2 DEF TtInit
  <1>6. /\ ttReduce \in [TtRequests -> BOOLEAN] /\ ttClean \in [TtRequests -> BOOLEAN]
        /\ ttDamaged \in BOOLEAN
    BY DEF TtInit
  <1> QED BY <1>3, <1>4, <1>5, <1>6 DEF TtTypeOK

(* Every variable of the tables keeps its type. *)
THEOREM TablesTyping == TtSpec => []TtTypeOK
  <1>1. TtInit => TtTypeOK
    BY TtInitType
  <1> QED BY <1>1, TtTypeStep, PTL DEF TtSpec
-----------------------------------------------------------------------------
(* What holds of a host's tables as long as no writer was cut short: an    *)
(* open table belongs to a request that is still making the tables, and    *)
(* one that is missing next to another is the next such a request makes.   *)
Maker(r, h, steps) == ttPc[r] = "run" /\ ttHost[r][h] \in steps

Making == {"new_metadata", "new_trie", "write"}

TablesInOrder(h) ==
  /\ ttTable[h]["events"] = "absent" => ttTable[h]["metadata"] = "absent"
  /\ ttTable[h]["metadata"] = "absent" => ttTable[h]["trie"] = "absent"

OpenIsBeingMade(h) ==
  \A t \in Tables : ttTable[h][t] = "open" =>
    \E r \in TtRequests : ttMadeBy[h][t] = {r} /\ Maker(r, h, Making)

MissingIsNext(h) ==
  /\ ttTable[h]["events"] # "absent" /\ ttTable[h]["metadata"] = "absent" =>
       \E r \in TtRequests : Maker(r, h, {"new_metadata"})
  /\ ttTable[h]["metadata"] # "absent" /\ ttTable[h]["trie"] = "absent" =>
       \E r \in TtRequests : Maker(r, h, {"new_trie"})

MakersFollowOrder(h) ==
  \A r \in TtRequests :
    /\ Maker(r, h, Making) => ttTable[h]["events"] # "absent"
    /\ Maker(r, h, {"new_trie", "write"}) => ttTable[h]["metadata"] # "absent"
    /\ Maker(r, h, {"write"}) => ttTable[h]["trie"] # "absent"

HostInv(h) ==
  TablesInOrder(h) /\ OpenIsBeingMade(h) /\ MissingIsNext(h) /\ MakersFollowOrder(h)

IdleAtCheck ==
  \A r \in TtRequests, h \in TtHosts : ttPc[r] = "idle" => ttHost[r][h] = "check"

TablesInv ==
  /\ TtTypeOK
  /\ IdleAtCheck
  /\ ~ttDamaged => \A h \in TtHosts : HostInv(h)

(* What an undisturbed request finds and leaves at each step with a host.  *)
Absents(h) == \A t \in Tables : ttTable[h][t] = "absent"
Wholes(h)  == \A t \in Tables : ttTable[h][t] = "whole"

AsLeft(r, h) ==
  /\ ttHost[r][h] = "check" => Absents(h) \/ Wholes(h)
  /\ ttHost[r][h] \in {"load", "loaded"} => Wholes(h)
  /\ ttHost[r][h] \notin {"empty", "skipped"}

TtUndisturbed(r) ==
  /\ ttPc[r] # "idle"
  /\ ttPc[r] = "run" =>
       ~ttDamaged /\ TtActive = {r} /\ \A h \in TtHosts : AsLeft(r, h)
  /\ ttPc[r] \in TtEnded =>
       ttPc[r] = "answered" /\ \A h \in TtHosts : ttHost[r][h] = "loaded"

TtUndisturbedInv == \A r \in TtRequests : ttClean[r] => TtUndisturbed(r)

(* A step that moves no maker of h and no table of h keeps what holds of h. *)
SameMakers(h) ==
  \A r \in TtRequests :
    \/ ttHost'[r][h] = ttHost[r][h] /\ (ttPc'[r] = "run" <=> ttPc[r] = "run")
    \/ /\ ~Maker(r, h, Making)
       /\ ttPc'[r] # "run" \/ ttHost'[r][h] \notin Making

LEMMA HostKept ==
  ASSUME NEW h \in TtHosts, HostInv(h), SameMakers(h),
         ttTable'[h] = ttTable[h], ttMadeBy'[h] = ttMadeBy[h]
  PROVE  HostInv(h)'
  <1>1. \A r \in TtRequests, steps \in SUBSET Making :
          Maker(r, h, steps) <=> Maker(r, h, steps)'
    BY DEF SameMakers, Maker
  <1>2. /\ Making \in SUBSET Making /\ {"new_metadata"} \in SUBSET Making
        /\ {"new_trie"} \in SUBSET Making /\ {"write"} \in SUBSET Making
        /\ {"new_trie", "write"} \in SUBSET Making
    BY DEF Making
  <1>3. TablesInOrder(h)'
    BY DEF HostInv, TablesInOrder
  <1>4. OpenIsBeingMade(h)'
    BY <1>1, <1>2 DEF HostInv, OpenIsBeingMade
  <1>5. MissingIsNext(h)'
    BY <1>1, <1>2 DEF HostInv, MissingIsNext
  <1>6. MakersFollowOrder(h)'
    BY <1>1, <1>2 DEF HostInv, MakersFollowOrder
  <1> QED BY <1>3, <1>4, <1>5, <1>6 DEF HostInv

(* Other hosts than h see nothing of a step of r with h, unless it ends r, *)
(* and a request that ends is not making the tables of any host.           *)
LEMMA OtherHostsKept ==
  ASSUME TtTypeOK, NEW r \in TtRequests, NEW h \in TtHosts, TtHostStep(r, h),
         NEW g \in TtHosts \ {h}, HostInv(g)
  PROVE  HostInv(g)'
  <1> USE DEF TtTypeOK
  <1>1. CASE CheckTables(r, h) \/ TablesWritten(r, h)
    <2>1. PICK s : HostGoto(r, h, s)
      BY <1>1 DEF CheckTables, TablesWritten
    <2>2. SameMakers(g)
      BY <2>1 DEF HostGoto, SameMakers
    <2>3. ttTable' = ttTable /\ ttMadeBy' = ttMadeBy
      BY <1>1 DEF CheckTables, TablesWritten
    <2> QED BY <2>2, <2>3, HostKept
  <1>2. CASE CreateTable(r, h)
    <2>1. PICK t, step : /\ ttTable' = [ttTable EXCEPT ![h][t] = "open"]
                         /\ ttMadeBy' = [ttMadeBy EXCEPT ![h][t] = {r}]
                         /\ HostGoto(r, h, step)
      BY <1>2, CreateTableLemma DEF Creates
    <2>2. ttTable'[g] = ttTable[g] /\ ttMadeBy'[g] = ttMadeBy[g] /\ SameMakers(g)
      BY <2>1 DEF HostGoto, SameMakers
    <2> QED BY <2>2, HostKept
  <1>3. CASE WriteTable(r, h)
    <2>1. ttTable'[g] = ttTable[g] /\ ttMadeBy'[g] = ttMadeBy[g] /\ SameMakers(g)
      BY <1>3 DEF WriteTable, SameMakers
    <2> QED BY <2>1, HostKept
  <1>4. CASE LoadTables(r, h)
    <2>1. ttTable' = ttTable /\ ttMadeBy' = ttMadeBy
      BY <1>4 DEF LoadTables
    <2>2. SameMakers(g)
      BY <1>4 DEF LoadTables, SameMakers, At, Works, Maker, Making, Done
    <2> QED BY <2>1, <2>2, HostKept
  <1> QED BY <1>1, <1>2, <1>3, <1>4 DEF TtHostStep

LEMMA MakersHostKept ==
  ASSUME TtTypeOK, NEW r \in TtRequests, NEW h \in TtHosts, TtHostStep(r, h), HostInv(h)
  PROVE  HostInv(h)'
  <1> USE DEF TtTypeOK
  <1>1. CASE CheckTables(r, h)
    <2>1. ttTable' = ttTable /\ ttMadeBy' = ttMadeBy /\ SameMakers(h)
      BY <1>1 DEF CheckTables, At, HostGoto, SameMakers, Maker, Making
    <2> QED BY <2>1, HostKept
  <1>2. CASE LoadTables(r, h)
    <2>1. LoadOf(r, h) \in {"loaded", "empty", "skipped"}
      BY DEF LoadOf
    <2>2. ttTable' = ttTable /\ ttMadeBy' = ttMadeBy /\ SameMakers(h)
      BY <1>2, <2>1 DEF LoadTables, At, Works, SameMakers, Maker, Making
    <2> QED BY <2>2, HostKept
  <1>3. ASSUME NEW t \in Tables, NEW from \in HostSteps, NEW to \in Making,
               Creates(r, h, t, from, to)
        PROVE  /\ ttPc' = ttPc /\ ttPc[r] = "run" /\ ttHost[r][h] = from
               /\ ttHost'[r][h] = to
               /\ \A q \in TtRequests \ {r} : ttHost'[q][h] = ttHost[q][h]
               /\ ttTable'[h][t] = "open" /\ ttMadeBy'[h][t] = {r}
               /\ \A s \in Tables \ {t} : /\ ttTable'[h][s] = ttTable[h][s]
                                          /\ ttMadeBy'[h][s] = ttMadeBy[h][s]
    BY <1>3 DEF Creates, At, Works, HostGoto
  <1>t. "events" \in Tables /\ "metadata" \in Tables /\ "trie" \in Tables
        /\ \A t \in Tables : t \in {"events", "metadata", "trie"}
    BY DEF Tables
  <1>s. \A s \in {"new_events"} \cup Making : s \in HostSteps
    BY DEF HostSteps, Making
  <1>m. "new_metadata" \in Making /\ "new_trie" \in Making /\ "write" \in Making
    BY DEF Making
  <1> HIDE DEF TtTypeOK
  <1>4. CASE Creates(r, h, "events", "new_events", "new_metadata")
    <2>1. TablesInOrder(h)'
      BY <1>3, <1>4, <1>t, <1>s, <1>m DEF HostInv, TablesInOrder
    <2>2. OpenIsBeingMade(h)'
      BY <1>3, <1>4, <1>t, <1>s, <1>m DEF HostInv, OpenIsBeingMade, Maker, Making
    <2>3. MissingIsNext(h)'
      BY <1>3, <1>4, <1>t, <1>s, <1>m DEF HostInv, MissingIsNext, Maker
    <2>4. MakersFollowOrder(h)'
      BY <1>3, <1>4, <1>t, <1>s, <1>m DEF HostInv, MakersFollowOrder, Maker, Making
    <2> QED BY <2>1, <2>2, <2>3, <2>4 DEF HostInv
  <1>5. CASE Creates(r, h, "metadata", "new_metadata", "new_trie")
    <2>1. TablesInOrder(h)'
      BY <1>3, <1>5, <1>t, <1>s, <1>m
         DEF HostInv, TablesInOrder, MakersFollowOrder, Maker, Making
    <2>2. OpenIsBeingMade(h)'
      BY <1>3, <1>5, <1>t, <1>s, <1>m DEF HostInv, OpenIsBeingMade, Maker, Making
    <2>3. MissingIsNext(h)'
      BY <1>3, <1>5, <1>t, <1>s, <1>m DEF HostInv, MissingIsNext, Maker
    <2>4. MakersFollowOrder(h)'
      BY <1>3, <1>5, <1>t, <1>s, <1>m DEF HostInv, MakersFollowOrder, Maker, Making
    <2> QED BY <2>1, <2>2, <2>3, <2>4 DEF HostInv
  <1>6. CASE Creates(r, h, "trie", "new_trie", "write")
    <2>1. TablesInOrder(h)'
      BY <1>3, <1>6, <1>t, <1>s, <1>m
         DEF HostInv, TablesInOrder, MakersFollowOrder, Maker, Making
    <2>2. OpenIsBeingMade(h)'
      BY <1>3, <1>6, <1>t, <1>s, <1>m DEF HostInv, OpenIsBeingMade, Maker, Making
    <2>3. MissingIsNext(h)'
      BY <1>3, <1>6, <1>t, <1>s, <1>m DEF HostInv, MissingIsNext, MakersFollowOrder, Maker, Making
    <2>4. MakersFollowOrder(h)'
      BY <1>3, <1>6, <1>t, <1>s, <1>m DEF HostInv, MakersFollowOrder, Maker, Making
    <2> QED BY <2>1, <2>2, <2>3, <2>4 DEF HostInv
  <1>7. CASE WriteTable(r, h)
    <2>1. PICK t \in Tables : ttTable[h][t] = "open" /\ ttTable' = [ttTable EXCEPT ![h][t] = "whole"]
      BY <1>7 DEF WriteTable
    <2>2. UNCHANGED <<ttMadeBy, ttPc, ttHost>>
      BY <1>7 DEF WriteTable
    <2>3. /\ ttTable'[h][t] = "whole"
          /\ \A s \in Tables \ {t} : ttTable'[h][s] = ttTable[h][s]
      BY <2>1 DEF TtTypeOK
    <2>4. \A s \in Tables : /\ ttTable'[h][s] = "absent" <=> ttTable[h][s] = "absent"
                            /\ ttTable'[h][s] = "open" => ttTable[h][s] = "open"
      BY <2>1, <2>3
    <2>5. TablesInOrder(h)' /\ OpenIsBeingMade(h)'
      BY <2>2, <2>4, <1>t DEF HostInv, TablesInOrder, OpenIsBeingMade, Maker
    <2>6. MissingIsNext(h)' /\ MakersFollowOrder(h)'
      BY <2>2, <2>4, <1>t DEF HostInv, MissingIsNext, MakersFollowOrder, Maker
    <2> QED BY <2>5, <2>6 DEF HostInv
  <1>8. CASE TablesWritten(r, h)
    <2>1. /\ ttTable' = ttTable /\ ttMadeBy' = ttMadeBy /\ ttPc' = ttPc
          /\ ttHost[r][h] = "write" /\ ttHost'[r][h] = "load"
          /\ \A q \in TtRequests \ {r} : ttHost'[q][h] = ttHost[q][h]
          /\ \A t \in Tables : ~(ttTable[h][t] = "open" /\ ttMadeBy[h][t] = {r})
      BY <1>8 DEF TablesWritten, At, HostGoto, TtTypeOK
    <2>2. TablesInOrder(h)' /\ MissingIsNext(h)'
      BY <2>1 DEF HostInv, TablesInOrder, MissingIsNext, Maker
    <2>3. OpenIsBeingMade(h)'
      BY <2>1 DEF HostInv, OpenIsBeingMade, Maker
    <2>4. MakersFollowOrder(h)'
      BY <2>1 DEF HostInv, MakersFollowOrder, Maker, Making
    <2> QED BY <2>2, <2>3, <2>4 DEF HostInv
  <1> QED BY <1>1, <1>2, <1>4, <1>5, <1>6, <1>7, <1>8, CreateTableLemma DEF TtHostStep

LEMMA TablesInvStep == TablesInv /\ TtTypeOK' /\ TtNext => TablesInv'
  <1> SUFFICES ASSUME TablesInv, TtTypeOK', TtNext PROVE TablesInv'
    OBVIOUS
  <1> USE DEF TablesInv
  <1>k. ASSUME \A h \in TtHosts : SameMakers(h), UNCHANGED <<ttTable, ttMadeBy, ttDamaged>>
        PROVE  ~ttDamaged' => \A h \in TtHosts : HostInv(h)'
    BY <1>k, HostKept
  <1>1. ASSUME NEW r \in TtRequests, NEW w, NEW reduce, TtStart(r, w, reduce)
        PROVE  TablesInv'
    <2>1. /\ ttPc[r] = "idle" /\ ttPc' = [ttPc EXCEPT ![r] = "run"]
          /\ UNCHANGED <<ttTable, ttMadeBy, ttHost, ttDamaged>>
      BY <1>1 DEF TtStart
    <2>2. \A h \in TtHosts : SameMakers(h)
      BY <2>1 DEF SameMakers, IdleAtCheck, Maker, Making, TtTypeOK
    <2>3. IdleAtCheck'
      BY <2>1 DEF IdleAtCheck, TtTypeOK
    <2> QED BY <2>1, <2>2, <2>3, <1>k
  <1>2. ASSUME NEW r \in TtRequests, NEW h \in TtHosts, TtHostStep(r, h)
        PROVE  TablesInv'
    <2>1. UNCHANGED ttDamaged
      BY <1>2, CreateTableLemma DEF TtHostStep, CheckTables, Creates, WriteTable,
                                    TablesWritten, LoadTables, HostGoto
    <2>2. IdleAtCheck'
      <3>1. ttPc[r] = "run"
        BY <1>2, CreateTableLemma DEF TtHostStep, CheckTables, Creates, WriteTable,
                                      TablesWritten, LoadTables, At, Works
      <3>2. /\ \A q \in TtRequests \ {r} : ttHost'[q] = ttHost[q] /\ ttPc'[q] = ttPc[q]
            /\ ttPc'[r] # "idle"
        <4>1. CASE LoadTables(r, h)
          BY <3>1, <4>1 DEF LoadTables, TtTypeOK
        <4>2. CASE WriteTable(r, h)
          BY <3>1, <4>2 DEF WriteTable, TtTypeOK
        <4>3. ASSUME NEW s, HostGoto(r, h, s) PROVE <3>2
          BY <3>1, <4>3 DEF HostGoto, TtTypeOK
        <4> QED BY <1>2, <4>1, <4>2, <4>3, CreateTableLemma
                DEF TtHostStep, CheckTables, Creates, TablesWritten
      <3> QED BY <3>1, <3>2 DEF IdleAtCheck
    <2> QED BY <1>2, <2>1, <2>2, OtherHostsKept, MakersHostKept
  <1>3. ASSUME NEW r \in TtRequests, TtAnswer(r) PROVE TablesInv'
    <2>1. /\ ttPc[r] = "run" /\ \A h \in TtHosts : ttHost[r][h] \in Done
          /\ ttPc'[r] \in {"error", "answered"}
          /\ \A q \in TtRequests \ {r} : ttPc'[q] = ttPc[q]
          /\ UNCHANGED <<ttTable, ttMadeBy, ttHost, ttDamaged>>
      BY <1>3 DEF TtAnswer, TtTypeOK
    <2>2. \A h \in TtHosts : SameMakers(h)
      BY <2>1 DEF SameMakers, Maker, Making, Done
    <2>3. IdleAtCheck'
      BY <2>1 DEF IdleAtCheck
    <2> QED BY <2>1, <2>2, <2>3, <1>k
  <1>4. ASSUME NEW S \in SUBSET TtRequests, NEW p, TtFault(S, p),
               \A r \in S : p # "idle"
        PROVE  IdleAtCheck'
    BY <1>4 DEF TtFault, IdleAtCheck
  <1>5. ASSUME NEW r \in TtRequests, TtWriteFails(r) PROVE TablesInv'
    BY <1>5, <1>4 DEF TtWriteFails
  <1>6. CASE TtCrash
    BY <1>6, <1>4 DEF TtCrash, TtActive
  <1>7. CASE TtClear
    <2>1. IdleAtCheck'
      BY <1>7, <1>4 DEF TtClear
    <2>2. ASSUME ~ttDamaged', NEW h \in TtHosts PROVE HostInv(h)'
      <3>1. \A q \in TtRequests : ttPc'[q] # "run"
        BY <1>7, <2>2 DEF TtClear, TtFault, TtActive
      <3>2. \A t \in Tables : ttTable'[h][t] = "absent"
        BY <1>7 DEF TtClear
      <3>3. "events" \in Tables /\ "metadata" \in Tables /\ "trie" \in Tables
        BY DEF Tables
      <3> QED BY <3>1, <3>2, <3>3
              DEF HostInv, TablesInOrder, OpenIsBeingMade, MissingIsNext,
                  MakersFollowOrder, Maker
    <2> QED BY <2>1, <2>2
  <1> QED BY <1>1, <1>2, <1>3, <1>5, <1>6, <1>7 DEF TtNext

(* Unless a writer was cut short, whatever is missing or open of a host's  *)
(* tables is being made by a request that runs.                            *)
THEOREM TablesSafety == TtSpec => []TablesInv
  <1>1. TtInit => TablesInv
    <2>1. TtInit => TtTypeOK
      BY TtInitType
    <2> QED BY <2>1 DEF TtInit, TablesInv, IdleAtCheck, HostInv, TablesInOrder,
                        OpenIsBeingMade, MissingIsNext, MakersFollowOrder, Maker, Tables
  <1>2. TablesInv /\ TtTypeOK' /\ [TtNext]_ttVars => TablesInv'
    <2>1. TablesInv /\ UNCHANGED ttVars => TablesInv'
      BY DEF TablesInv, IdleAtCheck, TtTypeOK, HostInv, TablesInOrder, OpenIsBeingMade,
             MissingIsNext, MakersFollowOrder, Maker, ttVars
    <2> QED BY <2>1, TablesInvStep
  <1> QED BY <1>1, <1>2, TablesTyping, PTL DEF TtSpec
-----------------------------------------------------------------------------
LEMMA UndisturbedStarts ==
  ASSUME TablesInv, NEW r \in TtRequests, NEW w, NEW reduce, TtStart(r, w, reduce),
         ~ttDamaged, TtActive = {}
  PROVE  TtUndisturbed(r)'
  <1>1. /\ ttPc[r] = "idle" /\ ttPc' = [ttPc EXCEPT ![r] = "run"]
        /\ UNCHANGED <<ttTable, ttHost, ttDamaged>>
    BY DEF TtStart
  <1>2. \A q \in TtRequests : ttPc[q] # "run"
    BY DEF TtActive
  <1>3. ttPc'[r] = "run" /\ TtActive' = {r}
    BY <1>1, <1>2 DEF TtActive, TablesInv, TtTypeOK
  <1>4. ASSUME NEW h \in TtHosts PROVE Absents(h) \/ Wholes(h)
    <2>1. /\ TablesInOrder(h) /\ OpenIsBeingMade(h) /\ MissingIsNext(h)
          /\ ttTable[h] \in [Tables -> {"absent", "open", "whole"}]
      BY DEF TablesInv, HostInv, TtTypeOK
    <2>2. \A t \in Tables : ttTable[h][t] # "open"
      BY <2>1, <1>2 DEF OpenIsBeingMade, Maker
    <2>3. /\ ttTable[h]["events"] = "absent" <=> ttTable[h]["metadata"] = "absent"
          /\ ttTable[h]["metadata"] = "absent" <=> ttTable[h]["trie"] = "absent"
      BY <2>1, <1>2 DEF TablesInOrder, MissingIsNext, Maker
    <2> QED BY <2>1, <2>2, <2>3 DEF Absents, Wholes, Tables
  <1>5. \A h \in TtHosts : ttHost[r][h] = "check"
    BY <1>1 DEF TablesInv, IdleAtCheck
  <1>6. \A h \in TtHosts : AsLeft(r, h)'
    BY <1>1, <1>4, <1>5 DEF AsLeft, Absents, Wholes
  <1> QED BY <1>1, <1>3, <1>6 DEF TtUndisturbed, TtEnded

(* While an undisturbed request runs, each of its steps with a host leaves *)
(* the tables of that host as its next step expects them.                  *)
LEMMA UndisturbedHostStep ==
  ASSUME TablesInv, TtTypeOK', NEW r \in TtRequests, NEW h \in TtHosts, TtHostStep(r, h),
         TtUndisturbed(r), TablesInv'
  PROVE  TtUndisturbed(r)'
  <1>0. /\ ttPc[r] = "run" /\ ~ttDamaged /\ TtActive = {r}
        /\ \A g \in TtHosts : AsLeft(r, g) /\ HostInv(g)
    <2>1. ttPc[r] = "run"
      BY CreateTableLemma DEF TtHostStep, CheckTables, Creates, WriteTable,
                              TablesWritten, LoadTables, At, Works
    <2> QED BY <2>1 DEF TtUndisturbed, TablesInv
  <1>1. UNCHANGED ttDamaged
    BY CreateTableLemma DEF TtHostStep, CheckTables, Creates, WriteTable,
                            TablesWritten, LoadTables, HostGoto
  <1>2. \A q \in TtRequests \ {r} : ttPc[q] # "run"
    BY <1>0 DEF TtActive
  <1>p. ASSUME UNCHANGED ttPc, \A g \in TtHosts : AsLeft(r, g)'
        PROVE  TtUndisturbed(r)'
    BY <1>0, <1>1, <1>p DEF TtUndisturbed, TtActive, TtEnded
  <1>g. ASSUME NEW g \in TtHosts \ {h}, ttTable'[g] = ttTable[g],
               ttHost'[r][g] = ttHost[r][g]
        PROVE  AsLeft(r, g)'
    BY <1>0, <1>g DEF AsLeft, Absents, Wholes
  <1>3. CASE CheckTables(r, h)
    <2>1. /\ ttHost[r][h] = "check"
          /\ ttHost'[r][h] = IF ttTable[h]["events"] = "absent" THEN "new_events" ELSE "load"
          /\ UNCHANGED <<ttTable, ttPc>>
          /\ \A g \in TtHosts \ {h} : ttHost'[r][g] = ttHost[r][g]
      BY <1>3 DEF CheckTables, At, HostGoto, TablesInv, TtTypeOK
    <2>2. AsLeft(r, h)'
      BY <1>0, <2>1 DEF AsLeft, Absents, Wholes, Tables
    <2> QED BY <2>1, <2>2, <1>p, <1>g
  <1>4. ASSUME NEW t \in Tables, NEW from, NEW to \in Making, Creates(r, h, t, from, to)
        PROVE  TtUndisturbed(r)'
    <2>1. /\ ttHost'[r][h] = to /\ UNCHANGED ttPc
          /\ \A g \in TtHosts \ {h} : /\ ttTable'[g] = ttTable[g]
                                      /\ ttHost'[r][g] = ttHost[r][g]
      BY <1>4 DEF Creates, HostGoto, TablesInv, TtTypeOK
    <2>2. AsLeft(r, h)'
      BY <2>1 DEF AsLeft, Making
    <2> QED BY <2>1, <2>2, <1>p, <1>g
  <1>5. CASE WriteTable(r, h)
    <2>1. /\ ttHost[r][h] = "write" /\ UNCHANGED <<ttHost, ttPc>>
          /\ \A g \in TtHosts \ {h} : ttTable'[g] = ttTable[g]
      BY <1>5 DEF WriteTable, At, TablesInv, TtTypeOK
    <2>2. AsLeft(r, h)'
      BY <2>1 DEF AsLeft
    <2> QED BY <2>1, <2>2, <1>p, <1>g
  <1>6. CASE TablesWritten(r, h)
    <2>1. /\ ttHost[r][h] = "write" /\ ttHost'[r][h] = "load" /\ UNCHANGED <<ttTable, ttPc>>
          /\ \A t \in Tables : ~(ttTable[h][t] = "open" /\ ttMadeBy[h][t] = {r})
          /\ \A g \in TtHosts \ {h} : ttHost'[r][g] = ttHost[r][g]
      BY <1>6 DEF TablesWritten, At, HostGoto, TablesInv, TtTypeOK
    <2>2. \A t \in Tables : ttTable[h][t] # "open"
      BY <1>0, <1>2, <2>1 DEF HostInv, OpenIsBeingMade, Maker
    <2>3. \A t \in Tables : ttTable[h][t] # "absent"
      <3>1. Maker(r, h, Making) /\ Maker(r, h, {"new_trie", "write"}) /\ Maker(r, h, {"write"})
        BY <1>0, <2>1 DEF Maker, Making
      <3> QED BY <1>0, <3>1 DEF HostInv, MakersFollowOrder, Tables
    <2>4. Wholes(h)'
      BY <2>1, <2>2, <2>3 DEF Wholes, TablesInv, TtTypeOK
    <2>5. AsLeft(r, h)'
      BY <2>1, <2>4 DEF AsLeft
    <2> QED BY <2>1, <2>5, <1>p, <1>g
  <1>7. CASE LoadTables(r, h)
    <2>1. ttHost[r][h] = "load" /\ Wholes(h)
      BY <1>0, <1>7 DEF LoadTables, At, AsLeft
    <2>2. \A t \in Needs[ttWants[r]] : ttTable[h][t] = "whole"
      <3>1. ttWants[r] \in {"view", "detail", "search"}
        BY DEF TablesInv, TtTypeOK, Needs
      <3>2. Needs[ttWants[r]] \subseteq Tables
        BY <3>1 DEF Needs, Tables
      <3> QED BY <2>1, <3>2 DEF Wholes
    <2>3. LoadOf(r, h) = "loaded"
      <3>1. ttTable[h]["metadata"] = "whole" /\ ttTable[h]["trie"] = "whole"
        BY <2>1 DEF Wholes, Tables
      <3> QED BY <2>2, <3>1 DEF LoadOf
    <2>4. /\ UNCHANGED <<ttTable, ttPc>> /\ ttHost'[r][h] = "loaded"
          /\ \A g \in TtHosts \ {h} : ttHost'[r][g] = ttHost[r][g]
      BY <1>7, <2>3 DEF LoadTables, TablesInv, TtTypeOK
    <2>5. AsLeft(r, h)'
      BY <2>1, <2>4 DEF AsLeft, Wholes
    <2> QED BY <2>4, <2>5, <1>p, <1>g
  <1>8. /\ "events" \in Tables /\ "metadata" \in Tables /\ "trie" \in Tables
        /\ "new_metadata" \in Making /\ "new_trie" \in Making /\ "write" \in Making
    BY DEF Tables, Making
  <1> QED BY <1>3, <1>4, <1>5, <1>6, <1>7, <1>8, CreateTableLemma DEF TtHostStep

(* A request that ended, or that another one works beside, is not touched. *)
LEMMA UndisturbedUntouched ==
  ASSUME NEW q \in TtRequests, TtUndisturbed(q), ttPc[q] # "run",
         ttPc'[q] = ttPc[q], ttHost'[q] = ttHost[q]
  PROVE  TtUndisturbed(q)'
  BY DEF TtUndisturbed

LEMMA UndisturbedStep ==
  TablesInv /\ TablesInv' /\ TtUndisturbedInv /\ [TtNext]_ttVars => TtUndisturbedInv'
  <1> SUFFICES ASSUME TablesInv, TablesInv', TtUndisturbedInv, [TtNext]_ttVars,
                      NEW q \in TtRequests, ttClean'[q]
               PROVE  TtUndisturbed(q)'
    BY DEF TtUndisturbedInv
  <1>t. TtTypeOK /\ TtTypeOK'
    BY DEF TablesInv
  <1>u. ASSUME ttClean[q] PROVE TtUndisturbed(q)
    BY <1>u DEF TtUndisturbedInv
  <1>1. ASSUME NEW r \in TtRequests, NEW w, NEW reduce, TtStart(r, w, reduce)
        PROVE  TtUndisturbed(q)'
    <2>1. CASE q = r
      <3>1. ~ttDamaged /\ TtActive = {}
        BY <1>1, <2>1 DEF TtStart
      <3> QED BY <1>1, <2>1, <3>1, UndisturbedStarts
    <2>2. CASE q # r
      <3>1. /\ ttClean[q] /\ ttPc[q] # "run"
            /\ ttPc'[q] = ttPc[q] /\ ttHost'[q] = ttHost[q]
        BY <1>1, <2>2, <1>t DEF TtStart, TtActive, TtTypeOK
      <3> QED BY <3>1, <1>u, UndisturbedUntouched
    <2> QED BY <2>1, <2>2
  <1>2. ASSUME NEW r \in TtRequests, NEW h \in TtHosts, TtHostStep(r, h)
        PROVE  TtUndisturbed(q)'
    <2>0. /\ ttPc[r] = "run" /\ UNCHANGED ttClean
          /\ q # r => ttPc'[q] = ttPc[q] /\ ttHost'[q] = ttHost[q]
      <3>1. CASE LoadTables(r, h)
        BY <3>1, <1>t DEF LoadTables, At, Works, TtTypeOK
      <3>2. CASE WriteTable(r, h)
        BY <3>2, <1>t DEF WriteTable, At, Works, TtTypeOK
      <3>3. ASSUME NEW from, NEW s, At(r, h, from), HostGoto(r, h, s) PROVE <2>0
        BY <3>3, <1>t DEF HostGoto, At, Works, TtTypeOK
      <3> QED BY <1>2, <3>1, <3>2, <3>3, CreateTableLemma
              DEF TtHostStep, CheckTables, Creates, TablesWritten
    <2>1. ttClean[q] /\ TtUndisturbed(q)
      BY <2>0, <1>u
    <2>2. CASE q = r
      BY <1>2, <1>t, <2>1, <2>2, UndisturbedHostStep
    <2>3. CASE q # r
      <3>1. ttPc[q] # "run"
        BY <2>0, <2>1, <2>3 DEF TtUndisturbed, TtActive
      <3> QED BY <2>0, <2>1, <2>3, <3>1, UndisturbedUntouched
    <2> QED BY <2>2, <2>3
  <1>3. ASSUME NEW r \in TtRequests, TtAnswer(r) PROVE TtUndisturbed(q)'
    <2>0. /\ ttPc[r] = "run" /\ UNCHANGED <<ttClean, ttHost>>
          /\ q # r => ttPc'[q] = ttPc[q]
          /\ \A h \in TtHosts : ttHost[r][h] \in Done
      BY <1>3, <1>t DEF TtAnswer, TtTypeOK
    <2>1. ttClean[q] /\ TtUndisturbed(q)
      BY <2>0, <1>u
    <2>2. CASE q = r
      <3>1. \A h \in TtHosts : ttHost[r][h] = "loaded"
        BY <2>0, <2>1, <2>2 DEF TtUndisturbed, AsLeft, Done
      <3>2. ttPc'[r] = "answered"
        BY <1>3, <3>1, <1>t, TtAssumption DEF TtAnswer, TtTypeOK
      <3> QED BY <2>0, <2>2, <3>1, <3>2 DEF TtUndisturbed
    <2>3. CASE q # r
      <3>1. ttPc[q] # "run"
        BY <2>0, <2>1, <2>3 DEF TtUndisturbed, TtActive
      <3> QED BY <2>0, <2>1, <2>3, <3>1, UndisturbedUntouched
    <2> QED BY <2>2, <2>3
  <1>4. ASSUME NEW S \in SUBSET TtActive, NEW p, TtFault(S, p)
        PROVE  TtUndisturbed(q)'
    <2>1. /\ ttClean[q] /\ ttPc[q] # "run" /\ UNCHANGED ttHost
          /\ ttPc'[q] = ttPc[q]
      BY <1>4 DEF TtFault, TtActive
    <2> QED BY <2>1, <1>u, UndisturbedUntouched
  <1>5. ASSUME NEW r \in TtRequests, TtWriteFails(r) PROVE TtUndisturbed(q)'
    <2>1. {r} \in SUBSET TtActive
      BY <1>5 DEF TtWriteFails, At, Works, TtActive
    <2> QED BY <1>5, <2>1, <1>4 DEF TtWriteFails
  <1>6. CASE TtCrash \/ TtClear
    BY <1>6, <1>4 DEF TtCrash, TtClear
  <1>7. CASE UNCHANGED ttVars
    BY <1>7, <1>u DEF ttVars, TtUndisturbed, AsLeft, TtActive, Absents, Wholes
  <1> QED BY <1>1, <1>2, <1>3, <1>5, <1>6, <1>7 DEF TtNext

(* An undisturbed request finds the tables of each host all absent or all  *)
(* whole, makes what is missing, and loads every host.                     *)
THEOREM UndisturbedTables == TtSpec => []TtUndisturbedInv
  <1>1. TtInit => TtUndisturbedInv
    BY DEF TtInit, TtUndisturbedInv
  <1> QED BY <1>1, UndisturbedStep, TablesSafety, PTL DEF TtSpec

(* A request that nothing overlapped, in a directory where no writer was   *)
(* cut short, is answered and shows every host.                            *)
THEOREM UndisturbedTraceIsWhole == TtSpec => []TtUndisturbedAnswer
  <1>1. TtUndisturbedInv => TtUndisturbedAnswer
    BY DEF TtUndisturbedInv, TtUndisturbed, TtUndisturbedAnswer
  <1> QED BY <1>1, UndisturbedTables, PTL
-----------------------------------------------------------------------------
(* The loading in the browser.  The ranges it computes are ranges.         *)
LEMMA TvRangeLemma ==
  /\ \A r \in TvRanges, n \in Nat : TvScale(r, n) \in TvRanges
  /\ \A r \in TvRanges, end \in Nat :
       /\ TvConstrain(r, end) \in TvRanges
       /\ TvFetch(r, end) \in TvRanges
       /\ TvPreserve(r, end) \in TvRanges
  <1>1. \A r \in TvRanges, n \in Nat : TvScale(r, n) \in TvRanges
    BY DEF TvRanges, TvScale, TvSize
  <1>2. \A r \in TvRanges, end \in Nat : TvConstrain(r, end) \in TvRanges
    BY DEF TvRanges, TvConstrain, TvMin, TvMax, TvSize
  <1>3. \A r \in TvRanges, end \in Nat : TvPreserve(r, end) \in TvRanges
    BY <1>1, <1>2 DEF TvPreserve
  <1>4. ASSUME NEW r \in TvRanges, NEW end \in Nat PROVE TvFetch(r, end) \in TvRanges
    <2>1. TvScale(r, 3) \in TvRanges
      BY <1>1
    <2>2. LET mid == (r[1] + r[2]) \div 2 half == TvMinFetch \div 2 IN
          <<mid - half, mid + half>> \in TvRanges
      BY TvAssumption DEF TvRanges
    <2> QED BY <2>1, <2>2, <1>2 DEF TvFetch
  <1> QED BY <1>1, <1>2, <1>3, <1>4

TvCallRecords ==
  [kind : {"load", "view"}, url : TvUrls, ask : TvRanges,
   given : TvRanges \cup {<<>>}, at : {"fetch", "yield", "done"}]

TvTyped == TvTypeOK /\ tvCalls \in Seq(TvCallRecords)

LEMMA TvAskedLemma == \A u \in TvUrls : TvAsked(u) \in TvRanges
  <1> SUFFICES ASSUME NEW u \in TvUrls PROVE TvAsked(u) \in TvRanges
    OBVIOUS
  <1>1. TvEnd[u] \in Nat /\ TvUrlView[u] \in TvRanges \cup {<<>>}
    BY TvAssumption DEF TvRanges
  <1>2. TvUrlView[u] # <<>> => TvScale(TvUrlView[u], 3) \in TvRanges
    BY <1>1, TvRangeLemma
  <1> QED BY <1>1, <1>2 DEF TvAsked, TvRanges, TvMin, TvMax

(* Moving a call on, or adding one, gives calls again.                     *)
LEMMA TvGotoLemma ==
  ASSUME NEW i \in DOMAIN tvCalls, NEW step \in {"fetch", "yield", "done"},
         tvCalls \in Seq(TvCallRecords)
  PROVE  /\ TvGoto(i, step) \in Seq(TvCallRecords)
         /\ Len(TvGoto(i, step)) = Len(tvCalls)
         /\ DOMAIN TvGoto(i, step) = DOMAIN tvCalls
         /\ TvGoto(i, step)[i].at = step
         /\ TvGoto(i, step)[i].url = tvCalls[i].url
         /\ \A j \in DOMAIN tvCalls \ {i} : TvGoto(i, step)[j] = tvCalls[j]
  <1>1. tvCalls[i] \in TvCallRecords
    OBVIOUS
  <1>2. [tvCalls[i] EXCEPT !.at = step] \in TvCallRecords
    BY <1>1 DEF TvCallRecords
  <1>3. TvGoto(i, step) = [tvCalls EXCEPT ![i] = [tvCalls[i] EXCEPT !.at = step]]
    BY DEF TvGoto
  <1>4. TvGoto(i, step)[i] = [tvCalls[i] EXCEPT !.at = step]
    BY <1>3
  <1>5. TvGoto(i, step)[i].at = step /\ TvGoto(i, step)[i].url = tvCalls[i].url
    BY <1>1, <1>4 DEF TvCallRecords
  <1> QED BY <1>2, <1>3, <1>5

LEMMA TvAppendLemma ==
  ASSUME NEW calls \in Seq(TvCallRecords), NEW c \in TvCallRecords
  PROVE  /\ Append(calls, c) \in Seq(TvCallRecords)
         /\ Len(Append(calls, c)) = Len(calls) + 1
         /\ \A j \in DOMAIN calls : j \in DOMAIN Append(calls, c) /\ Append(calls, c)[j] = calls[j]
         /\ Len(calls) + 1 \in DOMAIN Append(calls, c)
         /\ Append(calls, c)[Len(calls) + 1] = c
  OBVIOUS

LEMMA TvCallType ==
  ASSUME NEW kind \in {"load", "view"}, NEW url \in TvUrls, NEW ask \in TvRanges,
         NEW given \in TvRanges \cup {<<>>}
  PROVE  /\ TvCall(kind, url, ask, given) \in TvCallRecords
         /\ TvCall(kind, url, ask, given).url = url
         /\ TvCall(kind, url, ask, given).at = "fetch"
  BY DEF TvCall, TvCallRecords

(* A call ends, and nothing else about the calls changes.                  *)
LEMMA TvFinishLemma ==
  ASSUME TvTyped, NEW i \in DOMAIN tvCalls, TvFinish(i)
  PROVE  /\ tvCalls' \in Seq(TvCallRecords) /\ Len(tvCalls') = Len(tvCalls)
         /\ tvPromise' \in {0, tvPromise} /\ tvUrl' = tvUrl
         /\ DOMAIN tvCalls' = DOMAIN tvCalls
         /\ tvCalls'[i].at = "done"
         /\ \A j \in DOMAIN tvCalls \ {i} : tvCalls'[j] = tvCalls[j]
  BY TvGotoLemma DEF TvFinish, TvTyped

(* Asking for a URL leaves a call for it under way: a new one, or the one  *)
(* it joins.                                                               *)
LEMMA TvLoadLemma ==
  ASSUME TvTyped, NEW u \in TvUrls, NEW calls \in Seq(TvCallRecords), TvLoad(u, calls),
         Len(calls) <= TvMaxCalls
  PROVE  /\ tvCalls' \in Seq(TvCallRecords) /\ Len(tvCalls') <= TvMaxCalls
         /\ tvUrl' = u /\ tvPromise' \in 0..TvMaxCalls
         /\ \/ tvCalls' = calls /\ tvUrl = u /\ tvPromise # 0
            \/ \E j \in DOMAIN tvCalls' : tvCalls'[j].at = "fetch" /\ tvCalls'[j].url = u
  <1>1. CASE u = tvUrl /\ tvPromise # 0
    BY <1>1 DEF TvLoad, TvTyped, TvTypeOK, tvPage
  <1>2. CASE ~(u = tvUrl /\ tvPromise # 0)
    <2> DEFINE c == TvCall("load", u, TvAsked(u), TvUrlView[u])
    <2>1. c \in TvCallRecords /\ c.url = u /\ c.at = "fetch"
      <3>1. TvAsked(u) \in TvRanges /\ TvUrlView[u] \in TvRanges \cup {<<>>}
        BY TvAskedLemma, TvAssumption DEF TvRanges
      <3> QED BY <3>1, TvCallType
    <2>2. tvCalls' = Append(calls, c) /\ Len(calls) < TvMaxCalls /\ tvUrl' = u
          /\ tvPromise' = Len(calls) + 1
      BY <1>2 DEF TvLoad
    <2> HIDE DEF c
    <2> QED BY <2>1, <2>2, TvAppendLemma, TvAssumption
  <1> QED BY <1>1, <1>2

LEMMA TvShowType ==
  ASSUME TvTyped, NEW url \in TvUrls \cup {TvNoUrl}, NEW ask \in TvRanges,
         NEW given \in TvRanges \cup {<<>>}, NEW empty, TvShow(url, ask, given, empty)
  PROVE  /\ {tvVisible', tvLast', tvHeld'} \subseteq TvRanges
         /\ tvSpan' \in Nat /\ tvShown' = url /\ tvLoading' = FALSE
  <1>1. TvEnd[url] \in Nat /\ TvZero \in TvRanges /\ <<0, TvEnd[url]>> \in TvRanges
    BY TvAssumption DEF TvZero, TvRanges
  <1>2. tvVisible \in TvRanges
    BY DEF TvTyped, TvTypeOK
  <1>3. tvLast' \in TvRanges
    BY <1>1, TvRangeLemma DEF TvShow
  <1> QED BY <1>1, <1>2, <1>3 DEF TvShow

LEMMA TvTypeStep == TvTyped /\ [TvNext]_tvVars => TvTyped'
  <1> SUFFICES ASSUME TvTyped, TvNext PROVE TvTyped'
    BY DEF TvTyped, TvTypeOK, tvVars
  <1>d. \A i \in DOMAIN tvCalls : tvCalls[i] \in TvCallRecords
    BY DEF TvTyped
  <1>c. ASSUME tvCalls' \in Seq(TvCallRecords), Len(tvCalls') <= TvMaxCalls,
               tvUrl' \in TvUrls \cup {TvNoUrl}, tvPromise' \in 0..TvMaxCalls,
               tvStatus' \in {"idle", "loading", "processing", "error"},
               {tvVisible', tvLast', tvHeld'} \subseteq TvRanges,
               tvLoading' \in BOOLEAN, tvSpan' \in Nat,
               tvShown' \in TvUrls \cup {TvNoUrl}, tvFailed' \in BOOLEAN
        PROVE  TvTyped'
    <2>1. \A i \in DOMAIN tvCalls' : tvCalls'[i] \in TvCallRecords
      BY <1>c
    <2> QED BY <1>c, <2>1 DEF TvTyped, TvTypeOK, TvCallRecords
  <1>t. /\ {tvVisible, tvLast, tvHeld} \subseteq TvRanges
        /\ tvLoading \in BOOLEAN /\ tvSpan \in Nat
        /\ tvShown \in TvUrls \cup {TvNoUrl} /\ tvFailed \in BOOLEAN
        /\ tvCalls \in Seq(TvCallRecords) /\ Len(tvCalls) <= TvMaxCalls
        /\ tvUrl \in TvUrls \cup {TvNoUrl} /\ tvPromise \in 0..TvMaxCalls
        /\ tvStatus \in {"idle", "loading", "processing", "error"}
    BY DEF TvTyped, TvTypeOK
  <1>s. ASSUME UNCHANGED tvTimeline
        PROVE  /\ {tvVisible', tvLast', tvHeld'} \subseteq TvRanges
               /\ tvLoading' \in BOOLEAN /\ tvSpan' \in Nat
               /\ tvShown' \in TvUrls \cup {TvNoUrl}
    BY <1>s, <1>t DEF tvTimeline
  <1>p. 0 \in 0..TvMaxCalls
    BY TvAssumption
  <1>1. ASSUME NEW u \in TvUrls, LoadTraceData(u) PROVE TvTyped'
    <2>1. /\ tvCalls' \in Seq(TvCallRecords) /\ Len(tvCalls') <= TvMaxCalls
          /\ tvUrl' = u /\ tvPromise' \in 0..TvMaxCalls
      BY <1>1, <1>t, TvLoadLemma DEF LoadTraceData
    <2> QED BY <1>1, <2>1, <1>s, <1>c DEF LoadTraceData
  <1>2. ASSUME NEW i \in 1..TvMaxCalls,
               FetchFails(i) \/ DropStale(i) \/ AnswerIsNoTrace(i) \/ ProcessFails(i)
        PROVE  TvTyped'
    <2>1. i \in DOMAIN tvCalls /\ TvFinish(i) /\ UNCHANGED tvTimeline
      BY <1>2 DEF FetchFails, DropStale, AnswerIsNoTrace, ProcessFails, TvAt, TvIsStale
    <2>2. /\ tvCalls' \in Seq(TvCallRecords) /\ Len(tvCalls') <= TvMaxCalls
          /\ tvPromise' \in 0..TvMaxCalls /\ tvUrl' \in TvUrls \cup {TvNoUrl}
      BY <2>1, <1>t, <1>p, TvFinishLemma
    <2>3. /\ tvStatus' \in {"idle", "loading", "processing", "error"}
          /\ tvFailed' \in BOOLEAN
      BY <1>2, <1>t DEF FetchFails, DropStale, AnswerIsNoTrace, ProcessFails
    <2> QED BY <2>1, <2>2, <2>3, <1>s, <1>c
  <1>3. ASSUME NEW i \in 1..TvMaxCalls, AnswerArrives(i) PROVE TvTyped'
    <2>1. i \in DOMAIN tvCalls /\ UNCHANGED tvTimeline /\ tvStatus' = "processing"
      BY <1>3 DEF AnswerArrives, TvAt
    <2>2. TvGoto(i, "yield") \in Seq(TvCallRecords) /\ Len(TvGoto(i, "yield")) <= TvMaxCalls
      BY <2>1, <1>t, TvGotoLemma
    <2>3. CASE UNCHANGED tvPage /\ tvCalls' = TvGoto(i, "yield") /\ UNCHANGED tvFailed
      BY <2>1, <2>2, <2>3, <1>t, <1>s, <1>c DEF tvPage
    <2>4. ASSUME NEW u \in TvUrls, TvLoad(u, TvGoto(i, "yield")), tvFailed' = FALSE
          PROVE  TvTyped'
      <3>1. /\ tvCalls' \in Seq(TvCallRecords) /\ Len(tvCalls') <= TvMaxCalls
            /\ tvUrl' = u /\ tvPromise' \in 0..TvMaxCalls
        BY <2>2, <2>4, TvLoadLemma
      <3> QED BY <2>1, <2>4, <3>1, <1>s, <1>c
    <2> QED BY <1>3, <2>3, <2>4 DEF AnswerArrives
  <1>4. ASSUME NEW i \in 1..TvMaxCalls, Process(i) PROVE TvTyped'
    <2>1. i \in DOMAIN tvCalls /\ TvFinish(i) /\ tvStatus' = "idle" /\ UNCHANGED tvFailed
      BY <1>4 DEF Process, TvAt
    <2>2. PICK empty : TvShow(tvCalls[i].url, tvCalls[i].ask, tvCalls[i].given, empty)
      BY <1>4 DEF Process
    <2>3. /\ tvCalls[i].url \in TvUrls /\ tvCalls[i].ask \in TvRanges
          /\ tvCalls[i].given \in TvRanges \cup {<<>>}
      BY <2>1, <1>d DEF TvCallRecords
    <2>4. /\ {tvVisible', tvLast', tvHeld'} \subseteq TvRanges
          /\ tvSpan' \in Nat /\ tvShown' \in TvUrls /\ tvLoading' = FALSE
      BY <2>2, <2>3, TvShowType
    <2>5. /\ tvCalls' \in Seq(TvCallRecords) /\ Len(tvCalls') <= TvMaxCalls
          /\ tvPromise' \in 0..TvMaxCalls /\ tvUrl' \in TvUrls \cup {TvNoUrl}
      BY <2>1, <1>t, <1>p, TvFinishLemma
    <2> QED BY <2>1, <2>4, <2>5, <1>t, <1>c
  <1>5. ASSUME NEW v \in TvViews, Move(v) PROVE TvTyped'
    <2>1. tvVisible' \in TvRanges
      BY <1>5, <1>t, TvRangeLemma, TvAssumption DEF Move, TvRanges
    <2> QED BY <1>5, <2>1, <1>t, <1>c DEF Move, tvPage
  <1>6. CASE MaybeRequestData
    <2> DEFINE fetch == TvFetch(tvVisible, tvSpan)
    <2>1. fetch \in TvRanges
      BY <1>t, TvRangeLemma
    <2>2. tvLast' = fetch /\ tvLoading' = TRUE
          /\ UNCHANGED <<tvPage, tvVisible, tvSpan, tvShown, tvHeld, tvFailed>>
      BY <1>6 DEF MaybeRequestData
    <2>3. CASE tvUrl = TvNoUrl
      BY <1>6, <2>1, <2>2, <2>3, <1>t, <1>c DEF MaybeRequestData, tvPage
    <2>4. CASE tvUrl # TvNoUrl
      <3>1. tvUrl \in TvUrls
        BY <2>4, <1>t
      <3>2. TvCall("view", tvUrl, fetch, fetch) \in TvCallRecords
        BY <2>1, <3>1, TvCallType
      <3>3. /\ Len(tvCalls) < TvMaxCalls /\ tvStatus' = "loading"
            /\ tvCalls' = Append(tvCalls, TvCall("view", tvUrl, fetch, fetch))
        BY <1>6, <2>4 DEF MaybeRequestData
      <3>4. tvCalls' \in Seq(TvCallRecords) /\ Len(tvCalls') <= TvMaxCalls
        BY <3>2, <3>3, <1>t, TvAppendLemma, TvAssumption
      <3> QED BY <2>1, <2>2, <3>3, <3>4, <1>t, <1>c DEF tvPage
    <2> QED BY <2>3, <2>4
  <1>7. CASE Upload
    <2>1. <<0, TvEnd[TvNoUrl]>> \in TvRanges
      BY TvAssumption DEF TvRanges
    <2>2. /\ {tvVisible', tvLast', tvHeld'} \subseteq TvRanges
          /\ tvSpan' \in Nat /\ tvShown' = TvNoUrl /\ tvLoading' = FALSE
      BY <1>7, <2>1, TvShowType DEF Upload
    <2> QED BY <1>7, <2>2, <1>t, <1>c DEF Upload
  <1>8. CASE UploadFails
    BY <1>8, <1>t, <1>s, <1>c DEF UploadFails
  <1> QED BY <1>1, <1>2, <1>3, <1>4, <1>5, <1>6, <1>7, <1>8 DEF TvNext

(* Every variable of the page and of the timeline keeps its type. *)
THEOREM ClientTyping == TvSpec => []TvTyped
  <1>1. TvInit => TvTyped
    <2> SUFFICES ASSUME TvInit PROVE TvTyped
      OBVIOUS
    <2>1. tvCalls \in Seq(TvCallRecords) /\ Len(tvCalls) <= TvMaxCalls /\ DOMAIN tvCalls = {}
      BY TvAssumption DEF TvInit
    <2>2. {tvVisible, tvLast, tvHeld} \subseteq TvRanges
      BY DEF TvInit, TvZero, TvRanges
    <2>3. tvPromise \in 0..TvMaxCalls /\ tvSpan \in Nat
      BY TvAssumption DEF TvInit
    <2>4. /\ tvUrl \in TvUrls \cup {TvNoUrl} /\ tvShown \in TvUrls \cup {TvNoUrl}
          /\ tvStatus \in {"idle", "loading", "processing", "error"}
          /\ tvLoading \in BOOLEAN /\ tvFailed \in BOOLEAN
      BY DEF TvInit
    <2> QED BY <2>1, <2>2, <2>3, <2>4 DEF TvTyped, TvTypeOK
  <1> QED BY <1>1, TvTypeStep, PTL DEF TvSpec
-----------------------------------------------------------------------------
(* What the last request still waits for: a call for the current URL that  *)
(* has not ended, and so is not aborted unless the URL changes again.      *)
TvAwaited == \E i \in DOMAIN tvCalls : tvCalls[i].at # "done" /\ tvCalls[i].url = tvUrl

TvUpToDate == tvShown = tvUrl /\ (tvUrl # TvNoUrl => ~tvLoading)

TvServed == ~tvFailed => TvUpToDate \/ TvAwaited
LEMMA TvAwaitedStays ==
  ASSUME TvTyped, NEW i \in DOMAIN tvCalls, NEW j \in DOMAIN tvCalls \ {i},
         TvFinish(i), tvCalls[j].at # "done", tvCalls[j].url = tvUrl
  PROVE  TvAwaited'
  <1>1. j \in DOMAIN tvCalls' /\ tvCalls'[j] = tvCalls[j] /\ tvUrl' = tvUrl
    BY TvFinishLemma
  <1> QED BY <1>1 DEF TvAwaited

LEMMA TvServedStep == TvTyped /\ TvServed /\ [TvNext]_tvVars => TvServed'
  <1> SUFFICES ASSUME TvTyped, TvServed, TvNext, ~tvFailed'
               PROVE  TvUpToDate' \/ TvAwaited'
    BY DEF TvServed, TvUpToDate, TvAwaited, tvVars
  <1>t. tvCalls \in Seq(TvCallRecords) /\ Len(tvCalls) <= TvMaxCalls
    BY DEF TvTyped, TvTypeOK
  <1>1. ASSUME NEW u \in TvUrls, LoadTraceData(u) PROVE TvAwaited'
    <2>1. tvUrl' = u /\ \E j \in DOMAIN tvCalls' : tvCalls'[j].at = "fetch" /\ tvCalls'[j].url = u
      BY <1>1, <1>t, TvLoadLemma DEF LoadTraceData
    <2> QED BY <2>1 DEF TvAwaited
  <1>2. ASSUME NEW i \in 1..TvMaxCalls, FetchFails(i) \/ AnswerIsNoTrace(i) \/ ProcessFails(i)
        PROVE  FALSE
    BY <1>2 DEF FetchFails, AnswerIsNoTrace, ProcessFails
  <1>3. ASSUME NEW i \in 1..TvMaxCalls, DropStale(i)
        PROVE  TvUpToDate' \/ TvAwaited'
    <2>1. /\ i \in DOMAIN tvCalls /\ TvFinish(i) /\ tvCalls[i].url # tvUrl
          /\ UNCHANGED <<tvFailed, tvTimeline>>
      BY <1>3 DEF DropStale, TvIsStale, TvAt, TvAborted
    <2>2. tvUrl' = tvUrl
      BY <2>1 DEF TvFinish
    <2>3. CASE TvUpToDate
      BY <2>1, <2>2, <2>3 DEF TvUpToDate, tvTimeline
    <2>4. CASE TvAwaited
      BY <2>1, <2>4, TvAwaitedStays DEF TvAwaited
    <2> QED BY <2>1, <2>3, <2>4 DEF TvServed
  <1>4. ASSUME NEW i \in 1..TvMaxCalls, AnswerArrives(i) PROVE TvAwaited'
    <2>1. i \in DOMAIN tvCalls /\ tvCalls[i].url = tvUrl
      BY <1>4 DEF AnswerArrives, TvAt, TvAborted
    <2> DEFINE calls == TvGoto(i, "yield")
    <2>2. /\ calls \in Seq(TvCallRecords) /\ Len(calls) <= TvMaxCalls
          /\ i \in DOMAIN calls /\ calls[i].at = "yield" /\ calls[i].url = tvUrl
      BY <2>1, <1>t, TvGotoLemma
    <2> HIDE DEF calls
    <2>3. CASE UNCHANGED tvPage /\ tvCalls' = calls
      BY <2>2, <2>3 DEF TvAwaited, tvPage
    <2>4. ASSUME NEW u \in TvUrls, TvLoad(u, calls) PROVE TvAwaited'
      <3>1. /\ tvUrl' = u
            /\ \/ tvCalls' = calls /\ tvUrl = u
               \/ \E j \in DOMAIN tvCalls' : tvCalls'[j].at = "fetch" /\ tvCalls'[j].url = u
        BY <2>2, <2>4, TvLoadLemma
      <3> QED BY <2>2, <3>1 DEF TvAwaited
    <2> QED BY <1>4, <2>3, <2>4 DEF AnswerArrives, calls
  <1>5. ASSUME NEW i \in 1..TvMaxCalls, Process(i) PROVE TvUpToDate'
    BY <1>5 DEF Process, TvAborted, TvFinish, TvShow, TvUpToDate
  <1>6. ASSUME NEW v \in TvViews, Move(v) PROVE TvUpToDate' \/ TvAwaited'
    BY <1>6 DEF Move, tvPage, TvServed, TvUpToDate, TvAwaited
  <1>7. CASE MaybeRequestData
    <2>1. CASE tvUrl = TvNoUrl
      BY <1>7, <2>1 DEF MaybeRequestData, tvPage, TvServed, TvUpToDate, TvAwaited
    <2>2. CASE tvUrl # TvNoUrl
      <3> DEFINE c == TvCall("view", tvUrl, TvFetch(tvVisible, tvSpan), TvFetch(tvVisible, tvSpan))
      <3>1. tvCalls' = Append(tvCalls, c) /\ tvUrl' = tvUrl /\ tvUrl \in TvUrls
        BY <1>7, <2>2 DEF MaybeRequestData, tvPage, TvTyped, TvTypeOK
      <3>2. c \in TvCallRecords /\ c.url = tvUrl /\ c.at = "fetch"
        <4>1. TvFetch(tvVisible, tvSpan) \in TvRanges
          BY TvRangeLemma DEF TvTyped, TvTypeOK
        <4> QED BY <3>1, <4>1, TvCallType
      <3> HIDE DEF c
      <3> QED BY <1>t, <3>1, <3>2, TvAppendLemma DEF TvAwaited
    <2> QED BY <2>1, <2>2
  <1>8. CASE Upload
    BY <1>8 DEF Upload, TvShow, TvUpToDate
  <1>9. CASE UploadFails
    BY <1>9 DEF UploadFails
  <1> QED BY <1>1, <1>2, <1>3, <1>4, <1>5, <1>6, <1>7, <1>8, <1>9 DEF TvNext

(* Unless something failed, the timeline shows what was asked for last and *)
(* may ask again, or an answer about it is still on its way.               *)
THEOREM LastAskedIsServed == TvSpec => []TvServed
  <1>1. TvInit => TvServed
    BY DEF TvInit, TvServed, TvUpToDate
  <1> QED BY <1>1, TvServedStep, ClientTyping, PTL DEF TvSpec

(* When all calls have ended without a failure, the timeline shows the     *)
(* trace asked for last.                                                   *)
THEOREM ShowsTheLastAsked == TvSpec => []TvShowsTheLastAsked
  <1>1. TvServed => TvShowsTheLastAsked
    BY DEF TvServed, TvUpToDate, TvAwaited, TvQuiet, TvShowsTheLastAsked
  <1> QED BY <1>1, LastAskedIsServed, PTL

(* Then the flag that holds back requests is not left set. *)
THEOREM CanAskAgain == TvSpec => []TvCanAskAgain
  <1>1. TvServed => TvCanAskAgain
    BY DEF TvServed, TvUpToDate, TvAwaited, TvQuiet, TvCanAskAgain
  <1> QED BY <1>1, LastAskedIsServed, PTL
-----------------------------------------------------------------------------
(* The zoom levels.  What a level shows is remembered as ends of events    *)
(* (TlMarksShown), so an event that is found to be near a mark is near an  *)
(* event of that level; and the first event of a flow is at a level at     *)
(* which the flow is visible, if it is visible at any (TlFlowsDecided).    *)
TlMark == [ends: [TlRows -> Seq(Nat)], arrow: [TlRows -> Seq(Nat)],
           flows: [TlFlows -> SUBSET BOOLEAN]]

TlMarks == [DOMAIN TlResolution -> TlMark]

TlTimed == [row: TlRows, begin: Nat, end: Nat, flow: TlFlows \cup {0}, last: BOOLEAN]

TlTyped ==
  /\ tlEvents \in Seq([event: TlTimed, level: TlLevels])
  /\ tlFlowVis \in [TlFlows -> SUBSET (TlLevels \cup {0})]
  /\ tlSeen \in TlMarks
  /\ tlTracks \in TlMarks

TlOrdered ==
  \A i \in DOMAIN tlEvents :
    LET e == tlEvents[i].event IN
    /\ e.begin <= tlEvents[Len(tlEvents)].event.begin
    /\ e.row \in TlCounters => e.end = e.begin

TlMarksShown ==
  \A z \in DOMAIN TlResolution : \A r \in TlRows : \A n \in DOMAIN tlTracks[z].ends[r] :
    \E j \in DOMAIN tlEvents :
      /\ tlEvents[j].event.row = r /\ tlEvents[j].level <= z
      /\ tlEvents[j].event.end = tlTracks[z].ends[r][n]

TlBegins(i) ==
  \A n \in 1..i - 1 : tlEvents[n].event.flow # tlEvents[i].event.flow

TlFlowsDecided ==
  /\ \A f \in TlFlows :
       /\ tlFlowVis[f] = TlUnknown <=> \A i \in DOMAIN tlEvents : tlEvents[i].event.flow # f
       /\ tlFlowVis[f] # TlUnknown => tlFlowVis[f] \subseteq DOMAIN TlResolution
  /\ \A i \in DOMAIN tlEvents :
       LET f == tlEvents[i].event.flow IN
       f # 0 /\ TlBegins(i) => tlEvents[i].level \in tlFlowVis[f] \cup {TlLast}

LayersInv ==
  /\ TlTyped
  /\ TlOrdered
  /\ TlMarksShown
  /\ TlFlowsDecided
  /\ TlLeftOutHasNeighbour
  /\ TlFlowsAreWhole

LEMMA LeastNumber ==
  ASSUME NEW T, T \subseteq Nat, T # {}
  PROVE  \E m \in T : \A n \in T : m <= n
  <1>1. PICK m \in T : \A n \in T : ~ (<<n, m>> \in OpToRel(<, Nat))
    BY WFMin, NatLessThanWellFounded
  <1>2. ASSUME NEW n \in T PROVE m <= n
    <2>1. m \in Nat /\ n \in Nat /\ <<n, m>> \in Nat \X Nat
      OBVIOUS
    <2>2. ~ (n < m)
      BY <1>1, <2>1 DEF OpToRel
    <2> QED BY <2>1, <2>2
  <1> QED BY <1>2

LEMMA LayerNumbers ==
  /\ Len(TlResolution) \in Nat /\ DOMAIN TlResolution = 1..Len(TlResolution)
  /\ TlLast \in TlLevels /\ TlLevels = DOMAIN TlResolution \cup {TlLast}
  /\ \A z \in DOMAIN TlResolution : TlResolution[z] \in Nat /\ z < TlLast /\ z \in Nat
  /\ TlLevels \subseteq Nat \ {0}
  BY TlAssumption DEF TlLevels, TlLast

LEMMA ElementOf ==
  ASSUME NEW S, NEW s \in Seq(S), NEW i \in DOMAIN s
  PROVE  s[i] \in S
  OBVIOUS

LEMMA EventTypes ==
  ASSUME TlTyped, NEW i \in DOMAIN tlEvents
  PROVE  /\ tlEvents[i].event \in TlTimed /\ tlEvents[i].level \in TlLevels
         /\ tlEvents[i].event.begin \in Nat /\ tlEvents[i].event.end \in Nat
         /\ tlEvents[i].event.flow \in TlFlows \cup {0}
  <1>1. tlEvents[i] \in [event: TlTimed, level: TlLevels]
    <2>1. tlEvents \in Seq([event: TlTimed, level: TlLevels])
      BY DEF TlTyped
    <2> QED BY <2>1, ElementOf
  <1>2. tlEvents[i].event \in TlTimed /\ tlEvents[i].level \in TlLevels
    BY <1>1
  <1>3. \A e \in TlTimed : e.begin \in Nat /\ e.end \in Nat /\ e.flow \in TlFlows \cup {0}
    BY DEF TlTimed
  <1> QED BY <1>2, <1>3

LEMMA FirstLevel ==
  ASSUME NEW levels, levels \subseteq DOMAIN TlResolution
  PROVE  /\ TlFirst(levels) \in levels \cup {TlLast}
         /\ TlFirst(levels) \in TlLevels
         /\ \A y \in levels : TlFirst(levels) <= y
  <1>1. levels \cup {TlLast} \subseteq Nat /\ levels \cup {TlLast} # {}
    BY LayerNumbers
  <1>2. \E z \in levels \cup {TlLast} : \A y \in levels \cup {TlLast} : z <= y
    BY <1>1, LeastNumber
  <1>3. /\ TlFirst(levels) \in levels \cup {TlLast}
        /\ \A y \in levels \cup {TlLast} : TlFirst(levels) <= y
    BY <1>2 DEF TlFirst
  <1> QED BY <1>3, LayerNumbers

LEMMA VisibleInLevel ==
  ASSUME NEW vis, NEW e
  PROVE  /\ TlVisibleIn(vis, e) \in TlLevels
         /\ TlVisibleIn(vis, e) # TlLast =>
              TlVisible(vis[TlVisibleIn(vis, e)], e, TlResolution[TlVisibleIn(vis, e)])
         /\ \A z \in DOMAIN TlResolution :
              z < TlVisibleIn(vis, e) => ~TlVisible(vis[z], e, TlResolution[z])
  <1> DEFINE levels == {z \in DOMAIN TlResolution : TlVisible(vis[z], e, TlResolution[z])}
  <1>1. TlVisibleIn(vis, e) = TlFirst(levels)
    BY DEF TlVisibleIn
  <1>2. /\ levels \subseteq DOMAIN TlResolution
        /\ \A z \in DOMAIN TlResolution :
             z \in levels <=> TlVisible(vis[z], e, TlResolution[z])
    BY Zenon
  <1> HIDE DEF levels
  <1>3. /\ TlFirst(levels) \in levels \cup {TlLast}
        /\ TlFirst(levels) \in TlLevels
        /\ \A y \in levels : TlFirst(levels) <= y
    BY <1>2, FirstLevel
  <1>4. ASSUME NEW z \in DOMAIN TlResolution, z < TlFirst(levels)
        PROVE  z \notin levels
    <2>1. z \in Nat /\ TlFirst(levels) \in Nat
      BY <1>3, LayerNumbers
    <2> QED BY <1>3, <1>4, <2>1
  <1>5. TlFirst(levels) # TlLast => TlFirst(levels) \in levels
    BY <1>3
  <1> QED BY <1>1, <1>2, <1>3, <1>4, <1>5, Zenon

(* The first depth at which an event that begins now can lie.              *)
LEMMA DepthLemma ==
  ASSUME NEW ends \in Seq(Nat), NEW begin \in Nat
  PROVE  LET d == TlDepth(ends, begin) IN
         /\ d \in 0..Len(ends)
         /\ d < Len(ends) => d + 1 \in DOMAIN ends /\ ends[d + 1] <= begin
  <1> DEFINE T == {d \in 0..Len(ends) : d < Len(ends) => ends[d + 1] <= begin}
  <1>0. Len(ends) \in Nat /\ DOMAIN ends = 1..Len(ends) /\ \A i \in 1..Len(ends) : ends[i] \in Nat
    OBVIOUS
  <1>1. Len(ends) \in T /\ T \subseteq Nat
    BY <1>0
  <1>2. PICK d \in T : \A n \in T : d <= n
    <2> HIDE DEF T
    <2> QED BY <1>1, LeastNumber
  <1>3. ASSUME NEW i \in 1..d PROVE ends[i] > begin
    <2>1. i - 1 \in 0..Len(ends) /\ i - 1 < Len(ends) /\ i \in 1..Len(ends) /\ ~(d <= i - 1)
      BY <1>0, <1>2
    <2>2. i - 1 \notin T
      BY <1>2, <2>1
    <2>3. ~(ends[(i - 1) + 1] <= begin) /\ (i - 1) + 1 = i
      BY <2>1, <2>2
    <2> QED BY <1>0, <2>1, <2>3
  <1>4. \E x \in 0..Len(ends) :
          /\ \A i \in 1..x : ends[i] > begin
          /\ x < Len(ends) => ends[x + 1] <= begin
    BY <1>2, <1>3
  <1>5. /\ TlDepth(ends, begin) \in 0..Len(ends)
        /\ TlDepth(ends, begin) < Len(ends) => ends[TlDepth(ends, begin) + 1] <= begin
    BY <1>4 DEF TlDepth
  <1> QED BY <1>0, <1>5

(* Looking at an event, or setting it visible, leaves the marks typed, and *)
(* every mark of an end was there before or is the end of that event.      *)
TlKeeps(v, w, e) ==
  \A r \in TlRows : \A n \in DOMAIN w.ends[r] :
    \/ \E m \in DOMAIN v.ends[r] : v.ends[r][m] = w.ends[r][n]
    \/ r = e.row /\ w.ends[r][n] = e.end

LEMMA RecordLemma ==
  ASSUME NEW v \in TlMark, NEW e \in TlTimed
  PROVE  TlRecord(v, e) \in TlMark /\ TlKeeps(v, TlRecord(v, e), e)
         /\ TlRecord(v, e).flows = v.flows
  <1> DEFINE d == IF e.row \in TlCounters THEN 0 ELSE TlDepth(v.ends[e.row], e.begin)
             w == TlRecord(v, e)
             old == v.ends[e.row]
             new == Append(SubSeq(old, 1, d), e.end)
  <1>1. /\ e.row \in TlRows /\ e.end \in Nat /\ e.begin \in Nat /\ old \in Seq(Nat)
        /\ v.arrow \in [TlRows -> Seq(Nat)] /\ v.ends \in [TlRows -> Seq(Nat)]
        /\ v.flows \in [TlFlows -> SUBSET BOOLEAN]
    BY DEF TlMark, TlTimed
  <1>2. d \in 0..Len(old) /\ Len(old) \in Nat
    <2>1. Len(old) \in Nat
      BY <1>1
    <2>2. TlDepth(old, e.begin) \in 0..Len(old)
      BY <1>1, DepthLemma
    <2> QED BY <2>1, <2>2
  <1>3. /\ SubSeq(old, 1, d) \in Seq(Nat) /\ Len(SubSeq(old, 1, d)) = d
        /\ \A n \in 1..d : SubSeq(old, 1, d)[n] = old[n]
    BY <1>1, <1>2
  <1>4. /\ new \in Seq(Nat) /\ Len(new) = d + 1 /\ new[d + 1] = e.end
        /\ \A n \in 1..d : new[n] = old[n]
    <2> HIDE DEF d
    <2> QED BY <1>1, <1>2, <1>3
  <1>5. /\ w.ends = [v.ends EXCEPT ![e.row] = new]
        /\ w.arrow = [v.arrow EXCEPT ![e.row] = IF e.flow = 0 THEN v.arrow[e.row] ELSE <<e.end>>]
        /\ w.flows = v.flows
        /\ w = [v EXCEPT !.ends = w.ends, !.arrow = w.arrow]
    BY <1>1 DEF TlRecord, TlMark
  <1>6. w.ends \in [TlRows -> Seq(Nat)]
    <2> HIDE DEF new
    <2> QED BY <1>1, <1>4, <1>5
  <1>7. w.arrow \in [TlRows -> Seq(Nat)]
    BY <1>1, <1>5
  <1>8. w \in TlMark
    BY <1>1, <1>5, <1>6, <1>7 DEF TlMark
  <1>9. ASSUME NEW r \in TlRows, NEW n \in DOMAIN w.ends[r]
        PROVE  \/ \E m \in DOMAIN v.ends[r] : v.ends[r][m] = w.ends[r][n]
               \/ r = e.row /\ w.ends[r][n] = e.end
    <2> HIDE DEF w, new, d
    <2>1. CASE r # e.row
      <3>1. w.ends[r] = v.ends[r]
        BY <2>1, <1>5, <1>1
      <3> QED BY <3>1
    <2>2. CASE r = e.row
      <3>1. w.ends[r] = new
        BY <2>2, <1>5, <1>1
      <3>2. n \in 1..d + 1
        BY <3>1, <1>4
      <3>3. CASE n = d + 1
        BY <3>1, <3>3, <2>2, <1>4
      <3>4. CASE n \in 1..d
        <4>1. n \in DOMAIN old
          BY <3>4, <1>1, <1>2
        <4>2. old[n] = new[n]
          BY <3>4, <1>4
        <4> QED BY <4>1, <4>2, <3>1, <2>2
      <3>5. n = d + 1 \/ n \in 1..d
        BY <3>2, <1>2
      <3> QED BY <3>3, <3>4, <3>5
    <2> QED BY <2>1, <2>2
  <1> QED BY <1>5, <1>8, <1>9 DEF TlKeeps

LEMMA SetVisibleLemma ==
  ASSUME NEW v \in TlMark, NEW e \in TlTimed
  PROVE  TlSetVisible(v, e) \in TlMark /\ TlKeeps(v, TlSetVisible(v, e), e)
  <1> DEFINE w == TlRecord(v, e)
             known == IF e.last THEN {} ELSE IF w.flows[e.flow] = {} THEN {TRUE} ELSE w.flows[e.flow]
  <1>1. w \in TlMark /\ TlKeeps(v, w, e)
    BY RecordLemma
  <1>2. CASE e.flow = 0
    BY <1>1, <1>2 DEF TlSetVisible
  <1>3. CASE e.flow # 0
    <2> HIDE DEF w
    <2>1. e.flow \in TlFlows
      BY <1>3 DEF TlTimed
    <2>2. w.flows \in [TlFlows -> SUBSET BOOLEAN]
      BY <1>1 DEF TlMark
    <2>3. known \in SUBSET BOOLEAN
      BY <2>1, <2>2
    <2>4. TlSetVisible(v, e) = [w EXCEPT !.flows[e.flow] = known]
      BY <1>3 DEF TlSetVisible, w
    <2> HIDE DEF known
    <2>5. [w EXCEPT !.flows[e.flow] = known] \in TlMark
      BY <1>1, <2>1, <2>2, <2>3 DEF TlMark
    <2>6. [w EXCEPT !.flows[e.flow] = known].ends = w.ends
      BY <1>1 DEF TlMark
    <2> QED BY <1>1, <2>4, <2>5, <2>6 DEF TlKeeps
  <1> QED BY <1>2, <1>3

LEMMA LookLemma ==
  ASSUME NEW v \in TlMark, NEW e \in TlTimed, NEW res
  PROVE  /\ TlLook(v, e, res) \in TlMark
         /\ TlKeeps(v, TlLook(v, e, res), e)
         /\ ~TlVisible(v, e, res) => TlLook(v, e, res).ends = v.ends
  <1> DEFINE visible == TlVisible(v, e, res)
             known == IF e.flow = 0 THEN {}
                      ELSE IF v.flows[e.flow] = {} THEN {visible} ELSE v.flows[e.flow]
             w == IF visible THEN TlRecord(v, e) ELSE v
             rest == IF e.last THEN {} ELSE known
  <1>1. w \in TlMark /\ TlKeeps(v, w, e) /\ (~visible => w.ends = v.ends)
    <2>1. CASE visible
      BY <2>1, RecordLemma
    <2>2. CASE ~visible
      <3>1. w = v
        BY <2>2
      <3> QED BY <3>1 DEF TlKeeps
    <2> QED BY <2>1, <2>2
  <1>2. CASE e.flow = 0
    <2>1. TlLook(v, e, res) = w
      BY <1>2 DEF TlLook
    <2> QED BY <1>1, <2>1
  <1>3. CASE e.flow # 0
    <2>1. e.flow \in TlFlows
      BY <1>3 DEF TlTimed
    <2>2. v.flows \in [TlFlows -> SUBSET BOOLEAN]
      BY DEF TlMark
    <2>3. visible \in BOOLEAN
      BY DEF TlVisible
    <2>4. rest \in SUBSET BOOLEAN
      <3> HIDE DEF visible
      <3> QED BY <2>1, <2>2, <2>3
    <2>5. TlLook(v, e, res) = [w EXCEPT !.flows[e.flow] = rest]
      BY <1>3 DEF TlLook
    <2> HIDE DEF w, rest, visible
    <2>6. [w EXCEPT !.flows[e.flow] = rest] \in TlMark
      BY <1>1, <2>1, <2>4 DEF TlMark
    <2>7. [w EXCEPT !.flows[e.flow] = rest].ends = w.ends
      BY <1>1 DEF TlMark
    <2>8. TlKeeps(v, TlLook(v, e, res), e)
      BY <1>1, <2>5, <2>7 DEF TlKeeps
    <2>9. ~visible => TlLook(v, e, res).ends = v.ends
      BY <1>1, <2>5, <2>7
    <2>10. TlLook(v, e, res) \in TlMark
      BY <2>5, <2>6
    <2> QED BY <2>8, <2>9, <2>10 DEF visible
  <1> QED BY <1>2, <1>3

LEMMA WalkLemma ==
  ASSUME NEW vis \in TlMarks, NEW e \in TlTimed, NEW level
  PROVE  /\ TlWalk(vis, e, level) \in TlMarks
         /\ \A z \in DOMAIN TlResolution :
              /\ TlKeeps(vis[z], TlWalk(vis, e, level)[z], e)
              /\ z <= level /\ ~TlVisible(vis[z], e, TlResolution[z])
                   => TlWalk(vis, e, level)[z].ends = vis[z].ends
  <1>1. DOMAIN vis = DOMAIN TlResolution /\ \A z \in DOMAIN TlResolution : vis[z] \in TlMark
    BY DEF TlMarks
  <1>2. TlWalk(vis, e, level) =
          [z \in DOMAIN TlResolution |->
             IF z <= level THEN TlLook(vis[z], e, TlResolution[z]) ELSE TlSetVisible(vis[z], e)]
    BY <1>1 DEF TlWalk
  <1>3. ASSUME NEW z \in DOMAIN TlResolution
        PROVE  /\ TlWalk(vis, e, level)[z] \in TlMark
               /\ TlKeeps(vis[z], TlWalk(vis, e, level)[z], e)
               /\ z <= level /\ ~TlVisible(vis[z], e, TlResolution[z])
                    => TlWalk(vis, e, level)[z].ends = vis[z].ends
    <2>1. CASE z <= level
      <3>1. TlWalk(vis, e, level)[z] = TlLook(vis[z], e, TlResolution[z])
        BY <1>2, <2>1
      <3> QED BY <1>1, <3>1, LookLemma
    <2>2. CASE ~(z <= level)
      <3>1. TlWalk(vis, e, level)[z] = TlSetVisible(vis[z], e)
        BY <1>2, <2>2
      <3> QED BY <1>1, <2>2, <3>1, SetVisibleLemma
    <2> QED BY <2>1, <2>2
  <1>4. TlWalk(vis, e, level) \in TlMarks
    <2> DEFINE walk == TlWalk(vis, e, level)
    <2>1. walk = [z \in DOMAIN TlResolution |-> walk[z]]
      BY <1>2
    <2>2. \A z \in DOMAIN TlResolution : walk[z] \in TlMark
      BY <1>3
    <2> HIDE DEF walk
    <2>3. walk \in TlMarks
      BY <2>1, <2>2 DEF TlMarks
    <2> QED BY <2>3 DEF walk
  <1> QED BY <1>3, <1>4

LEMMA FlowLevelsLemma ==
  ASSUME LayersInv, NEW e \in TlTimed, e.flow # 0
  PROVE  /\ e.flow \in TlFlows
         /\ TlFlowLevels(e) \subseteq DOMAIN TlResolution
         /\ tlFlowVis[e.flow] # TlUnknown => TlFlowLevels(e) = tlFlowVis[e.flow]
  <1>1. e.flow \in TlFlows
    BY DEF TlTimed
  <1>2. CASE tlFlowVis[e.flow] = TlUnknown
    <2>1. TlFlowLevels(e) = {z \in DOMAIN TlResolution : z >= TlVisibleIn(tlSeen, e)}
      BY <1>2 DEF TlFlowLevels
    <2> QED BY <1>1, <1>2, <2>1
  <1>3. CASE tlFlowVis[e.flow] # TlUnknown
    <2>1. TlFlowLevels(e) = tlFlowVis[e.flow]
      BY <1>3 DEF TlFlowLevels
    <2> QED BY <1>1, <1>3, <2>1 DEF LayersInv, TlFlowsDecided
  <1> QED BY <1>2, <1>3

(* The level of an event of a flow is one of its flow, if there is one at  *)
(* all; an event that begins a flow is at such a level even if it is long, *)
(* for a long event is visible.                                            *)
LEMMA LevelLemma ==
  ASSUME LayersInv, NEW e \in TlTimed, e.row \in TlCounters => e.flow = 0
  PROVE  /\ TlLevelOf(e) \in TlLevels
         /\ e.flow # 0 => \A z \in TlFlowLevels(e) : TlLevelOf(e) <= z
         /\ e.flow # 0 /\ tlFlowVis[e.flow] = TlUnknown
              => TlLevelOf(e) \in TlFlowLevels(e) \cup {TlLast}
  <1>1. CASE e.flow = 0
    BY <1>1, VisibleInLevel DEF TlLevelOf
  <1>2. CASE e.flow # 0
    <2> DEFINE L == TlLevelOf(e)
               flow == TlFlowLevels(e)
               long == TlLong(e)
    <2>1. L = TlFirst(flow \cup long)
      BY <1>2 DEF TlLevelOf
    <2>2. flow \cup long \subseteq DOMAIN TlResolution
      BY <1>2, FlowLevelsLemma DEF TlLong
    <2>3. ASSUME NEW z \in long, tlFlowVis[e.flow] = TlUnknown PROVE z \in flow
      <3>1. z \in DOMAIN TlResolution /\ e.end - e.begin >= TlResolution[z]
        BY DEF TlLong
      <3>2. e.row \notin TlCounters
        BY <1>2
      <3>3. TlVisible(tlSeen[z], e, TlResolution[z])
        BY <3>1, <3>2 DEF TlVisible, TlStandsOut
      <3>4. ~(z < TlVisibleIn(tlSeen, e)) /\ TlVisibleIn(tlSeen, e) \in Nat /\ z \in Nat
        BY <3>1, <3>3, VisibleInLevel, LayerNumbers
      <3> QED BY <2>3, <3>1, <3>4 DEF TlFlowLevels
    <2> HIDE DEF L, flow, long
    <2>4. /\ L \in TlLevels /\ L \in flow \cup long \cup {TlLast}
          /\ \A y \in flow : L <= y
      BY <2>1, <2>2, FirstLevel
    <2> QED BY <2>3, <2>4 DEF L, flow
  <1> QED BY <1>1, <1>2

LEMMA NearAnEvent ==
  ASSUME LayersInv, NEW e \in TlTimed,
         e.row \in TlCounters => e.end = e.begin,
         \A i \in DOMAIN tlEvents : tlEvents[i].event.begin <= e.begin,
         NEW z \in DOMAIN TlResolution, ~TlVisible(tlTracks[z], e, TlResolution[z])
  PROVE  /\ e.end - e.begin < TlResolution[z]
         /\ \E j \in DOMAIN tlEvents :
              LET f == tlEvents[j].event IN
              /\ f.row = e.row /\ tlEvents[j].level <= z
              /\ f.end <= e.begin /\ e.begin - f.end < TlResolution[z]
  <1> DEFINE res == TlResolution[z]
             ends == tlTracks[z].ends[e.row]
             d == IF e.row \in TlCounters THEN 0 ELSE TlDepth(ends, e.begin)
  <1>1. /\ e.row \in TlRows /\ e.begin \in Nat /\ e.end \in Nat /\ res \in Nat
        /\ ends \in Seq(Nat)
    BY LayerNumbers DEF TlTimed, LayersInv, TlTyped, TlMarks, TlMark
  <1>2. /\ e.row \in TlCounters \/ ~(e.end - e.begin >= res)
        /\ d # Len(ends)
        /\ ~(e.begin - ends[d + 1] >= res)
    BY DEF TlVisible, TlStandsOut
  <1>3. d + 1 \in DOMAIN ends /\ (e.row \notin TlCounters => ends[d + 1] <= e.begin)
    <2>1. CASE e.row \in TlCounters
      BY <1>1, <1>2, <2>1
    <2>2. CASE e.row \notin TlCounters
      <3>1. d = TlDepth(ends, e.begin) /\ Len(ends) \in Nat
        BY <1>1, <2>2
      <3> HIDE DEF d
      <3>2. d \in 0..Len(ends) /\ (d < Len(ends) => d + 1 \in DOMAIN ends /\ ends[d + 1] <= e.begin)
        BY <1>1, <3>1, DepthLemma
      <3> QED BY <1>2, <3>1, <3>2
    <2> QED BY <2>1, <2>2
  <1> HIDE DEF d
  <1>4. PICK j \in DOMAIN tlEvents :
          /\ tlEvents[j].event.row = e.row /\ tlEvents[j].level <= z
          /\ tlEvents[j].event.end = ends[d + 1]
    BY <1>1, <1>3 DEF LayersInv, TlMarksShown
  <1>5. /\ tlEvents[j].event.begin \in Nat /\ tlEvents[j].event.end \in Nat
        /\ tlEvents[j].event.begin <= e.begin
    BY EventTypes DEF LayersInv
  <1>6. tlEvents[j].event.end <= e.begin
    <2>1. CASE e.row \in TlCounters
      <3>1. tlEvents[j].event.end = tlEvents[j].event.begin
        BY <1>4, <2>1 DEF LayersInv, TlOrdered
      <3> QED BY <1>5, <3>1
    <2>2. CASE e.row \notin TlCounters
      BY <1>3, <1>4, <2>2
    <2> QED BY <2>1, <2>2
  <1>7. e.begin - tlEvents[j].event.end < res
    BY <1>1, <1>2, <1>4, <1>5
  <1>8. e.end - e.begin < res
    <2>1. CASE e.row \in TlCounters
      <3>1. e.end - e.begin = 0 /\ e.begin - tlEvents[j].event.end >= 0
        BY <1>1, <1>5, <1>6, <2>1
      <3> QED BY <1>1, <1>5, <1>7, <3>1
    <2>2. CASE e.row \notin TlCounters
      BY <1>1, <1>2, <2>2
    <2> QED BY <2>1, <2>2
  <1> QED BY <1>4, <1>6, <1>7, <1>8

LEMMA PlaceStep ==
  ASSUME LayersInv, NEW e \in TlTimed, TlPlace(e),
         e.row \in TlCounters => e.end = e.begin /\ e.flow = 0,
         \A i \in DOMAIN tlEvents : tlEvents[i].event.begin <= e.begin
  PROVE  LayersInv'
  <1> DEFINE L == TlLevelOf(e)
             new == [event |-> e, level |-> L]
             last == Len(tlEvents) + 1
  <1>1. /\ tlEvents \in Seq([event: TlTimed, level: TlLevels])
        /\ tlFlowVis \in [TlFlows -> SUBSET (TlLevels \cup {0})]
        /\ tlSeen \in TlMarks /\ tlTracks \in TlMarks
    BY DEF LayersInv, TlTyped
  <1>2. L \in TlLevels
    BY LevelLemma
  <1>3. tlEvents' = Append(tlEvents, new)
    BY DEF TlPlace
  <1>4. /\ tlEvents' \in Seq([event: TlTimed, level: TlLevels])
        /\ last \in Nat /\ Len(tlEvents) \in Nat /\ Len(tlEvents') = last
        /\ DOMAIN tlEvents = 1..Len(tlEvents) /\ DOMAIN tlEvents' = 1..last
        /\ tlEvents'[last] = new
        /\ \A i \in DOMAIN tlEvents : tlEvents'[i] = tlEvents[i]
    <2>1. new \in [event: TlTimed, level: TlLevels]
      BY <1>2
    <2> HIDE DEF new
    <2> QED BY <1>1, <1>3, <2>1
  <1>5. new.event = e /\ new.level = L
    OBVIOUS
  <1> HIDE DEF L, new, last
  <1>6. /\ \A i \in DOMAIN tlEvents' : i \in DOMAIN tlEvents \/ i = last
        /\ \A i \in DOMAIN tlEvents : i \in DOMAIN tlEvents' /\ i # last /\ i \in Nat
        /\ last \in DOMAIN tlEvents'
    BY <1>4 DEF last
  <1>7. \A i \in DOMAIN tlEvents' : 1..i - 1 \subseteq DOMAIN tlEvents
    BY <1>4 DEF last
  <1>8. \A i \in DOMAIN tlEvents : 1..i - 1 \subseteq DOMAIN tlEvents
    BY <1>4
  (* The marks. *)
  <1>9. /\ tlTracks' \in TlMarks
        /\ \A z \in DOMAIN TlResolution :
             /\ TlKeeps(tlTracks[z], tlTracks'[z], e)
             /\ z < L => tlTracks'[z].ends = tlTracks[z].ends
    <2>1. CASE e.flow = 0
      <3>1. tlTracks' = TlWalk(tlTracks, e, L) /\ L = TlVisibleIn(tlTracks, e)
        BY <2>1 DEF TlPlace, TlLevelOf, L
      <3>2. ASSUME NEW z \in DOMAIN TlResolution, z < L
            PROVE  z <= L /\ ~TlVisible(tlTracks[z], e, TlResolution[z])
        <4>1. ~TlVisible(tlTracks[z], e, TlResolution[z])
          BY <3>1, <3>2, VisibleInLevel
        <4>2. z \in Nat /\ L \in Nat
          BY <1>2, LayerNumbers
        <4>3. z <= L
          BY <3>2, <4>2
        <4> QED BY <4>1, <4>3
      <3> QED BY <1>1, <3>1, <3>2, WalkLemma
    <2>2. CASE e.flow # 0
      <3>1. DOMAIN tlTracks = DOMAIN TlResolution
            /\ \A z \in DOMAIN TlResolution : tlTracks[z] \in TlMark
        BY <1>1 DEF TlMarks
      <3>2. tlTracks' = [z \in DOMAIN TlResolution |->
                           IF z < L THEN tlTracks[z] ELSE TlSetVisible(tlTracks[z], e)]
        BY <2>2, <3>1 DEF TlPlace, L
      <3>3. ASSUME NEW z \in DOMAIN TlResolution
            PROVE  /\ tlTracks'[z] \in TlMark
                   /\ TlKeeps(tlTracks[z], tlTracks'[z], e)
                   /\ z < L => tlTracks'[z].ends = tlTracks[z].ends
        <4>1. CASE z < L
          <5>1. tlTracks'[z] = tlTracks[z]
            BY <3>2, <4>1
          <5> QED BY <3>1, <5>1 DEF TlKeeps
        <4>2. CASE ~(z < L)
          <5>1. tlTracks'[z] = TlSetVisible(tlTracks[z], e)
            BY <3>2, <4>2
          <5> QED BY <3>1, <4>2, <5>1, SetVisibleLemma
        <4> QED BY <4>1, <4>2
      <3>4. tlTracks' = [z \in DOMAIN TlResolution |-> tlTracks'[z]]
        BY <3>2
      <3>5. tlTracks' \in TlMarks
        BY <3>3, <3>4 DEF TlMarks
      <3> QED BY <3>3, <3>5
    <2> QED BY <2>1, <2>2
  <1>10. tlSeen' \in TlMarks
    <2>1. CASE e.flow = 0
      BY <1>1, <2>1 DEF TlPlace
    <2>2. CASE e.flow # 0
      BY <1>1, <2>2, WalkLemma DEF TlPlace
    <2> QED BY <2>1, <2>2
  (* What is said of the flows. *)
  <1>11. /\ e.flow = 0 => tlFlowVis' = tlFlowVis
         /\ e.flow # 0 => /\ e.flow \in TlFlows
                          /\ tlFlowVis' = [tlFlowVis EXCEPT ![e.flow] = TlFlowLevels(e)]
                          /\ TlFlowLevels(e) \subseteq DOMAIN TlResolution
                          /\ tlFlowVis[e.flow] # TlUnknown
                               => TlFlowLevels(e) = tlFlowVis[e.flow]
    BY FlowLevelsLemma DEF TlPlace
  <1>12. tlFlowVis' \in [TlFlows -> SUBSET (TlLevels \cup {0})]
    BY <1>1, <1>11, LayerNumbers
  <1>13. TlTyped'
    BY <1>4, <1>9, <1>10, <1>12 DEF TlTyped
  <1>14. \A i \in DOMAIN tlEvents : TlBegins(i)' <=> TlBegins(i)
    BY <1>4, <1>8 DEF TlBegins
  <1>15. TlOrdered'
    <2>1. ASSUME NEW i \in DOMAIN tlEvents
          PROVE  /\ tlEvents'[i].event.begin <= e.begin
                 /\ tlEvents'[i].event.row \in TlCounters
                      => tlEvents'[i].event.end = tlEvents'[i].event.begin
      BY <1>4 DEF LayersInv, TlOrdered
    <2>2. e.begin <= e.begin
      BY DEF TlTimed
    <2> QED BY <2>1, <2>2, <1>4, <1>5, <1>6 DEF TlOrdered
  <1>16. TlMarksShown'
    <2> SUFFICES ASSUME NEW z \in DOMAIN TlResolution, NEW r \in TlRows,
                        NEW n \in DOMAIN tlTracks'[z].ends[r]
                 PROVE  \E j \in DOMAIN tlEvents' :
                          /\ tlEvents'[j].event.row = r /\ tlEvents'[j].level <= z
                          /\ tlEvents'[j].event.end = tlTracks'[z].ends[r][n]
      BY DEF TlMarksShown
    <2>1. CASE \E m \in DOMAIN tlTracks[z].ends[r] :
                 tlTracks[z].ends[r][m] = tlTracks'[z].ends[r][n]
      <3>1. PICK m \in DOMAIN tlTracks[z].ends[r] :
              tlTracks[z].ends[r][m] = tlTracks'[z].ends[r][n]
        BY <2>1
      <3>2. PICK j \in DOMAIN tlEvents :
              /\ tlEvents[j].event.row = r /\ tlEvents[j].level <= z
              /\ tlEvents[j].event.end = tlTracks[z].ends[r][m]
        BY DEF LayersInv, TlMarksShown
      <3> QED BY <3>1, <3>2, <1>4, <1>6
    <2>2. CASE ~\E m \in DOMAIN tlTracks[z].ends[r] :
                  tlTracks[z].ends[r][m] = tlTracks'[z].ends[r][n]
      <3>1. r = e.row /\ tlTracks'[z].ends[r][n] = e.end
        BY <1>9, <2>2 DEF TlKeeps
      <3>2. ~(z < L)
        BY <1>9, <2>2
      <3>3. L <= z
        BY <3>2, <1>2, LayerNumbers
      <3> QED BY <3>1, <3>3, <1>4, <1>5, <1>6
    <2> QED BY <2>1, <2>2
  <1>17. TlFlowsDecided'
    <2>1. ASSUME NEW f \in TlFlows
          PROVE  /\ tlFlowVis'[f] = TlUnknown
                      <=> \A i \in DOMAIN tlEvents' : tlEvents'[i].event.flow # f
                 /\ tlFlowVis'[f] # TlUnknown => tlFlowVis'[f] \subseteq DOMAIN TlResolution
      <3>1. f # 0
        BY TlAssumption
      <3>2. CASE f = e.flow
        <4>1. tlFlowVis'[f] = TlFlowLevels(e) /\ TlFlowLevels(e) \subseteq DOMAIN TlResolution
          BY <1>1, <1>11, <3>1, <3>2
        <4>2. tlFlowVis'[f] # TlUnknown
          BY <4>1, LayerNumbers DEF TlUnknown
        <4>3. tlEvents'[last].event.flow = f
          BY <1>4, <1>5, <3>2
        <4> QED BY <4>1, <4>2, <4>3, <1>6
      <3>3. CASE f # e.flow
        <4>1. tlFlowVis'[f] = tlFlowVis[f]
          BY <1>1, <1>11, <3>3
        <4>2. tlEvents'[last].event.flow # f
          BY <1>4, <1>5, <3>3
        <4>3. /\ tlFlowVis[f] = TlUnknown
                   <=> \A i \in DOMAIN tlEvents : tlEvents[i].event.flow # f
              /\ tlFlowVis[f] # TlUnknown => tlFlowVis[f] \subseteq DOMAIN TlResolution
          BY DEF LayersInv, TlFlowsDecided
        <4> QED BY <4>1, <4>2, <4>3, <1>4, <1>6
      <3> QED BY <3>2, <3>3
    <2>2. ASSUME NEW i \in DOMAIN tlEvents', tlEvents'[i].event.flow # 0, TlBegins(i)'
          PROVE  tlEvents'[i].level \in tlFlowVis'[tlEvents'[i].event.flow] \cup {TlLast}
      <3>1. CASE i \in DOMAIN tlEvents
        <4> DEFINE f == tlEvents[i].event.flow
        <4>1. tlEvents'[i] = tlEvents[i] /\ f # 0 /\ f \in TlFlows
          BY <1>4, <2>2, <3>1, EventTypes DEF LayersInv
        <4>2. tlEvents[i].level \in tlFlowVis[f] \cup {TlLast}
          BY <1>14, <2>2, <3>1, <4>1 DEF LayersInv, TlFlowsDecided
        <4>3. tlFlowVis[f] # TlUnknown
          BY <3>1, <4>1 DEF LayersInv, TlFlowsDecided
        <4>4. tlFlowVis'[f] = tlFlowVis[f]
          BY <1>1, <1>11, <4>1, <4>3
        <4> QED BY <4>1, <4>2, <4>4
      <3>2. CASE i = last
        <4>1. tlEvents'[i].event = e /\ tlEvents'[i].level = L
          BY <1>4, <1>5, <3>2
        <4>2. \A n \in DOMAIN tlEvents : tlEvents[n].event.flow # e.flow
          BY <1>4, <2>2, <3>2, <4>1 DEF TlBegins, last
        <4>3. e.flow # 0 /\ e.flow \in TlFlows /\ tlFlowVis'[e.flow] = TlFlowLevels(e)
          BY <1>1, <1>11, <2>2, <4>1
        <4>4. tlFlowVis[e.flow] = TlUnknown
          BY <4>2, <4>3 DEF LayersInv, TlFlowsDecided
        <4>5. L \in TlFlowLevels(e) \cup {TlLast}
          BY <4>3, <4>4, LevelLemma DEF L
        <4> QED BY <4>1, <4>3, <4>5
      <3> QED BY <1>6, <3>1, <3>2
    <2> QED BY <2>1, <2>2 DEF TlFlowsDecided
  (* What the levels promise. *)
  <1>18. TlLeftOutHasNeighbour'
    <2> SUFFICES ASSUME NEW i \in DOMAIN tlEvents', NEW z \in 1..tlEvents'[i].level - 1,
                        tlEvents'[i].event.flow = 0
                 PROVE  LET g == tlEvents'[i].event IN
                        /\ g.end - g.begin < TlResolution[z]
                        /\ \E j \in 1..i - 1 :
                             LET f == tlEvents'[j].event IN
                             /\ f.row = g.row /\ tlEvents'[j].level <= z
                             /\ f.end <= g.begin /\ g.begin - f.end < TlResolution[z]
      BY DEF TlLeftOutHasNeighbour
    <2>1. CASE i \in DOMAIN tlEvents
      <3>1. tlEvents'[i] = tlEvents[i]
        BY <1>4, <2>1
      <3>2. /\ tlEvents[i].event.end - tlEvents[i].event.begin < TlResolution[z]
            /\ \E j \in 1..i - 1 :
                 LET f == tlEvents[j].event IN
                 /\ f.row = tlEvents[i].event.row /\ tlEvents[j].level <= z
                 /\ f.end <= tlEvents[i].event.begin
                 /\ tlEvents[i].event.begin - f.end < TlResolution[z]
        BY <2>1, <3>1 DEF LayersInv, TlLeftOutHasNeighbour
      <3>3. \A j \in 1..i - 1 : tlEvents'[j] = tlEvents[j]
        BY <1>4, <1>8, <2>1
      <3> QED BY <3>1, <3>2, <3>3
    <2>2. CASE i = last
      <3>1. tlEvents'[i].event = e /\ tlEvents'[i].level = L
        BY <1>4, <1>5, <2>2
      <3>2. z \in DOMAIN TlResolution /\ z < L
        <4>1. z \in 1..L - 1
          BY <3>1
        <4>2. L \in 1..Len(TlResolution) + 1
          BY <1>2 DEF TlLevels
        <4> QED BY <4>1, <4>2, LayerNumbers
      <3>3. ~TlVisible(tlTracks[z], e, TlResolution[z])
        BY <3>1, <3>2, VisibleInLevel DEF L, TlLevelOf
      <3>4. /\ e.end - e.begin < TlResolution[z]
            /\ \E j \in DOMAIN tlEvents :
                 LET f == tlEvents[j].event IN
                 /\ f.row = e.row /\ tlEvents[j].level <= z
                 /\ f.end <= e.begin /\ e.begin - f.end < TlResolution[z]
        BY <3>2, <3>3, NearAnEvent
      <3>5. \A j \in DOMAIN tlEvents : j \in 1..i - 1 /\ tlEvents'[j] = tlEvents[j]
        BY <1>4, <2>2 DEF last
      <3> QED BY <3>1, <3>4, <3>5
    <2> QED BY <1>6, <2>1, <2>2
  <1>19. TlFlowsAreWhole'
    <2> SUFFICES ASSUME NEW i \in DOMAIN tlEvents', NEW j \in DOMAIN tlEvents', i < j,
                        tlEvents'[i].event.flow # 0,
                        tlEvents'[i].event.flow = tlEvents'[j].event.flow,
                        \A n \in 1..j - 1 : n < i =>
                          tlEvents'[n].event.flow # tlEvents'[i].event.flow,
                        \A n \in 1..j - 1 :
                          tlEvents'[n].event.flow = tlEvents'[i].event.flow
                            => ~tlEvents'[n].event.last
                 PROVE  tlEvents'[j].level <= tlEvents'[i].level
      BY DEF TlFlowsAreWhole
    <2>0. i \in DOMAIN tlEvents /\ tlEvents'[i] = tlEvents[i]
      BY <1>4 DEF last
    <2>1. CASE j \in DOMAIN tlEvents
      <3>1. tlEvents'[j] = tlEvents[j] /\ \A n \in 1..j - 1 : tlEvents'[n] = tlEvents[n]
        BY <1>4, <1>8, <2>1
      <3> QED BY <2>0, <2>1, <3>1 DEF LayersInv, TlFlowsAreWhole
    <2>2. CASE j = last
      <3>1. tlEvents'[j].event = e /\ tlEvents'[j].level = L
        BY <1>4, <1>5, <2>2
      <3>2. e.flow # 0 /\ e.flow \in TlFlows /\ tlEvents[i].event.flow = e.flow
        BY <1>11, <2>0, <3>1
      <3>3. TlBegins(i)
        <4>1. \A n \in 1..i - 1 : n \in 1..j - 1 /\ n < i /\ tlEvents'[n] = tlEvents[n]
          BY <1>4, <1>8, <2>0, <2>2 DEF last
        <4> QED BY <2>0, <4>1 DEF TlBegins
      <3>4. tlEvents[i].level \in tlFlowVis[e.flow] \cup {TlLast}
        BY <2>0, <3>2, <3>3 DEF LayersInv, TlFlowsDecided
      <3>5. tlFlowVis[e.flow] # TlUnknown
        BY <2>0, <3>2 DEF LayersInv, TlFlowsDecided
      <3>6. \A z \in tlFlowVis[e.flow] : L <= z
        BY <1>11, <3>2, <3>5, LevelLemma DEF L
      <3>7. L \in Nat /\ TlLast \in Nat /\ L <= TlLast
        BY <1>2, LayerNumbers DEF TlLevels, TlLast
      <3> QED BY <2>0, <3>1, <3>4, <3>6, <3>7
    <2> QED BY <1>6, <2>1, <2>2
  <1> QED BY <1>13, <1>15, <1>16, <1>17, <1>18, <1>19 DEF LayersInv

LEMMA LayersStep == LayersInv /\ [TlNext]_tlVars => LayersInv'
  <1> SUFFICES ASSUME LayersInv, [TlNext]_tlVars PROVE LayersInv'
    OBVIOUS
  <1>1. CASE UNCHANGED tlVars
    BY <1>1 DEF tlVars, LayersInv, TlTyped, TlOrdered, TlMarksShown, TlFlowsDecided, TlBegins,
                TlLeftOutHasNeighbour, TlFlowsAreWhole
  <1>2. CASE TlEvent
    <2> DEFINE before == IF tlEvents = <<>> THEN [begin |-> 0, end |-> 100]
                         ELSE tlEvents[Len(tlEvents)].event
    <2>1. PICK k \in TlKinds :
            TlPlace([row |-> k.row, begin |-> before.begin + k.wait,
                     end |-> before.begin + k.wait + k.len, flow |-> k.flow, last |-> k.last])
      BY <1>2 DEF TlEvent
    <2> DEFINE e == [row |-> k.row, begin |-> before.begin + k.wait,
                     end |-> before.begin + k.wait + k.len, flow |-> k.flow, last |-> k.last]
    <2>2. /\ k \in [row: TlRows, wait: Nat, len: Nat, flow: TlFlows \cup {0}, last: BOOLEAN]
          /\ k.row \in TlCounters => k.flow = 0 /\ k.len = 0
      BY TlAssumption
    <2>3. before.begin \in Nat /\ \A i \in DOMAIN tlEvents : tlEvents[i].event.begin <= before.begin
      <3>1. tlEvents \in Seq([event: TlTimed, level: TlLevels])
        BY DEF LayersInv, TlTyped
      <3>2. CASE tlEvents = <<>>
        BY <3>2
      <3>3. CASE tlEvents # <<>>
        <4>1. Len(tlEvents) \in DOMAIN tlEvents
          BY <3>1, <3>3
        <4>2. before = tlEvents[Len(tlEvents)].event
          BY <3>3
        <4>3. before.begin \in Nat
          BY <4>1, <4>2, EventTypes DEF LayersInv
        <4>4. \A i \in DOMAIN tlEvents :
                tlEvents[i].event.begin <= tlEvents[Len(tlEvents)].event.begin
          BY DEF LayersInv, TlOrdered
        <4> QED BY <4>2, <4>3, <4>4
      <3> QED BY <3>2, <3>3
    <2> HIDE DEF before
    <2>4. e \in TlTimed
      BY <2>2, <2>3 DEF TlTimed
    <2>5. e.row \in TlCounters => e.end = e.begin /\ e.flow = 0
      BY <2>2, <2>3
    <2>6. \A i \in DOMAIN tlEvents : tlEvents[i].event.begin <= e.begin
      <3>1. \A i \in DOMAIN tlEvents : tlEvents[i].event.begin \in Nat
        BY EventTypes DEF LayersInv
      <3> QED BY <2>2, <2>3, <3>1
    <2>7. TlPlace(e)
      BY <2>1
    <2> HIDE DEF e
    <2> QED BY <2>4, <2>5, <2>6, <2>7, PlaceStep
  <1> QED BY <1>1, <1>2 DEF TlNext

LEMMA LayersStart == TlInit => LayersInv
  <1> SUFFICES ASSUME TlInit PROVE LayersInv
    OBVIOUS
  <1>1. tlEvents = <<>> /\ DOMAIN tlEvents = {}
    BY DEF TlInit
  <1>2. TlFresh \in TlMark
    BY DEF TlFresh, TlMark
  <1>3. tlSeen \in TlMarks /\ tlTracks \in TlMarks
    BY <1>2 DEF TlInit, TlMarks
  <1>4. tlFlowVis \in [TlFlows -> SUBSET (TlLevels \cup {0})] /\ \A f \in TlFlows : tlFlowVis[f] = TlUnknown
    BY DEF TlInit, TlUnknown
  <1>5. TlTyped
    BY <1>1, <1>3, <1>4 DEF TlTyped
  <1>6. TlMarksShown
    <2>1. \A z \in DOMAIN TlResolution, r \in TlRows : tlTracks[z].ends[r] = <<>>
      BY DEF TlInit, TlFresh
    <2> QED BY <2>1 DEF TlMarksShown
  <1>7. TlOrdered /\ TlFlowsDecided /\ TlLeftOutHasNeighbour /\ TlFlowsAreWhole
    BY <1>1, <1>4 DEF TlOrdered, TlFlowsDecided, TlLeftOutHasNeighbour, TlFlowsAreWhole
  <1> QED BY <1>5, <1>6, <1>7 DEF LayersInv

(* The marks of every level are ends of events that it shows, and every    *)
(* flow has been decided by its first event.                               *)
THEOREM LayersSafety == TlSpec => []LayersInv
  BY LayersStart, LayersStep, PTL DEF TlSpec

(* The type invariant of the levels.                                       *)
THEOREM LayersTyping == TlSpec => []TlTypeOK
  <1>1. LayersInv => TlTypeOK
    <2> SUFFICES ASSUME LayersInv PROVE TlTypeOK
      OBVIOUS
    <2>1. \A i \in DOMAIN tlEvents : tlEvents[i].level \in TlLevels
      BY EventTypes DEF LayersInv
    <2>2. \A vis \in TlMarks : \A z \in DOMAIN TlResolution :
            vis[z].ends \in [TlRows -> Seq(Nat)] /\ vis[z].flows \in [TlFlows -> SUBSET BOOLEAN]
      BY DEF TlMarks, TlMark
    <2> QED BY <2>1, <2>2 DEF LayersInv, TlTyped, TlTypeOK
  <1> QED BY <1>1, LayersSafety, PTL

(* A coarse level stands for what it leaves out, whatever the resolutions, *)
(* the rows, the flows and the events.                                     *)
THEOREM LevelsAreFaithful == TlSpec => []TlLevelsAreFaithful
  <1>1. LayersInv => TlLevelsAreFaithful
    BY DEF LayersInv, TlLevelsAreFaithful
  <1> QED BY <1>1, LayersSafety, PTL

-----------------------------------------------------------------------------
(* ChunkWriter: the two tables agree with the answer, and nobody waits for *)
(* nothing, for any number of chunks, any window, any number of threads.   *)

(* Exactly the chunks before next_chunk_to_submit were handed out, and the *)
(* first writer is a whole window behind them, or all were.                *)
CwHandedOut ==
  /\ \A c \in CwAll : cwTask[c] = "none" <=> c >= cwNext
  /\ \/ cwNext = CwWindow + cwAt["events"]
     \/ cwNext = CwChunks + 1 /\ cwNext <= CwWindow + cwAt["events"]

(* A writer adds a ready chunk and has left only ready ones behind. *)
CwInOrder ==
  \A w \in CwWriters :
    /\ \A c \in CwAll : c < cwAt[w] => cwTask[c] = "ready"
    /\ cwAdds[w] => cwEnded[w] = "no" /\ cwAt[w] <= CwChunks /\ cwTask[cwAt[w]] = "ready"
    /\ cwEnded[w] = "ok" => cwAt[w] = CwChunks + 1

(* The status is an error exactly when a chunk failed, and nothing but an  *)
(* error skips a chunk, ends a writer early or makes the answer one.       *)
CwErrorHasCause ==
  /\ \A c \in cwFailed : cwTask[c] = "failed"
  /\ \A c \in CwAll : cwTask[c] \in {"failed", "skipped"} => cwFailed # {}
  /\ \A w \in CwWriters : cwEnded[w] = "error" => cwFailed # {}
  /\ cwAnswer = "ok" => \A w \in CwWriters : cwEnded[w] = "ok"
  /\ cwAnswer = "error" => \E w \in CwWriters : cwEnded[w] = "error"

CwIInv == CwTypeOK /\ CwHandedOut /\ CwInOrder /\ CwErrorHasCause

LEMMA CwInitInv == CwInit => CwIInv
<1> SUFFICES ASSUME CwInit PROVE CwIInv
  OBVIOUS
<1> USE CwAssumption DEF CwInit, CwAll, CwWriters
<1>1. CwTypeOK
  BY DEF CwTypeOK
<1>2. CwHandedOut
  BY DEF CwHandedOut
<1>3. CwInOrder
  BY DEF CwInOrder
<1>4. CwErrorHasCause
  BY DEF CwErrorHasCause
<1>5. QED
  BY <1>1, <1>2, <1>3, <1>4 DEF CwIInv
-----------------------------------------------------------------------------
(* A step of a task: what it does to the other facts depends only on where *)
(* the task comes from and where it goes.                                  *)
LEMMA CwTaskStep ==
  ASSUME CwIInv, NEW c \in CwAll,
         NEW from \in {"queued", "running", "serialized"},
         NEW to \in {"running", "serialized", "ready", "failed", "skipped"},
         CwTaskGoto(c, from, to),
         UNCHANGED <<cwNext, cwAt, cwAdds, cwEnded, cwAnswer>>,
         \/ to # "failed" /\ cwFailed' = cwFailed
         \/ to = "failed" /\ cwFailed' = (IF cwFailed = {} THEN {c} ELSE cwFailed),
         to = "skipped" => cwFailed # {}
  PROVE  CwIInv'
<1> USE CwAssumption DEF CwIInv, CwTypeOK, CwTaskGoto
<1>1. CwTypeOK'
  OBVIOUS
<1>2. CwHandedOut'
  BY DEF CwHandedOut
<1>3. CwInOrder'
  BY DEF CwInOrder, CwAll
<1>4. CwErrorHasCause'
  BY DEF CwErrorHasCause
<1>5. QED
  BY <1>1, <1>2, <1>3, <1>4 DEF CwIInv

LEMMA CwTaskStepInv ==
  ASSUME CwIInv, NEW c \in CwAll,
         CwTake(c) \/ CwSerialize(c) \/ CwReady(c) \/ CwFail(c)
  PROVE  CwIInv'
<1>1. CASE CwTake(c)
  <2>1. CASE cwFailed = {}
    <3>1. CwTaskGoto(c, "queued", "running")
      BY <1>1, <2>1 DEF CwTake
    <3>2. QED
      BY <1>1, <3>1, CwTaskStep DEF CwTake
  <2>2. CASE cwFailed # {}
    <3>1. CwTaskGoto(c, "queued", "skipped")
      BY <1>1, <2>2 DEF CwTake
    <3>2. QED
      BY <1>1, <2>2, <3>1, CwTaskStep DEF CwTake
  <2>3. QED
    BY <2>1, <2>2
<1>2. CASE CwSerialize(c)
  BY <1>2, CwTaskStep DEF CwSerialize
<1>3. CASE CwReady(c)
  BY <1>3, CwTaskStep DEF CwReady
<1>4. CASE CwFail(c)
  BY <1>4, CwTaskStep DEF CwFail
<1>5. QED
  BY <1>1, <1>2, <1>3, <1>4

LEMMA CwAwakenInv ==
  ASSUME CwIInv, NEW w \in CwWriters, CwAwaken(w) PROVE CwIInv'
<1> USE CwAssumption DEF CwIInv, CwTypeOK, CwAwaken, CwRuns
<1>1. CwTypeOK'
  OBVIOUS
<1>2. CwHandedOut'
  BY DEF CwHandedOut
<1>3. CwInOrder'
  BY DEF CwInOrder
<1>4. CwErrorHasCause'
  BY DEF CwErrorHasCause
<1>5. QED
  BY <1>1, <1>2, <1>3, <1>4 DEF CwIInv

LEMMA CwAddInv ==
  ASSUME CwIInv, NEW w \in CwWriters, CwAdd(w) PROVE CwIInv'
<1> USE CwAssumption
<1>1. /\ cwAt[w] \in 1..CwChunks /\ cwTask[cwAt[w]] = "ready" /\ cwEnded[w] = "no"
      /\ cwNext \in Nat
  BY DEF CwIInv, CwTypeOK, CwInOrder, CwAdd
<1>2. CwTypeOK'
  BY <1>1 DEF CwIInv, CwTypeOK, CwAdd, CwAll
<1>3. CwHandedOut'
  <2>1. CASE w = "events" /\ cwNext <= CwChunks
    BY <1>1, <2>1 DEF CwIInv, CwTypeOK, CwHandedOut, CwAdd, CwAll, CwWriters
  <2>2. CASE ~(w = "events" /\ cwNext <= CwChunks)
    BY <1>1, <2>2 DEF CwIInv, CwTypeOK, CwHandedOut, CwAdd, CwAll, CwWriters
  <2>3. QED
    BY <2>1, <2>2
<1>4. \A c \in CwAll : \/ cwTask'[c] = cwTask[c]
                       \/ cwTask[c] = "none" /\ cwTask'[c] = "queued"
  BY DEF CwIInv, CwTypeOK, CwHandedOut, CwAdd, CwAll
<1>5. CwInOrder'
  <2> SUFFICES ASSUME NEW v \in CwWriters
               PROVE  /\ \A c \in CwAll : c < cwAt'[v] => cwTask'[c] = "ready"
                      /\ cwAdds'[v] => /\ cwEnded'[v] = "no" /\ cwAt'[v] <= CwChunks
                                       /\ cwTask'[cwAt'[v]] = "ready"
                      /\ cwEnded'[v] = "ok" => cwAt'[v] = CwChunks + 1
    BY DEF CwInOrder
  <2>1. CASE v = w
    BY <1>1, <1>4, <2>1 DEF CwIInv, CwTypeOK, CwInOrder, CwAdd, CwAll
  <2>2. CASE v # w
    BY <1>1, <1>4, <2>2 DEF CwIInv, CwTypeOK, CwInOrder, CwAdd, CwAll
  <2>3. QED
    BY <2>1, <2>2
<1>6. CwErrorHasCause'
  BY <1>4 DEF CwIInv, CwTypeOK, CwErrorHasCause, CwAdd
<1>7. QED
  BY <1>2, <1>3, <1>5, <1>6 DEF CwIInv

LEMMA CwLoopEndsInv ==
  ASSUME CwIInv, NEW w \in CwWriters, CwLoopEnds(w) PROVE CwIInv'
<1> USE CwAssumption DEF CwIInv, CwTypeOK, CwLoopEnds, CwRuns
<1>1. CwTypeOK'
  OBVIOUS
<1>2. CwHandedOut'
  BY DEF CwHandedOut
<1>3. CwInOrder'
  BY DEF CwInOrder
<1>4. CwErrorHasCause'
  BY DEF CwErrorHasCause
<1>5. QED
  BY <1>1, <1>2, <1>3, <1>4 DEF CwIInv

LEMMA CwReturnInv == ASSUME CwIInv, CwReturn PROVE CwIInv'
<1> USE DEF CwIInv, CwReturn
<1>1. CwTypeOK' /\ CwHandedOut' /\ CwInOrder'
  BY DEF CwTypeOK, CwHandedOut, CwInOrder
<1>2. CwErrorHasCause'
  BY DEF CwTypeOK, CwErrorHasCause
<1>3. QED
  BY <1>1, <1>2

LEMMA CwInvariance == CwSpec => []CwIInv
<1>1. CwIInv /\ [CwNext]_cwVars => CwIInv'
  <2> SUFFICES ASSUME CwIInv, [CwNext]_cwVars PROVE CwIInv'
    OBVIOUS
  <2>1. CASE UNCHANGED cwVars
    BY <2>1 DEF cwVars, CwIInv, CwTypeOK, CwHandedOut, CwInOrder, CwErrorHasCause
  <2>2. CASE CwNext
    BY <2>2, CwTaskStepInv, CwAwakenInv, CwAddInv, CwLoopEndsInv, CwReturnInv DEF CwNext
  <2>3. QED
    BY <2>1, <2>2
<1>2. QED
  BY CwInitInv, <1>1, PTL DEF CwSpec
-----------------------------------------------------------------------------
(* The variables have their types. *)
THEOREM CwTypeCorrect == CwSpec => []CwTypeOK
<1>1. CwIInv => CwTypeOK
  BY DEF CwIInv
<1>2. QED
  BY CwInvariance, <1>1, PTL

(* No writer takes an incomplete chunk, and OK means that all chunks went  *)
(* into both tables.                                                       *)
THEOREM CwTablesAgree == CwSpec => []CwBothTablesOrError
<1>1. CwIInv => CwBothTablesOrError
  <2> SUFFICES ASSUME CwIInv PROVE CwBothTablesOrError
    OBVIOUS
  <2>1. \A w \in CwWriters : \A c \in CwAll : c < cwAt[w] => cwTask[c] = "ready"
    BY DEF CwIInv, CwInOrder
  <2>2. ASSUME cwAnswer = "ok"
        PROVE  cwFailed = {} /\ \A w \in CwWriters : cwAt[w] = CwChunks + 1
    <3>1. \A w \in CwWriters : cwAt[w] = CwChunks + 1
      BY <2>2 DEF CwIInv, CwInOrder, CwErrorHasCause
    <3>2. \A c \in CwAll : cwTask[c] = "ready"
      BY <2>1, <3>1, CwAssumption DEF CwAll, CwWriters
    <3>3. QED
      BY <3>1, <3>2 DEF CwIInv, CwTypeOK, CwErrorHasCause
  <2>3. cwAnswer = "error" => cwFailed # {}
    BY DEF CwIInv, CwErrorHasCause
  <2>4. QED
    BY <2>1, <2>2, <2>3 DEF CwBothTablesOrError
<1>2. QED
  BY CwInvariance, <1>1, PTL

(* Until the function returns, a thread or a writer can go on: the first   *)
(* writer is never at a chunk that was not handed out, and the second only *)
(* if the first is not done.                                               *)
THEOREM CwNoDeadlock == CwSpec => []CwSomeoneGoesOn
<1>1. CwIInv => CwSomeoneGoesOn
  <2> SUFFICES ASSUME CwIInv, cwAnswer = "none",
                      CwBusy = {},
                      \A c \in CwAll : cwTask[c] # "queued",
                      \A w \in CwWriters : ~cwAdds[w],
                      NEW w \in CwWriters, cwEnded[w] = "no"
               PROVE  \E v \in CwWriters :
                        /\ CwRuns(v)
                        /\ cwFailed # {} \/ cwAt[v] > CwChunks \/ cwTask[cwAt[v]] = "ready"
    BY DEF CwSomeoneGoesOn
  <2>1. \A c \in CwAll : cwTask[c] \in {"none", "ready"} \/ cwFailed # {}
    BY DEF CwIInv, CwTypeOK, CwErrorHasCause, CwBusy
  <2>2. CASE cwEnded["events"] = "no"
    <3>1. cwAt["events"] \in 1..CwChunks + 1 /\ "events" \in CwWriters
      BY DEF CwIInv, CwTypeOK, CwWriters
    <3>2. cwAt["events"] <= CwChunks => cwTask[cwAt["events"]] # "none"
      BY <3>1, CwAssumption DEF CwIInv, CwTypeOK, CwHandedOut, CwAll
    <3>3. cwFailed # {} \/ cwAt["events"] > CwChunks \/ cwTask[cwAt["events"]] = "ready"
      BY <2>1, <3>1, <3>2, CwAssumption DEF CwAll
    <3>4. QED
      BY <2>2, <3>1, <3>3 DEF CwRuns
  <2>3. CASE cwEnded["events"] = "error"
    BY <2>3 DEF CwIInv, CwErrorHasCause, CwRuns, CwWriters
  <2>4. CASE cwEnded["events"] = "ok"
    <3>1. \A c \in CwAll : cwTask[c] = "ready"
      BY <2>4, CwAssumption DEF CwIInv, CwInOrder, CwAll, CwWriters
    <3>2. cwAt[w] \in 1..CwChunks + 1
      BY DEF CwIInv, CwTypeOK
    <3>3. cwAt[w] > CwChunks \/ cwTask[cwAt[w]] = "ready"
      BY <3>1, <3>2, CwAssumption DEF CwAll
    <3>4. QED
      BY <3>3 DEF CwRuns
  <2>5. QED
    BY <2>2, <2>3, <2>4 DEF CwIInv, CwTypeOK, CwWriters
<1>2. QED
  BY CwInvariance, <1>1, PTL
=============================================================================
