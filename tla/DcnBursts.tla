----------------------------- MODULE DcnBursts ------------------------------
(***************************************************************************)
(* The traffic lines of the data center network (convert/dcn_analysis.cc). *)
(* Each message received by a host becomes two timestamps, which go into   *)
(* the host's map and into that of its core and collective.  A burst is a  *)
(* time with at least one message under way; the state machine that finds  *)
(* bursts also keeps the messages that ended last, the stragglers, in a    *)
(* ring.  Collectives with much traffic get a line of their own.           *)
(***************************************************************************)
EXTENDS Integers, Sequences, SequencesExt, FiniteSetsExt

CONSTANTS
  DbEnd,        \* bound: the end of time
  DbKeys,       \* pairs of a core and a collective
  DbRing,       \* kMaxStragglersPerBurst
  DbMaxDisplay, \* kMaxCollectivesToDisplay
  DbFew,        \* percent of the host's traffic: less gets no line, and
  DbMuch,       \* less only while half of the lines are free (5 and 20)
  DbMaxMessages \* bound: messages of the trace

ASSUME DbAssumption ==
  /\ DbRing \in Nat \ {0} /\ DbMaxDisplay \in Nat \ {0}
  /\ DbFew \in Nat /\ DbMuch \in Nat /\ DbFew <= DbMuch

VARIABLES
  dbMessages, \* received_messages_, in the order of the host's lines
  dbBursts,   \* bursts of the host (DbHost) and of each key, or <<>>
  dbDisplay   \* keys with a line of their own, or {"none"} before there are any

dbVars == <<dbMessages, dbBursts, dbDisplay>>

DbHost == <<>>
DbNone == {"none"}

DbInit == dbMessages = <<>> /\ dbBursts = <<>> /\ dbDisplay = DbNone

(* GetDcnMessageFromXEvent: a message that seems to take no time has a     *)
(* skewed clock, and one to its own slice is a loopback; neither counts.   *)
DbReceive ==
  /\ dbBursts = <<>> /\ Len(dbMessages) < DbMaxMessages
  /\ \E k \in DbKeys, s, e \in 0..DbEnd, valid \in BOOLEAN :
       /\ s < e
       /\ ~valid => s = 0 /\ e = DbEnd
       /\ dbMessages' = Append(dbMessages, [key |-> k, start |-> s, end |-> e, valid |-> valid])
  /\ UNCHANGED <<dbBursts, dbDisplay>>

(* GenerateTimestampEvents: a multimap keeps equal times as they came.     *)
DbTimestamps(messages) ==
  LET both == FlattenSeq([i \in DOMAIN messages |->
                <<[time |-> messages[i].start, at |-> 2 * i, diff |-> 1, m |-> messages[i]],
                  [time |-> messages[i].end, at |-> 2 * i + 1, diff |-> -1, m |-> messages[i]]>>])
  IN SortSeq(both, LAMBDA a, b : a.time < b.time \/ (a.time = b.time /\ a.at < b.at))

(* The burst under way; ResetBurstState leaves the ring as it is. *)
DbReset(ring) == [active |-> 0, start |-> 0, num |-> 0, overlap |-> 0, slot |-> 0, ring |-> ring]
DbEmptyRing == [i \in 0..DbRing - 1 |-> [start |-> 0, end |-> 0]]

(* Wrong: the place in the ring is not reset between bursts. *)
DbStartsAnew(b) == [DbReset(b.ring) EXCEPT !.slot = b.slot]

DbAfterBurst(b) == DbReset(b.ring)

(* CreateBursts, one timestamp. *)
DbTimestamp(state, e) ==
  LET b == state.now
      begun == IF b.active = 0 THEN [b EXCEPT !.start = e.time] ELSE b
      active == b.active + e.diff
      counted == IF e.diff > 0 THEN [begun EXCEPT !.num = @ + 1]
                 ELSE [begun EXCEPT !.ring[b.slot] = [start |-> e.m.start, end |-> e.m.end],
                                    !.slot = (@ + 1) % DbRing]
      new == [counted EXCEPT !.active = active,
                             !.overlap = IF active > @ THEN active ELSE @]
  IN IF active # 0 THEN [state EXCEPT !.now = new]
     ELSE [now |-> DbAfterBurst(new),
           bursts |-> Append(state.bursts, [start |-> new.start, end |-> e.time, num |-> new.num,
                                            overlap |-> new.overlap, ring |-> new.ring])]

DbOf(key) ==
  SelectSeq(dbMessages, LAMBDA m : m.valid /\ (key = DbHost \/ m.key = key))

DbCreateBursts(key) ==
  FoldLeft(DbTimestamp, [now |-> DbReset(DbEmptyRing), bursts |-> <<>>],
           DbTimestamps(DbOf(key))).bursts

DbHasKey(k) == \E i \in DOMAIN dbMessages : dbMessages[i].valid /\ dbMessages[i].key = k

DbTotalLatency(bursts, k) ==
  MapThenSumSet(LAMBDA i : bursts[k][i].end - bursts[k][i].start, DOMAIN bursts[k])

DbPercent(bursts, latency, p) == 100 * latency >= p * DbTotalLatency(bursts, DbHost)

(* NumCollectivesQualified, of the latencies from the longest to the       *)
(* shortest: how many of them come before the first that is refused.       *)
DbQualified(bursts, latencies) ==
  LET lines == DbMaxDisplay - 1
      Refused(i) == \/ ~DbPercent(bursts, latencies[i], DbFew)
                    \/ ~DbPercent(bursts, latencies[i], DbMuch) /\ i > lines \div 2
                    \/ i > lines
  IN Min({i \in DOMAIN latencies : Refused(i)} \cup {Len(latencies) + 1}) - 1

DbCores == {k[1] : k \in DbKeys}
DbKeysOf(bursts, core) == {k \in DOMAIN bursts \ {DbHost} : k[1] = core}
DbLatencies(bursts, core) ==
  LET keys == SetToSeq(DbKeysOf(bursts, core)) IN
  SortSeq([i \in DOMAIN keys |-> DbTotalLatency(bursts, keys[i])], LAMBDA a, b : a > b)

(* Keys of a core that reach the least latency that qualifies. *)
DbReaching(bursts, core) ==
  LET latencies == DbLatencies(bursts, core)
      num == DbQualified(bursts, latencies)
  IN {k \in DbKeysOf(bursts, core) : num > 0 /\ DbTotalLatency(bursts, k) >= latencies[num]}

(* QualifyCollectives goes through a hash map, in any order, and stops     *)
(* when the lines are used up.                                             *)
DbCanQualify(bursts, shown) ==
  \A c \in DbCores :
    LET reaching == DbReaching(bursts, c) IN
    /\ shown \cap DbKeysOf(bursts, c) \subseteq reaching
    /\ Cardinality(shown \cap reaching) = Min({Cardinality(reaching), DbMaxDisplay - 1})

(* GenerateBursts, after all lines were processed. *)
DbGenerateBursts ==
  /\ dbBursts = <<>>
  /\ dbBursts' = [k \in {DbHost} \cup {c \in DbKeys : DbHasKey(c)} |-> DbCreateBursts(k)]
  /\ dbDisplay' \in {shown \in SUBSET (DOMAIN dbBursts' \ {DbHost}) : DbCanQualify(dbBursts', shown)}
  /\ UNCHANGED dbMessages

DbNext == DbReceive \/ DbGenerateBursts

DbSpec == DbInit /\ [][DbNext]_dbVars
-----------------------------------------------------------------------------
(* The stragglers that the viewer shows with a burst. *)
DbShown(b) == [i \in 1..Min({DbRing, b.num}) |-> b.ring[i - 1]]

DbUnits(s) == s.start..s.end - 1

DbTypeOK ==
  /\ Len(dbMessages) <= DbMaxMessages
  /\ dbBursts # <<>> => DbHost \in DOMAIN dbBursts /\ DOMAIN dbBursts \subseteq {DbHost} \cup DbKeys
  /\ dbDisplay = DbNone \/ dbDisplay \subseteq DbKeys

(* Bursts are the traffic: whatever messages overlap, touch or come out of *)
(* order, the bursts of a host or collective cover exactly the time with a *)
(* message under way, in order and without overlap, count each message in  *)
(* one of them, and are shown with those of their own messages that ended  *)
(* last, although the ring still holds some of an earlier burst.           *)
DbBurstsAreTraffic ==
  dbBursts # <<>> => \A k \in DOMAIN dbBursts :
    LET bursts == dbBursts[k]
        messages == DbOf(k)
        In(b) == {i \in DOMAIN messages : DbUnits(messages[i]) \subseteq DbUnits(b)}
        Spans(S) == {[start |-> messages[i].start, end |-> messages[i].end] : i \in S}
    IN /\ UNION {DbUnits(bursts[i]) : i \in DOMAIN bursts} =
            UNION {DbUnits(messages[i]) : i \in DOMAIN messages}
       /\ \A i \in DOMAIN bursts :
            LET b == bursts[i] shown == DbShown(b) IN
            /\ i > 1 => bursts[i - 1].end <= b.start
            /\ b.num = Cardinality(In(b)) /\ b.overlap \in 1..b.num
            /\ \A t \in DbUnits(b) :
                 Cardinality({m \in In(b) : t \in DbUnits(messages[m])}) <= b.overlap
            /\ Range(shown) \subseteq Spans(In(b))
            /\ \A s \in Spans(In(b)) \ Range(shown) : \A t \in Range(shown) : s.end <= t.end

(* The lines go to the collectives with the most traffic: none with little *)
(* gets one, one with much goes without only when all lines are in use,    *)
(* and one outranks another that has a line only if more collectives reach *)
(* the least latency that qualifies than there are lines.                  *)
DbMostTrafficIsShown ==
  dbDisplay # DbNone => \A c \in DbCores :
    LET mine == DbKeysOf(dbBursts, c) shown == dbDisplay \cap mine hidden == mine \ shown IN
    /\ Cardinality(shown) <= DbMaxDisplay - 1
    /\ \A k \in shown : DbPercent(dbBursts, DbTotalLatency(dbBursts, k), DbFew)
    /\ \A k \in hidden :
         /\ DbPercent(dbBursts, DbTotalLatency(dbBursts, k), DbMuch) =>
              Cardinality(shown) = DbMaxDisplay - 1
         /\ \A l \in shown : DbTotalLatency(dbBursts, k) > DbTotalLatency(dbBursts, l) =>
              Cardinality(DbReaching(dbBursts, c)) > DbMaxDisplay - 1

(* The lines show the traffic, and the traffic that matters most.          *)
DbLinesShowTraffic == DbBurstsAreTraffic /\ DbMostTrafficIsShown
=============================================================================
