------------------------------ MODULE DcnSlack ------------------------------
(***************************************************************************)
(* The slack of transfers over the data center network (convert/xspace_to_ *)
(* dcn_slack_analysis.cc).  A collective is a send, a recv, a send-done    *)
(* and a recv-done on the device; its slack is the time between the send   *)
(* and the recv-done that the device did not spend in such operations.     *)
(* The host's events of the collective are sorted into a list and handed   *)
(* out to its occurrences.                                                 *)
(***************************************************************************)
EXTENDS Integers, Sequences, SequencesExt, FiniteSetsExt

CONSTANTS
  SlRendezvous, \* names of collectives
  SlTimes,      \* sequences of the gap before and the duration of operations,
                \* which repeat
  SlLengths,    \* durations of events of the host
  SlMaxOps,     \* SlMaxOps[r]: bound on the operations of a collective
  SlMaxTrace,   \* bound: operations of the trace
  SlHosted,     \* collectives with events of the host: bound, only while no
                \* other has operations in the trace
  SlMaxEvents   \* bound: events of the host

ASSUME SlAssumption ==
  /\ SlLengths \subseteq Nat \ {0} /\ SlHosted \subseteq SlRendezvous
  /\ \A times \in SlTimes : times # <<>> /\ \A i \in DOMAIN times : times[i] \in Nat \X (Nat \ {0})

VARIABLES
  slOpen,  \* the operations of the occurrence under way on the device
  slClock, \* the member of SlTimes that operations follow
  slTrace, \* operations of the line, in the order of their times
  slSeen,  \* channel_id_to_rendezvous_map_: channels that have a name
  slState, \* rendezvous_to_op_map_, or <<>> where it has no entry
  slSlack, \* slack_analysis_
  slHost,  \* events_ of each core_id_to_host_event_map_
  slIter,  \* iter_ of each of these lists
  slMatch  \* the host's event of each analysis, or {} before the summary

slVars == <<slOpen, slClock, slTrace, slSeen, slState, slSlack, slHost, slIter, slMatch>>

SlOpcodes == {"send", "recv", "send-done", "recv-done"}

(* Operations of an occurrence that can have run: the compiler orders a    *)
(* done after its start, and the recv-done after the send.                 *)
SlRan(S) ==
  /\ "send-done" \in S => "send" \in S
  /\ "recv-done" \in S => {"send", "recv"} \subseteq S

SlInit ==
  /\ slOpen \in [SlRendezvous -> {S \in SUBSET SlOpcodes : SlRan(S)}]
  /\ slClock \in SlTimes
  /\ slTrace = <<>> /\ slSeen = {} /\ slSlack = <<>>
  /\ slState = [r \in SlRendezvous |-> <<>>]
  /\ slHost = [r \in SlRendezvous |-> <<>>]
  /\ slIter = [r \in SlRendezvous |-> 1]
  /\ slMatch = {}

(* A done has no name of its own, but the channel of its start.            *)
SlChannel(op, r) == <<r, IF op \in {"send", "send-done"} THEN "send" ELSE "recv">>

SlNew == [start |-> 0, overlap |-> 0, stall |-> 0,
          ops |-> [op \in SlOpcodes |-> 0]]

SlSent(s, e) == [s EXCEPT !.start = e.begin, !.overlap = 0, !.stall = e.len]

(* Wrong: the operations that overlap are added up from the first send on. *)
SlVisitedOn(s, e, at) ==
  LET known == IF s = <<>> THEN SlNew ELSE s
      stalled == [known EXCEPT !.stall = @ + e.len, !.ops[e.op] = at]
  IN IF e.op = "send" THEN [stalled EXCEPT !.start = e.begin, !.stall = e.len] ELSE stalled

(* VisitOp, up to the analysis; at is the place in the trace. *)
SlVisited(s, e, at) ==
  LET known == IF s = <<>> THEN SlNew ELSE s
      stalled == [known EXCEPT !.stall = @ + e.len, !.ops[e.op] = at]
  IN IF e.op = "send" THEN SlSent(stalled, e) ELSE stalled

SlAnalysis(s, e) ==
  [of |-> e.of, start |-> s.start, slack |-> e.begin - s.start - s.overlap,
   stall |-> s.stall, ops |-> s.ops, end |-> e.begin + e.len]

(* UpdateActiveOps. *)
SlActive(states, len) ==
  [r \in SlRendezvous |-> IF states[r] = <<>> THEN <<>> ELSE [states[r] EXCEPT !.overlap = @ + len]]

SlNow == IF slTrace = <<>> THEN 1 ELSE Last(slTrace).begin + Last(slTrace).len

SlVisitOp(op, r) ==
  /\ slMatch = {} /\ \A s \in SlRendezvous : slHost[s] = <<>>
  /\ Len(slTrace) < SlMaxTrace
  /\ Cardinality({i \in DOMAIN slTrace : slTrace[i].of = r}) < SlMaxOps[r]
  /\ LET open == IF slOpen[r] = SlOpcodes THEN {} ELSE slOpen[r] IN
     /\ op \notin open /\ SlRan(open \cup {op})
     /\ slOpen' = [slOpen EXCEPT ![r] = open \cup {op}]
  /\ LET time == slClock[(Len(slTrace) % Len(slClock)) + 1]
         e == [op |-> op, of |-> r, begin |-> SlNow + time[1], len |-> time[2]]
         new == SlVisited(slState[r], e, Len(slTrace) + 1)
     IN /\ slTrace' = Append(slTrace, e)
        /\ IF op \in {"send-done", "recv-done"} /\ SlChannel(op, r) \notin slSeen
           THEN UNCHANGED <<slSeen, slState, slSlack>>
           ELSE /\ slSeen' = slSeen \cup {SlChannel(op, r)}
                /\ slSlack' = IF op = "recv-done" /\ new.start # 0
                              THEN Append(slSlack, SlAnalysis(new, e)) ELSE slSlack
                /\ slState' = SlActive([slState EXCEPT ![r] = new], e.len)
  /\ UNCHANGED <<slClock, slHost, slIter, slMatch>>

(* Timespan's operator<: of two that begin together the longer is less.    *)
SlBefore(a, b) == a.begin < b.begin \/ (a.begin = b.begin /\ a.len > b.len)

(* DcnHostEventList::insert: where the event goes. *)
SlPlace(events, iter, e) ==
  LET first == IF iter <= Len(events) /\ SlBefore(e, events[iter]) THEN 1 ELSE iter
      onward == {i \in first..Len(events) : ~SlBefore(events[i], e)}
  IN Min(onward \cup {Len(events) + 1})

(* VisitHostEvent; the lines of the host's plane come after the device's, *)
(* one after another.  Times are those around the occurrences.             *)
SlHostEvent ==
  /\ slMatch = {} /\ slSlack # <<>>
  /\ \A i \in DOMAIN slTrace : slTrace[i].of \in SlHosted
  /\ \E n \in DOMAIN slSlack, len \in SlLengths :
       LET a == slSlack[n] IN
       \E b \in {a.start - 1, a.start, a.start + 1, a.end, a.end + 1} :
         LET e == [begin |-> b, len |-> len]
             place == SlPlace(slHost[a.of], slIter[a.of], e)
         IN /\ Len(slHost[a.of]) < SlMaxEvents
            /\ slHost' = [slHost EXCEPT ![a.of] = InsertAt(@, place, e)]
            /\ slIter' = [slIter EXCEPT ![a.of] = place]
  /\ UNCHANGED <<slOpen, slClock, slTrace, slSeen, slState, slSlack, slMatch>>

SlSpan(a) == [begin |-> a.start, len |-> a.end - a.start]
SlIncludes(s, t) == s.begin <= t /\ t <= s.begin + s.len

(* DcnHostEventList::pop: the event, or <<>>, and what is left. *)
SlPop(events, span) ==
  LET rest == SelectSeq(events, LAMBDA e : ~SlBefore(e, span)) IN
  IF rest # <<>> /\ (SlIncludes(span, Head(rest).begin) \/ SlIncludes(Head(rest), span.begin))
  THEN [event |-> <<Head(rest)>>, left |-> Tail(rest)]
  ELSE [event |-> <<>>, left |-> rest]

(* SummarizeDcnSlackAnalysis. *)
SlSummarize ==
  /\ slMatch = {} /\ slSlack # <<>>
  /\ LET Match(m, a) ==
           LET popped == SlPop(m.left[a.of], SlSpan(a)) IN
           [left |-> [m.left EXCEPT ![a.of] = popped.left], events |-> Append(m.events, popped.event)]
         done == FoldLeft(Match, [left |-> slHost, events |-> <<>>], slSlack)
     IN slMatch' = {done.events} /\ slHost' = done.left
  /\ UNCHANGED <<slOpen, slClock, slTrace, slSeen, slState, slSlack, slIter>>

SlNext ==
  \/ \E op \in SlOpcodes, r \in SlRendezvous : SlVisitOp(op, r)
  \/ SlHostEvent
  \/ SlSummarize

SlSpec == SlInit /\ [][SlNext]_slVars
-----------------------------------------------------------------------------
SlTypeOK ==
  /\ \A r \in SlRendezvous : SlRan(slOpen[r]) /\ slIter[r] \in 1..SlMaxEvents + 1
  /\ Len(slTrace) <= SlMaxTrace
  /\ slSeen \subseteq SlRendezvous \X {"send", "recv"}
  /\ \A i \in DOMAIN slSlack : slSlack[i].slack \in Nat

(* The last operation of a kind before the n-th, or 0. *)
SlLast(op, r, n) == Max({i \in 1..n : slTrace[i].op = op /\ slTrace[i].of = r} \cup {0})
SlTime(e) == e.begin..e.begin + e.len - 1

(* An operation that is counted: its start is part of the trace as well.   *)
SlCounted(i) ==
  LET start == SlChannel(slTrace[i].op, slTrace[i].of)[2] IN SlLast(start, slTrace[i].of, i) # 0

(* Slack is idle time.  However two collectives are interleaved and        *)
(* wherever the trace begins: each recv-done whose send and recv were seen *)
(* is analysed once, with the send, recv and, if it came first, send-done  *)
(* of its own occurrence; the slack is exactly the time since the send in  *)
(* which no operation that counts ran, and the stall that of its own.      *)
SlSlackIsIdle ==
  LET Ends == {j \in DOMAIN slTrace : slTrace[j].op = "recv-done"
                 /\ SlLast("recv", slTrace[j].of, j) # 0 /\ SlLast("send", slTrace[j].of, j) # 0}
      Counted(j, k) == {i \in k..j - 1 : SlCounted(i)}
  IN /\ Len(slSlack) = Cardinality(Ends)
     /\ \A n \in DOMAIN slSlack :
          LET a == slSlack[n]
              j == a.ops["recv-done"]
              k == a.ops["send"]
              mine == {i \in Counted(j + 1, k) : slTrace[i].of = a.of}
          IN /\ j \in Ends /\ slTrace[j].of = a.of
             /\ n > 1 => slSlack[n - 1].ops["recv-done"] < j
             /\ k = SlLast("send", a.of, j) /\ a.ops["recv"] = SlLast("recv", a.of, j)
             /\ SlLast("send-done", a.of, j) > k => a.ops["send-done"] = SlLast("send-done", a.of, j)
             /\ a.slack = Cardinality((slTrace[k].begin..slTrace[j].begin - 1)
                                       \ UNION {SlTime(slTrace[i]) : i \in Counted(j, k)})
             /\ a.stall = MapThenSumSet(LAMBDA i : slTrace[i].len, mine)

(* The host's events stay sorted, whatever line they come from, and are    *)
(* handed out in their order: an occurrence gets one that begins in it,    *)
(* and the last goes without only if none is left that does.               *)
SlHostEventsInTurn ==
  /\ \A r \in SlRendezvous : \A i \in 1..Len(slHost[r]) - 1 :
       ~SlBefore(slHost[r][i + 1], slHost[r][i])
  /\ \A events \in slMatch : \A n \in DOMAIN slSlack :
       LET a == slSlack[n] IN
       /\ events[n] # <<>> => SlIncludes(SlSpan(a), events[n][1].begin)
       /\ \A m \in 1..n - 1 :
            slSlack[m].of = a.of /\ events[n] # <<>> /\ events[m] # <<>> =>
              ~SlBefore(events[n][1], events[m][1])
       /\ events[n] = <<>> => \A i \in DOMAIN slHost[a.of] : slHost[a.of][i].begin > a.end
                                \/ \E m \in n + 1..Len(slSlack) : slSlack[m].of = a.of

(* What is shown of a collective is its own: idle time, stall, operations  *)
(* and the event of the host.                                              *)
SlAnalysesAreRight == SlSlackIsIdle /\ SlHostEventsInTurn
=============================================================================
