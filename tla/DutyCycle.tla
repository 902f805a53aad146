----------------------------- MODULE DutyCycle ------------------------------
(***************************************************************************)
(* How busy a chip was (convert/duty_cycle_tracker.cc).  A tracker per     *)
(* core keeps the time its ops were active as a sorted set of disjoint     *)
(* spans and merges each new one into it; DutyCycleCombiner unites the     *)
(* trackers of the cores of a chip.  A span is <<begin, end>>; the spans   *)
(* of a tracker are kept in a sequence, an iterator is an index into it.   *)
(***************************************************************************)
EXTENDS Integers, Sequences, FiniteSetsExt

CONSTANTS
  DcEnd,  \* bound: the end of time
  DcSpans \* spans of ops; one may be empty

ASSUME DcAssumption ==
  /\ DcEnd \in Nat \ {0}
  /\ \A s \in DcSpans : s \in (0..DcEnd) \X (0..DcEnd) /\ s[1] <= s[2]

VARIABLES
  dcCores, \* [spans, total] of the trackers of two cores
  dcChip,  \* and that of their chip
  dcActive, \* history: the units of time at which each core was active
  dcUnited \* cores that were combined into the chip

dcVars == <<dcCores, dcChip, dcActive, dcUnited>>

DcCores == {1, 2}
DcUnits(s) == s[1]..s[2] - 1
DcEmpty == [spans |-> <<>>, total |-> <<0, 0>>]

DcInit ==
  /\ dcCores = [c \in DcCores |-> DcEmpty]
  /\ dcChip = DcEmpty
  /\ dcActive = [c \in DcCores |-> {}]
  /\ dcUnited = {}

(* tsl::profiler::Timespan::ExpandToInclude: an empty one is replaced. *)
DcExpand(s, t) ==
  IF s[1] = s[2] THEN t ELSE <<Min({s[1], t[1]}), Max({s[2], t[2]})>>

(* The first index from i on with a span that is P, or the end. *)
DcFrom(spans, i, P(_)) ==
  Min({n \in i..Len(spans) : P(spans[n])} \cup {Len(spans) + 1})

(* MergeOrInsert: the new spans, and the place of t among them. *)
DcMerge(spans, t, hint) ==
  LET Reaches(s) == s[2] >= t[1]
      Behind(s) == s[1] > t[2]
      first == DcFrom(spans, hint, Reaches)
      end == DcFrom(spans, first, Behind)
      Around(s) == SubSeq(spans, 1, first - 1) \o <<s>> \o SubSeq(spans, end, Len(spans))
      within == first <= Len(spans) /\ spans[first][1] <= t[1] /\ t[2] <= spans[first][2]
  IN IF within THEN [spans |-> spans, at |-> first]
     ELSE IF first = end THEN [spans |-> Around(t), at |-> first]
     ELSE [spans |-> Around(<<Min({t[1], spans[first][1]}), Max({t[2], spans[end - 1][2]})>>),
           at |-> first]

(* Wrong: the span before may reach the new one. *)
DcHintTooFar(spans, t) ==
  LET NotBefore(s) == s[1] > t[1] \/ (s[1] = t[1] /\ s[2] <= t[2]) IN
  DcFrom(spans, 1, NotBefore)

(* lower_bound, in the order of TimespanComparator, and one back. *)
DcHint(spans, t) ==
  LET NotBefore(s) == s[1] > t[1] \/ (s[1] = t[1] /\ s[2] <= t[2])
      i == DcFrom(spans, 1, NotBefore)
  IN IF i > 1 THEN i - 1 ELSE i

DcAddInterval(c, t, active) ==
  /\ dcUnited = {}
  /\ dcCores' = [dcCores EXCEPT ![c] =
       [spans |-> IF active THEN DcMerge(@.spans, t, DcHint(@.spans, t)).spans ELSE @.spans,
        total |-> DcExpand(@.total, t)]]
  /\ dcActive' = [dcActive EXCEPT ![c] = IF active THEN @ \cup DcUnits(t) ELSE @]
  /\ UNCHANGED <<dcChip, dcUnited>>

(* Union starts each search where the last span went. *)
DcUnite(spans, others) ==
  LET add[i \in 0..Len(others)] ==
        IF i = 0 THEN [spans |-> spans, at |-> DcHint(spans, others[1])]
        ELSE DcMerge(add[i - 1].spans, others[i], add[i - 1].at)
  IN IF others = <<>> THEN spans ELSE add[Len(others)].spans

(* CombineCore. *)
DcCombineCore(c) ==
  /\ c \notin dcUnited
  /\ dcChip' = [spans |-> DcUnite(dcChip.spans, dcCores[c].spans),
                total |-> DcExpand(dcChip.total, dcCores[c].total)]
  /\ dcUnited' = dcUnited \cup {c}
  /\ UNCHANGED <<dcCores, dcActive>>

DcNext ==
  \E c \in DcCores :
    \/ \E t \in DcSpans, active \in BOOLEAN : DcAddInterval(c, t, active)
    \/ DcCombineCore(c)

DcSpec == DcInit /\ [][DcNext]_dcVars
-----------------------------------------------------------------------------
DcActiveTime(tracker) ==
  LET s == tracker.spans IN
  MapThenSumSet(LAMBDA i : s[i][2] - s[i][1], DOMAIN s)

DcTypeOK ==
  /\ \A tracker \in {dcChip, dcCores[1], dcCores[2]} :
       /\ tracker.spans \in Seq((0..DcEnd) \X (0..DcEnd))
       /\ tracker.total \in (0..DcEnd) \X (0..DcEnd)
  /\ dcActive \in [DcCores -> SUBSET (0..DcEnd - 1)]
  /\ dcUnited \subseteq DcCores

(* In whatever order ops come and cores are combined, the active time is   *)
(* the measure of the union of all their spans, no time counts twice, and  *)
(* the idle time, an unsigned difference, is never negative.               *)
DcActiveIsMeasured ==
  LET Says(tracker, units) ==
        /\ DcActiveTime(tracker) = Cardinality(units)
        /\ DcActiveTime(tracker) <= tracker.total[2] - tracker.total[1]
  IN /\ \A c \in DcCores : Says(dcCores[c], dcActive[c])
     /\ Says(dcChip, UNION {dcActive[c] : c \in dcUnited})
=============================================================================
