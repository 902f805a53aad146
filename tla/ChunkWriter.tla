---------------------------- MODULE ChunkWriter -----------------------------
(***************************************************************************)
(* How the events and metadata tables are filled (lite_trace_events.cc).   *)
(* The events are cut into chunks, which the threads of a pool serialize   *)
(* in any order; two writers wait for one chunk after the other and add it *)
(* to their table.  Only the first writer hands out further chunks, so the *)
(* second depends on it.  The first error stops everyone.                  *)
(***************************************************************************)
EXTENDS Naturals, FiniteSets

CONSTANTS
  CwChunks,  \* number of chunks
  CwWindow,  \* kMaxBufferedChunks
  CwThreads  \* threads of the serialization pool

ASSUME CwAssumption ==
  CwChunks \in Nat /\ CwWindow \in Nat \ {0} /\ CwThreads \in Nat \ {0}

VARIABLES
  cwTask,   \* none, queued, running, serialized, ready, failed or skipped
  cwNext,   \* next_chunk_to_submit
  cwFailed, \* the first failed chunk, or none: shared_state->status
  cwAt,     \* cwAt[w]: the chunk writer w is at
  cwAdds,   \* cwAdds[w]: it adds that chunk to its table
  cwEnded,  \* cwEnded[w]: how it left its loop: no, ok or error
  cwAnswer  \* what the function returned

cwVars == <<cwTask, cwNext, cwFailed, cwAt, cwAdds, cwEnded, cwAnswer>>

CwAll == 1..CwChunks
CwWriters == {"events", "metadata"}

(* The first window is submitted before the writers start. *)
CwInit ==
  /\ cwTask = [c \in CwAll |-> IF c <= CwWindow THEN "queued" ELSE "none"]
  /\ cwNext = (IF CwWindow < CwChunks THEN CwWindow ELSE CwChunks) + 1
  /\ cwFailed = {}
  /\ cwAt = [w \in CwWriters |-> 1]
  /\ cwAdds = [w \in CwWriters |-> FALSE]
  /\ cwEnded = [w \in CwWriters |-> "no"]
  /\ cwAnswer = "none"

CwBusy == {c \in CwAll : cwTask[c] \in {"running", "serialized"}}

CwTaskGoto(c, from, to) == cwTask[c] = from /\ cwTask' = [cwTask EXCEPT ![c] = to]

(* A task looks at the status once, when a thread takes it up. *)
CwTake(c) ==
  /\ Cardinality(CwBusy) < CwThreads
  /\ CwTaskGoto(c, "queued", IF cwFailed = {} THEN "running" ELSE "skipped")
  /\ UNCHANGED <<cwNext, cwFailed, cwAt, cwAdds, cwEnded, cwAnswer>>

(* completed_chunks[idx] is filled without the mutex, ... *)
CwSerialize(c) ==
  /\ CwTaskGoto(c, "running", "serialized")
  /\ UNCHANGED <<cwNext, cwFailed, cwAt, cwAdds, cwEnded, cwAnswer>>

(* ... and chunk_ready[idx] set with it. *)
CwReady(c) ==
  /\ CwTaskGoto(c, "serialized", "ready")
  /\ UNCHANGED <<cwNext, cwFailed, cwAt, cwAdds, cwEnded, cwAnswer>>

(* Wrong: the status is not set. *)
CwFailUnrecorded(c) ==
  /\ CwTaskGoto(c, "running", "failed")
  /\ UNCHANGED <<cwNext, cwFailed, cwAt, cwAdds, cwEnded, cwAnswer>>

(* An event that cannot be converted; only the first error is kept. *)
CwFail(c) ==
  /\ CwTaskGoto(c, "running", "failed")
  /\ cwFailed' = IF cwFailed = {} THEN {c} ELSE cwFailed
  /\ UNCHANGED <<cwNext, cwAt, cwAdds, cwEnded, cwAnswer>>

CwRuns(w) == cwEnded[w] = "no" /\ ~cwAdds[w]

(* Wrong: an error does not keep a writer from adding what is not there.   *)
CwAwakenAnyway(w) ==
  /\ CwRuns(w) /\ cwAt[w] <= CwChunks
  /\ cwTask[cwAt[w]] \in {"ready", "failed", "skipped"}
  /\ cwAdds' = [cwAdds EXCEPT ![w] = TRUE]
  /\ UNCHANGED <<cwTask, cwNext, cwFailed, cwAt, cwEnded, cwAnswer>>

(* mu.Await returns: the chunk is ready, or there is an error, which wins.  *)
CwAwaken(w) ==
  /\ CwRuns(w) /\ cwAt[w] <= CwChunks
  /\ \/ /\ cwFailed = {} /\ cwTask[cwAt[w]] = "ready"
        /\ cwAdds' = [cwAdds EXCEPT ![w] = TRUE]
        /\ UNCHANGED cwEnded
     \/ /\ cwFailed # {}
        /\ cwEnded' = [cwEnded EXCEPT ![w] = "error"]
        /\ UNCHANGED cwAdds
  /\ UNCHANGED <<cwTask, cwNext, cwFailed, cwAt, cwAnswer>>

(* The chunk is in the table; the first writer submits the next one. *)
CwAdd(w) ==
  /\ cwAdds[w]
  /\ cwAdds' = [cwAdds EXCEPT ![w] = FALSE]
  /\ cwAt' = [cwAt EXCEPT ![w] = @ + 1]
  /\ IF w = "events" /\ cwNext <= CwChunks
     THEN cwTask' = [cwTask EXCEPT ![cwNext] = "queued"] /\ cwNext' = cwNext + 1
     ELSE UNCHANGED <<cwTask, cwNext>>
  /\ UNCHANGED <<cwFailed, cwEnded, cwAnswer>>

CwLoopEnds(w) ==
  /\ CwRuns(w) /\ cwAt[w] > CwChunks
  /\ cwEnded' = [cwEnded EXCEPT ![w] = "ok"]
  /\ UNCHANGED <<cwTask, cwNext, cwFailed, cwAt, cwAdds, cwAnswer>>

(* Both pools are joined, the writers' first. *)
CwReturn ==
  /\ cwAnswer = "none"
  /\ \A w \in CwWriters : cwEnded[w] # "no"
  /\ \A c \in CwAll : cwTask[c] \notin {"queued", "running", "serialized"}
  /\ cwAnswer' = IF \A w \in CwWriters : cwEnded[w] = "ok" THEN "ok" ELSE "error"
  /\ UNCHANGED <<cwTask, cwNext, cwFailed, cwAt, cwAdds, cwEnded>>

CwNext ==
  \/ \E c \in CwAll : CwTake(c) \/ CwSerialize(c) \/ CwReady(c) \/ CwFail(c)
  \/ \E w \in CwWriters : CwAwaken(w) \/ CwAdd(w) \/ CwLoopEnds(w)
  \/ CwReturn

CwSpec == CwInit /\ [][CwNext]_cwVars
-----------------------------------------------------------------------------
CwTypeOK ==
  /\ cwTask \in [CwAll -> {"none", "queued", "running", "serialized", "ready",
                           "failed", "skipped"}]
  /\ cwNext \in 1..CwChunks + 1
  /\ cwFailed \subseteq CwAll
  /\ cwAt \in [CwWriters -> 1..CwChunks + 1]
  /\ cwAdds \in [CwWriters -> BOOLEAN]
  /\ cwEnded \in [CwWriters -> {"no", "ok", "error"}]
  /\ cwAnswer \in {"none", "ok", "error"}

(* A writer never takes a chunk that is not complete, it never overtakes   *)
(* the chunks handed out, and the function answers OK exactly when every   *)
(* chunk was serialized and went into both tables.                         *)
CwBothTablesOrError ==
  /\ \A w \in CwWriters : \A c \in CwAll : c < cwAt[w] => cwTask[c] = "ready"
  /\ cwAnswer = "ok" => cwFailed = {} /\ \A w \in CwWriters : cwAt[w] = CwChunks + 1
  /\ cwAnswer = "error" => cwFailed # {}

(* Nobody waits for nothing: as long as the function has not returned,     *)
(* some thread or writer can go on, although the second writer waits for   *)
(* chunks only the first one hands out and a skipped chunk is never ready. *)
CwSomeoneGoesOn ==
  cwAnswer = "none" =>
    \/ CwBusy # {}
    \/ \E c \in CwAll : cwTask[c] = "queued"
    \/ \E w \in CwWriters :
         \/ cwAdds[w]
         \/ /\ CwRuns(w)
            /\ cwFailed # {} \/ cwAt[w] > CwChunks \/ cwTask[cwAt[w]] = "ready"
    \/ \A w \in CwWriters : cwEnded[w] # "no"
=============================================================================
