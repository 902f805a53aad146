--------------------------- MODULE ThreadSafeLazy ---------------------------
(***************************************************************************)
(* Double-checked initialisation (utils/lazy.h), used for the fingerprint  *)
(* of an HloInstructionWrapper.  Any number of threads call Get; the first *)
(* to take the mutex runs the initializer, drops it, and only then sets    *)
(* the flag the others read without the mutex.  The release store and the  *)
(* acquire load make the writes before the one visible after the other, so *)
(* the steps are those of the program order.                               *)
(***************************************************************************)
EXTENDS Naturals

CONSTANTS LzThreads, LzNobody

ASSUME LzAssumption == LzNobody \notin LzThreads

VARIABLES
  lzPc,      \* control point of each thread in Get and InitSlow
  lzMutex,   \* holder of mu_
  lzFlag,    \* initialized_
  lzValue,   \* value_: 0 is the empty optional, n what run n of init_ returned
  lzInit,    \* init_ is callable
  lzRuns,    \* history: how often init_ ran
  lzGot      \* what Get returned to each thread

lzVars == <<lzPc, lzMutex, lzFlag, lzValue, lzInit, lzRuns, lzGot>>

LzInitial ==
  /\ lzPc = [t \in LzThreads |-> "load"]
  /\ lzMutex = LzNobody
  /\ lzFlag = FALSE
  /\ lzValue = 0
  /\ lzInit = TRUE
  /\ lzRuns = 0
  /\ lzGot = [t \in LzThreads |-> 0]

LzGoto(t, from, to) == lzPc[t] = from /\ lzPc' = [lzPc EXCEPT ![t] = to]

LzLoad(t) ==
  /\ LzGoto(t, "load", IF lzFlag THEN "read" ELSE "lock")
  /\ UNCHANGED <<lzMutex, lzFlag, lzValue, lzInit, lzRuns, lzGot>>

(* Wrong: the flag is set before the value. *)
LzLockPublishes(t) ==
  /\ lzMutex = LzNobody
  /\ LzGoto(t, "lock", IF lzFlag THEN "unlock" ELSE "init")
  /\ lzMutex' = t
  /\ lzFlag' = TRUE
  /\ UNCHANGED <<lzValue, lzInit, lzRuns, lzGot>>

LzLock(t) ==
  /\ lzMutex = LzNobody
  /\ LzGoto(t, "lock", IF lzFlag THEN "unlock" ELSE "init")
  /\ lzMutex' = t
  /\ UNCHANGED <<lzFlag, lzValue, lzInit, lzRuns, lzGot>>

(* Calling an empty init_ would end the process. *)
LzRun(t) ==
  /\ lzInit
  /\ LzGoto(t, "init", "drop")
  /\ lzRuns' = lzRuns + 1
  /\ lzValue' = lzRuns + 1
  /\ UNCHANGED <<lzMutex, lzFlag, lzInit, lzGot>>

LzDrop(t) ==
  /\ LzGoto(t, "drop", "publish")
  /\ lzInit' = FALSE
  /\ UNCHANGED <<lzMutex, lzFlag, lzValue, lzRuns, lzGot>>

LzPublish(t) ==
  /\ LzGoto(t, "publish", "unlock")
  /\ lzFlag' = TRUE
  /\ UNCHANGED <<lzMutex, lzValue, lzInit, lzRuns, lzGot>>

LzUnlock(t) ==
  /\ LzGoto(t, "unlock", "read")
  /\ lzMutex' = LzNobody
  /\ UNCHANGED <<lzFlag, lzValue, lzInit, lzRuns, lzGot>>

LzRead(t) ==
  /\ LzGoto(t, "read", "done")
  /\ lzGot' = [lzGot EXCEPT ![t] = lzValue]
  /\ UNCHANGED <<lzMutex, lzFlag, lzValue, lzInit, lzRuns>>

LzStep(t) ==
  LzLoad(t) \/ LzLock(t) \/ LzRun(t) \/ LzDrop(t) \/ LzPublish(t) \/ LzUnlock(t) \/ LzRead(t)

LzNext == \E t \in LzThreads : LzStep(t)

LzSpec == LzInitial /\ [][LzNext]_lzVars
-----------------------------------------------------------------------------
LzPC == {"load", "lock", "init", "drop", "publish", "unlock", "read", "done"}

LzTypeOK ==
  /\ lzPc \in [LzThreads -> LzPC]
  /\ lzMutex \in LzThreads \cup {LzNobody}
  /\ lzFlag \in BOOLEAN
  /\ lzValue \in Nat
  /\ lzInit \in BOOLEAN
  /\ lzRuns \in Nat
  /\ lzGot \in [LzThreads -> Nat]

(* "The provided Initializer is invoked exactly once", and every caller    *)
(* gets its value: no thread that came by the flag alone reads the empty   *)
(* optional, none reads the result of a second run, and none calls the     *)
(* initializer after it was dropped.                                       *)
LzEveryGetIsTheSame ==
  /\ lzRuns <= 1
  /\ \A t \in LzThreads : lzPc[t] = "init" => lzInit
  /\ \A t \in LzThreads : lzPc[t] = "done" => lzGot[t] = 1
=============================================================================
