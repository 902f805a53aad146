----------------------- MODULE ThreadSafeLazy_proofs ------------------------
(***************************************************************************)
(* Proofs about ThreadSafeLazy, for any set of threads.                    *)
(***************************************************************************)
EXTENDS ThreadSafeLazy, TLAPS

(* What the mutex protects: whoever is inside InitSlow holds it. *)
LzHolding == {"init", "drop", "publish", "unlock"}

LzMutual ==
  /\ \A t \in LzThreads : lzPc[t] \in LzHolding => lzMutex = t
  /\ lzMutex # LzNobody => lzPc[lzMutex] \in LzHolding

(* The initializer is untouched until some thread runs it; it has run once *)
(* from then on, and the flag is set before the mutex is given up.         *)
LzProgress ==
  /\ lzRuns = 0 => lzInit
  /\ ~lzFlag /\ (lzMutex = LzNobody \/ lzPc[lzMutex] = "init") => lzRuns = 0
  /\ lzFlag => lzRuns = 1 /\ lzValue = 1
  /\ \A t \in LzThreads : lzPc[t] = "init" => ~lzFlag
  /\ \A t \in LzThreads :
       lzPc[t] \in {"drop", "publish"} => ~lzFlag /\ lzRuns = 1 /\ lzValue = 1
  /\ \A t \in LzThreads : lzPc[t] \in {"unlock", "read", "done"} => lzFlag
  /\ \A t \in LzThreads : lzPc[t] = "done" => lzGot[t] = 1

LzIInv == LzTypeOK /\ LzMutual /\ LzProgress

(* Nobody has started. *)
LEMMA LzInitInv == LzInitial => LzIInv
<1> SUFFICES ASSUME LzInitial PROVE LzIInv
  OBVIOUS
<1>1. LzTypeOK
  BY DEF LzInitial, LzTypeOK, LzPC
<1>2. LzMutual /\ LzProgress
  BY DEF LzInitial, LzMutual, LzHolding, LzProgress
<1>3. QED
  BY <1>1, <1>2 DEF LzIInv

(* Every step of Get and InitSlow keeps the types, ... *)
LEMMA LzTypeStep == LzTypeOK /\ [LzNext]_lzVars => LzTypeOK'
<1> SUFFICES ASSUME LzTypeOK, [LzNext]_lzVars PROVE LzTypeOK'
  OBVIOUS
<1> USE DEF LzTypeOK, LzPC, LzGoto
<1>1. CASE UNCHANGED lzVars
  BY <1>1 DEF lzVars
<1>2. ASSUME NEW t \in LzThreads, LzStep(t) PROVE LzTypeOK'
  <2>1. CASE LzLoad(t)
    BY <2>1 DEF LzLoad
  <2>2. CASE LzLock(t)
    BY <2>2 DEF LzLock
  <2>3. CASE LzRun(t)
    BY <2>3 DEF LzRun
  <2>4. CASE LzDrop(t)
    BY <2>4 DEF LzDrop
  <2>5. CASE LzPublish(t)
    BY <2>5 DEF LzPublish
  <2>6. CASE LzUnlock(t)
    BY <2>6 DEF LzUnlock
  <2>7. CASE LzRead(t)
    BY <2>7 DEF LzRead
  <2>8. QED
    BY <1>2, <2>1, <2>2, <2>3, <2>4, <2>5, <2>6, <2>7 DEF LzStep
<1>3. QED
  BY <1>1, <1>2 DEF LzNext

(* ... and the rest. *)
LEMMA LzStepInv ==
  ASSUME LzIInv, NEW t \in LzThreads, LzStep(t)
  PROVE  (LzMutual /\ LzProgress)'
<1> USE LzAssumption DEF LzIInv, LzTypeOK, LzPC, LzGoto, LzMutual, LzHolding, LzProgress
<1>1. CASE LzLoad(t)
  BY <1>1 DEF LzLoad
<1>2. CASE LzLock(t)
  BY <1>2 DEF LzLock
<1>3. CASE LzRun(t)
  BY <1>3 DEF LzRun
<1>4. CASE LzDrop(t)
  BY <1>4 DEF LzDrop
<1>5. CASE LzPublish(t)
  BY <1>5 DEF LzPublish
<1>6. CASE LzUnlock(t)
  BY <1>6 DEF LzUnlock
<1>7. CASE LzRead(t)
  BY <1>7 DEF LzRead
<1>8. QED
  BY <1>1, <1>2, <1>3, <1>4, <1>5, <1>6, <1>7 DEF LzStep

LEMMA LzInvariance == LzSpec => []LzIInv
<1>1. LzIInv /\ [LzNext]_lzVars => LzIInv'
  <2> SUFFICES ASSUME LzIInv, [LzNext]_lzVars PROVE LzIInv'
    OBVIOUS
  <2>1. LzTypeOK'
    BY LzTypeStep DEF LzIInv
  <2>2. CASE UNCHANGED lzVars
    BY <2>1, <2>2 DEF LzIInv, LzMutual, LzProgress, lzVars
  <2>3. CASE LzNext
    BY <2>1, <2>3, LzStepInv DEF LzIInv, LzNext
  <2>4. QED
    BY <2>2, <2>3
<1>2. QED
  BY LzInitInv, <1>1, PTL DEF LzSpec

(* The variables have their types. *)
THEOREM LzTypeCorrect == LzSpec => []LzTypeOK
<1>1. LzIInv => LzTypeOK
  BY DEF LzIInv
<1>2. QED
  BY LzInvariance, <1>1, PTL

(* However many threads call Get at once, init_ runs at most once, is never *)
(* called after it was dropped, and every caller gets its value.           *)
THEOREM LzOneValue == LzSpec => []LzEveryGetIsTheSame
<1>1. LzIInv => LzEveryGetIsTheSame
  BY DEF LzIInv, LzTypeOK, LzMutual, LzHolding, LzProgress, LzEveryGetIsTheSame
<1>2. QED
  BY LzInvariance, <1>1, PTL
=============================================================================
