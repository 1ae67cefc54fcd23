------------------------ MODULE ProcessSuspenderProof -----------------------
(***************************************************************************)
(* Theorems of ProcessSuspender, for any set of threads.  SuspInv is       *)
(* inductive: ChildKnows says how far the thread that asked can have got   *)
(* at each place of the child's loop, Counts which threads are suspended   *)
(* there, and Exclusive follows where the asker can be "in".               *)
(***************************************************************************)
EXTENDS ProcessSuspender, TLAPS

(* The actions of a thread preserve the invariant: they leave the suspend  *)
(* counts alone, and a thread becomes "in" only on the child's answer.     *)
LEMMA ThreadPreserves ==
  ASSUME SuspInv, NEW t \in Threads, SuspendSelf(t) \/ ResumeSelf(t)
  PROVE  SuspInv'
<1> USE SuspenderAssumption
    DEF SuspInv, TypeOK, TidNamesAsker, ChildKnows, Counts, Exclusive,
        Balanced, Serving, parentVars, childVars, Runs
<1>1. CASE SuspendCall(t)
  BY <1>1 DEF SuspendCall
<1>2. CASE SuspendCas(t)
  BY <1>2 DEF SuspendCas
<1>3. CASE SuspendReturn(t)
  <2>1. TypeOK' /\ TidNamesAsker' /\ ChildKnows' /\ Counts' /\ Balanced'
    BY <1>3 DEF SuspendReturn
  <2>2. Exclusive'
    BY <1>3 DEF SuspendReturn
  <2> QED
    BY <2>1, <2>2
<1>4. CASE ResumeCall(t)
  BY <1>4 DEF ResumeCall
<1>5. CASE ResumeReturn(t)
  BY <1>5 DEF ResumeReturn
<1> QED
  BY <1>1, <1>2, <1>3, <1>4, <1>5 DEF SuspendSelf, ResumeSelf

(* The actions of the child that suspend or resume a thread do so to       *)
(* exactly the threads that Counts expects.                                *)
LEMMA CountingPreserves ==
  ASSUME SuspInv,
         \/ ChildWake \/ ChildStop
         \/ \E t \in Threads : SuspendOne(t) \/ ResumeOne(t)
  PROVE  SuspInv'
<1> USE SuspenderAssumption
    DEF SuspInv, TypeOK, TidNamesAsker, ChildKnows, Counts, Exclusive,
        Balanced, Serving, parentVars, ChildGoes, Decrement
<1>1. CASE ChildWake
  BY <1>1 DEF ChildWake
<1>2. CASE ChildStop
  BY <1>2 DEF ChildStop
<1>3. ASSUME NEW t \in Threads, SuspendOne(t) PROVE SuspInv'
  BY <1>3 DEF SuspendOne
<1>4. ASSUME NEW t \in Threads, ResumeOne(t) PROVE SuspInv'
  BY <1>4 DEF ResumeOne
<1> QED
  BY <1>1, <1>2, <1>3, <1>4

(* The other actions of the child only move it through Run and store the   *)
(* two atomics.                                                            *)
LEMMA ChildPreserves ==
  ASSUME SuspInv,
         \/ ChildFails \/ ChildStart \/ ChildLoad \/ ChildPoll \/ ChildOpenThread
         \/ ChildAnswer \/ ChildSeesReset \/ ChildRelease
  PROVE  SuspInv'
<1> USE SuspenderAssumption
    DEF SuspInv, TypeOK, TidNamesAsker, ChildKnows, Counts, Exclusive,
        Balanced, Serving, parentVars, ChildGoes
<1>1. CASE ChildFails
  BY <1>1 DEF ChildFails
<1>2. CASE ChildStart
  BY <1>2 DEF ChildStart
<1>3. CASE ChildLoad
  BY <1>3 DEF ChildLoad
<1>4. CASE ChildPoll
  BY <1>4 DEF ChildPoll
<1>5. CASE ChildOpenThread
  BY <1>5 DEF ChildOpenThread
<1>6. CASE ChildAnswer
  BY <1>6 DEF ChildAnswer
<1>7. CASE ChildSeesReset
  BY <1>7 DEF ChildSeesReset
<1>8. CASE ChildRelease
  BY <1>8 DEF ChildRelease
<1> QED
  BY <1>1, <1>2, <1>3, <1>4, <1>5, <1>6, <1>7, <1>8

-----------------------------------------------------------------------------
(* The inductive invariant holds initially and every step preserves it.    *)
LEMMA InitEstablishes ==
  ASSUME SuspInit
  PROVE  SuspInv
<1>1. TypeOK
  <2>1. suspend \in BOOLEAN /\ alive \in BOOLEAN /\ todo \subseteq Threads
    BY Zenon DEF SuspInit
  <2>2. tpc \in [Threads -> {"out", "cas", "wait", "in", "leave"}]
    BY DEF SuspInit
  <2>3. count \in [Threads -> 0 .. 1]
    BY DEF SuspInit
  <2> QED
    BY <2>1, <2>2, <2>3 DEF SuspInit, TypeOK
<1>2. TidNamesAsker /\ Exclusive /\ Counts /\ Balanced
  BY SuspenderAssumption
     DEF SuspInit, TidNamesAsker, Exclusive, Counts, Balanced
<1>3. ChildKnows
  BY SuspenderAssumption DEF SuspInit, ChildKnows, Serving
<1> QED
  BY <1>1, <1>2, <1>3 DEF SuspInv

LEMMA StepPreserves ==
  ASSUME SuspInv, [Next]_suspVars
  PROVE  SuspInv'
<1>1. CASE ProcExit
  BY <1>1 DEF ProcExit, parentVars, childVars, SuspInv, TypeOK, TidNamesAsker,
              ChildKnows, Serving, Counts, Exclusive, Balanced
<1>2. CASE Child
  BY <1>2, ChildPreserves, CountingPreserves DEF Child
<1>3. ASSUME NEW t \in Threads, SuspendSelf(t) \/ ResumeSelf(t) PROVE SuspInv'
  BY <1>3, ThreadPreserves
<1>4. CASE UNCHANGED suspVars
  BY <1>4 DEF suspVars, SuspInv, TypeOK, TidNamesAsker, ChildKnows, Serving,
              Counts, Exclusive, Balanced
<1> QED
  BY <1>1, <1>2, <1>3, <1>4 DEF Next

(* SuspInv holds in every reachable state.                                 *)
THEOREM SuspInvariant == Spec => []SuspInv
BY InitEstablishes, StepPreserves, PTL DEF Spec

(* However many threads there are and however their calls, the child's     *)
(* walks over them and the end of the process interleave: whoever has      *)
(* returned from SuspendSelf has the process to itself.                    *)
THEOREM ExclusiveHolds == Spec => []Exclusive
<1>1. SuspInv => Exclusive
  BY DEF SuspInv
<1> QED
  BY <1>1, SuspInvariant, PTL

(* No round of the child leaves a thread suspended, and no failure leaves  *)
(* one suspended behind a free tid.                                        *)
THEOREM BalancedHolds == Spec => []Balanced
<1>1. SuspInv => Balanced
  BY DEF SuspInv
<1> QED
  BY <1>1, SuspInvariant, PTL

=============================================================================
