------------------------- MODULE DbgVarWatcherProof ------------------------
(***************************************************************************)
(* Safety of the watcher of a variable, for any threads, accessors and     *)
(* values, on top of what is proved of the suspender it uses.              *)
(***************************************************************************)
EXTENDS DbgVarWatcher, TLAPS

(* The theorems of the suspender, about the variables of P.                *)
Proved == INSTANCE ProcessSuspenderProof

Claimed == {"suspend", "protect", "copy", "instr", "trap", "copyback",
            "close", "resume", "release"}
Inside  == {"protect", "copy", "instr", "trap", "copyback", "close"}
Opened  == {"copy", "instr", "trap", "copyback", "close"}

(* Where an accessor is in the suspender, at each place of the handler.    *)
StagesMatch ==
  /\ \A t \in Accessors :
       /\ stage[t] \in {"code", "entry", "claim", "release"} => tpc[t] = "out"
       /\ stage[t] = "suspend" => tpc[t] \in {"out", "cas", "wait"}
       /\ stage[t] \in Inside => tpc[t] = "in"
       /\ stage[t] = "resume" => tpc[t] \in {"in", "leave"}
  /\ \A t \in Threads \ Accessors : stage[t] = "code"

(* The page is open for exactly the time an accessor is between the two    *)
(* calls, and its trap flag is set from the copy to the trap.              *)
PageMatches ==
  /\ open <=> \E t \in Accessors : stage[t] \in Opened
  /\ \A t \in Threads : tf[t] <=> stage[t] \in {"instr", "trap"}
  /\ ~unseen

(* Of the variable and its copy the one in use holds the latest value.     *)
InUseIsLatest ==
  /\ \A t \in Accessors : stage[t] \in {"instr", "trap", "copyback"} => redir = latest
  /\ (\A t \in Accessors : stage[t] \notin {"trap", "copyback"}) => impl = latest
  /\ ~readBad

(* Without an overlap threadId is the thread in the handler.               *)
LoneAccess ==
  ~overlapped =>
    /\ \A t, u \in Accessors : t # u => stage[t] = "code" \/ stage[u] = "code"
    /\ \A t \in Accessors : threadId = t <=> stage[t] \in Claimed
    /\ ~asserted /\ ~unhandled

WatchInv ==
  /\ TypeOK
  /\ P!SuspInv
  /\ StagesMatch
  /\ PageMatches
  /\ InUseIsLatest
  /\ LoneAccess

-----------------------------------------------------------------------------
(* The watcher's assumption gives the suspender's.                         *)
LEMMA SuspenderAssumed == Proved!SuspenderAssumption
BY WatcherAssumption DEF Proved!SuspenderAssumption

(* P and Proved are the same suspender, and what is proved of its steps    *)
(* holds of every step of this specification that P takes.                 *)
LEMMA SameInv ==
  /\ P!SuspInv <=> Proved!SuspInv
  /\ P!SuspInv' <=> Proved!SuspInv'
BY DEF P!SuspInv, P!TypeOK, P!TidNamesAsker, P!ChildKnows, P!Counts,
   P!Exclusive, P!Balanced, P!Serving, Proved!SuspInv, Proved!TypeOK,
   Proved!TidNamesAsker, Proved!ChildKnows, Proved!Counts, Proved!Exclusive,
   Proved!Balanced, Proved!Serving

LEMMA SameChild == P!Child => Proved!Child
BY DEF P!Child, P!ChildFails, P!ChildStart, P!ChildLoad, P!ChildPoll,
   P!ChildOpenThread, P!ChildAnswer, P!ChildWake, P!ChildSeesReset, P!ChildStop,
   P!ChildRelease, P!SuspendOne, P!ResumeOne, P!parentVars, P!ChildGoes,
   P!Decrement, Proved!Child, Proved!ChildFails, Proved!ChildStart,
   Proved!ChildLoad, Proved!ChildPoll, Proved!ChildOpenThread,
   Proved!ChildAnswer, Proved!ChildWake, Proved!ChildSeesReset,
   Proved!ChildStop, Proved!ChildRelease, Proved!SuspendOne, Proved!ResumeOne,
   Proved!parentVars, Proved!ChildGoes, Proved!Decrement

LEMMA SameCalls ==
  ASSUME NEW t \in Threads
  PROVE  P!SuspendSelf(t) \/ P!ResumeSelf(t)
           => Proved!SuspendSelf(t) \/ Proved!ResumeSelf(t)
BY DEF P!SuspendSelf, P!SuspendCall, P!SuspendCas, P!SuspendReturn,
   P!ResumeSelf, P!ResumeCall, P!ResumeReturn, P!Runs, P!childVars,
   Proved!SuspendSelf, Proved!SuspendCall, Proved!SuspendCas,
   Proved!SuspendReturn, Proved!ResumeSelf, Proved!ResumeCall,
   Proved!ResumeReturn, Proved!Runs, Proved!childVars

LEMMA SuspenderPreserves ==
  ASSUME P!SuspInv,
         \/ P!Child \/ P!ProcExit
         \/ \E t \in Threads : P!SuspendSelf(t) \/ P!ResumeSelf(t)
         \/ UNCHANGED suspVars
  PROVE  P!SuspInv'
<1>1. Proved!Next \/ UNCHANGED suspVars
  BY SameChild, SameCalls DEF P!ProcExit, Proved!ProcExit, Proved!Next,
     P!parentVars, P!childVars, Proved!parentVars, Proved!childVars
<1>2. Proved!SuspInv'
  <2>1. Proved!SuspInv /\ [Proved!Next]_(Proved!suspVars)
    BY <1>1, SameInv DEF suspVars, Proved!suspVars
  <2>2. QED
    BY <2>1, SuspenderAssumed, Proved!StepPreserves
<1>3. QED
  BY <1>2, SameInv

LEMMA SuspenderStarts ==
  ASSUME P!SuspInit
  PROVE  P!SuspInv
<1>1. Proved!SuspInit
  BY DEF P!SuspInit, Proved!SuspInit
<1>2. Proved!SuspInv
  BY <1>1, SuspenderAssumed, Proved!InitEstablishes
<1>3. QED
  BY <1>2, SameInv

-----------------------------------------------------------------------------
(* While a thread is "in" no other thread runs, or is "in" too.            *)
LEMMA OneInside ==
  ASSUME P!SuspInv, NEW t \in Threads, tpc[t] = "in", NEW u \in Threads, u # t
  PROVE  ~P!Runs(u) /\ tpc[u] # "in"
<1>1. count[u] > 0
  BY DEF P!SuspInv, P!Exclusive
<1>2. tid = t /\ (tpc[u] = "in" => tid = u)
  BY DEF P!SuspInv, P!TidNamesAsker
<1>3. QED
  BY <1>1, <1>2 DEF P!Runs

(* What a call of the suspender does to the place of the caller.           *)
LEMMA CallEffect ==
  ASSUME NEW t \in Threads
  PROVE  /\ P!SuspendSelf(t) =>
              \/ tpc[t] = "out"  /\ tpc' = [tpc EXCEPT ![t] = "cas"]
              \/ tpc[t] = "cas"  /\ tpc' = [tpc EXCEPT ![t] = "wait"]
              \/ tpc[t] = "wait" /\ tpc' = [tpc EXCEPT ![t] = "in"]
         /\ P!ResumeSelf(t) =>
              \/ tpc[t] = "in"    /\ tpc' = [tpc EXCEPT ![t] = "leave"]
              \/ tpc[t] = "leave" /\ tpc' = [tpc EXCEPT ![t] = "out"]
BY DEF P!SuspendSelf, P!SuspendCall, P!SuspendCas, P!SuspendReturn,
   P!ResumeSelf, P!ResumeCall, P!ResumeReturn

LEMMA SystemEffect ==
  ASSUME P!ProcExit \/ P!Child
  PROVE  tpc' = tpc
BY DEF P!ProcExit, P!Child, P!ChildFails, P!ChildStart, P!ChildLoad,
   P!ChildPoll, P!ChildOpenThread, P!ChildAnswer, P!ChildWake,
   P!ChildSeesReset, P!ChildStop, P!ChildRelease, P!SuspendOne, P!ResumeOne,
   P!parentVars

(* Every step is a step of the suspender, or leaves it alone.              *)
LEMMA SuspInvPreserved ==
  ASSUME WatchInv, [Next]_watchVars
  PROVE  P!SuspInv'
<1>1. ASSUME NEW t \in Threads, P!Runs(t), Dies(t) PROVE P!ProcExit
  BY <1>1 DEF Dies, P!ProcExit, P!Runs, P!parentVars, P!childVars
<1>2. ASSUME NEW t \in Threads, FaultAsserts(t) \/ TrapAsserts(t) \/ TrapUnhandled(t)
      PROVE  P!ProcExit
  BY <1>1, <1>2 DEF FaultAsserts, TrapAsserts, TrapUnhandled, At
<1>3. Accessors \subseteq Threads
  BY WatcherAssumption
<1>4. ASSUME NEW t \in Accessors, Handler(t)
      PROVE  P!ProcExit \/ P!SuspendSelf(t) \/ P!ResumeSelf(t) \/ UNCHANGED suspVars
  BY <1>2, <1>3, <1>4
  DEF Handler, FaultChecked, FaultClaims, FaultSuspends, FaultOpens,
      FaultCopies, Step, TrapChecked, TrapCopies, TrapCloses, TrapResumes,
      TrapReleases
<1>5. ASSUME NEW t \in Accessors, NEW write \in BOOLEAN, Access(t, write)
      PROVE  UNCHANGED suspVars
  BY <1>5 DEF Access
<1>6. ASSUME NEW t \in Threads, WriteImpl(t) \/ OtherWatcher(t)
      PROVE  P!SuspendSelf(t) \/ P!ResumeSelf(t) \/ UNCHANGED suspVars
  BY <1>6 DEF WriteImpl, OtherWatcher
<1>7. \/ P!Child \/ P!ProcExit
      \/ \E t \in Threads : P!SuspendSelf(t) \/ P!ResumeSelf(t)
      \/ UNCHANGED suspVars
  BY <1>3, <1>4, <1>5, <1>6 DEF Next, System, watchVars
<1>8. QED
  BY <1>7, SuspenderPreserves DEF WatchInv

-----------------------------------------------------------------------------
(* The handler of the access violation preserves the invariant.            *)
LEMMA FaultPreserves ==
  ASSUME WatchInv, P!SuspInv', NEW t \in Accessors,
         \/ FaultAsserts(t) \/ FaultChecked(t) \/ FaultClaims(t)
         \/ FaultSuspends(t) \/ FaultOpens(t) \/ FaultCopies(t)
  PROVE  WatchInv'
<1>0. t \in Threads /\ P!TypeOK' /\ t # NoTid /\ NoTid \notin Accessors
  BY WatcherAssumption DEF P!SuspInv
<1> USE <1>0, WatcherAssumption
    DEF WatchInv, TypeOK, StagesMatch, PageMatches, InUseIsLatest, LoneAccess,
        Inside, Opened, Claimed, Stages, Goes, At, hist, statics, memory
<1>1. CASE FaultAsserts(t)
  BY <1>1 DEF FaultAsserts, Dies
<1>2. CASE FaultChecked(t)
  BY <1>2 DEF FaultChecked, suspVars
<1>3. CASE FaultClaims(t)
  BY <1>3 DEF FaultClaims, suspVars
<1>4. CASE FaultSuspends(t)
  BY <1>4, CallEffect DEF FaultSuspends, P!TypeOK
<1>5. CASE FaultOpens(t)
  BY <1>5 DEF FaultOpens, suspVars
<1>6. CASE FaultCopies(t)
  BY <1>6, OneInside DEF FaultCopies, suspVars
<1>7. QED
  BY <1>1, <1>2, <1>3, <1>4, <1>5, <1>6

(* The handler of the single-step trap preserves it.                       *)
LEMMA TrapPreserves ==
  ASSUME WatchInv, P!SuspInv', NEW t \in Accessors,
         \/ TrapChecked(t) \/ TrapAsserts(t) \/ TrapUnhandled(t)
         \/ TrapCopies(t) \/ TrapCloses(t) \/ TrapResumes(t) \/ TrapReleases(t)
  PROVE  WatchInv'
<1>0. t \in Threads /\ P!TypeOK' /\ t # NoTid /\ NoTid \notin Accessors
  BY WatcherAssumption DEF P!SuspInv
<1> USE <1>0, WatcherAssumption
    DEF WatchInv, TypeOK, StagesMatch, PageMatches, InUseIsLatest, LoneAccess,
        Inside, Opened, Claimed, Stages, Goes, At, hist, statics, memory
<1>1. CASE TrapChecked(t)
  BY <1>1 DEF TrapChecked, suspVars
<1>2. CASE TrapAsserts(t)
  BY <1>2 DEF TrapAsserts, Dies
<1>3. CASE TrapUnhandled(t)
  BY <1>3 DEF TrapUnhandled, Dies
<1>4. CASE TrapCopies(t)
  BY <1>4, OneInside DEF TrapCopies, suspVars
<1>5. CASE TrapCloses(t)
  BY <1>5, OneInside DEF TrapCloses, suspVars
<1>6. CASE TrapResumes(t)
  BY <1>6, CallEffect DEF TrapResumes, P!TypeOK
<1>7. CASE TrapReleases(t)
  BY <1>7 DEF TrapReleases, suspVars
<1>8. QED
  BY <1>1, <1>2, <1>3, <1>4, <1>5, <1>6, <1>7

(* An instruction of the watched code preserves it: it runs on the closed  *)
(* page and faults, or it is the one the page was opened for.              *)
LEMMA InstructionPreserves ==
  ASSUME WatchInv, P!SuspInv', NEW t \in Accessors,
         Step(t) \/ \E write \in BOOLEAN : Access(t, write)
  PROVE  WatchInv'
<1>0. t \in Threads /\ P!TypeOK' /\ t # NoTid /\ NoTid \notin Accessors
  BY WatcherAssumption DEF P!SuspInv
<1> USE <1>0, WatcherAssumption
    DEF WatchInv, TypeOK, StagesMatch, PageMatches, InUseIsLatest, LoneAccess,
        Inside, Opened, Claimed, Stages, Goes, At, hist, statics, memory
<1>1. CASE Step(t)
  <2>1. open /\ tf[t]
    BY <1>1 DEF Step
  <2>2. QED
    BY <1>1, <2>1, OneInside DEF Step, Touch, suspVars
<1>2. ASSUME NEW write \in BOOLEAN, Access(t, write) PROVE WatchInv'
  <2>1. ~open
    BY <1>2, OneInside DEF Access
  <2>2. /\ stage[t] = "code" /\ stage' = [stage EXCEPT ![t] = "entry"]
        /\ UNCHANGED <<tpc, open, tf, unseen, threadId, redir, impl, latest,
                       readBad, asserted, unhandled>>
    BY <1>2, <2>1 DEF Access, suspVars
  <2>3. TypeOK'
    BY <1>2, <2>1 DEF Access, suspVars
  <2>4. StagesMatch' /\ PageMatches' /\ InUseIsLatest'
    BY <2>2
  <2>5. LoneAccess'
    <3>1. overlapped' <=> overlapped \/ \E u \in Accessors \ {t} : stage[u] # "code"
      BY <1>2 DEF Access
    <3>2. QED
      BY <2>2, <3>1
  <2>6. QED
    BY <2>3, <2>4, <2>5
<1>3. QED
  BY <1>1, <1>2

(* The other threads, the child and the end of the process preserve it.    *)
LEMMA OthersPreserve ==
  ASSUME WatchInv, P!SuspInv',
         \/ System \/ UNCHANGED watchVars
         \/ \E t \in Threads \ Accessors : WriteImpl(t) \/ OtherWatcher(t)
  PROVE  WatchInv'
<1>0. P!TypeOK' /\ Accessors \subseteq Threads
  BY WatcherAssumption DEF P!SuspInv
<1> USE <1>0
    DEF WatchInv, TypeOK, StagesMatch, PageMatches, InUseIsLatest, LoneAccess,
        Inside, Opened, Claimed, Stages, Goes, At, hist, statics, memory
<1>1. CASE System \/ UNCHANGED watchVars
  BY <1>1, SystemEffect DEF System, watchVars, suspVars
<1>2. ASSUME NEW t \in Threads \ Accessors, WriteImpl(t) PROVE WatchInv'
  <2>1. \A u \in Accessors : stage[u] \notin Inside
    BY <1>2, OneInside DEF WriteImpl
  <2>2. QED
    BY <1>2, <2>1 DEF WriteImpl, suspVars
<1>3. ASSUME NEW t \in Threads \ Accessors, OtherWatcher(t) PROVE WatchInv'
  BY <1>3, CallEffect DEF OtherWatcher, P!TypeOK
<1>4. QED
  BY <1>1, <1>2, <1>3

-----------------------------------------------------------------------------
(* The watcher's inductive invariant, with the suspender's.                *)
THEOREM WatchInvariant == Spec => []WatchInv
<1>1. Init => WatchInv
  BY WatcherAssumption, SuspenderStarts
  DEF Init, WatchInv, TypeOK, StagesMatch, PageMatches, InUseIsLatest,
      LoneAccess, Inside, Opened, Claimed, Stages, P!SuspInv, P!SuspInit
<1>2. WatchInv /\ [Next]_watchVars => WatchInv'
  <2> SUFFICES ASSUME WatchInv, [Next]_watchVars PROVE WatchInv'
    OBVIOUS
  <2>1. P!SuspInv'
    BY SuspInvPreserved
  <2>2. QED
    BY <2>1, FaultPreserves, TrapPreserves, InstructionPreserves, OthersPreserve
    DEF Next, Handler
<1>3. QED
  BY <1>1, <1>2, PTL DEF Spec

(* The variables stay in the ranges of the code's types.                   *)
THEOREM TypeCorrect == Spec => []TypeOK
BY WatchInvariant, PTL DEF WatchInv

(* No access slips through while the page is open for another one.         *)
THEOREM OpenIsExclusiveHolds == Spec => []OpenIsExclusive
<1>1. WatchInv => OpenIsExclusive
  BY OneInside, WatcherAssumption
  DEF WatchInv, StagesMatch, PageMatches, Inside, Opened, OpenIsExclusive
<1>2. QED
  BY <1>1, WatchInvariant, PTL

(* No update is lost between the variable and its copy.                    *)
THEOREM CoherentHolds == Spec => []Coherent
<1>1. WatchInv => Coherent
  BY DEF WatchInv, InUseIsLatest, Coherent
<1>2. QED
  BY <1>1, WatchInvariant, PTL

(* The handler's assertions fail only if two threads are in it at once.    *)
THEOREM FailureNeedsOverlapHolds == Spec => []FailureNeedsOverlap
<1>1. WatchInv => FailureNeedsOverlap
  BY DEF WatchInv, LoneAccess, PageMatches, FailureNeedsOverlap
<1>2. QED
  BY <1>1, WatchInvariant, PTL

=============================================================================
