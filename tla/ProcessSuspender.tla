-------------------------- MODULE ProcessSuspender --------------------------
(***************************************************************************)
(* src/ProcessSuspenderParent.cpp, src/ProcessSuspenderChild.cpp and their *)
(* headers: a thread that calls SuspendSelf has every other thread of its  *)
(* process suspended until it calls ResumeSelf.  The suspending is done by *)
(* a child process; parent and child talk through two atomics in a shared  *)
(* section, tid (the thread that asks) and suspend (the answer).  The      *)
(* first call of SusPender() makes the section and starts the child.       *)
(*                                                                         *)
(* One action per atomic access or system call.  The busy waits of the     *)
(* code are guards.  NtSuspendProcess and NtResumeProcess (external) walk  *)
(* over the threads one at a time while the others run.  A thread runs     *)
(* while its suspend count is 0 and the process is alive; the process may  *)
(* end at any moment, and a system call of the child may fail at any time, *)
(* which ends the child where it is.                                       *)
(***************************************************************************)
EXTENDS Integers

CONSTANTS
  Threads,   \* thread identifiers of the parent process
  NoTid      \* 0, which identifies no thread

ASSUME SuspenderAssumption == NoTid \notin Threads

VARIABLES
  tid,       \* area.tid
  suspend,   \* area.suspend
  tpc,       \* where each thread is in SuspendSelf, between the calls, or
             \* in ResumeSelf
  count,     \* suspend count of each thread (kernel)
  alive,     \* the parent process is running
  cpc,       \* where the child is in Run; "none" before it is started
  ctid,      \* Run's local copy of tid
  todo       \* threads NtSuspendProcess / NtResumeProcess has yet to visit

parentVars == <<tid, suspend, tpc>>
childVars  == <<cpc, ctid, todo>>
suspVars   == <<tid, suspend, tpc, count, alive, cpc, ctid, todo>>

Runs(t) == alive /\ count[t] = 0

SuspInit ==
  /\ tid = NoTid
  /\ suspend = FALSE
  /\ tpc = [t \in Threads |-> "out"]
  /\ count = [t \in Threads |-> 0]
  /\ alive = TRUE
  /\ cpc = "none"
  /\ ctid = NoTid
  /\ todo = {}

-----------------------------------------------------------------------------
(* SusPender().SuspendSelf() is called.  The first call constructs the     *)
(* static ProcSuspenderParent, calls of other threads wait for that, and a *)
(* constructor that throws leaves it to the next call.                     *)
SuspendCall(t) ==
  /\ Runs(t) /\ tpc[t] = "out"
  /\ tpc' = [tpc EXCEPT ![t] = "cas"]
  /\ cpc' = IF cpc = "none" THEN "start" ELSE cpc
  /\ UNCHANGED <<tid, suspend, count, alive, ctid, todo>>

(* Mutant: a plain store in the place of the compare-and-swap.             *)
SuspendStore(t) ==
  /\ Runs(t) /\ tpc[t] = "cas"
  /\ tid' = t
  /\ tpc' = [tpc EXCEPT ![t] = "wait"]
  /\ UNCHANGED <<suspend, count, alive, childVars>>

(* Its first loop ends: the exchange found tid = 0.                        *)
SuspendCas(t) ==
  /\ Runs(t) /\ tpc[t] = "cas"
  /\ tid = NoTid
  /\ tid' = t
  /\ tpc' = [tpc EXCEPT ![t] = "wait"]
  /\ UNCHANGED <<suspend, count, alive, childVars>>

(* Mutant: the second loop is missing.                                     *)
SuspendReturnsAtOnce(t) ==
  /\ Runs(t) /\ tpc[t] = "wait"
  /\ tpc' = [tpc EXCEPT ![t] = "in"]
  /\ UNCHANGED <<tid, suspend, count, alive, childVars>>

(* Its second loop ends: the child has answered.                           *)
SuspendReturn(t) ==
  /\ Runs(t) /\ tpc[t] = "wait"
  /\ suspend
  /\ tpc' = [tpc EXCEPT ![t] = "in"]
  /\ UNCHANGED <<tid, suspend, count, alive, childVars>>

(* ResumeSelf is called and stores suspend.                                *)
ResumeCall(t) ==
  /\ Runs(t) /\ tpc[t] = "in"
  /\ suspend' = FALSE
  /\ tpc' = [tpc EXCEPT ![t] = "leave"]
  /\ UNCHANGED <<tid, count, alive, childVars>>

(* Its loop ends: tid is no longer this thread.                            *)
ResumeReturn(t) ==
  /\ Runs(t) /\ tpc[t] = "leave"
  /\ tid # t
  /\ tpc' = [tpc EXCEPT ![t] = "out"]
  /\ UNCHANGED <<tid, suspend, count, alive, childVars>>

ProcExit ==
  /\ alive
  /\ alive' = FALSE
  /\ UNCHANGED <<parentVars, count, childVars>>

-----------------------------------------------------------------------------
ChildGoes(from, to) == cpc = from /\ cpc' = to

(* Any EH_ call throws when its system call fails, and nothing catches it. *)
(* The walk of a call that fails may have got anywhere.                    *)
ChildFails ==
  /\ cpc \in {"start", "open", "suspend", "wake", "stop", "resume", "poll"}
  /\ cpc' = "failed"
  /\ UNCHANGED <<parentVars, count, alive, ctid, todo>>

(* The constructor opens process and section, and Run begins.              *)
ChildStart ==
  /\ alive /\ ChildGoes("start", "load")
  /\ UNCHANGED <<parentVars, count, alive, ctid, todo>>

(* tid is loaded: somebody asks, or nobody does.                           *)
ChildLoad ==
  /\ ChildGoes("load", IF tid = NoTid THEN "poll" ELSE "open")
  /\ ctid' = tid
  /\ UNCHANGED <<parentVars, count, alive, todo>>

(* Mutant: the end of the parent is not noticed.                           *)
ChildPollsOn ==
  /\ ChildGoes("poll", "load")
  /\ UNCHANGED <<parentVars, count, alive, ctid, todo>>

(* EH_WaitForSingleObject(proc, 1): time-out, or the parent has ended.     *)
ChildPoll ==
  /\ ChildGoes("poll", IF alive THEN "load" ELSE "stopped")
  /\ UNCHANGED <<parentVars, count, alive, ctid, todo>>

(* EH_OpenThread; NtSuspendProcess starts its walk.                        *)
ChildOpenThread ==
  /\ ChildGoes("open", "suspend")
  /\ todo' = Threads
  /\ UNCHANGED <<parentVars, count, alive, ctid>>

SuspendOne(t) ==
  /\ cpc = "suspend" /\ t \in todo
  /\ todo' = todo \ {t}
  /\ count' = [count EXCEPT ![t] = @ + 1]
  /\ UNCHANGED <<parentVars, alive, cpc, ctid>>

(* Mutant: the answer is given before NtSuspendProcess has returned.       *)
ChildAnswersEarly ==
  /\ cpc = "suspend"
  /\ suspend' = TRUE
  /\ cpc' = IF todo = {} THEN "wake" ELSE cpc
  /\ UNCHANGED <<tid, tpc, count, alive, ctid, todo>>

(* NtSuspendProcess has returned: answer.                                  *)
ChildAnswer ==
  /\ todo = {} /\ ChildGoes("suspend", "wake")
  /\ suspend' = TRUE
  /\ UNCHANGED <<tid, tpc, count, alive, ctid, todo>>

Decrement(n) == IF n > 0 THEN n - 1 ELSE 0

(* Mutant: ResumeThread is missing.                                        *)
ChildWakesNobody ==
  /\ ChildGoes("wake", "hold")
  /\ UNCHANGED <<parentVars, count, alive, ctid, todo>>

(* EH_ResumeThread of the one that asked.                                  *)
ChildWake ==
  /\ ChildGoes("wake", "hold")
  /\ count' = [count EXCEPT ![ctid] = Decrement(@)]
  /\ UNCHANGED <<parentVars, alive, ctid, todo>>

(* The polling loop sees suspend reset.                                    *)
ChildSeesReset ==
  /\ ~suspend /\ ChildGoes("hold", "stop")
  /\ UNCHANGED <<parentVars, count, alive, ctid, todo>>

(* Mutant: NtResumeProcess is missing.                                     *)
ChildStopsOnly ==
  /\ ChildGoes("stop", "resume")
  /\ count' = [count EXCEPT ![ctid] = @ + 1]
  /\ UNCHANGED <<parentVars, alive, ctid, todo>>

(* EH_SuspendThread; NtResumeProcess starts its walk.                      *)
ChildStop ==
  /\ ChildGoes("stop", "resume")
  /\ count' = [count EXCEPT ![ctid] = @ + 1]
  /\ todo' = Threads
  /\ UNCHANGED <<parentVars, alive, ctid>>

ResumeOne(t) ==
  /\ cpc = "resume" /\ t \in todo
  /\ todo' = todo \ {t}
  /\ count' = [count EXCEPT ![t] = Decrement(@)]
  /\ UNCHANGED <<parentVars, alive, cpc, ctid>>

(* Mutant: tid is released before NtResumeProcess has returned.            *)
ChildReleasesEarly ==
  /\ ChildGoes("resume", "load")
  /\ tid' = NoTid
  /\ UNCHANGED <<suspend, tpc, count, alive, ctid, todo>>

(* NtResumeProcess has returned: tid is free for the next one.             *)
ChildRelease ==
  /\ todo = {} /\ ChildGoes("resume", "load")
  /\ tid' = NoTid
  /\ UNCHANGED <<suspend, tpc, count, alive, ctid, todo>>

-----------------------------------------------------------------------------
SuspendSelf(t) == SuspendCall(t) \/ SuspendCas(t) \/ SuspendReturn(t)
ResumeSelf(t)  == ResumeCall(t) \/ ResumeReturn(t)

Child ==
  \/ ChildFails \/ ChildStart \/ ChildLoad \/ ChildPoll \/ ChildOpenThread
  \/ ChildAnswer \/ ChildWake \/ ChildSeesReset \/ ChildStop \/ ChildRelease
  \/ \E t \in Threads : SuspendOne(t) \/ ResumeOne(t)

Next == ProcExit \/ Child \/ \E t \in Threads : SuspendSelf(t) \/ ResumeSelf(t)

Spec == SuspInit /\ [][Next]_suspVars

(* The child runs, and so does a thread that is not suspended and has been *)
(* answered.  Nothing obliges a thread to call SuspendSelf or ResumeSelf,  *)
(* and no thread is sure to win the compare-and-swap.                      *)
FairSpec ==
  /\ Spec
  /\ WF_suspVars(Child)
  /\ \A t \in Threads : WF_suspVars(SuspendReturn(t))

-----------------------------------------------------------------------------
(* The variables range over what the code's types can hold, and no thread  *)
(* is ever suspended twice over.                                           *)
TypeOK ==
  /\ tid \in Threads \cup {NoTid}
  /\ suspend \in BOOLEAN
  /\ tpc \in [Threads -> {"out", "cas", "wait", "in", "leave"}]
  /\ count \in [Threads -> 0 .. 1]
  /\ alive \in BOOLEAN
  /\ cpc \in {"none", "start", "load", "poll", "open", "suspend", "wake",
              "hold", "stop", "resume", "stopped", "failed"}
  /\ ctid \in Threads \cup {NoTid}
  /\ todo \subseteq Threads

(* Between the return of SuspendSelf and the call of ResumeSelf a thread   *)
(* has the process to itself: every other thread is suspended.             *)
Exclusive ==
  \A t \in Threads :
    tpc[t] = "in" => \A u \in Threads \ {t} : count[u] > 0

(* When nobody asks, and whenever the child waits for somebody to ask,     *)
(* every thread runs, the one that asked last included: suspends and       *)
(* resumes balance.  Wherever the child failed, threads it left suspended  *)
(* still have tid to tell who had the process.                             *)
Balanced ==
  tid = NoTid \/ cpc \in {"load", "poll"} => \A t \in Threads : count[t] = 0

(* tid names the one thread that is between its exchange in SuspendSelf    *)
(* and the child's release; a thread in ResumeSelf may have been released  *)
(* without having noticed.                                                 *)
TidNamesAsker ==
  \A t \in Threads :
    /\ tpc[t] \in {"wait", "in"} => tid = t
    /\ tid = t => tpc[t] \in {"wait", "in", "leave"}

(* What the child's place in Run says of the two atomics and of the thread *)
(* that asked.                                                             *)
Serving == {"open", "suspend", "wake", "hold", "stop", "resume"}

ChildKnows ==
  /\ cpc \in Serving => tid = ctid /\ ctid \in Threads
  /\ cpc \in {"open", "suspend", "wake"} => tpc[ctid] = "wait"
  /\ cpc = "wake" => suspend
  /\ cpc = "hold" /\ ~suspend => tpc[ctid] = "leave"
  /\ cpc \in {"stop", "resume"} => tpc[ctid] = "leave"
  /\ suspend => cpc \in {"wake", "hold", "failed"}
  /\ cpc = "hold" /\ suspend => tpc[ctid] \in {"wait", "in"}
  /\ cpc \in {"none", "start", "load", "poll"} =>
       \A t \in Threads : tid = t => tpc[t] = "wait"
  /\ cpc = "stopped" => ~alive

(* Which threads are suspended, at each place in Run.                      *)
Counts ==
  \A t \in Threads :
    /\ cpc \in {"none", "start", "load", "poll", "open"} => count[t] = 0
    /\ cpc = "suspend" => count[t] = IF t \in todo THEN 0 ELSE 1
    /\ cpc = "wake" => count[t] = 1
    /\ cpc \in {"hold", "stop"} => count[t] = IF t = ctid THEN 0 ELSE 1
    /\ cpc = "resume" => count[t] = IF t \in todo THEN 1 ELSE 0
    /\ cpc = "failed" /\ suspend => count[t] = 1

(* The inductive invariant behind Exclusive and Balanced.                  *)
SuspInv ==
  TypeOK /\ TidNamesAsker /\ ChildKnows /\ Counts /\ Exclusive /\ Balanced

(* Without a child that works the parent waits for ever.                   *)
Broken == ~alive \/ cpc = "failed"

(* A thread whose exchange succeeded gets the process to itself.           *)
AskerIsServed ==
  \A t \in Threads : (tpc[t] = "wait" ~> tpc[t] = "in" \/ Broken)

(* After ResumeSelf is called the whole process runs again.                *)
ProcessIsResumed ==
  \A t \in Threads :
    tpc[t] = "leave" /\ tid = t ~> (\A u \in Threads : count[u] = 0) \/ Broken

(* When the parent ends, the child ends too, unless it stays in the loop   *)
(* that polls suspend: that loop does not look at the process, and a       *)
(* parent that ended before ResumeSelf leaves suspend set for good.        *)
ChildEnds ==
  ~alive ~> cpc \in {"none", "stopped", "failed"} \/ (cpc = "hold" /\ suspend)

=============================================================================
