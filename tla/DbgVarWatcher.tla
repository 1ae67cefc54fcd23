--------------------------- MODULE DbgVarWatcher ----------------------------
(***************************************************************************)
(* src/DbgVarWatcher.h: every access to a variable is reported to a        *)
(* callback, before and after.  The watched code uses Redir, a copy of the *)
(* variable Impl on a page nobody may access; each access faults into      *)
(* ExceptionHandler, which suspends the other threads (ProcessSuspender,   *)
(* here P), opens the page, copies Impl to Redir and single-steps the      *)
(* accessing instruction; the trap that follows copies Redir back, closes  *)
(* the page and resumes the others.                                        *)
(*                                                                         *)
(* Accessors run the watched code; the other threads work on Impl itself,  *)
(* as the module that owns the variable does, and use the same suspender   *)
(* for watchers of their own.  One action per memory access or call.       *)
(***************************************************************************)
EXTENDS Integers, FiniteSets

CONSTANTS
  Threads, NoTid,  \* as in ProcessSuspender
  Accessors,       \* threads that access Redir
  Values           \* values of the variable

ASSUME WatcherAssumption ==
  Accessors \subseteq Threads /\ NoTid \notin Threads /\ Values # {}

VARIABLES
  tid, suspend, tpc, count, alive, cpc, ctid, todo,   \* ProcessSuspender
  threadId,    \* static: the thread inside an access, or NoTid
  accessType,  \* static: the access writes
  impl,        \* the variable
  redir,       \* the copy the watched code uses
  open,        \* the page of redir: PAGE_READWRITE, or else PAGE_NOACCESS
  stage,       \* where each thread is in the access or in ExceptionHandler
  tf,          \* each thread's trap flag
  writes,      \* history: the type of the instruction each thread is at
  latest,      \* history: the value last written by anybody
  readBad,     \* history: an instruction read a value that was not the latest
  unseen,      \* history: an access ran without the callback before it
  overlapped,  \* history: two accesses were in the handler at once
  asserted,    \* history: DbgRaiseAssertionFailure was called
  unhandled    \* history: an exception of the watcher found no handler

P == INSTANCE ProcessSuspender

suspVars  == <<tid, suspend, tpc, count, alive, cpc, ctid, todo>>
hist      == <<latest, readBad, unseen, overlapped, asserted, unhandled>>
statics   == <<threadId, accessType>>
memory    == <<impl, redir, open>>
watchVars == <<suspVars, statics, memory, stage, tf, writes, hist>>

Init ==
  /\ P!SuspInit
  /\ threadId = NoTid
  /\ accessType = FALSE
  /\ impl \in Values
  /\ redir \in Values
  /\ open = FALSE
  /\ stage = [t \in Threads |-> "code"]
  /\ tf = [t \in Threads |-> FALSE]
  /\ writes = [t \in Threads |-> FALSE]
  /\ latest = impl
  /\ readBad = FALSE /\ unseen = FALSE /\ overlapped = FALSE
  /\ asserted = FALSE /\ unhandled = FALSE

At(t, from)       == P!Runs(t) /\ stage[t] = from
Goes(t, from, to) == At(t, from) /\ stage' = [stage EXCEPT ![t] = to]

(* The process dies of an exception nobody handles.                        *)
Dies(t) ==
  /\ alive' = FALSE
  /\ UNCHANGED <<tid, suspend, tpc, count, cpc, ctid, todo, statics, memory,
                 stage, tf, writes, latest, readBad, unseen, overlapped>>

-----------------------------------------------------------------------------
(* An instruction writes a value to the open page, or reads one.           *)
Touch(write) ==
  \/ /\ write
     /\ redir' \in Values
     /\ latest' = redir'
     /\ UNCHANGED readBad
  \/ /\ ~write
     /\ readBad' = (readBad \/ redir # latest)
     /\ UNCHANGED <<redir, latest>>

(* An instruction of the watched code: the page is closed and the access   *)
(* violation enters the handler, or the page is open for somebody else and *)
(* the access slips through unreported.                                    *)
Access(t, write) ==
  /\ Goes(t, "code", IF open THEN "code" ELSE "entry")
  /\ writes' = [writes EXCEPT ![t] = write]
  /\ unseen' = (unseen \/ open)
  /\ overlapped' = (overlapped \/ \E u \in Accessors \ {t} : stage[u] # "code")
  /\ IF open THEN Touch(write) ELSE UNCHANGED <<redir, latest, readBad>>
  /\ UNCHANGED <<suspVars, statics, impl, open, tf, asserted, unhandled>>

(* The handler of an access violation finds another access under way.      *)
FaultAsserts(t) ==
  /\ At(t, "entry") /\ threadId # NoTid
  /\ asserted' = TRUE
  /\ Dies(t) /\ UNCHANGED unhandled

(* It finds none: threadId is tested here, stored two statements later.    *)
FaultChecked(t) ==
  /\ threadId = NoTid
  /\ Goes(t, "entry", "claim")
  /\ UNCHANGED <<suspVars, statics, memory, tf, writes, hist>>

FaultClaims(t) ==
  /\ Goes(t, "claim", "suspend")
  /\ accessType' = writes[t]
  /\ threadId' = t
  /\ UNCHANGED <<suspVars, memory, tf, writes, hist>>

FaultSuspends(t) ==
  /\ At(t, "suspend")
  /\ P!SuspendSelf(t)
  /\ stage' = [stage EXCEPT ![t] = IF tpc'[t] = "in" THEN "protect" ELSE @]
  /\ UNCHANGED <<statics, memory, tf, writes, hist>>

FaultOpens(t) ==
  /\ Goes(t, "protect", "copy")
  /\ open' = TRUE
  /\ UNCHANGED <<suspVars, statics, impl, redir, tf, writes, hist>>

(* Mutant: the variable is not copied in.                                  *)
FaultCopiesNothing(t) ==
  /\ Goes(t, "copy", "instr")
  /\ tf' = [tf EXCEPT ![t] = TRUE]
  /\ UNCHANGED <<suspVars, statics, memory, writes, hist>>

(* Callback before, copy in, trap flag set, continue.                      *)
FaultCopies(t) ==
  /\ Goes(t, "copy", "instr")
  /\ redir' = impl
  /\ tf' = [tf EXCEPT ![t] = TRUE]
  /\ UNCHANGED <<suspVars, statics, impl, open, writes, hist>>

(* The instruction runs again and, the trap flag being set, traps behind;  *)
(* should the page have been closed meanwhile, it faults again.            *)
Step(t) ==
  /\ Goes(t, "instr", IF ~open THEN "entry" ELSE IF tf[t] THEN "trap" ELSE "code")
  /\ IF open THEN Touch(writes[t]) ELSE UNCHANGED <<redir, latest, readBad>>
  /\ UNCHANGED <<suspVars, statics, impl, open, tf, writes, unseen, overlapped,
                 asserted, unhandled>>

-----------------------------------------------------------------------------
(* Mutant: the trap flag stays set.                                        *)
TrapKeepsFlag(t) ==
  /\ threadId = t
  /\ Goes(t, "trap", "copyback")
  /\ UNCHANGED <<suspVars, statics, memory, tf, writes, hist>>

(* The handler of the single-step trap: it is this thread's access.        *)
TrapChecked(t) ==
  /\ threadId = t
  /\ Goes(t, "trap", "copyback")
  /\ tf' = [tf EXCEPT ![t] = FALSE]
  /\ UNCHANGED <<suspVars, statics, memory, writes, hist>>

(* It is somebody else's.                                                  *)
TrapAsserts(t) ==
  /\ At(t, "trap") /\ threadId \notin {t, NoTid}
  /\ asserted' = TRUE
  /\ Dies(t) /\ UNCHANGED unhandled

(* It is nobody's: not an access violation, search for another handler.    *)
TrapUnhandled(t) ==
  /\ At(t, "trap") /\ threadId = NoTid
  /\ unhandled' = TRUE
  /\ Dies(t) /\ UNCHANGED asserted

(* Callback after, copy out.                                               *)
TrapCopies(t) ==
  /\ Goes(t, "copyback", "close")
  /\ impl' = redir
  /\ UNCHANGED <<suspVars, statics, redir, open, tf, writes, hist>>

TrapCloses(t) ==
  /\ Goes(t, "close", "resume")
  /\ open' = FALSE
  /\ UNCHANGED <<suspVars, statics, impl, redir, tf, writes, hist>>

TrapResumes(t) ==
  /\ At(t, "resume")
  /\ P!ResumeSelf(t)
  /\ stage' = [stage EXCEPT ![t] = IF tpc'[t] = "out" THEN "release" ELSE @]
  /\ UNCHANGED <<statics, memory, tf, writes, hist>>

(* Mutant: threadId is not reset.                                          *)
TrapKeepsThread(t) ==
  /\ Goes(t, "release", "code")
  /\ UNCHANGED <<suspVars, statics, memory, tf, writes, hist>>

(* threadId is reset only after the other threads run again.               *)
TrapReleases(t) ==
  /\ Goes(t, "release", "code")
  /\ threadId' = NoTid
  /\ UNCHANGED <<suspVars, accessType, memory, tf, writes, hist>>

-----------------------------------------------------------------------------
(* A thread that is no accessor writes the variable itself.                *)
WriteImpl(t) ==
  /\ At(t, "code") /\ tpc[t] \in {"out", "in"}
  /\ impl' \in Values
  /\ latest' = impl'
  /\ UNCHANGED <<suspVars, statics, redir, open, stage, tf, writes, readBad,
                 unseen, overlapped, asserted, unhandled>>

(* It suspends and resumes the others, for another watcher's sake.         *)
OtherWatcher(t) ==
  /\ P!SuspendSelf(t) \/ P!ResumeSelf(t)
  /\ UNCHANGED <<statics, memory, stage, tf, writes, hist>>

System ==
  /\ P!ProcExit \/ P!Child
  /\ UNCHANGED <<statics, memory, stage, tf, writes, hist>>

Handler(t) ==
  \/ FaultAsserts(t) \/ FaultChecked(t) \/ FaultClaims(t) \/ FaultSuspends(t)
  \/ FaultOpens(t) \/ FaultCopies(t) \/ Step(t)
  \/ TrapChecked(t) \/ TrapAsserts(t) \/ TrapUnhandled(t) \/ TrapCopies(t)
  \/ TrapCloses(t) \/ TrapResumes(t) \/ TrapReleases(t)

Next ==
  \/ System
  \/ \E t \in Accessors : Handler(t) \/ \E write \in BOOLEAN : Access(t, write)
  \/ \E t \in Threads \ Accessors : WriteImpl(t) \/ OtherWatcher(t)

Spec == Init /\ [][Next]_watchVars

-----------------------------------------------------------------------------
Stages == {"code", "entry", "claim", "suspend", "protect", "copy", "instr",
           "trap", "copyback", "close", "resume", "release"}

(* The variables range over what the code's types can hold.                *)
TypeOK ==
  /\ P!TypeOK
  /\ threadId \in Accessors \cup {NoTid}
  /\ accessType \in BOOLEAN /\ open \in BOOLEAN
  /\ impl \in Values /\ redir \in Values /\ latest \in Values
  /\ stage \in [Threads -> Stages]
  /\ tf \in [Threads -> BOOLEAN] /\ writes \in [Threads -> BOOLEAN]
  /\ {readBad, unseen, overlapped, asserted, unhandled} \subseteq BOOLEAN

(* While the page is open one thread has the process to itself, so that no *)
(* other access can slip through without its callback, and none does.      *)
OpenIsExclusive ==
  /\ open /\ alive =>
       \E t \in Accessors : \A u \in Threads \ {t} : ~P!Runs(u)
  /\ ~unseen

(* No update is lost between the variable and its copy: an access through  *)
(* Redir reads the value last written by anybody, and what it writes, or   *)
(* what another thread writes to Impl before or after, is never undone by  *)
(* the two copies the handler makes.                                       *)
Coherent ==
  /\ ~readBad
  /\ (\A t \in Accessors : stage[t] \notin {"trap", "copyback"}) => impl = latest

(* The assertions at DbgVarWatcher.h:22-28 hold: an exception that arrives *)
(* during an access is that access's own single-step trap.                 *)
AssertionsHold == ~asserted

(* They fail, and a single-step trap the handler asked for finds threadId  *)
(* reset already, only if two threads were in the handler at once: however *)
(* suspends, other watchers and writes to Impl interleave with it, a lone  *)
(* access gets its own trap, one trap, and leaves no trap flag behind.     *)
FailureNeedsOverlap ==
  \/ overlapped
  \/ /\ ~asserted /\ ~unhandled
     /\ \A t \in Threads : tf[t] => stage[t] \in {"instr", "trap"}

=============================================================================
