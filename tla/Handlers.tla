------------------------------ MODULE Handlers ------------------------------
(***************************************************************************)
(* src/DbgVarWatcher.h and src/FunctionCallWatcher.cpp in one process: two *)
(* vectored handlers that both want EXCEPTION_SINGLE_STEP, called in the   *)
(* order of their registration until one of them takes the exception.      *)
(*                                                                         *)
(* One thread, which uses both: its code accesses a watched variable (the  *)
(* instruction may be a jump through it) and calls watched functions, and  *)
(* so does the callback of the variable.  An invocation of                 *)
(* DbgVarWatcher::ExceptionHandler is a frame; an exception inside one     *)
(* puts another on top.  A memcpy is one instruction.                      *)
(***************************************************************************)
EXTENDS FunctionCallWatcher, Sequences, SequencesExt

CONSTANTS
  Values,     \* values of the watched variable
  MaxCalls    \* bound: calls of functions from callbacks

ASSUME HandlersAssumption == MaxCalls \in Nat

VARIABLES
  first,      \* which handler is called first: "var" or "call"
  inAccess,   \* threadId # 0
  impl,       \* the variable
  redir,      \* DbgVarWatcher::Redir, its copy
  open,       \* the page of redir: PAGE_READWRITE, or else PAGE_NOACCESS
  tf,         \* the trap flag of the code that runs
  frames,     \* ExceptionHandler's invocations, innermost last
  acc,        \* the instruction the thread's code is at, or NoAccess
  latest,     \* history: the value last written
  stale,      \* history: an instruction read a value that was not the latest
  calls       \* history: calls callbacks made

static       == <<first, inAccess>>
memory       == <<impl, redir, open>>
hist         == <<latest, stale, calls>>
varVars      == <<static, memory, tf, frames, acc, hist>>
handlersVars == <<callVars, varVars>>

NoAccess == [write |-> FALSE, to |-> Null]

HandlersInit ==
  /\ CallInit
  /\ first \in {"var", "call"}
  /\ inAccess = FALSE
  /\ impl \in Values /\ redir \in Values
  /\ open = FALSE
  /\ tf = FALSE
  /\ frames = <<>>
  /\ acc = NoAccess
  /\ latest = impl
  /\ stale = FALSE
  /\ calls = 0

(* The phase the innermost invocation is in.                               *)
In(phase) == Runs /\ eip = Caller /\ frames # <<>> /\ Last(frames).phase = phase

Goes(phase) == frames' = [frames EXCEPT ![Len(frames)].phase = phase]

(* An invocation starts in its callback; at is where its thread goes on.   *)
Push(phase, at) == frames' = Append(frames, [phase |-> phase, at |-> at])
Pop == frames' = Front(frames)

-----------------------------------------------------------------------------
(* The thread's code, outside the handlers.                                *)
InCode == frames = <<>> /\ acc = NoAccess

(* It calls a function, sets, installs and removes redirections, or writes *)
(* the variable directly.                                                  *)
CodeCalls ==
  /\ InCode
  /\ CallNext \/ CallContext \/ Return \/ \E f \in Targets : Call(f)
  /\ UNCHANGED varVars

CodeWrites ==
  /\ InCode /\ Calling
  /\ impl' \in Values
  /\ latest' = impl'
  /\ UNCHANGED <<callVars, static, redir, open, tf, frames, acc, stale, calls>>

(* It comes to an instruction that reads or writes the watched variable,   *)
(* or jumps to a function whose address it reads there.                    *)
Access(write, to) ==
  /\ InCode /\ Calling
  /\ write => to = Caller
  /\ acc' = [write |-> write, to |-> to]
  /\ UNCHANGED <<callVars, static, memory, tf, frames, hist>>

(* An access violation on the page: during an access only a single step is *)
(* expected; else an access begins, with its callback.  The handler itself *)
(* runs without the trap flag.                                             *)
Fault ==
  IF inAccess THEN Fails("code") /\ UNCHANGED varVars ELSE
    /\ inAccess' = TRUE
    /\ open' = TRUE
    /\ Push("before", Caller)
    /\ tf' = FALSE
    /\ UNCHANGED <<callVars, first, impl, redir, acc, hist>>

(* The next instruction is to, or the exception of the single step is due. *)
Stepped(to) ==
  IF tf
  THEN /\ trap' = "step" /\ eip' = to
       /\ UNCHANGED <<impls, tables, debugRegs, opVars, failed>>
  ELSE /\ Enter(to)
       /\ UNCHANGED <<impls, tables, dr, dr7, opVars, failed>>

(* The instruction at acc is executed, or faults.                          *)
Instruction ==
  /\ Runs /\ frames = <<>> /\ acc # NoAccess
  /\ IF ~open THEN Fault ELSE
       /\ Stepped(acc.to)
       /\ IF acc.write
          THEN redir' \in Values /\ latest' = redir' /\ UNCHANGED stale
          ELSE stale' = (stale \/ redir # latest) /\ UNCHANGED <<redir, latest>>
       /\ acc' = NoAccess
       /\ UNCHANGED <<static, impl, open, tf, frames, calls>>

-----------------------------------------------------------------------------
(* The callback calls a function, which returns, and returns itself.       *)
CallbackCalls(f) ==
  /\ In("before") \/ In("after")
  /\ calls < MaxCalls
  /\ Call(f)
  /\ calls' = calls + 1
  /\ UNCHANGED <<static, memory, tf, frames, acc, latest, stale>>

CallbackGoesOn ==
  /\ frames # <<>> /\ Return
  /\ UNCHANGED varVars

CallbackReturns ==
  /\ In("before") \/ In("after")
  /\ Goes(IF Last(frames).phase = "before" THEN "copy" ELSE "copyback")
  /\ UNCHANGED <<callVars, static, memory, tf, acc, hist>>

(* Mutant: the variable is not copied in.                                  *)
CopiesNothing ==
  /\ In("copy")
  /\ Goes("continue")
  /\ UNCHANGED <<callVars, static, memory, tf, acc, hist>>

(* memcpy(&Redir, Impl): like any instruction it faults on a closed page.  *)
Copies ==
  /\ In("copy")
  /\ IF ~open THEN Fault ELSE
       /\ Stepped(Caller)
       /\ redir' = impl
       /\ Goes("continue")
       /\ UNCHANGED <<static, impl, open, tf, acc, hist>>

(* The handler of the access violation asks for a single step and returns. *)
Continues ==
  /\ In("continue")
  /\ tf' = TRUE
  /\ Pop
  /\ UNCHANGED <<callVars, static, memory, acc, hist>>

(* memcpy(Impl, &Redir)                                                    *)
CopiesBack ==
  /\ In("copyback")
  /\ IF ~open THEN Fault ELSE
       /\ Stepped(Caller)
       /\ impl' = redir
       /\ Goes("close")
       /\ UNCHANGED <<static, redir, open, tf, acc, hist>>

(* The handler of the single step closes the page, resumes the others and  *)
(* returns to where the exception came from.                               *)
Closes ==
  /\ In("close")
  /\ open' = FALSE
  /\ inAccess' = FALSE
  /\ Enter(Last(frames).at)
  /\ Pop
  /\ UNCHANGED <<impls, tables, dr, dr7, opVars, failed, first, impl, redir, tf,
                 acc, hist>>

-----------------------------------------------------------------------------
Pending == failed = "no" /\ trap # "no"

(* DbgVarWatcher's handler takes any single step while threadId is set.    *)
VarTakes ==
  /\ Pending /\ inAccess
  /\ first = "var" \/ ~Watching(eip)
  /\ tf' = FALSE
  /\ Push("after", eip)
  /\ eip' = Caller /\ trap' = "no"
  /\ UNCHANGED <<impls, tables, debugRegs, opVars, failed, static, memory,
                 acc, hist>>

(* FunctionCallWatcher's handler takes one at a watched function.          *)
CallTakes ==
  /\ Pending /\ Watching(eip)
  /\ first = "call" \/ ~inAccess
  /\ HWBreakPointHandler
  /\ UNCHANGED varVars

(* Neither takes it.                                                       *)
Unhandled ==
  /\ Pending /\ ~inAccess /\ ~Watching(eip)
  /\ Fails("unhandled")
  /\ UNCHANGED varVars

HandlersNext ==
  \/ CodeCalls \/ CodeWrites
  \/ \E write \in BOOLEAN, to \in Targets \cup {Caller} : Access(write, to)
  \/ Instruction
  \/ \E f \in Targets : CallbackCalls(f)
  \/ CallbackGoesOn \/ CallbackReturns
  \/ Copies \/ Continues \/ CopiesBack \/ Closes
  \/ VarTakes \/ CallTakes \/ Unhandled
  \/ Debugger /\ UNCHANGED varVars

HandlersSpec == HandlersInit /\ [][HandlersNext]_handlersVars

-----------------------------------------------------------------------------
(* The variables range over what the code's types can hold.                *)
TypeOK ==
  /\ CallTypeOK
  /\ first \in {"var", "call"}
  /\ {inAccess, open, tf, stale} \subseteq BOOLEAN
  /\ {impl, redir, latest} \subseteq Values
  /\ frames \in Seq([phase : {"before", "copy", "continue", "after",
                              "copyback", "close"},
                     at : Targets \cup {Caller}])
  /\ acc \in [write : BOOLEAN, to : Targets \cup {Null, Caller}]
  /\ calls \in 0 .. MaxCalls

(* The status bit of DR6 is set wherever the handler looks for it ("check  *)
(* if dr6 is valid", FunctionCallWatcher.cpp:111), unless the handler of   *)
(* the functions is the first and meets the single step of an access that  *)
(* jumped to a watched function.                                           *)
StatusIsValid ==
  failed = "dr6" => first = "call" /\ trap = "step" /\ inAccess

(* An access reads the latest value and what it writes stays, and its two  *)
(* exceptions are told from those of the functions its callback calls,     *)
(* unless the handler of the variable is the first: it takes the           *)
(* breakpoint of a call from the callback for the end of the access.       *)
CallsKeepVariable ==
  first = "call" \/ calls = 0 =>
    /\ ~stale /\ failed # "code"
    /\ Len(frames) <= 1
    /\ frames = <<>> /\ ~inAccess => impl = latest

=============================================================================
