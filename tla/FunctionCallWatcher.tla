------------------------ MODULE FunctionCallWatcher -------------------------
(***************************************************************************)
(* src/FunctionCallWatcher.cpp, src/FunctionCallWatcher.h, src/ArchDbg.h:  *)
(* calls of a function are redirected with the hardware breakpoints of the *)
(* thread.  The state of one thread: the tables FunctionWatches and        *)
(* FunctionRedirs (thread local storage), its debug registers, and the     *)
(* FuncRedir classes whose static functions the code calls.                *)
(*                                                                         *)
(* InstallHWExec and UninstallHWExec call GetThreadContext and             *)
(* SetThreadContext, which may be watched themselves; a watched one goes   *)
(* to a redirection that does what it stands for.  A debugger of the       *)
(* process takes and returns registers whenever it likes.                  *)
(***************************************************************************)
EXTENDS Integers

CONSTANTS
  Regs,          \* 0 .. 3 in the code
  Targets,       \* addresses of functions that may be watched
  GetThreadContext, SetThreadContext,   \* the addresses of these two
  Redirs,        \* the FuncRedir classes, each with a Redir of its own
  Foreign,       \* an address a debugger watches for writes
  Null,          \* NULL
  Caller         \* the code that calls

ASSUME WatchAssumption ==
  /\ \E n \in 0 .. 3 : Regs = 0 .. n
  /\ {GetThreadContext, SetThreadContext} \subseteq Targets
  /\ Targets \cap Redirs = {}
  /\ Foreign \notin Targets
  /\ {Null, Caller} \cap (Targets \cup Redirs \cup {Foreign}) = {}
  /\ Null # Caller

VARIABLES
  impls,     \* FuncRedir's Impl, by class
  watches,   \* FunctionWatches
  redirs,    \* FunctionRedirs
  dr,        \* DR0 to DR3
  dr7,       \* the fields L, RW and LEN of DR7, by register
  dr6,       \* the status bits B0 to B3 of DR6
  context,   \* the copy of the three in InstallHWExec or UninstallHWExec
  op,        \* which of the two runs, or NoOp
  eip,       \* where the thread is
  trap,      \* the EXCEPTION_SINGLE_STEP pending at eip: of a breakpoint, of
             \* a single step, or "no"
  failed,    \* what ended the process, or "no"
  asked,     \* history: the target and the class (Null to remove it) of the
             \* call of Install or Uninstall that runs, or NotAsked
  redirected \* history: redirected[f] is the class of the last call of Install
             \* for f that returned, or Null once Uninstall has

tables    == <<watches, redirs>>
debugRegs == <<dr, dr7, dr6>>
history   == <<asked, redirected>>
opVars    == <<op, context, history>>
callVars  == <<impls, tables, debugRegs, opVars, eip, trap, failed>>

HWBP_EXEC == 0
HWBP_LEN1 == 0
HWBP_WRITE == 1
HWBP_LEN4 == 3

(* HWBP_CTRL, what SetHWBreakPointCtrl stores and GetHWBreakPointCtrl      *)
(* reads; { false } leaves RW and LEN zero.                                *)
Ctrl(enable, rw, len) == [ENABLE |-> enable, RW |-> rw, LEN |-> len]
ExecCtrl == Ctrl(TRUE, HWBP_EXEC, HWBP_LEN1)
OffCtrl  == Ctrl(FALSE, 0, 0)

(* GetHWBreakPointStatus and SetHWBreakPointStatus.                        *)
Status(i) == dr6[i]
StatusWith(i, status) == [dr6 EXCEPT ![i] = status]

NotAsked == [target |-> Null, to |-> Null]

NoOp  == [call |-> "none"]
Empty == [dr  |-> [i \in Regs |-> Null], dr7 |-> [i \in Regs |-> OffCtrl],
          dr6 |-> [i \in Regs |-> FALSE]]

CallInit ==
  /\ impls = [h \in Redirs |-> Null]
  /\ watches = [i \in Regs |-> Null]
  /\ redirs = [i \in Regs |-> Null]
  /\ dr = Empty.dr /\ dr7 = Empty.dr7 /\ dr6 = Empty.dr6
  /\ context = Empty
  /\ op = NoOp
  /\ eip = Caller
  /\ trap = "no"
  /\ failed = "no"
  /\ asked = NotAsked
  /\ redirected = [f \in Targets |-> Null]

-----------------------------------------------------------------------------
(* std::find: the first index of x, or none.                               *)
First(i, P(_)) == P(i) /\ \A j \in Regs : j < i => ~P(j)
Watching(f)    == \E i \in Regs : watches[i] = f
FindWatch(i, f) == First(i, LAMBDA j : watches[j] = f)
FindFree(i)     == First(i, LAMBDA j : dr[j] = Null)

Runs  == failed = "no" /\ trap = "no"
Calling == Runs /\ eip = Caller /\ op = NoOp
Fails(why) ==
  /\ failed' = why
  /\ UNCHANGED <<impls, tables, debugRegs, opVars, eip, trap>>

(* FuncRedir::Set and Unset.                                               *)
Set(h, impl) ==
  /\ Calling
  /\ IF impls[h] # Null THEN Fails("set") ELSE
       /\ impls' = [impls EXCEPT ![h] = impl]
       /\ UNCHANGED <<tables, debugRegs, opVars, eip, trap, failed>>

Unset(h) ==
  /\ Calling
  /\ IF impls[h] = Null THEN Fails("unset") ELSE
       /\ impls' = [impls EXCEPT ![h] = Null]
       /\ UNCHANGED <<tables, debugRegs, opVars, eip, trap, failed>>

(* FuncRedir::Install calls InstallHWExec, which checks its target and     *)
(* calls GetThreadContext.                                                 *)
Install(h) ==
  /\ Calling
  /\ IF impls[h] = Null \/ Watching(impls[h])
     THEN Fails("target")
     ELSE /\ op' = [call |-> "get", install |-> TRUE, target |-> impls[h], redir |-> h]
          /\ asked' = [target |-> impls[h], to |-> h]
          /\ UNCHANGED <<impls, tables, debugRegs, context, redirected, eip, trap, failed>>

(* Mutant: the entry of FunctionWatches is not reset.                      *)
UninstallKeepsWatch(h) ==
  /\ Calling
  /\ IF ~Watching(impls[h]) \/ impls[h] = Null
     THEN Fails("target")
     ELSE \E i \in Regs :
            /\ FindWatch(i, impls[h])
            /\ op' = [call |-> "get", install |-> FALSE, target |-> impls[h], ith |-> i]
            /\ asked' = [target |-> impls[h], to |-> Null]
            /\ UNCHANGED <<impls, tables, debugRegs, context, redirected, eip, trap, failed>>

(* FuncRedir::Uninstall calls UninstallHWExec, which resets the table and  *)
(* then calls GetThreadContext.                                            *)
Uninstall(h) ==
  /\ Calling
  /\ IF ~Watching(impls[h]) \/ impls[h] = Null
     THEN Fails("target")
     ELSE \E i \in Regs :
            /\ FindWatch(i, impls[h])
            /\ watches' = [watches EXCEPT ![i] = Null]
            /\ op' = [call |-> "get", install |-> FALSE, target |-> impls[h], ith |-> i]
            /\ asked' = [target |-> impls[h], to |-> Null]
            /\ UNCHANGED <<impls, redirs, debugRegs, context, redirected, eip, trap, failed>>

(* Mutant: FunctionRedirs is not stored.                                   *)
InstallNoRedir ==
  IF \A i \in Regs : dr[i] # Null THEN Fails("exhausted") ELSE
  \E i \in Regs :
    /\ FindFree(i)
    /\ IF watches[i] # Null THEN Fails("sanity") ELSE
         /\ watches' = [watches EXCEPT ![i] = op.target]
         /\ context' = [dr  |-> [dr EXCEPT ![i] = op.target],
                        dr7 |-> [dr7 EXCEPT ![i] = ExecCtrl], dr6 |-> dr6]
         /\ op' = [op EXCEPT !.call = "set"]
         /\ eip' = Caller
         /\ UNCHANGED <<impls, redirs, debugRegs, history, trap, failed>>

(* Mutant: an entry of FunctionRedirs left from before stays.              *)
InstallKeepsRedir ==
  IF \A i \in Regs : dr[i] # Null THEN Fails("exhausted") ELSE
  \E i \in Regs :
    /\ FindFree(i)
    /\ IF watches[i] # Null THEN Fails("sanity") ELSE
         /\ watches' = [watches EXCEPT ![i] = op.target]
         /\ redirs' = [redirs EXCEPT ![i] = IF @ = Null THEN op.redir ELSE @]
         /\ context' = [dr  |-> [dr EXCEPT ![i] = op.target],
                        dr7 |-> [dr7 EXCEPT ![i] = ExecCtrl], dr6 |-> dr6]
         /\ op' = [op EXCEPT !.call = "set"]
         /\ eip' = Caller
         /\ UNCHANGED <<impls, debugRegs, history, trap, failed>>

(* GetThreadContext has returned to InstallHWExec, which takes the first   *)
(* free register, whose table entry must be free as well.                  *)
InstallTakes ==
  IF \A i \in Regs : dr[i] # Null THEN Fails("exhausted") ELSE
  \E i \in Regs :
    /\ FindFree(i)
    /\ IF watches[i] # Null THEN Fails("sanity") ELSE
         /\ watches' = [watches EXCEPT ![i] = op.target]
         /\ redirs' = [redirs EXCEPT ![i] = op.redir]
         /\ context' = [dr  |-> [dr EXCEPT ![i] = op.target],
                        dr7 |-> [dr7 EXCEPT ![i] = ExecCtrl], dr6 |-> dr6]
         /\ op' = [op EXCEPT !.call = "set"]
         /\ eip' = Caller
         /\ UNCHANGED <<impls, debugRegs, history, trap, failed>>

(* Mutant: the register and its control bits are left as they are.         *)
UninstallKeepsRegister ==
  IF dr[op.ith] # op.target THEN Fails("sanity") ELSE
    /\ context' = [dr |-> dr, dr7 |-> dr7, dr6 |-> dr6]
    /\ op' = [op EXCEPT !.call = "set"]
    /\ eip' = Caller
    /\ UNCHANGED <<impls, tables, debugRegs, history, trap, failed>>

(* It has returned to UninstallHWExec.                                     *)
UninstallClears ==
  IF dr[op.ith] # op.target THEN Fails("sanity") ELSE
    /\ context' = [dr  |-> [dr EXCEPT ![op.ith] = Null],
                   dr7 |-> [dr7 EXCEPT ![op.ith] = OffCtrl], dr6 |-> dr6]
    /\ op' = [op EXCEPT !.call = "set"]
    /\ eip' = Caller
    /\ UNCHANGED <<impls, tables, debugRegs, history, trap, failed>>

Returns(call) == Runs /\ eip # Caller /\ op.call = call

GetReturns ==
  /\ Returns("get")
  /\ IF op.install THEN InstallTakes ELSE UninstallClears

(* SetThreadContext has written the copy back, whatever a debugger changed *)
(* meanwhile, and InstallHWExec or UninstallHWExec returns.                *)
SetReturns ==
  /\ Returns("set")
  /\ dr' = context.dr /\ dr7' = context.dr7 /\ dr6' = context.dr6
  /\ op' = NoOp /\ context' = Empty
  /\ redirected' = [redirected EXCEPT ![asked.target] = asked.to]
  /\ asked' = NotAsked
  /\ eip' = Caller
  /\ UNCHANGED <<impls, tables, trap, failed>>

-----------------------------------------------------------------------------
(* The processor (external): an instruction breakpoint stops the thread    *)
(* before the first instruction of f and sets the status bits, which       *)
(* nothing but software clears.                                            *)
Hits(f) == {i \in Regs : dr[i] = f /\ dr7[i] = ExecCtrl}

Enter(f) ==
  /\ eip' = f
  /\ trap' = IF Hits(f) = {} THEN "no" ELSE "breakpoint"
  /\ dr6' = [i \in Regs |-> dr6[i] \/ i \in Hits(f)]

Call(f) ==
  /\ Calling
  /\ Enter(f)
  /\ UNCHANGED <<impls, tables, dr, dr7, opVars, failed>>

(* The two calls that InstallHWExec and UninstallHWExec make.              *)
CallContext ==
  /\ Runs /\ eip = Caller /\ op # NoOp
  /\ Enter(IF op.call = "get" THEN GetThreadContext ELSE SetThreadContext)
  /\ UNCHANGED <<impls, tables, dr, dr7, opVars, failed>>

(* Any other function returns.                                             *)
Return ==
  /\ Returns("none")
  /\ eip' = Caller
  /\ UNCHANGED <<impls, tables, debugRegs, opVars, trap, failed>>

(* Mutant: the status bit is reset before it is looked at.                 *)
HandlerResetsFirst ==
  \E i \in Regs :
    /\ FindWatch(i, eip)
    /\ Fails(IF dr[i] # eip \/ dr7[i] # ExecCtrl THEN "sanity" ELSE "dr6")

(* HWBreakPointHandler finds the entry, checks the registers, resets the   *)
(* status bit and goes on at the redirection.                              *)
HWBreakPointHandler ==
  \E i \in Regs :
    /\ FindWatch(i, eip)
    /\ IF dr[i] # eip \/ dr7[i] # ExecCtrl THEN Fails("sanity")
       ELSE IF ~Status(i) THEN Fails("dr6")
       ELSE /\ dr6' = StatusWith(i, FALSE)
            /\ eip' = redirs[i]
            /\ trap' = "no"
            /\ UNCHANGED <<impls, tables, dr, dr7, opVars, failed>>

(* A debugger takes a free register for a data breakpoint, or returns it.  *)
DebuggerSets(i) ==
  /\ failed = "no" /\ dr[i] = Null
  /\ dr' = [dr EXCEPT ![i] = Foreign]
  /\ dr7' = [dr7 EXCEPT ![i] = Ctrl(TRUE, HWBP_WRITE, HWBP_LEN4)]
  /\ UNCHANGED <<impls, tables, dr6, opVars, eip, trap, failed>>

DebuggerClears(i) ==
  /\ failed = "no" /\ dr[i] = Foreign
  /\ dr' = [dr EXCEPT ![i] = Null]
  /\ dr7' = [dr7 EXCEPT ![i] = OffCtrl]
  /\ UNCHANGED <<impls, tables, dr6, opVars, eip, trap, failed>>

-----------------------------------------------------------------------------
(* What the code does outside any handler.                                 *)
CallNext ==
  \/ \E h \in Redirs :
       Unset(h) \/ Install(h) \/ Uninstall(h) \/ \E f \in Targets : Set(h, f)
  \/ GetReturns \/ SetReturns

Debugger == \E i \in Regs : DebuggerSets(i) \/ DebuggerClears(i)

-----------------------------------------------------------------------------
(* The variables range over what the code's types can hold.                *)
CallTypeOK ==
  /\ impls \in [Redirs -> Targets \cup {Null}]
  /\ watches \in [Regs -> Targets \cup {Null}]
  /\ redirs \in [Regs -> Redirs \cup {Null}]
  /\ dr \in [Regs -> Targets \cup {Null, Foreign}]
  /\ dr7 \in [Regs -> {ExecCtrl, OffCtrl, Ctrl(TRUE, HWBP_WRITE, HWBP_LEN4)}]
  /\ dr6 \in [Regs -> BOOLEAN]
  /\ eip \in Targets \cup Redirs \cup {Caller}
  /\ asked \in [target : Targets \cup {Null}, to : Redirs \cup {Null}]
  /\ redirected \in [Targets -> Redirs \cup {Null}]
  /\ trap \in {"no", "breakpoint", "step"}
  /\ failed \in {"no", "set", "unset", "target", "exhausted", "sanity", "dr6",
                 "unhandled", "code"}

(* InstallHWExec or UninstallHWExec is about to change this register.      *)
Changing(i) == op # NoOp /\ op.target \in {watches[i], dr[i]}

(* The tables and the registers agree, but for the one that is being       *)
(* changed, whatever FuncRedir calls come before, whatever a debugger does *)
(* with the registers it finds free and whatever of its doings is undone   *)
(* by SetThreadContext: none of the checks marked "sanity check" or "check *)
(* if the drx (dr7) is valid" in FunctionCallWatcher.cpp fails.            *)
TablesMatchRegisters ==
  /\ failed # "sanity"
  /\ \A i \in Regs : ~Changing(i) =>
       /\ watches[i] # Null => dr[i] = watches[i] /\ dr7[i] = ExecCtrl
       /\ dr7[i] = ExecCtrl => watches[i] = dr[i]
  /\ \A i, j \in Regs : watches[i] = watches[j] /\ i # j => watches[i] = Null

(* A breakpoint that nobody handles ends the process only when the         *)
(* redirection of GetThreadContext or SetThreadContext itself is being     *)
(* removed: its table entry is gone and UninstallHWExec calls it.          *)
OnlySelfRemovalDies ==
  failed = "unhandled" =>
    /\ op # NoOp /\ ~op.install
    /\ op.target \in {GetThreadContext, SetThreadContext}

(* A call arrives at the redirection that Install was last called with for *)
(* its target, or at the target if none was or Uninstall has removed it,   *)
(* whatever was installed, removed or moved to another register before,    *)
(* whoever calls (the code, a callback of DbgVarWatcher, InstallHWExec     *)
(* itself), and whether it is called or jumped to by the instruction of a  *)
(* watched access.  What is installed is a history of the calls of Install *)
(* and Uninstall, apart from the tables and registers of the handler.      *)
Promise == INSTANCE Redirection WITH
  NotInstalled <- Null,
  installed <- redirected,
  called <- IF trap = "no" THEN Caller ELSE eip,
  at <- IF trap = "no" THEN eip ELSE Caller

ImplementsRedirection ==
  Promise!RedirectionSpec

=============================================================================
