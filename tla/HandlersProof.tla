--------------------------- MODULE HandlersProof ---------------------------
(***************************************************************************)
(* Safety of the redirections of functions and of the watched variable in  *)
(* one process, for any registers, functions, FuncRedir classes and values *)
(* and any number of calls from callbacks.                                 *)
(***************************************************************************)
EXTENDS Handlers, SequenceTheorems, TLAPS

WriteCtrl == Ctrl(TRUE, HWBP_WRITE, HWBP_LEN4)

Installing   == op # NoOp /\ op.install
Uninstalling == op # NoOp /\ ~op.install
InstallOps   == [call : {"get", "set"}, install : {TRUE}, target : Targets,
                 redir : Redirs]
UninstallOps == [call : {"get", "set"}, install : {FALSE}, target : Targets,
                 ith : Regs]

(* A set of registers: the control bits tell what the address is.          *)
RegistersOK(r, c) ==
  /\ r \in [Regs -> Targets \cup {Null, Foreign}]
  /\ c \in [Regs -> {ExecCtrl, OffCtrl, WriteCtrl}]
  /\ \A i \in Regs : /\ r[i] \in Targets <=> c[i] = ExecCtrl
                     /\ r[i] = Null <=> c[i] = OffCtrl

(* An entry of FunctionWatches and an address in its register agree.       *)
Agrees(i, r) ==
  /\ watches[i] # Null => r[i] = watches[i]
  /\ r[i] \in Targets => watches[i] = r[i]

OpOK == op \in InstallOps \cup UninstallOps \cup {NoOp}

(* The tables: an entry has one register, and a redirection.               *)
TablesOK ==
  /\ \A i, j \in Regs : watches[i] = watches[j] /\ i # j => watches[i] = Null
  /\ \A i \in Regs : watches[i] # Null \/ dr[i] \in Targets => redirs[i] \in Redirs

(* Tables, registers and the copy, at each place of InstallHWExec and of   *)
(* UninstallHWExec.                                                        *)
Phases ==
  /\ op = NoOp => \A i \in Regs : Agrees(i, dr)
  /\ Installing /\ op.call = "get" =>
       \A i \in Regs : Agrees(i, dr) /\ watches[i] # op.target
  /\ Installing /\ op.call = "set" =>
       \E n \in Regs :
         /\ watches[n] = op.target /\ context.dr[n] = op.target
         /\ redirs[n] = op.redir /\ dr[n] \notin Targets
         /\ \A i \in Regs \ {n} : Agrees(i, dr)
         /\ \A i \in Regs : Agrees(i, context.dr)
  /\ Uninstalling =>
       /\ watches[op.ith] = Null /\ dr[op.ith] = op.target
       /\ \A i \in Regs : watches[i] # op.target
       /\ \A i \in Regs \ {op.ith} : Agrees(i, dr)
       /\ op.call = "set" => /\ context.dr[op.ith] = Null
                             /\ \A i \in Regs : Agrees(i, context.dr)

(* A pending breakpoint is one of a register, whose status bit is set.     *)
BreakpointHits ==
  /\ trap = "breakpoint" => Hits(eip) # {} /\ \A i \in Hits(eip) : dr6[i]
  /\ trap = "step" => op = NoOp /\ eip \in Targets \cup {Caller}
  /\ op # NoOp => eip \in {Caller, GetThreadContext, SetThreadContext} \cup Redirs

FailedOK ==
  /\ failed # "sanity"
  /\ failed = "dr6" => trap = "step"

CallInv ==
  /\ CallTypeOK
  /\ OpOK
  /\ RegistersOK(dr, dr7)
  /\ RegistersOK(context.dr, context.dr7) /\ context.dr6 \in [Regs -> BOOLEAN]
  /\ TablesOK
  /\ Phases
  /\ BreakpointHits
  /\ FailedOK
  /\ OnlySelfRemovalDies

(* The handler of the variable opens and closes the page and says so in    *)
(* threadId.  It asks for a single step only for an access, which has not  *)
(* ended while an invocation on its behalf is before the instruction; the  *)
(* code does not run in between.                                           *)
Phase(n) == frames[n].phase
Frame == [phase : {"before", "copy", "continue", "after", "copyback", "close"},
          at : Targets \cup {Caller}]

AccessOK ==
  /\ TypeOK
  /\ open = inAccess
  /\ acc # NoAccess => acc.to \in Targets \cup {Caller}
  /\ op # NoOp => frames = <<>> /\ acc = NoAccess /\ ~inAccess
  /\ trap = "step" => inAccess
  /\ frames = <<>> /\ inAccess =>
       IF acc = NoAccess THEN trap = "step" ELSE tf /\ trap = "no"
  /\ frames # <<>> /\ Phase(1) \in {"before", "copy", "continue"} => acc # NoAccess
  /\ failed # "code"
  /\ StatusIsValid

(* A status bit is that of the pending breakpoint.                         *)
Statuses ==
  \A i \in Regs : /\ dr6[i] => trap = "breakpoint" /\ i \in Hits(eip)
                  /\ ~context.dr6[i]

(* The handlers tell their exceptions apart: then there is one invocation  *)
(* at a time, and at each place of an access the variable or its copy      *)
(* holds the latest value.                                                 *)
Apart == first = "call" \/ calls = 0

AccessPhases ==
  Apart =>
    /\ ~stale /\ Len(frames) <= 1
    /\ frames = <<>> => IF inAccess THEN redir = latest ELSE impl = latest
    /\ frames # <<>> =>
         /\ inAccess /\ ~tf /\ trap # "step"
         /\ trap = "breakpoint" => first = "call"
         /\ Phase(1) \in {"before", "copy", "close"} => impl = latest
         /\ Phase(1) \in {"continue", "after", "copyback"} => redir = latest
    /\ Statuses

HandlersInv == CallInv /\ AccessOK /\ AccessPhases
-----------------------------------------------------------------------------
LEMMA CtrlsDiffer ==
  /\ ExecCtrl # OffCtrl /\ ExecCtrl # WriteCtrl /\ OffCtrl # WriteCtrl
  /\ WriteCtrl = Ctrl(TRUE, HWBP_WRITE, HWBP_LEN4)
BY DEF ExecCtrl, OffCtrl, WriteCtrl, Ctrl, HWBP_EXEC, HWBP_LEN1, HWBP_WRITE,
   HWBP_LEN4

LEMMA NamesDiffer ==
  /\ Null \notin Targets /\ Null \notin Redirs /\ Null # Foreign
  /\ Caller \notin Targets /\ Caller \notin Redirs /\ Caller # Foreign /\ Caller # Null
  /\ Foreign \notin Targets /\ Targets \cap Redirs = {}
  /\ GetThreadContext \in Targets /\ SetThreadContext \in Targets
BY WatchAssumption

LEMMA FindsWatch ==
  ASSUME NEW i \in Regs, NEW f, FindWatch(i, f)
  PROVE  watches[i] = f
BY DEF FindWatch, First

LEMMA FindsFree ==
  ASSUME NEW i \in Regs, FindFree(i)
  PROVE  dr[i] = Null
BY DEF FindFree, First

(* The fields of op say which of the two runs.                             *)
LEMMA OpCases ==
  ASSUME OpOK
  PROVE  /\ op = NoOp \/ Installing \/ Uninstalling
         /\ Installing => op \in InstallOps
         /\ Uninstalling => op \in UninstallOps
         /\ Installing => ~Uninstalling
         /\ op # NoOp => op.call \in {"get", "set"} /\ op.target \in Targets
BY DEF OpOK, Installing, Uninstalling, InstallOps, UninstallOps, NoOp

(* A function that is hit has one register.                                *)
LEMMA OneHit ==
  ASSUME CallInv, NEW i \in Regs, NEW j \in Regs, dr[i] = dr[j], dr[i] \in Targets
  PROVE  i = j
<1> USE NamesDiffer DEF CallInv, TablesOK, Agrees
<1>1. CASE op = NoOp
  BY <1>1 DEF Phases
<1>2. CASE Installing
  BY <1>2, OpCases DEF Phases, Installing
<1>3. CASE Uninstalling
  BY <1>3 DEF Phases
<1>4. QED
  BY <1>1, <1>2, <1>3, OpCases

LEMMA HitIsTarget ==
  ASSUME CallInv, NEW f, NEW i \in Hits(f)
  PROVE  i \in Regs /\ dr[i] = f /\ dr7[i] = ExecCtrl /\ f \in Targets
BY DEF Hits, CallInv, RegistersOK

(* Wherever an exception is pending the entry of its address is in order.  *)
LEMMA PendingAgrees ==
  ASSUME CallInv, trap # "no", NEW i \in Regs, watches[i] = eip, eip # Null
  PROVE  dr[i] = eip /\ dr7[i] = ExecCtrl
<1> USE NamesDiffer DEF CallInv, TablesOK, Agrees
<1>1. dr[i] = eip
  <2>1. CASE op = NoOp
    BY <2>1 DEF Phases
  <2>2. CASE op # NoOp
    <3>1. PICK j \in Hits(eip) : TRUE
      BY <2>2 DEF BreakpointHits, CallTypeOK
    <3>2. j \in Regs /\ dr[j] = eip /\ eip \in Targets
      BY <3>1, HitIsTarget
    <3>3. CASE Installing
      BY <3>2, <3>3, OpCases DEF Phases, Installing
    <3>4. CASE Uninstalling
      BY <3>2, <3>4 DEF Phases
    <3>5. QED
      BY <2>2, <3>3, <3>4, OpCases
  <2>3. QED
    BY <2>1, <2>2
<1>2. eip \in Targets
  BY <1>1 DEF CallTypeOK, NotAsked
<1>3. QED
  BY <1>1, <1>2 DEF RegistersOK

-----------------------------------------------------------------------------
(* What a step that leaves the tables, the addresses and the copy alone    *)
(* leaves in order.                                                        *)
LEMMA Frozen ==
  ASSUME CallInv, UNCHANGED <<tables, dr, dr7, opVars>>
  PROVE  /\ OpOK' /\ TablesOK' /\ Phases'
         /\ RegistersOK(dr, dr7)'
         /\ RegistersOK(context.dr, context.dr7)' /\ (context.dr6 \in [Regs -> BOOLEAN])'
BY DEF CallInv, OpOK, TablesOK, Phases, RegistersOK, Agrees, Installing, Uninstalling,
   tables, opVars

(* A call: the thread is at f, or has a breakpoint pending there.          *)
LEMMA Enters ==
  ASSUME CallInv, NEW f, Enter(f), f \in Targets \cup Redirs \cup {Caller},
         op # NoOp => f \in {Caller, GetThreadContext, SetThreadContext} \cup Redirs,
         UNCHANGED <<impls, tables, dr, dr7, opVars, failed>>, trap = "no"
  PROVE  CallInv'
<1>1. BreakpointHits'
  BY DEF Enter, Hits, BreakpointHits, opVars, CallInv, CallTypeOK
<1>2. CallTypeOK'
  BY DEF CallInv, CallTypeOK, Enter, tables, opVars, history
<1>3. FailedOK' /\ OnlySelfRemovalDies'
  BY DEF CallInv, FailedOK, OnlySelfRemovalDies, opVars, BreakpointHits, Enter
<1>4. QED
  BY <1>1, <1>2, <1>3, Frozen DEF CallInv

LEMMA Failing ==
  ASSUME CallInv, NEW why \in {"set", "unset", "target", "exhausted", "code"},
         Fails(why)
  PROVE  CallInv'
<1>1. CallTypeOK' /\ BreakpointHits' /\ FailedOK' /\ OnlySelfRemovalDies'
  BY DEF CallInv, CallTypeOK, BreakpointHits, Hits, FailedOK, OnlySelfRemovalDies,
     Fails, tables, debugRegs, opVars, history
<1>2. QED
  BY <1>1, Frozen DEF CallInv, Fails, debugRegs

LEMMA SetsImpl ==
  ASSUME CallInv, NEW h \in Redirs, Unset(h) \/ \E f \in Targets : Set(h, f)
  PROVE  CallInv'
<1>1. CASE \E why \in {"set", "unset"} : Fails(why)
  BY <1>1, Failing
<1>2. CASE ~\E why \in {"set", "unset"} : Fails(why)
  <2>1. /\ \E f \in Targets \cup {Null} : impls' = [impls EXCEPT ![h] = f]
        /\ UNCHANGED <<tables, debugRegs, opVars, eip, trap, failed>>
    BY <1>2 DEF Unset, Set
  <2>2. CallTypeOK' /\ BreakpointHits' /\ FailedOK' /\ OnlySelfRemovalDies'
    BY <2>1 DEF CallInv, CallTypeOK, BreakpointHits, Hits, FailedOK,
       OnlySelfRemovalDies, tables, debugRegs, opVars, history
  <2>3. QED
    BY <2>1, <2>2, Frozen DEF CallInv, debugRegs
<1>3. QED
  BY <1>1, <1>2

LEMMA Installs ==
  ASSUME CallInv, NEW h \in Redirs, Install(h)
  PROVE  CallInv'
<1> USE NamesDiffer
<1>1. CASE Fails("target")
  BY <1>1, Failing
<1>2. CASE ~Fails("target")
  <2>1. /\ impls[h] \in Targets /\ ~Watching(impls[h]) /\ op = NoOp /\ eip = Caller
        /\ trap = "no" /\ failed = "no"
        /\ op' = [call |-> "get", install |-> TRUE, target |-> impls[h], redir |-> h]
        /\ asked' = [target |-> impls[h], to |-> h]
        /\ UNCHANGED <<impls, tables, debugRegs, context, redirected, eip, trap, failed>>
    BY <1>2 DEF Install, Calling, Runs, CallInv, CallTypeOK
  <2>2. op' \in InstallOps /\ Installing' /\ ~Uninstalling' /\ op' # NoOp /\ op.call' = "get"
    BY <2>1 DEF InstallOps, Installing, Uninstalling, NoOp
  <2>3. Phases'
    BY <2>1, <2>2 DEF CallInv, Phases, Agrees, Watching, tables, debugRegs
  <2>4. CallTypeOK' /\ TablesOK' /\ RegistersOK(dr, dr7)'
        /\ RegistersOK(context.dr, context.dr7)' /\ (context.dr6 \in [Regs -> BOOLEAN])'
    BY <2>1 DEF CallInv, CallTypeOK, TablesOK, RegistersOK, tables, debugRegs
  <2>5. BreakpointHits' /\ FailedOK' /\ OnlySelfRemovalDies'
    BY <2>1 DEF CallInv, BreakpointHits, FailedOK, OnlySelfRemovalDies
  <2>6. QED
    BY <2>2, <2>3, <2>4, <2>5 DEF CallInv, OpOK
<1>3. QED
  BY <1>1, <1>2

LEMMA Uninstalls ==
  ASSUME CallInv, NEW h \in Redirs, Uninstall(h)
  PROVE  CallInv'
<1> USE NamesDiffer
<1>1. CASE Fails("target")
  BY <1>1, Failing
<1>2. CASE ~Fails("target")
  <2>0. /\ impls[h] \in Targets /\ op = NoOp /\ eip = Caller
        /\ trap = "no" /\ failed = "no"
    BY <1>2 DEF Uninstall, Calling, Runs, CallInv, CallTypeOK
  <2>1. PICK i \in Regs :
          /\ FindWatch(i, impls[h])
          /\ watches' = [watches EXCEPT ![i] = Null]
          /\ op' = [call |-> "get", install |-> FALSE, target |-> impls[h], ith |-> i]
          /\ asked' = [target |-> impls[h], to |-> Null]
          /\ UNCHANGED <<impls, redirs, debugRegs, context, redirected, eip, trap, failed>>
    BY <1>2 DEF Uninstall
  <2>2. op' \in UninstallOps /\ ~Installing' /\ Uninstalling' /\ op' # NoOp
        /\ op.call' = "get" /\ op.ith' = i /\ op.target' = impls[h]
    BY <2>0, <2>1 DEF UninstallOps, Installing, Uninstalling, NoOp
  <2>3. watches[i] = impls[h]
    BY <2>1, FindsWatch
  <2>4. \A j \in Regs : watches'[j] = IF j = i THEN Null ELSE watches[j]
    BY <2>1 DEF CallInv, CallTypeOK
  <2>5. Phases'
    BY <2>0, <2>1, <2>2, <2>3, <2>4 DEF CallInv, Phases, Agrees, TablesOK, debugRegs
  <2>6. CallTypeOK' /\ RegistersOK(dr, dr7)'
        /\ RegistersOK(context.dr, context.dr7)' /\ (context.dr6 \in [Regs -> BOOLEAN])'
    BY <2>0, <2>1 DEF CallInv, CallTypeOK, RegistersOK, debugRegs
  <2>7. TablesOK'
    BY <2>1, <2>4 DEF CallInv, TablesOK, debugRegs
  <2>8. BreakpointHits' /\ FailedOK' /\ OnlySelfRemovalDies'
    BY <2>0, <2>1 DEF CallInv, BreakpointHits, FailedOK, OnlySelfRemovalDies
  <2>9. QED
    BY <2>2, <2>5, <2>6, <2>7, <2>8 DEF CallInv, OpOK
<1>3. QED
  BY <1>1, <1>2

(* The register that GetThreadContext shows as free has a free entry: the  *)
(* check marked "sanity check" of InstallHWExec does not fail.             *)
LEMMA Takes ==
  ASSUME CallInv, GetReturns, op.install
  PROVE  CallInv'
<1> USE NamesDiffer
<1>1. Installing /\ op.call = "get" /\ op \in InstallOps /\ Runs
  BY OpCases DEF GetReturns, Returns, CallInv, Installing, Uninstalling, NoOp
<1>2. InstallTakes
  BY <1>1 DEF GetReturns
<1>3. CASE Fails("exhausted")
  BY <1>3, Failing
<1>4. CASE ~Fails("exhausted")
  <2>1. PICK i \in Regs :
          /\ FindFree(i)
          /\ IF watches[i] # Null THEN Fails("sanity") ELSE
             /\ watches' = [watches EXCEPT ![i] = op.target]
             /\ redirs' = [redirs EXCEPT ![i] = op.redir]
             /\ context' = [dr  |-> [dr EXCEPT ![i] = op.target],
                            dr7 |-> [dr7 EXCEPT ![i] = ExecCtrl], dr6 |-> dr6]
             /\ op' = [op EXCEPT !.call = "set"]
             /\ eip' = Caller
             /\ UNCHANGED <<impls, debugRegs, history, trap, failed>>
    BY <1>2, <1>4 DEF InstallTakes
  <2>2. dr[i] = Null
    BY <2>1, FindsFree
  <2>3. \A j \in Regs : Agrees(j, dr) /\ watches[j] # op.target
    BY <1>1 DEF CallInv, Phases
  <2>4. watches[i] = Null
    BY <2>2, <2>3 DEF Agrees
  <2>5. /\ watches' = [watches EXCEPT ![i] = op.target]
        /\ redirs' = [redirs EXCEPT ![i] = op.redir]
        /\ context' = [dr  |-> [dr EXCEPT ![i] = op.target],
                       dr7 |-> [dr7 EXCEPT ![i] = ExecCtrl], dr6 |-> dr6]
        /\ op' = [op EXCEPT !.call = "set"]
        /\ eip' = Caller
        /\ dr' = dr /\ dr7' = dr7 /\ dr6' = dr6
        /\ UNCHANGED <<impls, asked, redirected, trap, failed>>
    BY <2>1, <2>4 DEF debugRegs, history
  <2>6. /\ op' \in InstallOps /\ op.call' = "set" /\ op.target' = op.target
        /\ op.redir' = op.redir /\ op.install' /\ op' # NoOp
        /\ op.target \in Targets /\ op.redir \in Redirs
    BY <1>1, <2>5 DEF InstallOps, NoOp
  <2>7. /\ watches \in [Regs -> Targets \cup {Null}] /\ redirs \in [Regs -> Redirs \cup {Null}]
        /\ dr \in [Regs -> Targets \cup {Null, Foreign}]
    BY DEF CallInv, CallTypeOK
  <2>8. /\ \A j \in Regs : /\ watches'[j] = IF j = i THEN op.target ELSE watches[j]
                           /\ redirs'[j] = IF j = i THEN op.redir ELSE redirs[j]
                           /\ context'.dr[j] = IF j = i THEN op.target ELSE dr[j]
    BY <2>5, <2>7
  <2>9. Phases'
    BY <2>2, <2>3, <2>5, <2>6, <2>8 DEF Phases, Agrees, Installing, Uninstalling
  <2>10. TablesOK'
    BY <2>3, <2>5, <2>6, <2>8 DEF CallInv, TablesOK
  <2>11. CallTypeOK' /\ RegistersOK(dr, dr7)'
    BY <2>5, <2>6 DEF CallInv, CallTypeOK, RegistersOK
  <2>12. RegistersOK(context.dr, context.dr7)' /\ (context.dr6 \in [Regs -> BOOLEAN])'
    BY <2>5, <2>6, CtrlsDiffer DEF CallInv, CallTypeOK, RegistersOK
  <2>13. BreakpointHits' /\ FailedOK' /\ OnlySelfRemovalDies'
    BY <1>1, <2>5 DEF CallInv, BreakpointHits, FailedOK, OnlySelfRemovalDies, Runs
  <2>14. QED
    BY <2>6, <2>9, <2>10, <2>11, <2>12, <2>13 DEF CallInv, OpOK
<1>5. QED
  BY <1>3, <1>4

(* The register to be cleared still holds the function: nor does the check *)
(* of UninstallHWExec fail.                                                *)
LEMMA Clears ==
  ASSUME CallInv, GetReturns, ~op.install
  PROVE  CallInv'
<1> USE NamesDiffer
<1>1. Uninstalling /\ op.call = "get" /\ op \in UninstallOps /\ Runs
  BY OpCases DEF GetReturns, Returns, CallInv, Installing, Uninstalling, NoOp
<1>2. /\ watches[op.ith] = Null /\ dr[op.ith] = op.target
      /\ \A i \in Regs : watches[i] # op.target
      /\ \A i \in Regs \ {op.ith} : Agrees(i, dr)
  BY <1>1 DEF CallInv, Phases
<1>3. /\ context' = [dr  |-> [dr EXCEPT ![op.ith] = Null],
                     dr7 |-> [dr7 EXCEPT ![op.ith] = OffCtrl], dr6 |-> dr6]
      /\ op' = [op EXCEPT !.call = "set"]
      /\ eip' = Caller
      /\ watches' = watches /\ redirs' = redirs /\ dr' = dr /\ dr7' = dr7 /\ dr6' = dr6
      /\ UNCHANGED <<impls, asked, redirected, trap, failed>>
  BY <1>1, <1>2 DEF GetReturns, UninstallClears, tables, debugRegs, history
<1>4. /\ op' \in UninstallOps /\ op.call' = "set" /\ op.target' = op.target
      /\ op.ith' = op.ith /\ ~op.install' /\ op' # NoOp
      /\ op.target \in Targets /\ op.ith \in Regs
  BY <1>1, <1>3 DEF UninstallOps, NoOp
<1>5. \A j \in Regs : context'.dr[j] = IF j = op.ith THEN Null ELSE dr[j]
  BY <1>3 DEF CallInv, CallTypeOK
<1>6. Phases'
  BY <1>2, <1>3, <1>4, <1>5 DEF Phases, Agrees, Installing, Uninstalling
<1>7. TablesOK' /\ CallTypeOK' /\ RegistersOK(dr, dr7)'
  BY <1>3, <1>4 DEF CallInv, TablesOK, CallTypeOK, RegistersOK
<1>8. RegistersOK(context.dr, context.dr7)' /\ (context.dr6 \in [Regs -> BOOLEAN])'
  BY <1>3, <1>4, CtrlsDiffer DEF CallInv, CallTypeOK, RegistersOK
<1>9. BreakpointHits' /\ FailedOK' /\ OnlySelfRemovalDies'
  BY <1>1, <1>3 DEF CallInv, BreakpointHits, FailedOK, OnlySelfRemovalDies, Runs
<1>10. QED
  BY <1>4, <1>6, <1>7, <1>8, <1>9 DEF CallInv, OpOK

LEMMA SetsContext ==
  ASSUME CallInv, SetReturns
  PROVE  CallInv'
<1> USE NamesDiffer
<1>1. /\ Runs /\ op # NoOp /\ op.call = "set"
      /\ dr' = context.dr /\ dr7' = context.dr7 /\ dr6' = context.dr6
      /\ op' = NoOp /\ context' = Empty /\ eip' = Caller
      /\ watches' = watches /\ redirs' = redirs
      /\ asked' = NotAsked
      /\ redirected' = [redirected EXCEPT ![asked.target] = asked.to]
      /\ UNCHANGED <<impls, trap, failed>>
  BY DEF SetReturns, Returns, NoOp, tables
<1>2. \A i \in Regs : Agrees(i, context.dr)
  BY <1>1, OpCases DEF CallInv, Phases
<1>3. Phases'
  BY <1>1, <1>2 DEF Phases, Agrees, Installing, Uninstalling
<1>4. TablesOK'
  BY <1>1, <1>2 DEF CallInv, TablesOK, Agrees
<1>5. CallTypeOK' /\ RegistersOK(dr, dr7)'
  BY <1>1 DEF CallInv, CallTypeOK, RegistersOK, WriteCtrl, NotAsked
<1>6. RegistersOK(context.dr, context.dr7)' /\ (context.dr6 \in [Regs -> BOOLEAN])'
  BY <1>1, CtrlsDiffer DEF RegistersOK, Empty
<1>7. BreakpointHits' /\ FailedOK' /\ OnlySelfRemovalDies'
  BY <1>1 DEF CallInv, BreakpointHits, FailedOK, OnlySelfRemovalDies, Runs
<1>8. QED
  BY <1>1, <1>3, <1>4, <1>5, <1>6, <1>7 DEF CallInv, OpOK

(* A step of the thread that leaves the registers alone, and no exception. *)
LEMMA Moves ==
  ASSUME CallInv, UNCHANGED <<impls, tables, dr, dr7, opVars, failed>>,
         failed = "no", trap' = "no", dr6' \in [Regs -> BOOLEAN],
         eip' \in Targets \cup Redirs \cup {Caller},
         op # NoOp => eip' \in {Caller} \cup Redirs
  PROVE  CallInv'
<1>1. CallTypeOK' /\ BreakpointHits' /\ FailedOK' /\ OnlySelfRemovalDies'
  BY DEF CallInv, CallTypeOK, BreakpointHits, FailedOK, OnlySelfRemovalDies, tables, opVars,
     history
<1>2. QED
  BY <1>1, Frozen DEF CallInv

(* HWBreakPointHandler finds the register valid, and goes on at a          *)
(* redirection or meets the single step of an access.                      *)
LEMMA HandlesHow ==
  ASSUME CallInv, Pending, HWBreakPointHandler
  PROVE  \/ Fails("dr6") /\ trap = "step" /\ \E i \in Regs : ~dr6[i]
         \/ \E i \in Regs :
              /\ dr6[i] /\ dr6' = [dr6 EXCEPT ![i] = FALSE]
              /\ dr[i] = eip /\ dr7[i] = ExecCtrl /\ eip \in Targets
              /\ eip' = redirs[i] /\ redirs[i] \in Redirs
              /\ trap' = "no"
              /\ UNCHANGED <<impls, tables, dr, dr7, opVars, failed>>
<1> USE NamesDiffer
<1>1. PICK i \in Regs :
    /\ FindWatch(i, eip)
    /\ IF dr[i] # eip \/ dr7[i] # ExecCtrl THEN Fails("sanity")
       ELSE IF ~Status(i) THEN Fails("dr6")
       ELSE /\ dr6' = StatusWith(i, FALSE)
            /\ eip' = redirs[i]
            /\ trap' = "no"
            /\ UNCHANGED <<impls, tables, dr, dr7, opVars, failed>>
  BY DEF HWBreakPointHandler
<1>2. watches[i] = eip /\ eip # Null
  BY <1>1, FindsWatch DEF CallInv, CallTypeOK
<1>3. dr[i] = eip /\ dr7[i] = ExecCtrl /\ redirs[i] \in Redirs /\ eip \in Targets
  BY <1>2, PendingAgrees DEF Pending, CallInv, CallTypeOK, TablesOK
<1>4. CASE ~Status(i)
  <2>1. Fails("dr6") /\ trap = "step"
    BY <1>1, <1>3, <1>4 DEF Pending, CallInv, CallTypeOK, BreakpointHits, Hits, Status
  <2>2. QED
    BY <1>4, <2>1 DEF Status
<1>5. CASE Status(i)
  BY <1>1, <1>3, <1>5 DEF Status, StatusWith
<1>6. QED
  BY <1>4, <1>5

LEMMA Handles ==
  ASSUME CallInv, Pending, HWBreakPointHandler
  PROVE  CallInv'
<1>1. CASE Fails("dr6") /\ trap = "step"
  <2>1. CallTypeOK' /\ BreakpointHits' /\ FailedOK' /\ OnlySelfRemovalDies'
    BY <1>1 DEF CallInv, CallTypeOK, BreakpointHits, Hits, FailedOK, OnlySelfRemovalDies,
       Fails, tables, debugRegs, opVars, history
  <2>2. QED
    BY <1>1, <2>1, Frozen DEF CallInv, Fails, debugRegs
<1>2. ASSUME NEW i \in Regs, dr6' = [dr6 EXCEPT ![i] = FALSE], eip' = redirs[i],
             redirs[i] \in Redirs, trap' = "no",
             UNCHANGED <<impls, tables, dr, dr7, opVars, failed>>
      PROVE  CallInv'
  <2>1. dr6' \in [Regs -> BOOLEAN]
    BY <1>2 DEF CallInv, CallTypeOK
  <2>2. QED
    BY <1>2, <2>1, Moves DEF Pending
<1>3. QED
  BY <1>1, <1>2, HandlesHow

(* A breakpoint without a table entry is that of a redirection that is     *)
(* being removed, of one of the two functions UninstallHWExec calls.       *)
LEMMA Dies ==
  ASSUME CallInv, Pending, trap = "breakpoint", ~Watching(eip), Fails("unhandled")
  PROVE  CallInv'
<1> USE NamesDiffer
<1>1. PICK i \in Hits(eip) : TRUE
  BY DEF CallInv, BreakpointHits
<1>2. i \in Regs /\ dr[i] = eip /\ eip \in Targets /\ watches[i] # eip
  BY <1>1, HitIsTarget DEF Watching
<1>3. ~Agrees(i, dr)
  BY <1>2 DEF Agrees
<1>4. Uninstalling
  BY <1>2, <1>3, OpCases DEF CallInv, Phases, Installing
<1>5. op.target = eip
  BY <1>2, <1>3, <1>4 DEF CallInv, Phases
<1>6. op.target \in {GetThreadContext, SetThreadContext}
  BY <1>2, <1>4, <1>5 DEF CallInv, BreakpointHits, Uninstalling
<1>7. CallTypeOK' /\ BreakpointHits' /\ FailedOK' /\ OnlySelfRemovalDies'
  BY <1>4, <1>6 DEF CallInv, CallTypeOK, BreakpointHits, Hits, FailedOK, OnlySelfRemovalDies,
     Fails, tables, debugRegs, opVars, history, Uninstalling
<1>8. QED
  BY <1>7, Frozen DEF CallInv, Fails, debugRegs

(* A debugger takes a register that is free, and returns its own.          *)
LEMMA Debugs ==
  ASSUME CallInv, Debugger
  PROVE  CallInv' /\ Hits(eip)' = Hits(eip)
<1> USE NamesDiffer, CtrlsDiffer
<1>1. PICK i \in Regs, f \in {Null, Foreign} :
        /\ failed = "no" /\ dr[i] \in {Null, Foreign}
        /\ dr' = [dr EXCEPT ![i] = f]
        /\ dr7' = [dr7 EXCEPT ![i] = IF f = Null THEN OffCtrl ELSE WriteCtrl]
        /\ UNCHANGED <<impls, tables, dr6, opVars, eip, trap, failed>>
  BY DEF Debugger, DebuggerSets, DebuggerClears, WriteCtrl
<1>2. /\ \A j \in Regs \ {i} : dr'[j] = dr[j] /\ dr7'[j] = dr7[j]
      /\ dr'[i] = f /\ dr7'[i] = IF f = Null THEN OffCtrl ELSE WriteCtrl
      /\ dr[i] \notin Targets /\ f \notin Targets
  BY <1>1 DEF CallInv, CallTypeOK
<1>3. CallTypeOK' /\ RegistersOK(dr, dr7)'
  BY <1>1, <1>2 DEF CallInv, CallTypeOK, RegistersOK, tables, opVars, history
<1>4. RegistersOK(context.dr, context.dr7)' /\ (context.dr6 \in [Regs -> BOOLEAN])' /\ OpOK'
  BY <1>1 DEF CallInv, RegistersOK, OpOK, opVars
<1>5. TablesOK'
  BY <1>1, <1>2 DEF CallInv, TablesOK, tables
<1>6. \A j \in Regs : Agrees(j, dr) => (watches'[j] # Null => dr'[j] = watches'[j])
                                       /\ (dr'[j] \in Targets => watches'[j] = dr'[j])
  BY <1>1, <1>2 DEF Agrees, CallInv, CallTypeOK, tables
<1>7. Phases'
  <2>1. CASE op = NoOp
    BY <1>1, <1>6, <2>1 DEF CallInv, Phases, Agrees, Installing, Uninstalling, opVars
  <2>2. CASE Installing
    BY <1>1, <1>2, <1>6, <2>2, OpCases DEF CallInv, Phases, Agrees, Installing, Uninstalling,
       opVars, tables
  <2>3. CASE Uninstalling
    BY <1>1, <1>2, <1>6, <2>3, OpCases DEF CallInv, Phases, Agrees, Installing, Uninstalling,
       opVars, tables
  <2>4. QED
    BY <2>1, <2>2, <2>3, OpCases DEF CallInv
<1>8. Hits(eip)' = Hits(eip)
  BY <1>1, <1>2 DEF Hits, CallInv, CallTypeOK, RegistersOK
<1>9. BreakpointHits' /\ FailedOK' /\ OnlySelfRemovalDies'
  BY <1>1, <1>8 DEF CallInv, BreakpointHits, FailedOK, OnlySelfRemovalDies, opVars
<1>10. QED
  BY <1>3, <1>4, <1>5, <1>7, <1>8, <1>9 DEF CallInv

-----------------------------------------------------------------------------
(* The steps of FunctionCallWatcher and of the thread, and the status bits.*)
LEMMA EntersStatus ==
  ASSUME CallInv, Statuses, NEW f, Enter(f), trap = "no",
         UNCHANGED <<dr, dr7, opVars>>
  PROVE  Statuses'
BY DEF Statuses, Enter, Hits, opVars, CallInv, CallTypeOK

LEMMA SameStatus ==
  ASSUME CallInv, Statuses, UNCHANGED <<debugRegs, context, trap>>,
         trap = "no" \/ eip' = eip
  PROVE  Statuses'
BY DEF Statuses, Hits, debugRegs

LEMMA NextStatus ==
  ASSUME CallInv, CallNext
  PROVE  (Statuses => Statuses') /\ trap' = "no" /\ trap = "no" /\ failed = "no"
         /\ failed' \in {"no", "set", "unset", "target", "exhausted", "sanity"}
<1>1. ASSUME NEW h \in Redirs, Unset(h) \/ \E f \in Targets : Set(h, f)
      PROVE  (Statuses => Statuses') /\ trap' = "no" /\ trap = "no" /\ failed = "no"
             /\ failed' \in {"no", "set", "unset"}
  BY <1>1, SameStatus DEF Unset, Set, Calling, Runs, Fails, opVars
<1>2. ASSUME NEW h \in Redirs, Install(h)
      PROVE  (Statuses => Statuses') /\ trap' = "no" /\ trap = "no" /\ failed = "no"
             /\ failed' \in {"no", "target"}
  BY <1>2, SameStatus DEF Install, Calling, Runs, Fails, opVars
<1>3. ASSUME NEW h \in Redirs, Uninstall(h)
      PROVE  (Statuses => Statuses') /\ trap' = "no" /\ trap = "no" /\ failed = "no"
             /\ failed' \in {"no", "target"}
  BY <1>3, SameStatus DEF Uninstall, Calling, Runs, Fails, opVars
<1>4. CASE GetReturns
  <2>1. trap = "no" /\ failed = "no"
    BY <1>4 DEF GetReturns, Returns, Runs
  <2>2. CASE \E why \in {"exhausted", "sanity"} : Fails(why)
    BY <2>1, <2>2, SameStatus DEF Fails, opVars
  <2>3. CASE ~\E why \in {"exhausted", "sanity"} : Fails(why)
    <3>1. context'.dr6 = dr6 /\ UNCHANGED <<debugRegs, trap, failed>>
      BY <1>4, <2>3 DEF GetReturns, InstallTakes, UninstallClears
    <3>2. Statuses => Statuses'
      BY <2>1, <3>1 DEF Statuses, debugRegs
    <3>3. QED
      BY <2>1, <3>1, <3>2
  <2>4. QED
    BY <2>2, <2>3
<1>5. CASE SetReturns
  <2>1. /\ trap = "no" /\ failed = "no" /\ dr6' = context.dr6 /\ context' = Empty
        /\ UNCHANGED <<trap, failed>>
    BY <1>5 DEF SetReturns, Returns, Runs
  <2>2. \A i \in Regs : ~context'.dr6[i]
    BY <2>1 DEF Empty
  <2>3. QED
    BY <2>1, <2>2 DEF Statuses
<1>6. QED
  BY <1>1, <1>2, <1>3, <1>4, <1>5 DEF CallNext

LEMMA NextKeeps ==
  ASSUME CallInv, CallNext
  PROVE  CallInv'
BY SetsImpl, Installs, Uninstalls, Takes, Clears, SetsContext DEF CallNext

LEMMA CodeCallKeeps ==
  ASSUME CallInv, CallNext \/ CallContext \/ Return \/ \E f \in Targets : Call(f)
  PROVE  /\ CallInv' /\ (Statuses => Statuses')
         /\ Runs /\ trap' # "step"
         /\ failed' \notin {"dr6", "code"}
<1> USE NamesDiffer
<1>1. CASE CallNext
  BY <1>1, NextKeeps, NextStatus DEF Runs
<1>2. ASSUME NEW f \in Targets, Call(f)
      PROVE  CallInv' /\ (Statuses => Statuses') /\ Runs /\ trap' # "step"
             /\ failed' \notin {"dr6", "code"}
  BY <1>2, Enters, EntersStatus DEF Call, Calling, Runs, Enter
<1>3. CASE CallContext
  <2>1. PICK f \in {GetThreadContext, SetThreadContext} : Enter(f)
    BY <1>3 DEF CallContext
  <2>2. Runs /\ UNCHANGED <<impls, tables, dr, dr7, opVars, failed>>
    BY <1>3 DEF CallContext
  <2>3. CallInv' /\ (Statuses => Statuses')
    BY <2>1, <2>2, Enters, EntersStatus DEF Runs
  <2>4. QED
    BY <2>1, <2>2, <2>3 DEF Runs, Enter
<1>4. CASE Return
  <2>1. Runs /\ eip' = Caller /\ UNCHANGED <<impls, tables, debugRegs, opVars, trap, failed>>
    BY <1>4 DEF Return, Returns
  <2>2. CallInv'
    BY <2>1, Moves DEF Runs, debugRegs, CallInv, CallTypeOK
  <2>3. Statuses => Statuses'
    BY <2>1, SameStatus DEF Runs, opVars
  <2>4. QED
    BY <2>1, <2>2, <2>3 DEF Runs
<1>5. QED
  BY <1>1, <1>2, <1>3, <1>4

(* The code, outside the handlers: no access is under way.                 *)
LEMMA CodeKeeps ==
  ASSUME HandlersInv, CodeCalls
  PROVE  HandlersInv'
<1>1. /\ CallInv' /\ (Statuses => Statuses') /\ Runs /\ trap' # "step"
      /\ failed' \notin {"dr6", "code"} /\ frames = <<>> /\ acc = NoAccess
      /\ UNCHANGED varVars
  BY CodeCallKeeps DEF HandlersInv, CodeCalls, InCode
<1>2. ~inAccess
  BY <1>1 DEF HandlersInv, AccessOK, Runs
<1>3. TypeOK'
  BY <1>1 DEF HandlersInv, AccessOK, TypeOK, CallInv, varVars, static, memory, hist
<1>4. AccessOK'
  BY <1>1, <1>2, <1>3 DEF HandlersInv, AccessOK, StatusIsValid, Phase, varVars, static,
     memory, hist, NoAccess
<1>5. AccessPhases'
  BY <1>1, <1>2 DEF HandlersInv, AccessPhases, Apart, varVars, static, memory, hist
<1>6. QED
  BY <1>1, <1>4, <1>5 DEF HandlersInv

-----------------------------------------------------------------------------
(* The stack of invocations.                                               *)
LEMMA Pushed ==
  ASSUME NEW s \in Seq(Frame), NEW x \in Frame
  PROVE  /\ Append(s, x) \in Seq(Frame) /\ Append(s, x) # <<>>
         /\ Len(Append(s, x)) = Len(s) + 1
         /\ Append(s, x)[1] = IF s = <<>> THEN x ELSE s[1]
<1>1. /\ Append(s, x) \in Seq(Frame) /\ Len(Append(s, x)) = Len(s) + 1
      /\ \A i \in 1 .. Len(s) : Append(s, x)[i] = s[i]
      /\ Append(s, x)[Len(s) + 1] = x
  OBVIOUS
<1>2. CASE s = <<>>
  BY <1>1, <1>2
<1>3. CASE s # <<>>
  <2>1. Len(s) \in Nat \ {0}
    BY <1>3
  <2>2. 1 \in 1 .. Len(s)
    BY <2>1
  <2>3. QED
    BY <1>1, <1>3, <2>1, <2>2
<1>4. QED
  BY <1>2, <1>3

LEMMA Popped ==
  ASSUME NEW s \in Seq(Frame), s # <<>>
  PROVE  /\ Front(s) \in Seq(Frame) /\ Len(Front(s)) = Len(s) - 1
         /\ Front(s) = <<>> <=> Len(s) = 1
         /\ Front(s) # <<>> => Front(s)[1] = s[1]
         /\ Last(s) \in Frame /\ (Len(s) = 1 => Last(s) = s[1])
<1>1. Len(s) \in Nat \ {0}
  OBVIOUS
<1>2. /\ Front(s) \in Seq(Frame) /\ Len(Front(s)) = Len(s) - 1
      /\ \A i \in 1 .. Len(s) - 1 : Front(s)[i] = s[i]
  <2>1. \A i \in 1 .. Len(s) - 1 : s[i] \in Frame
    BY <1>1
  <2>2. 1 \in Int /\ Len(s) - 1 \in Int
    BY <1>1
  <2> DEFINE n == Len(s) - 1
  <2>3. /\ SubSeq(s, 1, n) \in Seq(Frame)
        /\ Len(SubSeq(s, 1, n)) = IF 1 <= n THEN n - 1 + 1 ELSE 0
        /\ \A i \in 1 .. n - 1 + 1 : SubSeq(s, 1, n)[i] = s[1 + i - 1]
    <3> HIDE DEF n
    <3>1. n \in Int /\ \A i \in 1 .. n : s[i] \in Frame
      BY <2>1, <2>2 DEF n
    <3>2. QED
      BY <3>1, SubSeqProperties
  <2>4. PICK u : /\ u = Front(s) /\ u \in Seq(Frame)
                 /\ Len(u) = IF 1 <= n THEN n - 1 + 1 ELSE 0
                 /\ \A i \in 1 .. n - 1 + 1 : u[i] = s[1 + i - 1]
    BY <2>3 DEF Front
  <2>5. n \in Nat /\ n = Len(s) - 1
    BY <1>1
  <2>6. Len(u) = n /\ \A i \in 1 .. n : u[i] = s[i]
    <3> HIDE DEF n
    <3>1. n - 1 + 1 = n /\ \A i \in 1 .. n : 1 + i - 1 = i
      BY <2>5
    <3>2. QED
      BY <2>4, <2>5, <3>1
  <2>7. QED
    BY <2>4, <2>5, <2>6
<1>3. Front(s) = <<>> <=> Len(s) = 1
  BY <1>1, <1>2
<1>4. Last(s) \in Frame /\ (Len(s) = 1 => Last(s) = s[1])
  BY <1>1 DEF Last
<1>5. QED
  BY <1>1, <1>2, <1>3, <1>4

LEMMA Went ==
  ASSUME NEW s \in Seq(Frame), s # <<>>, NEW p \in {"copy", "continue", "copyback", "close"},
         NEW t, t = [s EXCEPT ![Len(s)].phase = p]
  PROVE  /\ t \in Seq(Frame) /\ t # <<>> /\ Len(t) = Len(s)
         /\ t[1].phase = IF Len(s) = 1 THEN p ELSE s[1].phase
<1>1. Len(s) \in Nat \ {0} /\ s \in [1 .. Len(s) -> Frame]
  OBVIOUS
<1>2. [s[Len(s)] EXCEPT !.phase = p] \in Frame /\ [s[Len(s)] EXCEPT !.phase = p].phase = p
  BY <1>1 DEF Frame
<1>3. t \in [1 .. Len(s) -> Frame]
  BY <1>1, <1>2
<1>4. t \in Seq(Frame) /\ Len(t) = Len(s)
  BY <1>1, <1>3
<1>5. t[1].phase = IF Len(s) = 1 THEN p ELSE s[1].phase
  BY <1>1, <1>2
<1>6. QED
  BY <1>1, <1>4, <1>5

-----------------------------------------------------------------------------
(* The steps of the accesses.                                              *)
LEMMA CallSame ==
  ASSUME CallInv, UNCHANGED callVars
  PROVE  CallInv' /\ (Statuses => Statuses')
<1>1. CallTypeOK' /\ BreakpointHits' /\ FailedOK' /\ OnlySelfRemovalDies'
  BY DEF CallInv, CallTypeOK, BreakpointHits, Hits, FailedOK, OnlySelfRemovalDies,
     callVars, tables, debugRegs, opVars, history
<1>2. CallInv'
  BY <1>1, Frozen DEF CallInv, callVars, debugRegs
<1>3. QED
  BY <1>2 DEF Statuses, Hits, callVars, debugRegs, opVars

LEMMA FramesOK ==
  ASSUME AccessOK
  PROVE  frames \in Seq(Frame) /\ CallTypeOK
BY DEF AccessOK, TypeOK, Frame

LEMMA CodeWritesKeeps ==
  ASSUME HandlersInv, CodeWrites
  PROVE  HandlersInv'
<1>1. CallInv' /\ (Statuses => Statuses')
  BY CallSame DEF HandlersInv, CodeWrites
<1>2. /\ frames = <<>> /\ acc = NoAccess /\ trap = "no" /\ impl' \in Values /\ latest' = impl'
      /\ UNCHANGED <<callVars, first, inAccess, redir, open, tf, frames, acc, stale, calls>>
  BY DEF CodeWrites, InCode, Calling, Runs, static
<1>3. ~inAccess
  BY <1>2 DEF HandlersInv, AccessOK
<1>4. TypeOK'
  BY <1>1, <1>2 DEF HandlersInv, AccessOK, TypeOK, CallInv
<1>5. AccessOK'
  BY <1>2, <1>3, <1>4 DEF HandlersInv, AccessOK, StatusIsValid, callVars, opVars, NoAccess
<1>6. AccessPhases'
  BY <1>1, <1>2, <1>3 DEF HandlersInv, AccessPhases, Apart
<1>7. QED
  BY <1>1, <1>5, <1>6 DEF HandlersInv

LEMMA AccessKeeps ==
  ASSUME HandlersInv, NEW write \in BOOLEAN, NEW to \in Targets \cup {Caller},
         Access(write, to)
  PROVE  HandlersInv'
<1> USE NamesDiffer
<1>1. CallInv' /\ (Statuses => Statuses')
  BY CallSame DEF HandlersInv, Access
<1>2. /\ frames = <<>> /\ acc = NoAccess /\ trap = "no" /\ op = NoOp
      /\ acc' = [write |-> write, to |-> to]
      /\ UNCHANGED <<callVars, first, inAccess, impl, redir, open, tf, frames, latest,
                     stale, calls>>
  BY DEF Access, InCode, Calling, Runs, static, memory, hist
<1>3. ~inAccess
  BY <1>2 DEF HandlersInv, AccessOK
<1>4. TypeOK'
  BY <1>1, <1>2 DEF HandlersInv, AccessOK, TypeOK, CallInv
<1>5. AccessOK'
  BY <1>2, <1>3, <1>4 DEF HandlersInv, AccessOK, StatusIsValid, callVars, opVars
<1>6. AccessPhases'
  BY <1>1, <1>2, <1>3 DEF HandlersInv, AccessPhases, Apart
<1>7. QED
  BY <1>1, <1>5, <1>6 DEF HandlersInv

(* An exception of the first kind finds no access under way: the handler   *)
(* never meets a single step or a violation it does not expect.            *)
LEMMA FaultKeeps ==
  ASSUME HandlersInv, Fault, ~open, Runs, op = NoOp,
         \/ frames = <<>> /\ acc # NoAccess
         \/ frames # <<>>
  PROVE  HandlersInv'
<1>1. /\ ~inAccess /\ inAccess' = TRUE /\ open' = TRUE /\ tf' = FALSE
      /\ frames' = Append(frames, [phase |-> "before", at |-> Caller])
      /\ UNCHANGED <<callVars, first, impl, redir, acc, latest, stale, calls>>
  BY DEF HandlersInv, AccessOK, Fault, Push, hist
<1>2. CallInv' /\ (Statuses => Statuses')
  BY <1>1, CallSame DEF HandlersInv
<1>3. frames \in Seq(Frame)
  BY FramesOK DEF HandlersInv
<1>4. [phase |-> "before", at |-> Caller] \in Frame
  BY DEF Frame
<1>5. /\ frames' \in Seq(Frame) /\ frames' # <<>> /\ Len(frames') = Len(frames) + 1
      /\ frames'[1] = IF frames = <<>> THEN [phase |-> "before", at |-> Caller]
                      ELSE frames[1]
  BY <1>1, <1>3, <1>4, Pushed
<1>6. frames'[1].phase = IF frames = <<>> THEN "before" ELSE frames[1].phase
  BY <1>5
<1>7. TypeOK'
  BY <1>1, <1>2, <1>5 DEF HandlersInv, AccessOK, TypeOK, CallInv, Frame
<1>8. trap' = "no" /\ op' = NoOp /\ failed' = "no"
  BY <1>1 DEF callVars, opVars, Runs
<1>9. AccessOK'
  BY <1>1, <1>5, <1>6, <1>7, <1>8 DEF HandlersInv, AccessOK, StatusIsValid, Phase
<1>10. ASSUME Apart' PROVE frames = <<>>
  BY <1>1, <1>10 DEF HandlersInv, AccessPhases, Apart
<1>11. AccessPhases'
  BY <1>1, <1>2, <1>5, <1>6, <1>8, <1>10 DEF HandlersInv, AccessPhases, Apart, Phase
<1>12. QED
  BY <1>2, <1>9, <1>11 DEF HandlersInv

LEMMA SteppedKeeps ==
  ASSUME CallInv, Runs, op = NoOp, NEW to \in Targets \cup {Caller}, Stepped(to)
  PROVE  /\ CallInv' /\ (Statuses => Statuses')
         /\ trap' \in IF tf THEN {"step"} ELSE {"no", "breakpoint"}
         /\ ~tf /\ to = Caller => trap' = "no"
         /\ op' = NoOp /\ failed' = "no"
<1> USE NamesDiffer
<1>1. CASE tf
  <2>1. /\ trap' = "step" /\ eip' = to
        /\ UNCHANGED <<impls, tables, debugRegs, opVars, failed>>
    BY <1>1 DEF Stepped
  <2>2. CallTypeOK' /\ BreakpointHits' /\ FailedOK' /\ OnlySelfRemovalDies'
    BY <2>1 DEF CallInv, CallTypeOK, BreakpointHits, Hits, FailedOK, OnlySelfRemovalDies,
       tables, debugRegs, opVars, history, Runs
  <2>3. CallInv'
    BY <2>1, <2>2, Frozen DEF CallInv, debugRegs
  <2>4. Statuses => Statuses'
    BY <2>1 DEF Statuses, Runs, debugRegs, opVars
  <2>5. QED
    BY <1>1, <2>1, <2>3, <2>4 DEF opVars, Runs
<1>2. CASE ~tf
  <2>1. Enter(to) /\ UNCHANGED <<impls, tables, dr, dr7, opVars, failed>>
    BY <1>2 DEF Stepped
  <2>2. CallInv' /\ (Statuses => Statuses')
    BY <2>1, Enters, EntersStatus DEF Runs
  <2>3. to = Caller => Hits(to) = {}
    BY HitIsTarget
  <2>4. QED
    BY <1>2, <2>1, <2>2, <2>3 DEF Enter, opVars, Runs
<1>3. QED
  BY <1>1, <1>2

LEMMA InstructionKeeps ==
  ASSUME HandlersInv, Instruction
  PROVE  HandlersInv'
<1>1. Runs /\ frames = <<>> /\ acc # NoAccess /\ op = NoOp
  BY DEF Instruction, HandlersInv, AccessOK
<1>2. CASE ~open
  BY <1>1, <1>2, FaultKeeps DEF Instruction
<1>3. CASE open
  <2>1. /\ Stepped(acc.to)
        /\ IF acc.write THEN redir' \in Values /\ latest' = redir' /\ UNCHANGED stale
           ELSE stale' = (stale \/ redir # latest) /\ UNCHANGED <<redir, latest>>
        /\ acc' = NoAccess
        /\ UNCHANGED <<first, inAccess, impl, open, tf, frames, calls>>
    BY <1>3 DEF Instruction, static
  <2>2. inAccess /\ tf
    BY <1>1, <1>3 DEF HandlersInv, AccessOK
  <2>3. /\ CallInv' /\ (Statuses => Statuses')
        /\ trap' = "step" /\ op' = NoOp /\ failed' = "no"
    BY <1>1, <2>1, <2>2, SteppedKeeps DEF HandlersInv, AccessOK
  <2>4. TypeOK'
    BY <2>1, <2>3 DEF HandlersInv, AccessOK, TypeOK, CallInv, NoAccess
  <2>5. AccessOK'
    BY <1>1, <2>1, <2>2, <2>3, <2>4 DEF HandlersInv, AccessOK, StatusIsValid
  <2>6. AccessPhases'
    BY <1>1, <2>1, <2>2, <2>3 DEF HandlersInv, AccessPhases, Apart
  <2>7. QED
    BY <2>3, <2>5, <2>6 DEF HandlersInv
<1>4. QED
  BY <1>2, <1>3

(* The callback. *)
LEMMA CallbackCallsKeeps ==
  ASSUME HandlersInv, NEW f \in Targets, CallbackCalls(f)
  PROVE  HandlersInv'
<1>1. /\ Call(f) /\ calls < MaxCalls /\ calls' = calls + 1
      /\ frames # <<>>
      /\ UNCHANGED <<first, inAccess, impl, redir, open, tf, frames, acc, latest, stale>>
  BY DEF CallbackCalls, In, static, memory
<1>2. /\ CallInv' /\ (Statuses => Statuses')
      /\ Runs /\ trap' # "step" /\ failed' \notin {"dr6", "code"} /\ op' = NoOp
  BY <1>1, CodeCallKeeps DEF HandlersInv, Call, Calling, opVars
<1>3. calls \in Nat /\ calls' \in 0 .. MaxCalls /\ calls' # 0
  BY <1>1, HandlersAssumption DEF HandlersInv, AccessOK, TypeOK
<1>4. TypeOK'
  BY <1>1, <1>2, <1>3 DEF HandlersInv, AccessOK, TypeOK, CallInv
<1>5. AccessOK'
  BY <1>1, <1>2, <1>4 DEF HandlersInv, AccessOK, StatusIsValid, Phase
<1>6. AccessPhases'
  BY <1>1, <1>2, <1>3 DEF HandlersInv, AccessPhases, Apart, Phase
<1>7. QED
  BY <1>2, <1>5, <1>6 DEF HandlersInv

LEMMA CallbackGoesOnKeeps ==
  ASSUME HandlersInv, CallbackGoesOn
  PROVE  HandlersInv'
<1>1. /\ CallInv' /\ (Statuses => Statuses') /\ Runs /\ trap' # "step"
      /\ failed' \notin {"dr6", "code"} /\ frames # <<>> /\ trap' = "no"
      /\ UNCHANGED <<varVars, opVars>>
  BY CodeCallKeeps DEF HandlersInv, CallbackGoesOn, Return, Returns, Runs
<1>2. TypeOK'
  BY <1>1 DEF HandlersInv, AccessOK, TypeOK, CallInv, varVars, static, memory, hist
<1>3. AccessOK'
  BY <1>1, <1>2 DEF HandlersInv, AccessOK, StatusIsValid, Phase, varVars, static, memory,
     hist, opVars
<1>4. AccessPhases'
  BY <1>1 DEF HandlersInv, AccessPhases, Apart, Phase, varVars, static, memory, hist
<1>5. QED
  BY <1>1, <1>3, <1>4 DEF HandlersInv

LEMMA CallbackReturnsKeeps ==
  ASSUME HandlersInv, CallbackReturns
  PROVE  HandlersInv'
<1>1. PICK p \in {"copy", "copyback"} :
        /\ p = IF Last(frames).phase = "before" THEN "copy" ELSE "copyback"
        /\ frames' = [frames EXCEPT ![Len(frames)].phase = p]
        /\ frames # <<>> /\ Last(frames).phase \in {"before", "after"}
        /\ UNCHANGED <<callVars, first, inAccess, impl, redir, open, tf, acc, latest, stale,
                       calls>>
  BY DEF CallbackReturns, Goes, In, static, memory, hist
<1>2. CallInv' /\ (Statuses => Statuses')
  BY <1>1, CallSame DEF HandlersInv
<1>3. /\ frames' \in Seq(Frame) /\ frames' # <<>> /\ Len(frames') = Len(frames)
      /\ frames'[1].phase = IF Len(frames) = 1 THEN p ELSE frames[1].phase
  BY <1>1, Went, FramesOK DEF HandlersInv
<1>4. Len(frames) = 1 => Last(frames) = frames[1]
  BY DEF Last
<1>5. TypeOK'
  BY <1>1, <1>2, <1>3 DEF HandlersInv, AccessOK, TypeOK, CallInv, Frame
<1>6. AccessOK'
  BY <1>1, <1>3, <1>4, <1>5 DEF HandlersInv, AccessOK, StatusIsValid, Phase, callVars, opVars
<1>7. Len(frames) \in Nat \ {0}
  BY <1>1, FramesOK DEF HandlersInv
<1>8. AccessPhases'
  BY <1>1, <1>2, <1>3, <1>4, <1>7 DEF HandlersInv, AccessPhases, Apart, Phase, callVars
<1>9. QED
  BY <1>2, <1>6, <1>8 DEF HandlersInv

LEMMA CopiesKeeps ==
  ASSUME HandlersInv, Copies
  PROVE  HandlersInv'
<1>1. /\ Runs /\ frames # <<>> /\ Last(frames).phase = "copy"
      /\ op = NoOp
  BY DEF Copies, In, HandlersInv, AccessOK
<1>2. CASE ~open
  BY <1>1, <1>2, FaultKeeps DEF Copies
<1>3. CASE open
  <2>1. /\ Stepped(Caller) /\ redir' = impl
        /\ frames' = [frames EXCEPT ![Len(frames)].phase = "continue"]
        /\ UNCHANGED <<first, inAccess, impl, open, tf, acc, latest, stale, calls>>
    BY <1>3 DEF Copies, Goes, static, hist
  <2>2. /\ CallInv' /\ (Statuses => Statuses') /\ op' = NoOp /\ failed' = "no"
        /\ tf => trap' = "step"
        /\ ~tf => trap' = "no"
    BY <1>1, <2>1, SteppedKeeps DEF HandlersInv
  <2>3. /\ frames' \in Seq(Frame) /\ frames' # <<>> /\ Len(frames') = Len(frames)
        /\ frames'[1].phase = IF Len(frames) = 1 THEN "continue" ELSE frames[1].phase
    BY <1>1, <2>1, Went, FramesOK DEF HandlersInv
  <2>4. /\ Len(frames) \in Nat \ {0}
        /\ Len(frames) = 1 => frames[1].phase = "copy"
    BY <1>1, FramesOK DEF HandlersInv, Last
  <2>5. TypeOK'
    BY <2>1, <2>2, <2>3 DEF HandlersInv, AccessOK, TypeOK, CallInv, Frame
  <2>6. AccessOK'
    <3>1. frames' # <<>> /\ Phase(1)' \in {"before", "copy", "continue"} => acc # NoAccess
      BY <1>1, <2>3, <2>4 DEF HandlersInv, AccessOK, Phase
    <3>2. QED
      BY <1>3, <2>1, <2>2, <2>3, <2>5, <3>1 DEF HandlersInv, AccessOK, StatusIsValid
  <2>7. AccessPhases'
    BY <1>1, <2>1, <2>2, <2>3, <2>4 DEF HandlersInv, AccessPhases, Apart, Phase
  <2>8. QED
    BY <2>2, <2>6, <2>7 DEF HandlersInv
<1>4. QED
  BY <1>2, <1>3

LEMMA CopiesBackKeeps ==
  ASSUME HandlersInv, CopiesBack
  PROVE  HandlersInv'
<1>1. /\ Runs /\ frames # <<>> /\ Last(frames).phase = "copyback"
      /\ op = NoOp
  BY DEF CopiesBack, In, HandlersInv, AccessOK
<1>2. CASE ~open
  BY <1>1, <1>2, FaultKeeps DEF CopiesBack
<1>3. CASE open
  <2>1. /\ Stepped(Caller) /\ impl' = redir
        /\ frames' = [frames EXCEPT ![Len(frames)].phase = "close"]
        /\ UNCHANGED <<first, inAccess, redir, open, tf, acc, latest, stale, calls>>
    BY <1>3 DEF CopiesBack, Goes, static, hist
  <2>2. /\ CallInv' /\ (Statuses => Statuses') /\ op' = NoOp /\ failed' = "no"
        /\ tf => trap' = "step"
        /\ ~tf => trap' = "no"
    BY <1>1, <2>1, SteppedKeeps DEF HandlersInv
  <2>3. /\ frames' \in Seq(Frame) /\ frames' # <<>> /\ Len(frames') = Len(frames)
        /\ frames'[1].phase = IF Len(frames) = 1 THEN "close" ELSE frames[1].phase
    BY <1>1, <2>1, Went, FramesOK DEF HandlersInv
  <2>4. /\ Len(frames) \in Nat \ {0}
        /\ Len(frames) = 1 => frames[1].phase = "copyback"
    BY <1>1, FramesOK DEF HandlersInv, Last
  <2>5. TypeOK'
    BY <2>1, <2>2, <2>3 DEF HandlersInv, AccessOK, TypeOK, CallInv, Frame
  <2>6. AccessOK'
    <3>1. frames' # <<>> /\ Phase(1)' \in {"before", "copy", "continue"} => acc # NoAccess
      BY <1>1, <2>3, <2>4 DEF HandlersInv, AccessOK, Phase
    <3>2. QED
      BY <1>3, <2>1, <2>2, <2>3, <2>5, <3>1 DEF HandlersInv, AccessOK, StatusIsValid
  <2>7. AccessPhases'
    BY <1>1, <2>1, <2>2, <2>3, <2>4 DEF HandlersInv, AccessPhases, Apart, Phase
  <2>8. QED
    BY <2>2, <2>6, <2>7 DEF HandlersInv
<1>4. QED
  BY <1>2, <1>3

LEMMA ContinuesKeeps ==
  ASSUME HandlersInv, Continues
  PROVE  HandlersInv'
<1>1. /\ Runs /\ frames # <<>> /\ Last(frames).phase = "continue"
      /\ tf' = TRUE /\ frames' = Front(frames)
      /\ UNCHANGED <<callVars, first, inAccess, impl, redir, open, acc, latest, stale, calls>>
  BY DEF Continues, In, Pop, static, memory, hist
<1>2. CallInv' /\ (Statuses => Statuses') /\ trap' = "no" /\ op' = op
  BY <1>1, CallSame DEF HandlersInv, callVars, opVars, Runs
<1>3. /\ frames' \in Seq(Frame) /\ Len(frames') = Len(frames) - 1
      /\ frames' = <<>> <=> Len(frames) = 1
      /\ frames' # <<>> => frames'[1] = frames[1]
      /\ Len(frames) = 1 => frames[1].phase = "continue"
      /\ Len(frames) \in Nat \ {0}
  BY <1>1, Popped, FramesOK DEF HandlersInv
<1>4. TypeOK'
  BY <1>1, <1>2, <1>3 DEF HandlersInv, AccessOK, TypeOK, CallInv, Frame
<1>5. AccessOK'
  BY <1>1, <1>2, <1>3, <1>4 DEF HandlersInv, AccessOK, StatusIsValid, Phase, callVars
<1>6. AccessPhases'
  BY <1>1, <1>2, <1>3 DEF HandlersInv, AccessPhases, Apart, Phase
<1>7. QED
  BY <1>2, <1>5, <1>6 DEF HandlersInv

(* The page is closed, and the thread goes on where the single step was.   *)
LEMMA ClosesKeeps ==
  ASSUME HandlersInv, Closes
  PROVE  HandlersInv'
<1>1. /\ Runs /\ frames # <<>> /\ Last(frames).phase = "close" /\ op = NoOp
      /\ open' = FALSE /\ inAccess' = FALSE /\ frames' = Front(frames)
      /\ Enter(Last(frames).at)
      /\ UNCHANGED <<impls, tables, dr, dr7, opVars, failed, first, impl, redir, tf,
                     acc, latest, stale, calls>>
  BY DEF Closes, In, Pop, hist, HandlersInv, AccessOK
<1>2. /\ frames' \in Seq(Frame) /\ Len(frames') = Len(frames) - 1
      /\ frames' = <<>> <=> Len(frames) = 1
      /\ frames' # <<>> => frames'[1] = frames[1]
      /\ Len(frames) = 1 => frames[1].phase = "close"
      /\ Len(frames) \in Nat \ {0} /\ Last(frames) \in Frame
  BY <1>1, Popped, FramesOK DEF HandlersInv
<1>3. /\ CallInv' /\ (Statuses => Statuses') /\ trap' # "step" /\ op' = NoOp
      /\ failed' = "no"
  <2>1. Last(frames).at \in Targets \cup {Caller}
    BY <1>2 DEF Frame
  <2>2. CallInv' /\ (Statuses => Statuses')
    BY <1>1, <2>1, Enters, EntersStatus DEF HandlersInv, Runs
  <2>3. QED
    BY <1>1, <2>2 DEF Enter, opVars, Runs
<1>4. TypeOK'
  BY <1>1, <1>2, <1>3 DEF HandlersInv, AccessOK, TypeOK, CallInv, Frame
<1>5. AccessOK'
  BY <1>1, <1>2, <1>3, <1>4 DEF HandlersInv, AccessOK, StatusIsValid, Phase
<1>6. AccessPhases'
  BY <1>1, <1>2, <1>3 DEF HandlersInv, AccessPhases, Apart, Phase
<1>7. QED
  BY <1>3, <1>5, <1>6 DEF HandlersInv

-----------------------------------------------------------------------------
(* The exceptions.                                                         *)

(* A breakpoint during an access, and a table entry for it.                *)
LEMMA Watched ==
  ASSUME CallInv, trap = "breakpoint", op = NoOp
  PROVE  Watching(eip)
<1>1. PICK i \in Hits(eip) : TRUE
  BY DEF CallInv, BreakpointHits
<1>2. i \in Regs /\ dr[i] = eip /\ eip \in Targets
  BY <1>1, HitIsTarget
<1>3. Agrees(i, dr)
  BY <1>2 DEF CallInv, Phases
<1>4. QED
  BY <1>2, <1>3 DEF Watching, Agrees

LEMMA VarTakesKeeps ==
  ASSUME HandlersInv, VarTakes
  PROVE  HandlersInv'
<1> USE NamesDiffer
<1>1. /\ trap \in {"breakpoint", "step"} /\ failed = "no" /\ inAccess /\ op = NoOp
      /\ first = "var" \/ ~Watching(eip)
      /\ tf' = FALSE /\ frames' = Append(frames, [phase |-> "after", at |-> eip])
      /\ eip' = Caller /\ trap' = "no"
      /\ UNCHANGED <<impls, tables, debugRegs, opVars, failed, first, inAccess, impl,
                     redir, open, acc, latest, stale, calls>>
  BY DEF VarTakes, Pending, Push, static, memory, hist, HandlersInv, AccessOK, CallInv,
     CallTypeOK
<1>2. CallInv'
  BY <1>1, Moves DEF HandlersInv, CallInv, CallTypeOK, debugRegs
<1>3. eip \in Targets \cup {Caller}
  <2>1. CASE trap = "step"
    BY <2>1 DEF HandlersInv, CallInv, BreakpointHits
  <2>2. CASE trap = "breakpoint"
    <3>1. PICK i \in Hits(eip) : TRUE
      BY <2>2 DEF HandlersInv, CallInv, BreakpointHits
    <3>2. QED
      BY <3>1, HitIsTarget DEF HandlersInv
  <2>3. QED
    BY <1>1, <2>1, <2>2
<1>4. [phase |-> "after", at |-> eip] \in Frame
  BY <1>3 DEF Frame
<1>5. /\ frames' \in Seq(Frame) /\ frames' # <<>> /\ Len(frames') = Len(frames) + 1
      /\ frames'[1] = IF frames = <<>> THEN [phase |-> "after", at |-> eip] ELSE frames[1]
  BY <1>1, <1>4, Pushed, FramesOK DEF HandlersInv
<1>6. frames'[1].phase = IF frames = <<>> THEN "after" ELSE frames[1].phase
  BY <1>5
<1>7. TypeOK'
  BY <1>1, <1>2, <1>5 DEF HandlersInv, AccessOK, TypeOK, CallInv, Frame
<1>8. op' = NoOp
  BY <1>1 DEF opVars
<1>9. AccessOK'
  <2>1. frames' # <<>> /\ Phase(1)' \in {"before", "copy", "continue"} => acc # NoAccess
    BY <1>5, <1>6 DEF HandlersInv, AccessOK, Phase
  <2>2. QED
    BY <1>1, <1>5, <1>7, <1>8, <2>1 DEF HandlersInv, AccessOK, StatusIsValid
<1>10. ASSUME Apart PROVE trap = "step" /\ frames = <<>>
  <2>1. CASE first = "call"
    BY <1>1, <1>10, <2>1, Watched DEF HandlersInv, AccessPhases
  <2>2. CASE first = "var"
    BY <1>1, <1>10, <2>2 DEF HandlersInv, AccessPhases, AccessOK
  <2>3. QED
    BY <2>1, <2>2 DEF HandlersInv, AccessOK, TypeOK
<1>11. ASSUME Apart PROVE Statuses'
  <2>1. Statuses /\ trap = "step"
    BY <1>10, <1>11 DEF HandlersInv, AccessPhases
  <2>2. QED
    BY <1>1, <2>1 DEF Statuses, debugRegs, opVars
<1>12. AccessPhases'
  BY <1>1, <1>5, <1>6, <1>10, <1>11 DEF HandlersInv, AccessPhases, Apart, Phase
<1>13. QED
  BY <1>2, <1>9, <1>12 DEF HandlersInv

(* The status bit that is reset is the only one that is set.               *)
LEMMA CallTakesKeeps ==
  ASSUME HandlersInv, CallTakes
  PROVE  HandlersInv'
<1> USE NamesDiffer
<1>1. /\ Pending /\ HWBreakPointHandler /\ UNCHANGED varVars
      /\ first = "call" \/ ~inAccess
  BY DEF CallTakes
<1>2. CallInv'
  BY <1>1, Handles DEF HandlersInv
<1>3. TypeOK'
  BY <1>1, <1>2 DEF HandlersInv, AccessOK, TypeOK, CallInv, varVars, static, memory, hist
<1>4. UNCHANGED <<first, inAccess, impl, redir, open, tf, frames, acc, latest, stale, calls>>
  BY <1>1 DEF varVars, static, memory, hist
<1>5. CASE Fails("dr6") /\ trap = "step" /\ \E i \in Regs : ~dr6[i]
  <2>1. first = "call" /\ inAccess
    BY <1>1, <1>5 DEF HandlersInv, AccessOK
  <2>2. /\ failed' = "dr6" /\ trap' = "step"
        /\ UNCHANGED <<debugRegs, opVars, eip>>
    BY <1>5 DEF Fails
  <2>3. AccessOK'
    BY <1>3, <1>4, <1>5, <2>1, <2>2 DEF HandlersInv, AccessOK, StatusIsValid, opVars, Phase
  <2>4. AccessPhases'
    BY <1>4, <1>5, <2>2, SameStatus DEF HandlersInv, AccessPhases, Apart, Phase, opVars
  <2>5. QED
    BY <1>2, <2>3, <2>4 DEF HandlersInv
<1>6. ASSUME NEW i \in Regs, dr6[i], dr6' = [dr6 EXCEPT ![i] = FALSE], dr[i] = eip,
             eip \in Targets, trap' = "no", UNCHANGED <<dr, opVars, failed>>
      PROVE  HandlersInv'
  <2>1. Apart => Statuses' /\ trap = "breakpoint"
    <3>1. SUFFICES ASSUME Apart PROVE Statuses' /\ trap = "breakpoint"
      OBVIOUS
    <3>2. Statuses
      BY <3>1 DEF HandlersInv, AccessPhases
    <3>3. ASSUME NEW j \in Regs, dr6[j] PROVE j = i
      BY <1>6, <3>2, <3>3, OneHit, HitIsTarget DEF HandlersInv, Statuses
    <3>4. QED
      BY <1>6, <3>2, <3>3 DEF Statuses, opVars, HandlersInv, CallInv, CallTypeOK
  <2>2. ~(trap = "step")
    BY <1>1, <2>1 DEF HandlersInv, AccessOK, Apart
  <2>3. failed' = "no"
    BY <1>1, <1>6 DEF Pending
  <2>4. AccessOK'
    BY <1>3, <1>4, <1>6, <2>2, <2>3 DEF HandlersInv, AccessOK, StatusIsValid, opVars, Phase,
       Pending
  <2>5. AccessPhases'
    BY <1>4, <1>6, <2>1 DEF HandlersInv, AccessPhases, Apart, Phase
  <2>6. QED
    BY <1>2, <2>4, <2>5 DEF HandlersInv
<1>7. QED
  BY <1>1, <1>5, <1>6, HandlesHow DEF HandlersInv

LEMMA UnhandledKeeps ==
  ASSUME HandlersInv, Unhandled
  PROVE  HandlersInv'
<1>1. /\ Pending /\ ~inAccess /\ ~Watching(eip) /\ Fails("unhandled") /\ UNCHANGED varVars
  BY DEF Unhandled
<1>2. trap = "breakpoint"
  BY <1>1 DEF Pending, HandlersInv, AccessOK, CallInv, CallTypeOK
<1>3. CallInv'
  BY <1>1, <1>2, Dies DEF HandlersInv
<1>4. TypeOK'
  BY <1>1, <1>3 DEF HandlersInv, AccessOK, TypeOK, CallInv, varVars, static, memory, hist
<1>5. AccessOK'
  BY <1>1, <1>4 DEF HandlersInv, AccessOK, StatusIsValid, Fails, opVars, varVars, static,
     memory, hist, Phase
<1>6. AccessPhases'
  BY <1>1, SameStatus DEF HandlersInv, AccessPhases, Apart, Phase, Fails, opVars, varVars,
     static, memory, hist
<1>7. QED
  BY <1>3, <1>5, <1>6 DEF HandlersInv

LEMMA DebuggerKeeps ==
  ASSUME HandlersInv, Debugger, UNCHANGED varVars
  PROVE  HandlersInv'
<1>1. /\ CallInv' /\ Hits(eip)' = Hits(eip)
      /\ UNCHANGED <<dr6, opVars, trap, failed>>
  BY Debugs DEF HandlersInv, Debugger, DebuggerSets, DebuggerClears
<1>2. TypeOK'
  BY <1>1 DEF HandlersInv, AccessOK, TypeOK, CallInv, varVars, static, memory, hist
<1>3. AccessOK'
  BY <1>1, <1>2 DEF HandlersInv, AccessOK, StatusIsValid, opVars, varVars, static, memory,
     hist, Phase
<1>4. Statuses => Statuses'
  BY <1>1 DEF Statuses, opVars
<1>5. AccessPhases'
  BY <1>1, <1>4 DEF HandlersInv, AccessPhases, Apart, Phase, varVars, static, memory, hist
<1>6. QED
  BY <1>1, <1>3, <1>5 DEF HandlersInv

-----------------------------------------------------------------------------
LEMMA Establishes == HandlersInit => HandlersInv
<1> SUFFICES ASSUME HandlersInit PROVE HandlersInv
  OBVIOUS
<1> USE NamesDiffer, CtrlsDiffer
<1>1. /\ impls = [h \in Redirs |-> Null] /\ watches = [i \in Regs |-> Null]
      /\ redirs = [i \in Regs |-> Null] /\ dr = [i \in Regs |-> Null]
      /\ dr7 = [i \in Regs |-> OffCtrl] /\ dr6 = [i \in Regs |-> FALSE]
      /\ context.dr = dr /\ context.dr7 = dr7 /\ context.dr6 = dr6
      /\ op = NoOp /\ eip = Caller /\ trap = "no" /\ failed = "no"
      /\ asked = [target |-> Null, to |-> Null]
      /\ redirected = [f \in Targets |-> Null]
  BY DEF HandlersInit, CallInit, Empty, NotAsked
<1>2. CallTypeOK
  BY <1>1 DEF CallTypeOK
<1>3. RegistersOK(dr, dr7) /\ RegistersOK(context.dr, context.dr7)
      /\ context.dr6 \in [Regs -> BOOLEAN]
  BY <1>1 DEF RegistersOK
<1>4. OpOK /\ TablesOK /\ Phases /\ BreakpointHits /\ FailedOK /\ OnlySelfRemovalDies
  BY <1>1 DEF OpOK, TablesOK, Phases, Agrees, Installing, Uninstalling, BreakpointHits,
     FailedOK, OnlySelfRemovalDies
<1>5. CallInv
  BY <1>2, <1>3, <1>4 DEF CallInv
<1>6. TypeOK
  <2>1. frames = <<>> /\ acc = NoAccess /\ calls = 0 /\ MaxCalls \in Nat
    BY HandlersAssumption DEF HandlersInit
  <2>2. /\ first \in {"var", "call"} /\ {inAccess, open, tf, stale} \subseteq BOOLEAN
        /\ {impl, redir, latest} \subseteq Values
    BY DEF HandlersInit
  <2>3. acc \in [write : BOOLEAN, to : Targets \cup {Null, Caller}]
    BY <2>1 DEF NoAccess
  <2>4. QED
    BY <1>2, <2>1, <2>2, <2>3 DEF TypeOK
<1>7. AccessOK
  BY <1>1, <1>6 DEF AccessOK, HandlersInit, StatusIsValid
<1>8. AccessPhases
  BY <1>1 DEF AccessPhases, HandlersInit, Statuses
<1>9. QED
  BY <1>5, <1>7, <1>8 DEF HandlersInv

LEMMA Stutters ==
  ASSUME HandlersInv, UNCHANGED handlersVars
  PROVE  HandlersInv'
<1>1. CallInv' /\ (Statuses => Statuses')
  BY CallSame DEF HandlersInv, handlersVars
<1>2. UNCHANGED <<op, trap, failed, first, inAccess, impl, redir, open, tf, frames, acc,
                  latest, stale, calls>>
  BY DEF handlersVars, callVars, opVars, varVars, static, memory, hist
<1>3. TypeOK'
  BY <1>1, <1>2 DEF HandlersInv, AccessOK, TypeOK, CallInv
<1>4. AccessOK' /\ AccessPhases'
  BY <1>1, <1>2, <1>3 DEF HandlersInv, AccessOK, AccessPhases, Apart, Phase, StatusIsValid
<1>5. QED
  BY <1>1, <1>4 DEF HandlersInv

LEMMA Preserves == HandlersInv /\ [HandlersNext]_handlersVars => HandlersInv'
BY CodeKeeps, CodeWritesKeeps, AccessKeeps, InstructionKeeps, CallbackCallsKeeps,
   CallbackGoesOnKeeps, CallbackReturnsKeeps, CopiesKeeps, ContinuesKeeps, CopiesBackKeeps,
   ClosesKeeps, VarTakesKeeps, CallTakesKeeps, UnhandledKeeps, DebuggerKeeps, Stutters
   DEF HandlersNext

(* The invariant of the two handlers: the tables, the registers and the    *)
(* copy SetThreadContext will write agree at every place of InstallHWExec  *)
(* and UninstallHWExec, and the page, threadId and the copies of the       *)
(* variable are where the access is.                                       *)
THEOREM HandlersInvariant == HandlersSpec => []HandlersInv
BY Establishes, Preserves, PTL DEF HandlersSpec

(* The variables of both handlers have the types of the code.              *)
THEOREM TypeCorrect == HandlersSpec => []TypeOK
<1>1. HandlersInv => TypeOK
  BY DEF HandlersInv, AccessOK
<1>2. QED
  BY <1>1, HandlersInvariant, PTL

LEMMA Matching == CallInv => TablesMatchRegisters
<1> SUFFICES ASSUME CallInv PROVE TablesMatchRegisters
  OBVIOUS
<1> USE NamesDiffer
<1>1. ASSUME NEW i \in Regs, ~Changing(i)
      PROVE  Agrees(i, dr)
  <2>1. CASE op = NoOp
    BY <2>1 DEF CallInv, Phases
  <2>2. CASE Installing
    BY <1>1, <2>2, OpCases DEF CallInv, Phases, Changing, Installing
  <2>3. CASE Uninstalling
    BY <1>1, <2>3 DEF CallInv, Phases, Changing, Uninstalling
  <2>4. QED
    BY <2>1, <2>2, <2>3, OpCases DEF CallInv
<1>2. ASSUME NEW i \in Regs, ~Changing(i)
      PROVE  /\ watches[i] # Null => dr[i] = watches[i] /\ dr7[i] = ExecCtrl
             /\ dr7[i] = ExecCtrl => watches[i] = dr[i]
  BY <1>1, <1>2 DEF Agrees, CallInv, CallTypeOK, RegistersOK
<1>3. QED
  BY <1>2 DEF TablesMatchRegisters, CallInv, FailedOK, TablesOK

(* No check of FunctionCallWatcher.cpp marked "sanity check" or "check if  *)
(* the drx (dr7) is valid" fails, whatever a debugger does with the        *)
(* registers that are free.                                                *)
THEOREM TablesMatchRegistersHolds == HandlersSpec => []TablesMatchRegisters
<1>1. HandlersInv => TablesMatchRegisters
  BY Matching DEF HandlersInv
<1>2. QED
  BY <1>1, HandlersInvariant, PTL

(* A breakpoint stays unhandled only in the removal of the redirection of  *)
(* GetThreadContext or of SetThreadContext.                                *)
THEOREM OnlySelfRemovalDiesHolds == HandlersSpec => []OnlySelfRemovalDies
<1>1. HandlersInv => OnlySelfRemovalDies
  BY DEF HandlersInv, CallInv
<1>2. QED
  BY <1>1, HandlersInvariant, PTL

(* "check if dr6 is valid" fails only at the single step of an access,     *)
(* offered to HWBreakPointHandler before DbgVarWatcher's handler.          *)
THEOREM StatusIsValidHolds == HandlersSpec => []StatusIsValid
<1>1. HandlersInv => StatusIsValid
  BY DEF HandlersInv, AccessOK
<1>2. QED
  BY <1>1, HandlersInvariant, PTL

(* Calls of watched functions from the callbacks of a watched variable do  *)
(* not lose a value when HWBreakPointHandler is the first handler.         *)
THEOREM CallsKeepVariableHolds == HandlersSpec => []CallsKeepVariable
<1>1. HandlersInv => CallsKeepVariable
  BY DEF HandlersInv, AccessOK, AccessPhases, Apart, CallsKeepVariable
<1>2. QED
  BY <1>1, HandlersInvariant, PTL

-----------------------------------------------------------------------------
(* Each step is one of Redirection, or leaves the map and the place alone: *)
(* the map changes where SetThreadContext returns, and nowhere else.  The  *)
(* map is the history of the calls of Install and Uninstall; that the      *)
(* handler finds the same class in its table is an invariant.              *)
Called == IF trap = "no" THEN Caller ELSE eip
At     == IF trap = "no" THEN eip ELSE Caller

Abstract == Promise!RedirectionNext \/ UNCHANGED <<redirected, Called, At>>

HistoryOK ==
  /\ \A i \in Regs : dr[i] \in Targets => redirected[dr[i]] = redirs[i]
  /\ \A f \in Targets : (\A i \in Regs : dr[i] # f) => redirected[f] = Null
  /\ op # NoOp => /\ asked.target = op.target
                  /\ asked.to = IF op.install THEN op.redir ELSE Null

LEMMA HitsAre ==
  ASSUME CallInv, NEW f \in Targets
  PROVE  Hits(f) = {i \in Regs : dr[i] = f}
BY DEF Hits, CallInv, RegistersOK

(* A debugger's register is not one of a function.                         *)
LEMMA SameFunctions ==
  ASSUME HistoryOK, UNCHANGED <<redirs, opVars>>,
         \A f \in Targets, i \in Regs : dr'[i] = f <=> dr[i] = f
  PROVE  HistoryOK'
BY DEF HistoryOK, opVars, history

LEMMA SameRegisters ==
  ASSUME HistoryOK, UNCHANGED <<dr, redirs, opVars>>
  PROVE  HistoryOK'
BY DEF HistoryOK, opVars, history

(* With the map as it is, the thread may return.                           *)
LEMMA Returning ==
  ASSUME redirected' = redirected,
         (Called' = Called /\ At' = At) \/ (Called' = Caller /\ At' = Caller)
  PROVE  Abstract
BY DEF Abstract, Promise!RedirectionNext, Promise!Return, Called, At

LEMMA Arriving ==
  ASSUME redirected' = redirected, NEW f \in Targets, Called \in {f, Caller},
         Called' = Caller, At' = IF redirected[f] = Null THEN f ELSE redirected[f]
  PROVE  Abstract
BY DEF Abstract, Promise!RedirectionNext, Promise!Arrive, Called, At

LEMMA Stopping ==
  ASSUME redirected' = redirected, NEW f \in Targets, Called = Caller,
         Called' = f, At' = Caller
  PROVE  Abstract
BY DEF Abstract, Promise!RedirectionNext, Promise!Call, Called, At

LEMMA EnterMaps ==
  ASSUME CallInv, HistoryOK, NEW f \in Targets \cup {Caller}, Enter(f), trap = "no",
         UNCHANGED <<dr, dr7, tables, opVars>>
  PROVE  Abstract /\ HistoryOK'
<1>1. HistoryOK' /\ redirected' = redirected /\ Called = Caller
  BY SameRegisters DEF tables, opVars, history, Called
<1>2. CASE f \in Targets /\ Hits(f) = {}
  <2>1. redirected[f] = Null
    BY <1>2, HitsAre DEF HistoryOK
  <2>2. Called' = Caller /\ At' = f
    BY <1>2 DEF Enter, Called, At
  <2>3. QED
    BY <1>1, <1>2, <2>1, <2>2, Arriving
<1>3. CASE f \in Targets /\ Hits(f) # {}
  BY <1>1, <1>3, Stopping DEF Enter, Called, At
<1>4. CASE f = Caller
  <2>1. Called' = Caller /\ At' = Caller
    BY <1>4 DEF Enter, Called, At
  <2>2. QED
    BY <1>1, <2>1, Returning
<1>5. QED
  BY <1>2, <1>3, <1>4

(* InstallHWExec and UninstallHWExec return: what the register says now is *)
(* what Install or Uninstall was called for.                               *)
LEMMA SetsContextMaps ==
  ASSUME CallInv, CallInv', HistoryOK, SetReturns
  PROVE  Abstract /\ HistoryOK'
<1> USE NamesDiffer
<1>1. /\ Runs /\ op # NoOp /\ op.call = "set" /\ op' = NoOp
      /\ dr' = context.dr /\ redirs' = redirs
      /\ Called = Caller /\ Called' = Caller /\ At' = Caller
      /\ redirected' = [redirected EXCEPT ![op.target] = asked.to]
  <2>1. op # NoOp
    BY DEF SetReturns, Returns, NoOp
  <2>2. asked.target = op.target
    BY <2>1 DEF HistoryOK
  <2>3. QED
    BY <2>1, <2>2 DEF SetReturns, Returns, tables, At, Called, Runs
<1>2. op.target \in Targets /\ (Installing \/ Uninstalling)
  BY <1>1, OpCases DEF CallInv
<1>3. \A i \in Regs : Agrees(i, context.dr)
  BY <1>1, <1>2 DEF CallInv, Phases
<1>4. \A f \in Targets : redirected'[f] = IF f = op.target THEN asked.to ELSE redirected[f]
  BY <1>1, <1>2 DEF CallInv, CallTypeOK
<1>5. ASSUME NEW f \in Targets \ {op.target}, NEW i \in Regs
      PROVE  dr'[i] = f <=> dr[i] = f
  <2>1. CASE Agrees(i, dr)
    BY <1>1, <1>3, <1>5, <2>1 DEF Agrees
  <2>2. CASE ~Agrees(i, dr) /\ Installing
    BY <1>1, <1>3, <1>5, <2>2 DEF Agrees, CallInv, Phases
  <2>3. CASE ~Agrees(i, dr) /\ Uninstalling
    BY <1>1, <1>3, <1>5, <2>3 DEF Agrees, CallInv, Phases
  <2>4. QED
    BY <1>2, <2>1, <2>2, <2>3
<1>6. ASSUME \A i \in Regs : dr'[i] = op.target => asked.to = redirs[i],
             (\A i \in Regs : dr'[i] # op.target) => asked.to = Null
      PROVE  HistoryOK'
  <2>1. ASSUME NEW i \in Regs, dr'[i] \in Targets
        PROVE  redirected'[dr'[i]] = redirs[i]
    <3>1. CASE dr'[i] = op.target
      BY <1>4, <1>6, <2>1, <3>1
    <3>2. CASE dr'[i] # op.target
      <4>1. dr[i] = dr'[i]
        BY <1>5, <2>1, <3>2
      <4>2. QED
        BY <1>4, <2>1, <3>2, <4>1 DEF HistoryOK
    <3>3. QED
      BY <3>1, <3>2
  <2>2. ASSUME NEW f \in Targets, \A i \in Regs : dr'[i] # f
        PROVE  redirected'[f] = Null
    <3>1. CASE f = op.target
      BY <1>4, <1>6, <2>2, <3>1
    <3>2. CASE f # op.target
      <4>1. \A i \in Regs : dr[i] # f
        BY <1>5, <2>2, <3>2
      <4>2. QED
        BY <1>4, <3>2, <4>1 DEF HistoryOK
    <3>3. QED
      BY <3>1, <3>2
  <2>3. QED
    BY <1>1, <2>1, <2>2 DEF HistoryOK
<1>7. CASE Installing
  <2>1. PICK n \in Regs : /\ watches[n] = op.target /\ context.dr[n] = op.target
                          /\ redirs[n] = op.redir /\ dr[n] \notin Targets
                          /\ \A i \in Regs \ {n} : Agrees(i, dr)
    BY <1>1, <1>7 DEF CallInv, Phases
  <2>2. \A i \in Regs : watches[i] = op.target => i = n
    BY <1>2, <2>1 DEF CallInv, TablesOK
  <2>3. \A i \in Regs : dr[i] # op.target
    BY <1>2, <2>1, <2>2 DEF Agrees
  <2>4. redirected[op.target] = Null
    BY <1>2, <2>3 DEF HistoryOK
  <2>5. asked.to = op.redir /\ op.redir \in Redirs
    BY <1>1, <1>7, OpCases DEF HistoryOK, Installing, CallInv, InstallOps
  <2>6. \A i \in Regs : dr'[i] = op.target => i = n
    BY <1>1, <1>2, <1>3, <2>2 DEF Agrees
  <2>7. HistoryOK'
    BY <1>1, <1>6, <2>1, <2>5, <2>6
  <2>8. Promise!Install(op.target, op.redir)
    BY <1>1, <2>4, <2>5 DEF Promise!Install, Called, At
  <2>9. QED
    BY <1>2, <2>5, <2>7, <2>8 DEF Abstract, Promise!RedirectionNext
<1>8. CASE Uninstalling
  <2>1. /\ op.ith \in Regs /\ dr[op.ith] = op.target
        /\ \A i \in Regs : watches[i] # op.target
    BY <1>1, <1>8, OpCases DEF CallInv, Phases, UninstallOps
  <2>2. redirected[op.target] = redirs[op.ith] /\ redirs[op.ith] \in Redirs
    BY <1>2, <2>1 DEF HistoryOK, CallInv, TablesOK
  <2>3. \A i \in Regs : dr'[i] # op.target
    BY <1>1, <1>2, <1>3, <2>1 DEF Agrees
  <2>4. asked.to = Null
    BY <1>1, <1>8 DEF HistoryOK, Uninstalling
  <2>5. HistoryOK'
    BY <1>6, <2>3, <2>4
  <2>6. Promise!Uninstall(op.target)
    BY <1>1, <2>2, <2>4 DEF Promise!Uninstall, Called, At
  <2>7. QED
    BY <1>2, <2>5, <2>6 DEF Abstract, Promise!RedirectionNext
<1>9. QED
  BY <1>2, <1>7, <1>8

(* GetThreadContext returns: the entry that is written is not yet hit.     *)
LEMMA GetsContextMaps ==
  ASSUME CallInv, CallInv', HistoryOK, GetReturns
  PROVE  Abstract /\ HistoryOK'
<1>1. CASE \E why \in {"exhausted", "sanity"} : Fails(why)
  <2>1. UNCHANGED <<dr, redirs, opVars, eip, trap>>
    BY <1>1 DEF Fails, tables, debugRegs
  <2>2. redirected' = redirected /\ Called' = Called /\ At' = At
    BY <2>1 DEF opVars, history, Called, At
  <2>3. QED
    BY <2>1, <2>2, SameRegisters, Returning
<1>2. CASE ~\E why \in {"exhausted", "sanity"} : Fails(why)
  <2>1. /\ dr' = dr /\ trap' = "no" /\ eip' = Caller /\ UNCHANGED history
        /\ op # NoOp /\ op' = [op EXCEPT !.call = "set"]
        /\ \/ redirs' = redirs
           \/ \E i \in Regs : FindFree(i) /\ redirs' = [redirs EXCEPT ![i] = op.redir]
    BY <1>2 DEF GetReturns, InstallTakes, UninstallClears, tables, debugRegs, Returns, Runs,
       NoOp
  <2>2. \A i \in Regs : dr[i] # Null => redirs'[i] = redirs[i]
    BY <2>1, FindsFree DEF CallInv, CallTypeOK
  <2>3. /\ op'.target = op.target /\ op'.install = op.install
        /\ op.install => op'.redir = op.redir
    BY <2>1, OpCases DEF CallInv, InstallOps, UninstallOps
  <2>4. HistoryOK'
    BY <2>1, <2>2, <2>3, NamesDiffer DEF HistoryOK, history
  <2>5. redirected' = redirected /\ Called' = Caller /\ At' = Caller
    BY <2>1 DEF history, Called, At
  <2>6. QED
    BY <2>4, <2>5, Returning
<1>3. QED
  BY <1>1, <1>2

(* Install and Uninstall are called: their class is remembered.            *)
LEMMA AsksMaps ==
  ASSUME HistoryOK, NEW h \in Redirs, Install(h) \/ Uninstall(h)
  PROVE  Abstract /\ HistoryOK'
<1>1. CASE Fails("target")
  <2>1. UNCHANGED <<dr, redirs, opVars, eip, trap>>
    BY <1>1 DEF Fails, tables, debugRegs
  <2>2. redirected' = redirected /\ Called' = Called /\ At' = At
    BY <2>1 DEF opVars, history, Called, At
  <2>3. QED
    BY <2>1, <2>2, SameRegisters, Returning
<1>2. CASE ~Fails("target")
  <2>1. UNCHANGED <<dr, redirs, redirected, eip, trap>>
    BY <1>2 DEF Install, Uninstall, tables, debugRegs
  <2>2. /\ asked'.target = op'.target
        /\ asked'.to = IF op'.install THEN op'.redir ELSE Null
    BY <1>2 DEF Install, Uninstall
  <2>3. HistoryOK'
    BY <2>1, <2>2 DEF HistoryOK
  <2>4. QED
    BY <2>1, <2>3, Returning DEF Called, At
<1>3. QED
  BY <1>1, <1>2

LEMMA CodeCallMaps ==
  ASSUME CallInv, CallInv', HistoryOK,
         CallNext \/ CallContext \/ Return \/ \E f \in Targets : Call(f)
  PROVE  Abstract /\ HistoryOK'
<1>1. ASSUME NEW h \in Redirs, Unset(h) \/ \E f \in Targets : Set(h, f)
      PROVE  Abstract /\ HistoryOK'
  <2>1. UNCHANGED <<dr, redirs, opVars, eip, trap>>
    BY <1>1 DEF Unset, Set, Fails, tables, debugRegs
  <2>2. redirected' = redirected /\ Called' = Called /\ At' = At
    BY <2>1 DEF opVars, history, Called, At
  <2>3. QED
    BY <2>1, <2>2, SameRegisters, Returning
<1>2. CASE CallContext
  BY <1>2, EnterMaps, NamesDiffer DEF CallContext, Runs
<1>3. CASE Return
  <2>1. UNCHANGED <<dr, redirs, opVars, trap>> /\ eip' = Caller /\ trap = "no"
    BY <1>3 DEF Return, Returns, Runs, tables, debugRegs
  <2>2. redirected' = redirected /\ Called' = Caller /\ At' = Caller
    BY <2>1 DEF opVars, history, Called, At
  <2>3. QED
    BY <2>1, <2>2, SameRegisters, Returning
<1>4. ASSUME NEW f \in Targets, Call(f) PROVE Abstract /\ HistoryOK'
  BY <1>4, EnterMaps DEF Call, Calling, Runs
<1>5. QED
  BY <1>1, <1>2, <1>3, <1>4, AsksMaps, GetsContextMaps, SetsContextMaps DEF CallNext

LEMMA SteppedMaps ==
  ASSUME CallInv, HistoryOK, Runs, NEW to \in Targets \cup {Caller}, Stepped(to)
  PROVE  Abstract /\ HistoryOK'
<1>1. CASE tf
  <2>1. UNCHANGED <<dr, redirs, opVars>> /\ trap' = "step" /\ eip' = to /\ trap = "no"
    BY <1>1 DEF Stepped, tables, debugRegs, Runs
  <2>2. /\ redirected' = redirected /\ Called = Caller
        /\ Called' = to /\ At' = Caller
    BY <2>1 DEF opVars, history, Called, At
  <2>3. QED
    BY <2>1, <2>2, SameRegisters, Returning, Stopping
<1>2. CASE ~tf
  BY <1>2, EnterMaps DEF Stepped, Runs
<1>3. QED
  BY <1>1, <1>2

(* A taken breakpoint goes on at the class in the entry of the register    *)
(* that is hit, which is the class Install was called with.                *)
LEMMA CallTakesMaps ==
  ASSUME CallInv, HistoryOK, Pending, HWBreakPointHandler
  PROVE  Abstract /\ HistoryOK'
<1>1. CASE Fails("dr6")
  <2>1. UNCHANGED <<dr, redirs, opVars, eip, trap>>
    BY <1>1 DEF Fails, tables, debugRegs
  <2>2. redirected' = redirected /\ Called' = Called /\ At' = At
    BY <2>1 DEF opVars, history, Called, At
  <2>3. QED
    BY <2>1, <2>2, SameRegisters, Returning
<1>2. ASSUME NEW i \in Regs, dr[i] = eip, eip \in Targets,
             eip' = redirs[i], redirs[i] \in Redirs, trap' = "no",
             UNCHANGED <<tables, dr, opVars>>
      PROVE  Abstract /\ HistoryOK'
  <2>1. HistoryOK' /\ redirected' = redirected
    BY <1>2, SameRegisters DEF tables, opVars, history
  <2>2. redirected[eip] = redirs[i] /\ redirs[i] # Null
    BY <1>2, NamesDiffer DEF HistoryOK
  <2>3. Called = eip /\ Called' = Caller /\ At' = redirs[i]
    BY <1>2 DEF Called, At, Pending
  <2>4. QED
    BY <1>2, <2>1, <2>2, <2>3, Arriving
<1>3. QED
  BY <1>1, <1>2, HandlesHow

(* The registers of functions are not a debugger's.                        *)
LEMMA DebuggerMaps ==
  ASSUME CallInv, HistoryOK, Debugger
  PROVE  Abstract /\ HistoryOK'
<1>1. UNCHANGED <<redirs, opVars, eip, trap>>
  BY DEF Debugger, DebuggerSets, DebuggerClears, tables
<1>2. PICK j \in Regs, x \in {Null, Foreign} :
        dr[j] \in {Null, Foreign} /\ dr' = [dr EXCEPT ![j] = x]
  BY DEF Debugger, DebuggerSets, DebuggerClears
<1>3. \A i \in Regs : dr'[i] = IF i = j THEN x ELSE dr[i]
  BY <1>2 DEF CallInv, CallTypeOK
<1>4. \A f \in Targets, i \in Regs : dr'[i] = f <=> dr[i] = f
  BY <1>2, <1>3, NamesDiffer
<1>5. redirected' = redirected /\ Called' = Called /\ At' = At
  BY <1>1 DEF opVars, history, Called, At
<1>6. QED
  BY <1>1, <1>4, <1>5, SameFunctions, Returning

LEMMA StepMaps ==
  ASSUME HandlersInv, HandlersInv', HistoryOK, [HandlersNext]_handlersVars
  PROVE  Abstract /\ HistoryOK'
<1> USE DEF HandlersInv
<1>1. CASE /\ UNCHANGED <<dr, redirs, opVars>>
           /\ \/ eip' = eip /\ trap' = trap
              \/ eip' = Caller /\ trap' = "no"
  <2>1. /\ redirected' = redirected
        /\ \/ Called' = Called /\ At' = At
           \/ Called' = Caller /\ At' = Caller
    BY <1>1 DEF opVars, history, Called, At
  <2>2. QED
    BY <1>1, <2>1, SameRegisters, Returning
<1>2. CASE CodeCalls
  BY <1>2, CodeCallMaps DEF CodeCalls
<1>3. CASE CodeWrites \/ CallbackReturns \/ Continues
           \/ \E write \in BOOLEAN, to \in Targets \cup {Caller} : Access(write, to)
  <2>1. UNCHANGED callVars
    BY <1>3 DEF CodeWrites, CallbackReturns, Continues, Access
  <2>2. QED
    BY <1>1, <2>1 DEF callVars, debugRegs, tables
<1>4. CASE Instruction
  <2>1. CASE ~open
    BY <1>1, <1>4, <2>1 DEF Instruction, Fault, Fails, callVars, debugRegs, tables
  <2>2. CASE open
    BY <1>4, <2>2, SteppedMaps DEF Instruction, AccessOK
  <2>3. QED
    BY <2>1, <2>2
<1>5. ASSUME NEW f \in Targets, CallbackCalls(f) PROVE Abstract /\ HistoryOK'
  BY <1>5, CodeCallMaps DEF CallbackCalls
<1>6. CASE CallbackGoesOn
  BY <1>6, CodeCallMaps DEF CallbackGoesOn
<1>7. CASE Copies \/ CopiesBack
  <2>1. CASE ~open
    BY <1>1, <1>7, <2>1 DEF Copies, CopiesBack, Fault, Fails, callVars, debugRegs, tables
  <2>2. CASE open
    BY <1>7, <2>2, SteppedMaps DEF Copies, CopiesBack, In
  <2>3. QED
    BY <2>1, <2>2
<1>8. CASE Closes
  <2>1. Last(frames) \in Frame
    BY <1>8, FramesOK, Popped DEF Closes, In
  <2>2. Last(frames).at \in Targets \cup {Caller}
    BY <2>1 DEF Frame
  <2>3. QED
    BY <1>8, <2>2, EnterMaps DEF Closes, In, Runs
<1>9. CASE VarTakes
  BY <1>1, <1>9 DEF VarTakes, debugRegs, tables
<1>10. CASE CallTakes
  BY <1>10, CallTakesMaps DEF CallTakes
<1>11. CASE Unhandled
  BY <1>1, <1>11 DEF Unhandled, Fails, debugRegs, tables
<1>12. CASE Debugger
  BY <1>12, DebuggerMaps
<1>13. CASE UNCHANGED handlersVars
  BY <1>1, <1>13 DEF handlersVars, callVars, debugRegs, tables
<1>14. QED
  BY <1>2, <1>3, <1>4, <1>5, <1>6, <1>7, <1>8, <1>9, <1>10, <1>11, <1>12, <1>13
     DEF HandlersNext

LEMMA HistoryInvariant == HandlersSpec => []HistoryOK
<1>1. HandlersInit => HistoryOK
  BY NamesDiffer DEF HandlersInit, CallInit, Empty, HistoryOK
<1>2. HandlersInv /\ HandlersInv' /\ HistoryOK /\ [HandlersNext]_handlersVars => HistoryOK'
  BY StepMaps
<1>3. QED
  BY <1>1, <1>2, HandlersInvariant, PTL DEF HandlersSpec

(* A call arrives at the class Install was last called with for its        *)
(* target, or at the target if there is none: the two handlers, with their *)
(* callers and a debugger, implement Redirection.                          *)
THEOREM RedirectionImplemented == HandlersSpec => ImplementsRedirection
<1>1. HandlersInit => Promise!RedirectionInit
  BY DEF HandlersInit, CallInit, Promise!RedirectionInit
<1>2. HandlersInv /\ HandlersInv' /\ HistoryOK /\ [HandlersNext]_handlersVars => Abstract
  BY StepMaps
<1>3. Abstract => [Promise!RedirectionNext]_<<redirected, Called, At>>
  BY DEF Abstract
<1>4. [Promise!RedirectionNext]_<<redirected, Called, At>>
        => [Promise!RedirectionNext]_Promise!promised
  BY DEF Promise!promised, Called, At
<1>5. QED
  BY <1>1, <1>2, <1>3, <1>4, HandlersInvariant, HistoryInvariant, PTL
     DEF HandlersSpec, ImplementsRedirection, Promise!RedirectionSpec

=============================================================================
