---------------------------- MODULE Redirection -----------------------------
(***************************************************************************)
(* What FuncRedir promises its user (src/FunctionCallWatcher.h): a map of  *)
(* installed redirections, and calls that arrive where the map says.       *)
(***************************************************************************)
CONSTANTS Targets, Redirs, NotInstalled, Caller

VARIABLES
  installed,   \* installed[f]: where calls of f go, or NotInstalled
  called,      \* the function whose call has not arrived yet, or Caller
  at           \* the function the thread is in

promised == <<installed, called, at>>

RedirectionInit ==
  /\ installed = [f \in Targets |-> NotInstalled]
  /\ called = Caller
  /\ at = Caller

Install(f, redir) ==
  /\ installed[f] = NotInstalled
  /\ installed' = [installed EXCEPT ![f] = redir]
  /\ called = Caller
  /\ called' = Caller /\ at' = Caller

Uninstall(f) ==
  /\ installed[f] # NotInstalled
  /\ installed' = [installed EXCEPT ![f] = NotInstalled]
  /\ called = Caller
  /\ called' = Caller /\ at' = Caller

(* A call of f takes time, or arrives at once.                             *)
Call(f) ==
  /\ called = Caller
  /\ called' = f /\ at' = Caller
  /\ UNCHANGED installed

Arrive(f) ==
  /\ called \in {f, Caller}
  /\ called' = Caller
  /\ at' = IF installed[f] = NotInstalled THEN f ELSE installed[f]
  /\ UNCHANGED installed

(* The thread is back in its code: the function returned, or an exception  *)
(* handler runs before the call, which is then made again.                 *)
Return ==
  /\ called' = Caller /\ at' = Caller
  /\ UNCHANGED installed

RedirectionNext ==
  \/ \E f \in Targets :
       Uninstall(f) \/ Call(f) \/ Arrive(f) \/ \E redir \in Redirs : Install(f, redir)
  \/ Return

RedirectionSpec == RedirectionInit /\ [][RedirectionNext]_promised

=============================================================================
