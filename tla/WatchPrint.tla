----------------------------- MODULE WatchPrint -----------------------------
(***************************************************************************)
(* src/DbgPrintClient.cpp composed with src/DbgVarWatcher.h: the callback  *)
(* of a watched variable prints while every other thread is suspended.     *)
(*                                                                         *)
(* A client is a frame that prints: the code of a thread, or the callback  *)
(* that runs on top of one.  Between SuspendSelf and ResumeSelf one frame  *)
(* holds the process (Exclusive of ProcessSuspender), and the others, the  *)
(* one below it included, stay where they are: in DBGr(), in Reserve or    *)
(* with a slot in hand, the copy of a string that is itself watched        *)
(* (DbgPrintClient.cpp:83) among them.                                     *)
(*                                                                         *)
(* The first DBGr() constructs the static client, which makes the section  *)
(* and starts the server; calls that come meanwhile wait for it.           *)
(***************************************************************************)
EXTENDS DbgPrint

VARIABLES
  holder,    \* the frame that has the process to itself, or NoOne
  inDBGr,    \* the frames that have called DBGr() and wait for its return
  builder,   \* the frame that constructs the client, or NoOne
  built      \* the client is constructed

dbgrVars  == <<inDBGr, builder, built>>
watchVars == <<printVars, holder, dbgrVars>>

Moves(c) == alive /\ holder \in {NoOne, c}

WatchInit ==
  /\ Init
  /\ holder = NoOne
  /\ inDBGr = {}
  /\ builder = NoOne
  /\ built = FALSE

(* A call of DBGr() or print is under way.                                 *)
Called(c) == stage[c] # "idle" \/ c \in inDBGr

(* The handler suspends the others and calls the callback.                 *)
Suspend(c) ==
  /\ Moves(c) /\ holder = NoOne
  /\ ~Called(c)
  /\ holder' = c
  /\ UNCHANGED <<printVars, dbgrVars>>

(* The callback has returned and the handler resumes the others.           *)
Resume(c) ==
  /\ Moves(c) /\ holder = c
  /\ ~Called(c)
  /\ holder' = NoOne
  /\ UNCHANGED <<printVars, dbgrVars>>

(* DBGr() is called before the client is there.                            *)
CallDBGr(c) ==
  /\ Moves(c) /\ stage[c] = "idle" /\ ~built
  /\ started + Cardinality(inDBGr) < MaxPrints
  /\ inDBGr' = inDBGr \cup {c}
  /\ UNCHANGED <<printVars, holder, builder, built>>

(* The static's initialisation: one frame constructs it.                   *)
Construct(c) ==
  /\ Moves(c) /\ c \in inDBGr
  /\ ~built /\ builder = NoOne
  /\ builder' = c
  /\ UNCHANGED <<printVars, holder, inDBGr, built>>

Constructed(c) ==
  /\ Moves(c) /\ builder = c
  /\ built' = TRUE
  /\ builder' = NoOne
  /\ UNCHANGED <<printVars, holder, inDBGr>>

(* DBGr() returns, and print is called on the client.                      *)
StartPrint(c) ==
  /\ Moves(c) /\ built
  /\ started + Cardinality(inDBGr \ {c}) < MaxPrints
  /\ PrintStart(c)
  /\ inDBGr' = inDBGr \ {c}
  /\ UNCHANGED <<holder, builder, built>>

Reserving(c) ==
  /\ Moves(c)
  /\ ClientSpin(c) \/ ClientReserve(c)
  /\ UNCHANGED <<holder, dbgrVars>>

Finishing(c) ==
  /\ Moves(c) /\ FinishPrint(c)
  /\ UNCHANGED <<holder, dbgrVars>>

(* The server runs once the constructor has started it.                    *)
ServerRuns == built /\ Server /\ UNCHANGED <<holder, dbgrVars>>

Exit == ProcExit /\ UNCHANGED <<holder, dbgrVars>>

(* DBGr() << argument, from the call to the commit.                        *)
Printing(c) ==
  Construct(c) \/ Constructed(c) \/ StartPrint(c) \/ Reserving(c) \/ Finishing(c)

WatchNext ==
  \/ Exit \/ ServerRuns
  \/ \E c \in Clients : Suspend(c) \/ Resume(c) \/ CallDBGr(c) \/ Printing(c)

WatchSpec == WatchInit /\ [][WatchNext]_watchVars

(* The server keeps polling; the frame that has the process runs; a thread *)
(* that has a slot and is resumed again and again finishes its print.      *)
(* Nothing obliges a frame to print, a callback to return, the process to  *)
(* end, or Reserve to succeed against threads that run.                    *)
FairSpec ==
  /\ WatchSpec
  /\ WF_watchVars(ServerRuns)
  /\ \A c \in Clients :
       /\ WF_watchVars(holder = c /\ Called(c) /\ Printing(c))
       /\ SF_watchVars(Finishing(c))

-----------------------------------------------------------------------------
(* c is still in Reserve, the ring is full, and its oldest slot waits for  *)
(* a frame that is stopped.                                                *)
Jammed(c) ==
  /\ stage[c] = "reserve"
  /\ Q!InUse = S - 1
  /\ \E d \in Clients \ {c} : Q!HeldBy(d, p_free)

(* The client is being constructed by a frame that is stopped.             *)
Unbuilt(c) == builder \in Clients \ {c}

(* The server does not outlive the process.                                *)
ServerStops == ~alive ~> ~built \/ spc \in {"stopped", "failed"}

(* What has a slot gets printed, unless the process ends first or a        *)
(* callback never returns.                                                 *)
ReservedIsPrinted ==
  \A k \in Messages :
    [](Len(order) >= k =>
         <>(Len(printed) >= k \/ ~alive \/ [](holder # NoOne)))

(* A callback that prints, with every other frame stopped wherever it was, *)
(* gets through: only a full ring whose oldest slot a stopped frame holds, *)
(* met in Reserve, or a client that a stopped frame is constructing, can   *)
(* keep it for ever.  Once it has a slot of its own it fills and commits   *)
(* it, behind the slot of its own thread or any other that waits.          *)
CallbackPrints ==
  \A c \in Clients :
    holder = c /\ Called(c)
      ~> \/ holder = c /\ ~Called(c)
         \/ ~alive \/ Jammed(c) \/ Unbuilt(c)

=============================================================================
