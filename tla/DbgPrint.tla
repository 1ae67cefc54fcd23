------------------------------ MODULE DbgPrint ------------------------------
(***************************************************************************)
(* src/DbgPrintClient.cpp, src/DbgPrintServer.cpp, src/DbgPrintCommon.h:   *)
(* threads of one process print through a shared section that holds a ring *)
(* of packets and a store of strings; the print server, another process,   *)
(* takes the packets out, prints them and frees their strings.             *)
(*                                                                         *)
(* Composes TaskQueue (Q) and ConcurrentStor (V): a step of Reserve, Alloc,*)
(* Pick or Dequeue is a step of theirs.  The process of the threads may    *)
(* end between any two steps; its threads then take no further one.        *)
(***************************************************************************)
EXTENDS Integers, Sequences, FiniteSets, SequencesExt

CONSTANTS
  Clients,       \* threads that print
  S,             \* BUFF_LINES, as the capacity of the ring
  Words, Unit,   \* BUFF_LINES, as the words and bits of the store
  NoOne,         \* owner of a free string cell
  MaxPrints,     \* bound: calls of print in a behaviour
  MaxOvertakes   \* bound of TaskQueue

VARIABLES
  p_reserve, p_free, flags, data, pc, p_r_old, cpc, overtakes,  \* TaskQueue
  books, apc, word, book_old, owner,                            \* ConcurrentStor
  strs,      \* contents of the string cells
  alive,     \* the process of the clients is running
  stage,     \* where each client is in print
  msg,       \* what it prints: the number of its call
  vstr,      \* the cell its Alloc returned
  spc,       \* where the server is
  exiting,   \* the server's local flag: the process was seen to have ended
  started,   \* history: calls of print so far
  order,     \* history: messages in the order their slots were reserved
  printed    \* history: what the server has printed

(* A packet's type and the union of its values: a printed value or istr,   *)
(* the index of a string cell.  The zero page reads as type WSTRING (0).   *)
Messages == 1 .. MaxPrints
ZeroPage == [type |-> "ZERO", data |-> 0]
Packet   == [type : {"VALUE", "STRING"}, data : 0 .. MaxPrints + Words * Unit]

Q == INSTANCE TaskQueue WITH
       Producers <- Clients, Packets <- Packet, NoPacket <- ZeroPage
V == INSTANCE ConcurrentStor WITH Threads <- Clients

queueVars  == <<p_reserve, p_free, flags, data, pc, p_r_old, cpc, overtakes>>
storVars   == <<books, apc, word, book_old, owner>>
clientVars == <<stage, msg, vstr, strs, started, order>>
serverVars == <<spc, exiting, printed>>
printVars  == <<queueVars, storVars, alive, clientVars, serverVars>>

ASSUME PrintAssumption ==
  /\ {S, Words, Unit, MaxPrints, MaxOvertakes} \subseteq Nat \ {0}
  /\ Words * Unit >= S                 \* cap = mux * unit
  /\ {NoOne, ZeroPage} \cap Clients = {}

Oldest   == data[p_free]               \* *nextpacket
Slot(c)  == data[p_r_old[c]]           \* *p
IsString(packet) == packet.type # "VALUE"

-----------------------------------------------------------------------------
Init ==
  /\ Q!QueueInit
  /\ V!StorInit
  /\ strs = [cell \in V!Cells |-> 0]
  /\ alive = TRUE
  /\ stage = [c \in Clients |-> "idle"]
  /\ msg = [c \in Clients |-> 0]
  /\ vstr = [c \in Clients |-> 0]
  /\ spc = "open"
  /\ exiting = FALSE
  /\ started = 0
  /\ order = <<>>
  /\ printed = <<>>

-----------------------------------------------------------------------------
(* print calls GetPacketSlot, which calls Reserve.                         *)
PrintStart(c) ==
  /\ alive /\ stage[c] = "idle" /\ started < MaxPrints
  /\ Q!ReserveLoad(c)
  /\ stage' = [stage EXCEPT ![c] = "reserve"]
  /\ msg' = [msg EXCEPT ![c] = started + 1]
  /\ started' = started + 1
  /\ UNCHANGED <<storVars, alive, vstr, strs, order, serverVars>>

(* Reserve's loop goes round.                                              *)
ClientSpin(c) ==
  /\ alive /\ stage[c] = "reserve"
  /\ Q!ReserveFull(c) \/ Q!ReserveRoom(c) \/ Q!ReserveRetry(c)
  /\ UNCHANGED <<storVars, alive, clientVars, serverVars>>

(* Reserve gets its slot.                                                  *)
ClientReserve(c) ==
  /\ alive /\ stage[c] = "reserve"
  /\ Q!ReserveCas(c)
  /\ stage' = [stage EXCEPT ![c] = "fill"]
  /\ order' = Append(order, msg[c])
  /\ UNCHANGED <<storVars, alive, msg, vstr, strs, started, serverVars>>

(* print of a character, number or pointer: format, type and value.        *)
FillValue(c) ==
  /\ alive /\ stage[c] = "fill"
  /\ Q!WritePacket(c, [type |-> "VALUE", data |-> msg[c]])
  /\ stage' = [stage EXCEPT ![c] = "commit"]
  /\ UNCHANGED <<storVars, alive, msg, vstr, strs, started, order, serverVars>>

(* print of a string (bool included): the type is set before the string is *)
(* there, and the union keeps what the slot's last packet left in it.      *)
FillString(c) ==
  /\ alive /\ stage[c] = "fill"
  /\ Q!WritePacket(c, [type |-> "STRING", data |-> Slot(c).data])
  /\ V!AllocStart(c)
  /\ stage' = [stage EXCEPT ![c] = "alloc"]
  /\ UNCHANGED <<alive, msg, vstr, strs, started, order, serverVars>>

(* Alloc's loop goes round.                                                *)
AllocSpin(c) ==
  /\ alive /\ stage[c] = "alloc"
  /\ V!Scan(c)
  /\ UNCHANGED <<queueVars, alive, clientVars, serverVars>>

AllocDone(c) ==
  /\ alive /\ stage[c] = "alloc"
  /\ \E cell \in V!Cells :
       /\ V!AllocCas(c, cell)
       /\ vstr' = [vstr EXCEPT ![c] = cell]
  /\ stage' = [stage EXCEPT ![c] = "copy"]
  /\ UNCHANGED <<queueVars, alive, msg, strs, started, order, serverVars>>

CopyString(c) ==
  /\ alive /\ stage[c] = "copy"
  /\ strs' = [strs EXCEPT ![vstr[c]] = msg[c]]
  /\ stage' = [stage EXCEPT ![c] = "link"]
  /\ UNCHANGED <<queueVars, storVars, alive, msg, vstr, started, order, serverVars>>

(* p->data.istr = vstr - &area.Vstrs[0]                                    *)
LinkString(c) ==
  /\ alive /\ stage[c] = "link"
  /\ Q!WritePacket(c, [Slot(c) EXCEPT !.data = vstr[c]])
  /\ stage' = [stage EXCEPT ![c] = "commit"]
  /\ UNCHANGED <<storVars, alive, msg, vstr, strs, started, order, serverVars>>

(* Mutant: slots are committed in the order of their reservation.          *)
PrintCommitInOrder(c) ==
  /\ alive /\ stage[c] = "commit"
  /\ Q!HeldBy(c, p_free)
  /\ Q!Enqueue(c)
  /\ stage' = [stage EXCEPT ![c] = "idle"]
  /\ UNCHANGED <<storVars, alive, msg, vstr, strs, started, order, serverVars>>

(* print returns: the smart pointer commits the slot.                      *)
PrintCommit(c) ==
  /\ alive /\ stage[c] = "commit"
  /\ Q!Enqueue(c)
  /\ stage' = [stage EXCEPT ![c] = "idle"]
  /\ UNCHANGED <<storVars, alive, msg, vstr, strs, started, order, serverVars>>

(* The process ends, or crashes, wherever its threads are.                 *)
ProcExit ==
  /\ alive
  /\ alive' = FALSE
  /\ UNCHANGED <<queueVars, storVars, clientVars, serverVars>>

-----------------------------------------------------------------------------
ServerGoes(to) == spc' = to /\ UNCHANGED <<alive, clientVars>>

(* EH_OpenProcess: an ended process may no longer be there to open.        *)
OpenProcess ==
  /\ spc = "open"
  /\ \/ ServerGoes("map")
     \/ ~alive /\ ServerGoes("failed")
  /\ UNCHANGED <<queueVars, storVars, exiting, printed>>

(* EH_OpenFileMappingW: the section is gone with the last process that     *)
(* had it open.                                                            *)
OpenFileMapping ==
  /\ spc = "map"
  /\ ServerGoes(IF alive THEN "pick" ELSE "failed")
  /\ UNCHANGED <<queueVars, storVars, exiting, printed>>

ServerLook ==
  /\ spc = "pick"
  /\ Q!PickInUse
  /\ ServerGoes("pick")
  /\ UNCHANGED <<storVars, exiting, printed>>

(* Mutant: Run ends at the first empty Pick.                               *)
ServerNothingEnds ==
  /\ spc = "pick"
  /\ Q!PickEmpty \/ Q!PickUncommitted
  /\ ServerGoes("stopped")
  /\ UNCHANGED <<storVars, exiting, printed>>

(* Pick returned nullptr: stop, or wait for the process.                   *)
ServerNothing ==
  /\ spc = "pick"
  /\ Q!PickEmpty \/ Q!PickUncommitted
  /\ ServerGoes(IF exiting THEN "stopped" ELSE "wait")
  /\ UNCHANGED <<storVars, exiting, printed>>

(* Mutants: Run ends as soon as it sees the end of the process; it does    *)
(* not take notice of it.                                                  *)
ServerWaitEnds ==
  /\ spc = "wait"
  /\ exiting' = ~alive
  /\ ServerGoes(IF alive THEN "pick" ELSE "stopped")
  /\ UNCHANGED <<queueVars, storVars, printed>>

ServerWaitForgets ==
  /\ spc = "wait"
  /\ ServerGoes("pick")
  /\ UNCHANGED <<queueVars, storVars, exiting, printed>>

(* EH_WaitForSingleObject(proc, 1): WAIT_TIMEOUT or WAIT_OBJECT_0.         *)
ServerWait ==
  /\ spc = "wait"
  /\ exiting' = ~alive
  /\ ServerGoes("pick")
  /\ UNCHANGED <<queueVars, storVars, printed>>

ServerPick ==
  /\ spc = "pick"
  /\ Q!PickCommitted
  /\ ServerGoes("print")
  /\ UNCHANGED <<storVars, exiting, printed>>

(* Mutant: the string is not freed.                                        *)
ServerPrintLeaks ==
  /\ spc = "print"
  /\ printed' = Append(printed, IF IsString(Oldest) THEN strs[Oldest.data]
                                ELSE Oldest.data)
  /\ ServerGoes("dequeue")
  /\ UNCHANGED <<queueVars, storVars, exiting>>

(* Print, by type: the value, or the string at istr.                       *)
ServerPrint ==
  /\ spc = "print"
  /\ printed' = Append(printed, IF IsString(Oldest) THEN strs[Oldest.data]
                                ELSE Oldest.data)
  /\ ServerGoes(IF IsString(Oldest) THEN "free" ELSE "dequeue")
  /\ UNCHANGED <<queueVars, storVars, exiting>>

ServerFree ==
  /\ spc = "free"
  /\ V!Free(Oldest.data)
  /\ ServerGoes("dequeue")
  /\ UNCHANGED <<queueVars, exiting, printed>>

ServerClear ==
  /\ spc = "dequeue"
  /\ Q!DequeueClear
  /\ ServerGoes("dequeue")
  /\ UNCHANGED <<storVars, exiting, printed>>

ServerAdvance ==
  /\ spc = "dequeue"
  /\ Q!DequeueAdvance
  /\ ServerGoes("pick")
  /\ UNCHANGED <<storVars, exiting, printed>>

-----------------------------------------------------------------------------
(* print, from the reservation of its slot to its commit.                  *)
FinishPrint(c) ==
  \/ FillValue(c) \/ FillString(c) \/ AllocSpin(c) \/ AllocDone(c)
  \/ CopyString(c) \/ LinkString(c) \/ PrintCommit(c)

Client(c) == PrintStart(c) \/ ClientSpin(c) \/ ClientReserve(c) \/ FinishPrint(c)

Server ==
  \/ OpenProcess \/ OpenFileMapping \/ ServerLook \/ ServerNothing
  \/ ServerWait \/ ServerPick \/ ServerPrint \/ ServerFree
  \/ ServerClear \/ ServerAdvance

Next == ProcExit \/ Server \/ \E c \in Clients : Client(c)

Spec == Init /\ [][Next]_printVars

-----------------------------------------------------------------------------
Owned == {cell \in V!Cells : owner[cell] # NoOne}

(* Clients that have a slot and will still ask for a cell.                 *)
MayAlloc == {c \in Clients : stage[c] \in {"fill", "alloc"}}

(* A committed packet, or one whose istr is set, that names this cell, up  *)
(* to the moment the server frees it.                                      *)
Names(i, cell) ==
  /\ flags[i] \/ \E c \in Clients : Q!HeldBy(c, i) /\ stage[c] = "commit"
  /\ IsString(data[i]) /\ data[i].data = cell
  /\ ~(i = p_free /\ spc = "dequeue")

(* What the server prints is what the threads printed, whole, once each,   *)
(* in the order in which GetPacketSlot gave them their slots: no string is *)
(* overwritten while its packet waits and no slot is read before its       *)
(* commit.                                                                 *)
PrintedInOrder == IsPrefix(printed, order)

(* A string cell is taken exactly while one client is copying into it or   *)
(* one packet names it: Print frees every string it printed, and none that *)
(* a packet or a client still uses.                                        *)
CellsAccounted ==
  \A cell \in V!Cells :
    Cardinality({i \in Q!Slots : Names(i, cell)}
                \cup {c \in Clients : stage[c] \in {"copy", "link"} /\ vstr[c] = cell})
      = IF owner[cell] = NoOne THEN 0 ELSE 1

(* Alloc, called with a slot of the ring in hand, always has a free cell   *)
(* to find, however far the server lags: strings out and strings still to  *)
(* be asked for never outnumber the slots in use, because Print frees the  *)
(* string before Run dequeues the packet.                                  *)
StoreHasRoom ==
  /\ Cardinality(Owned) + Cardinality(MayAlloc) <= Q!InUse
  /\ Q!InUse < Cardinality(V!Cells)

(* When the server stops, the process has ended and every packet committed *)
(* before its end is printed, but for those behind a slot that the end of  *)
(* the process left uncommitted: Run looks once more after it saw the end. *)
StopDrains ==
  spc = "stopped" =>
    /\ ~alive
    /\ Len(printed) < Len(order) => Q!IsHeld(p_free)

=============================================================================
