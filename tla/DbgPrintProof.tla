--------------------------- MODULE DbgPrintProof ----------------------------
(***************************************************************************)
(* Safety of printing, for any clients, number of prints, size of the ring *)
(* and size of the store, on top of what is proved of the ring and of the  *)
(* store, when no try of Reserve is overtaken by a full lap.               *)
(***************************************************************************)
EXTENDS WatchPrint, FiniteSetTheorems, TLAPS

(* The theorems of the ring and of the store, about the variables of Q, V. *)
Ring == INSTANCE TaskQueueProof WITH
          Producers <- Clients, Packets <- Packet, NoPacket <- ZeroPage
Stor == INSTANCE ConcurrentStorProof WITH Threads <- Clients

Stages == {"idle", "reserve", "fill", "alloc", "copy", "link", "commit"}

TypeOK ==
  /\ strs \in [V!Cells -> Nat]
  /\ stage \in [Clients -> Stages]
  /\ msg \in [Clients -> 0 .. MaxPrints]
  /\ vstr \in [Clients -> V!Cells]
  /\ spc \in {"open", "map", "pick", "wait", "print", "free", "dequeue", "stopped", "failed"}
  /\ {alive, exiting} \subseteq BOOLEAN
  /\ started \in 0 .. MaxPrints
  /\ order \in Seq(Nat) /\ printed \in Seq(Nat)

(* Where a client is in Reserve and Alloc, and the server in Pick and      *)
(* Dequeue, at each place of print and of Run.                             *)
PlacesMatch ==
  /\ \A c \in Clients :
       /\ stage[c] = "idle" => pc[c] = "idle"
       /\ stage[c] = "reserve" => pc[c] \in {"check", "cas"}
       /\ stage[c] = "fill" => pc[c] = "held"
       /\ stage[c] \in {"alloc", "copy", "link", "commit"} => pc[c] = "written"
       /\ stage[c] # "alloc" => apc[c] = "idle"
       /\ stage[c] \in {"alloc", "copy", "link"} => Slot(c).type = "STRING"
  /\ spc \in {"open", "map", "wait", "stopped", "failed"} => cpc = "idle"
  /\ spc = "pick" => cpc \in {"idle", "flag"}
  /\ spc \in {"print", "free"} => cpc = "picked"
  /\ spc = "dequeue" => cpc \in {"picked", "advance"}
  /\ spc = "free" => IsString(Oldest)
  /\ exiting => ~alive

(* The packet of a slot is complete, and the string it names not freed.    *)
Ready(i)  == flags[i] \/ \E c \in Clients : Q!HeldBy(c, i) /\ stage[c] = "commit"
Whole(i)  == Ready(i) /\ ~(i = p_free /\ spc = "dequeue")

Copying(c, cell) == stage[c] \in {"copy", "link"} /\ vstr[c] = cell

(* A cell that somebody has is named by one slot, or one client is copying *)
(* into it.                                                                *)
CellsUsed ==
  /\ \A i \in Q!Slots : Whole(i) /\ IsString(data[i]) => data[i].data \in V!Cells
  /\ \A cell \in V!Cells :
       /\ owner[cell] # NoOne <=> \/ \E i \in Q!Slots : Names(i, cell)
                                  \/ \E c \in Clients : Copying(c, cell)
       /\ \A i, j \in Q!Slots : Names(i, cell) /\ Names(j, cell) => i = j
       /\ \A c, d \in Clients : Copying(c, cell) /\ Copying(d, cell) => c = d
       /\ \A i \in Q!Slots, c \in Clients : ~(Names(i, cell) /\ Copying(c, cell))

(* What the server will print of a slot.                                   *)
Shown(i) == IF IsString(data[i]) THEN strs[data[i].data] ELSE data[i].data

(* The place of a slot in use in the order of reservations.                *)
Turn(i) == Len(order) - Q!InUse + Q!Distance(p_free, i) + 1

(* The slots in use hold the messages that come next in order.             *)
WindowInOrder ==
  \A i \in Q!Slots : Q!InWindow(i) =>
    /\ Whole(i) => Shown(i) = order[Turn(i)]
    /\ \A c \in Clients : Q!HeldBy(c, i) => msg[c] = order[Turn(i)]

(* What a client wrote is what it prints.                                  *)
ClientsWrote ==
  \A c \in Clients : /\ stage[c] = "commit" => Shown(p_r_old[c]) = msg[c]
                     /\ stage[c] = "link" => strs[vstr[c]] = msg[c]

(* All before the slots in use is printed, and perhaps the oldest of them. *)
PrintedSoFar ==
  /\ Q!InUse <= Len(order)
  /\ Len(printed) = Len(order) - Q!InUse + IF spc \in {"free", "dequeue"} THEN 1 ELSE 0
  /\ Len(printed) <= Len(order)
  /\ \A k \in 1 .. Len(printed) : printed[k] = order[k]

InOrder == WindowInOrder /\ ClientsWrote /\ PrintedSoFar

(* A server that stopped saw the end of the process, and then no packet.   *)
StoppedLast ==
  spc = "stopped" => ~alive /\ (p_free = p_reserve \/ Q!IsHeld(p_free))

PrintInv ==
  /\ Q!RingInv /\ V!TypeOK /\ V!BooksMatchOwners
  /\ TypeOK /\ PlacesMatch
  /\ CellsUsed /\ InOrder /\ StoppedLast

-----------------------------------------------------------------------------
(* The assumption about printing gives those of the ring and of the store. *)
LEMMA RingAssumed == Ring!RingAssumption
<1>1. ZeroPage \notin Packet
  BY DEF ZeroPage, Packet
<1>2. QED
  BY <1>1, PrintAssumption DEF Ring!RingAssumption

LEMMA StorAssumed == Stor!StorAssumption
BY PrintAssumption DEF Stor!StorAssumption

(* Q and Ring are the same ring, V and Stor the same store: what is proved *)
(* of their steps holds of every step of this specification.               *)
LEMMA SameRing ==
  /\ Q!RingInv <=> Ring!RingInv
  /\ Q!RingInv' <=> Ring!RingInv'
BY DEF Q!RingInv, Q!TypeOK, Q!RingLayout, Q!SlotExclusive, Q!TryIsCurrent,
   Q!ConsumerKnows, Q!InWindow, Q!InUse, Q!Lead, Q!Distance, Q!IsHeld, Q!HeldBy,
   Q!Holding, Q!Slots, Ring!RingInv, Ring!TypeOK, Ring!RingLayout,
   Ring!SlotExclusive, Ring!TryIsCurrent, Ring!ConsumerKnows, Ring!InWindow,
   Ring!InUse, Ring!Lead, Ring!Distance, Ring!IsHeld, Ring!HeldBy,
   Ring!Holding, Ring!Slots

LEMMA SameRingStep == [Q!Next]_queueVars => [Ring!Next]_(Ring!queueVars)
BY DEF queueVars, Ring!queueVars, Ring!sharedVars, Q!queueVars, Q!sharedVars,
   Q!Next, Q!Consume, Q!Produce, Q!Reserve, Q!Fill, Q!ReserveLoad, Q!ReserveFull,
   Q!ReserveRoom, Q!ReserveCas, Q!ReserveRetry, Q!WritePacket, Q!Enqueue,
   Q!PickEmpty, Q!PickInUse, Q!PickUncommitted, Q!PickCommitted,
   Q!DequeueClear, Q!DequeueAdvance, Q!NextSlot, Q!Trying, Q!Holding,
   Ring!Next, Ring!Consume, Ring!Produce, Ring!Reserve, Ring!Fill,
   Ring!ReserveLoad, Ring!ReserveFull, Ring!ReserveRoom, Ring!ReserveCas,
   Ring!ReserveRetry, Ring!WritePacket, Ring!Enqueue, Ring!PickEmpty,
   Ring!PickInUse, Ring!PickUncommitted, Ring!PickCommitted,
   Ring!DequeueClear, Ring!DequeueAdvance, Ring!NextSlot, Ring!Trying,
   Ring!Holding

LEMMA RingPreserves ==
  ASSUME Q!NoLap, Q!RingInv, [Q!Next]_queueVars
  PROVE  Q!RingInv'
<1>1. Ring!RingInv /\ Ring!NoLap /\ [Ring!Next]_(Ring!queueVars)
  BY SameRing, SameRingStep DEF Q!NoLap, Ring!NoLap
<1>2. Ring!RingInv'
  BY <1>1, RingAssumed, Ring!StepPreserves
<1>3. QED
  BY <1>2, SameRing

LEMMA RingStarts ==
  ASSUME Q!QueueInit
  PROVE  Q!RingInv
<1>1. Ring!QueueInit
  BY DEF Q!QueueInit, Ring!QueueInit, Q!Slots, Ring!Slots
<1>2. QED
  BY <1>1, RingAssumed, Ring!InitEstablishes, SameRing

LEMMA SameStor ==
  /\ V!TypeOK /\ V!BooksMatchOwners <=> Stor!StorInv
  /\ V!TypeOK' /\ V!BooksMatchOwners' <=> Stor!StorInv'
BY DEF V!TypeOK, V!BooksMatchOwners, V!IsFree, V!BitOf, V!WordOf, V!Cells,
   V!WordIds, V!Bits, Stor!StorInv, Stor!TypeOK, Stor!BooksMatchOwners,
   Stor!IsFree, Stor!BitOf, Stor!WordOf, Stor!Cells, Stor!WordIds, Stor!Bits

LEMMA SameStorStep == [V!Next]_storVars => [Stor!Next]_(Stor!storVars)
BY DEF storVars, Stor!storVars, Stor!storLocals, V!storLocals, V!Next, V!Alloc,
   V!Scan, V!AllocStart, V!AllocNoBit, V!AllocLoad, V!AllocLost, V!AllocCas,
   V!Free, V!NextWord, V!IsLowestBit, V!CellAt, V!WordOf, V!BitOf, V!Cells,
   V!Bits, Stor!Next, Stor!Alloc, Stor!Scan, Stor!AllocStart,
   Stor!AllocNoBit, Stor!AllocLoad, Stor!AllocLost, Stor!AllocCas, Stor!Free,
   Stor!NextWord, Stor!IsLowestBit, Stor!CellAt, Stor!WordOf, Stor!BitOf,
   Stor!Cells, Stor!Bits

LEMMA StorPreserves ==
  ASSUME V!TypeOK, V!BooksMatchOwners, [V!Next]_storVars
  PROVE  V!TypeOK' /\ V!BooksMatchOwners'
<1>1. Stor!StorInv /\ [Stor!Next]_(Stor!storVars)
  BY SameStor, SameStorStep
<1>2. Stor!TypeOK' /\ Stor!BooksMatchOwners'
  BY <1>1, StorAssumed, Stor!TypePreserved, Stor!BooksPreserved
<1>3. Stor!StorInv'
  BY <1>2 DEF Stor!StorInv
<1>4. QED
  BY <1>3, SameStor

LEMMA StorStarts ==
  ASSUME V!StorInit
  PROVE  V!TypeOK /\ V!BooksMatchOwners
<1>1. Stor!StorInit
  BY DEF V!StorInit, Stor!StorInit, V!WordIds, V!Bits, V!Cells, Stor!WordIds,
     Stor!Bits, Stor!Cells
<1>2. QED
  BY <1>1, StorAssumed, Stor!InitEstablishes, SameStor

(* A cell that Alloc returns was nobody's.                                 *)
LEMMA AllocTakesFree ==
  ASSUME V!TypeOK, V!BooksMatchOwners, NEW c \in Clients,
         NEW cell \in V!Cells, V!AllocCas(c, cell)
  PROVE  owner[cell] = NoOne
<1>1. Stor!StorInv /\ cell \in Stor!Cells /\ Stor!AllocCas(c, cell)
  BY SameStor DEF V!AllocCas, V!IsLowestBit, V!CellAt, V!Bits, V!Cells,
     Stor!AllocCas, Stor!IsLowestBit, Stor!CellAt, Stor!Bits, Stor!Cells
<1>2. QED
  BY <1>1, StorAssumed, Stor!CasTakesFree

-----------------------------------------------------------------------------
(* The arithmetic of the ring.                                             *)
LEMMA NextSlotValue ==
  ASSUME NEW i \in Q!Slots
  PROVE  /\ Q!NextSlot(i) = IF i = S - 1 THEN 0 ELSE i + 1
         /\ Q!NextSlot(i) \in Q!Slots
BY PrintAssumption DEF Q!Slots, Q!NextSlot

LEMMA DistanceRange ==
  ASSUME NEW a \in Q!Slots, NEW b \in Q!Slots
  PROVE  /\ Q!Distance(a, b) \in 0 .. S - 1
         /\ Q!Distance(a, b) = 0 <=> a = b
         /\ \A c \in Q!Slots : Q!Distance(a, b) = Q!Distance(a, c) <=> b = c
BY PrintAssumption DEF Q!Slots, Q!Distance

LEMMA WindowGrows ==
  ASSUME NEW a \in Q!Slots, NEW b \in Q!Slots, Q!NextSlot(b) # a
  PROVE  Q!Distance(a, Q!NextSlot(b)) = Q!Distance(a, b) + 1
BY PrintAssumption, NextSlotValue DEF Q!Slots, Q!Distance

LEMMA WindowShrinks ==
  ASSUME NEW a \in Q!Slots, NEW b \in Q!Slots, a # b
  PROVE  Q!Distance(Q!NextSlot(a), b) = Q!Distance(a, b) - 1
BY PrintAssumption, NextSlotValue DEF Q!Slots, Q!Distance

LEMMA CellsAreNumbers == Words * Unit \in Nat \ {0} /\ V!Cells \subseteq Nat
<1>1. Words \in Nat \ {0} /\ Unit \in Nat \ {0}
  BY PrintAssumption
<1>2. Words * Unit \in Nat \ {0}
  BY <1>1
<1>3. QED
  BY <1>2 DEF V!Cells

-----------------------------------------------------------------------------
(* What a client writes into its slot is a packet.                         *)
LEMMA PacketsWritten ==
  ASSUME PrintInv, NEW c \in Clients
  PROVE  /\ [type |-> "VALUE", data |-> msg[c]] \in Packet
         /\ [type |-> "STRING", data |-> Slot(c).data] \in Packet
         /\ stage[c] = "link" => [Slot(c) EXCEPT !.data = vstr[c]] \in Packet
<1>1. data[p_r_old[c]] \in Packet \cup {ZeroPage}
  BY DEF PrintInv, Q!RingInv, Q!TypeOK
<1>2. Words * Unit \in Nat \ {0} /\ MaxPrints \in Nat \ {0}
  BY CellsAreNumbers, PrintAssumption
<1>3. /\ msg[c] \in 0 .. MaxPrints
      /\ vstr[c] \in 0 .. Words * Unit - 1
      /\ stage[c] = "link" => data[p_r_old[c]].type = "STRING"
  BY DEF PrintInv, TypeOK, PlacesMatch, V!Cells, Slot
<1>4. [type |-> "VALUE", data |-> msg[c]] \in Packet
  BY <1>2, <1>3 DEF Packet
<1>5. [type |-> "STRING", data |-> Slot(c).data] \in Packet
  BY <1>1, <1>2 DEF Packet, ZeroPage, Slot
<1>6. ASSUME stage[c] = "link"
      PROVE  [Slot(c) EXCEPT !.data = vstr[c]] \in Packet
  BY <1>1, <1>2, <1>3, <1>6 DEF Packet, ZeroPage, Slot
<1>7. QED
  BY <1>4, <1>5, <1>6

(* The cell the server frees is one.                                       *)
LEMMA FreedIsCell ==
  ASSUME PrintInv, spc = "free"
  PROVE  /\ Oldest.data \in V!Cells
         /\ Names(p_free, Oldest.data)
         /\ flags[p_free] /\ p_free \in Q!Slots /\ ~Q!IsHeld(p_free)
<1>1. /\ cpc = "picked" /\ IsString(Oldest)
      /\ flags[p_free] /\ p_free \in Q!Slots
  BY DEF PrintInv, PlacesMatch, Q!RingInv, Q!ConsumerKnows, Q!TypeOK
<1>2. Whole(p_free)
  BY <1>1 DEF Whole, Ready
<1>3. Oldest.data \in V!Cells
  BY <1>1, <1>2 DEF PrintInv, CellsUsed, Oldest
<1>4. Names(p_free, Oldest.data)
  BY <1>1 DEF Names, Oldest
<1>5. ~Q!IsHeld(p_free)
  BY <1>1 DEF PrintInv, Q!RingInv, Q!RingLayout
<1>6. QED
  BY <1>1, <1>3, <1>4, <1>5

(* Every step of printing is a step of the ring, or leaves it alone.       *)
LEMMA RingSteps ==
  ASSUME PrintInv, [Next]_printVars
  PROVE  [Q!Next]_queueVars
<1> USE DEF Q!Next, Q!Produce, Q!Reserve, Q!Fill, Q!Consume
<1>1. ASSUME NEW c \in Clients, PrintStart(c) \/ ClientSpin(c) \/ ClientReserve(c)
      PROVE  Q!Next
  BY <1>1 DEF PrintStart, ClientSpin, ClientReserve
<1>2. ASSUME NEW c \in Clients, FillValue(c)
      PROVE  Q!Next
  BY <1>2, PacketsWritten DEF FillValue
<1>3. ASSUME NEW c \in Clients, FillString(c)
      PROVE  Q!Next
  BY <1>3, PacketsWritten DEF FillString
<1>4. ASSUME NEW c \in Clients, LinkString(c)
      PROVE  Q!Next
  BY <1>4, PacketsWritten DEF LinkString
<1>5. ASSUME NEW c \in Clients, PrintCommit(c)
      PROVE  Q!Next
  BY <1>5 DEF PrintCommit
<1>6. ASSUME NEW c \in Clients, AllocSpin(c) \/ AllocDone(c) \/ CopyString(c)
      PROVE  UNCHANGED queueVars
  BY <1>6 DEF AllocSpin, AllocDone, CopyString
<1>7. ASSUME Server
      PROVE  Q!Next \/ UNCHANGED queueVars
  BY <1>7 DEF Server, OpenProcess, OpenFileMapping, ServerLook, ServerNothing,
     ServerWait, ServerPick, ServerPrint, ServerFree, ServerClear, ServerAdvance
<1>8. ASSUME ProcExit \/ UNCHANGED printVars
      PROVE  UNCHANGED queueVars
  BY <1>8 DEF ProcExit, printVars
<1>9. QED
  BY <1>1, <1>2, <1>3, <1>4, <1>5, <1>6, <1>7, <1>8 DEF Next, Client, FinishPrint

(* And every step is a step of the store, or leaves it alone.              *)
LEMMA StorSteps ==
  ASSUME PrintInv, [Next]_printVars
  PROVE  [V!Next]_storVars
<1> USE DEF V!Next, V!Alloc
<1>1. ASSUME NEW c \in Clients,
             \/ PrintStart(c) \/ ClientSpin(c) \/ ClientReserve(c) \/ FillValue(c)
             \/ CopyString(c) \/ LinkString(c) \/ PrintCommit(c)
      PROVE  UNCHANGED storVars
  BY <1>1 DEF PrintStart, ClientSpin, ClientReserve, FillValue, CopyString,
     LinkString, PrintCommit
<1>2. ASSUME NEW c \in Clients, FillString(c) \/ AllocSpin(c) \/ AllocDone(c)
      PROVE  V!Next
  BY <1>2 DEF FillString, AllocSpin, AllocDone
<1>3. ASSUME ServerFree
      PROVE  V!Next
  BY <1>3, FreedIsCell DEF ServerFree
<1>4. ASSUME Server, ~ServerFree
      PROVE  UNCHANGED storVars
  BY <1>4 DEF Server, OpenProcess, OpenFileMapping, ServerLook, ServerNothing,
     ServerWait, ServerPick, ServerPrint, ServerClear, ServerAdvance
<1>5. ASSUME ProcExit \/ UNCHANGED printVars
      PROVE  UNCHANGED storVars
  BY <1>5 DEF ProcExit, printVars
<1>6. QED
  BY <1>1, <1>2, <1>3, <1>4, <1>5 DEF Next, Client, FinishPrint

-----------------------------------------------------------------------------
(* The slot the server is about to print is the next one in order.         *)
LEMMA PrintedNext ==
  ASSUME PrintInv, spc = "print"
  PROVE  /\ Len(printed) + 1 \in 1 .. Len(order)
         /\ Shown(p_free) = order[Len(printed) + 1]
<1>1. cpc = "picked" /\ flags[p_free] /\ p_free \in Q!Slots
  BY DEF PrintInv, PlacesMatch, Q!RingInv, Q!ConsumerKnows, Q!TypeOK
<1>2. Q!InWindow(p_free) /\ Whole(p_free)
  BY <1>1 DEF PrintInv, Q!RingInv, Q!RingLayout, Whole, Ready
<1>3. Q!Distance(p_free, p_free) = 0
  BY <1>1, DistanceRange
<1>4. Q!InUse \in 0 .. S - 1 /\ Q!InUse > 0 /\ S \in Nat
  BY <1>1, <1>2, <1>3, DistanceRange, PrintAssumption
  DEF PrintInv, Q!RingInv, Q!TypeOK, Q!InUse, Q!InWindow
<1>5. Len(order) \in Nat /\ Len(printed) \in Nat
  BY DEF PrintInv, TypeOK
<1>6. Q!InUse <= Len(order) /\ Len(printed) = Len(order) - Q!InUse
  BY <1>4, <1>5 DEF PrintInv, InOrder, PrintedSoFar
<1>7. Turn(p_free) = Len(printed) + 1
  BY <1>3, <1>4, <1>5, <1>6 DEF Turn
<1>8. Shown(p_free) = order[Turn(p_free)]
  BY <1>1, <1>2 DEF PrintInv, InOrder, WindowInOrder
<1>9. QED
  BY <1>4, <1>5, <1>6, <1>7, <1>8

LEMMA TypePreserved ==
  ASSUME PrintInv, [Next]_printVars
  PROVE  TypeOK'
<1> USE DEF TypeOK, Stages
<1>1. TypeOK /\ MaxPrints \in Nat
  BY PrintAssumption DEF PrintInv
<1>2. ASSUME NEW c \in Clients, PrintStart(c)
      PROVE  TypeOK'
  BY <1>1, <1>2 DEF PrintStart, serverVars
<1>3. ASSUME NEW c \in Clients, ClientReserve(c)
      PROVE  TypeOK'
  BY <1>1, <1>3 DEF ClientReserve, serverVars
<1>4. ASSUME NEW c \in Clients, FillValue(c) \/ FillString(c) \/ PrintCommit(c) \/ LinkString(c)
      PROVE  TypeOK'
  BY <1>1, <1>4 DEF FillValue, FillString, PrintCommit, LinkString, serverVars
<1>5. ASSUME NEW c \in Clients, AllocDone(c)
      PROVE  TypeOK'
  BY <1>1, <1>5 DEF AllocDone, serverVars
<1>6. ASSUME NEW c \in Clients, CopyString(c)
      PROVE  TypeOK'
  BY <1>1, <1>6 DEF CopyString, serverVars
<1>7. ASSUME NEW c \in Clients, ClientSpin(c) \/ AllocSpin(c)
      PROVE  TypeOK'
  BY <1>1, <1>7 DEF ClientSpin, AllocSpin, clientVars, serverVars
<1>8. ASSUME ServerPrint
      PROVE  TypeOK'
  <2>1. Shown(p_free) \in Nat
    BY <1>1, <1>8, PrintedNext DEF ServerPrint
  <2>2. printed' = Append(printed, Shown(p_free))
    BY <1>8 DEF ServerPrint, Shown, Oldest
  <2>3. QED
    BY <1>1, <1>8, <2>1, <2>2 DEF ServerPrint, ServerGoes, clientVars
<1>9. ASSUME Server, ~ServerPrint
      PROVE  TypeOK'
  BY <1>1, <1>9 DEF Server, OpenProcess, OpenFileMapping, ServerLook,
     ServerNothing, ServerWait, ServerPick, ServerFree, ServerClear,
     ServerAdvance, ServerGoes, clientVars
<1>10. ASSUME ProcExit
       PROVE  TypeOK'
  BY <1>1, <1>10 DEF ProcExit, clientVars, serverVars
<1>11. ASSUME UNCHANGED printVars
       PROVE  TypeOK'
  BY <1>1, <1>11 DEF printVars, clientVars, serverVars
<1>12. QED
  BY <1>2, <1>3, <1>4, <1>5, <1>6, <1>7, <1>8, <1>9, <1>10, <1>11
  DEF Next, Client, FinishPrint

(* A client that writes in its slot disturbs no other client's slot, and   *)
(* none that is committed.                                                 *)
LEMMA SlotsApart ==
  ASSUME PrintInv, NEW c \in Clients, Q!Holding(c)
  PROVE  /\ p_r_old[c] \in Q!Slots
         /\ Q!HeldBy(c, p_r_old[c]) /\ Q!IsHeld(p_r_old[c])
         /\ ~flags[p_r_old[c]]
         /\ Q!InWindow(p_r_old[c])
         /\ cpc \in {"picked", "advance"} => p_r_old[c] # p_free
         /\ \A d \in Clients \ {c} :
              /\ ~Q!HeldBy(d, p_r_old[c])
              /\ Q!Holding(d) => p_r_old[d] # p_r_old[c]
<1>1. p_r_old[c] \in Q!Slots
  BY DEF PrintInv, Q!RingInv, Q!TypeOK
<1>2. Q!HeldBy(c, p_r_old[c]) /\ Q!IsHeld(p_r_old[c])
  BY DEF Q!HeldBy, Q!IsHeld
<1>3. ~flags[p_r_old[c]] /\ Q!InWindow(p_r_old[c])
  BY <1>1, <1>2 DEF PrintInv, Q!RingInv, Q!RingLayout
<1>4. cpc \in {"picked", "advance"} => p_r_old[c] # p_free
  BY <1>2, <1>3 DEF PrintInv, Q!RingInv, Q!ConsumerKnows
<1>5. \A d \in Clients \ {c} :
        /\ ~Q!HeldBy(d, p_r_old[c])
        /\ Q!Holding(d) => p_r_old[d] # p_r_old[c]
  BY DEF PrintInv, Q!RingInv, Q!SlotExclusive, Q!HeldBy
<1>6. QED
  BY <1>1, <1>2, <1>3, <1>4, <1>5

LEMMA PlacesPreserved ==
  ASSUME PrintInv, [Next]_printVars, TypeOK'
  PROVE  PlacesMatch'
<1> USE DEF PlacesMatch, Slot, Oldest
<1>1. /\ PlacesMatch
      /\ stage \in [Clients -> Stages] /\ pc \in [Clients -> {"idle", "check", "cas", "held", "written"}]
      /\ apc \in [Clients -> {"idle", "load", "cas"}] /\ p_r_old \in [Clients -> Q!Slots]
      /\ data \in [Q!Slots -> Packet \cup {ZeroPage}]
  BY DEF PrintInv, TypeOK, Q!RingInv, Q!TypeOK, V!TypeOK
<1>2. spc = "free" => cpc = "picked"
  BY <1>1
<1>3. ASSUME NEW c \in Clients, PrintStart(c) \/ ClientSpin(c) \/ ClientReserve(c)
      PROVE  PlacesMatch'
  BY <1>1, <1>3 DEF PrintStart, ClientSpin, ClientReserve, Q!ReserveLoad,
     Q!ReserveFull, Q!ReserveRoom, Q!ReserveRetry, Q!ReserveCas, Q!sharedVars,
     storVars, clientVars, serverVars, IsString, Stages
<1>4. ASSUME NEW c \in Clients, FillValue(c) \/ FillString(c) \/ LinkString(c)
      PROVE  PlacesMatch'
  <2>1. PICK packet \in Packet :
          /\ Q!WritePacket(c, packet)
          /\ stage'[c] = "alloc" => packet.type = "STRING"
    <3>1. CASE FillValue(c)
      BY <1>1, <3>1, PacketsWritten DEF FillValue
    <3>2. CASE FillString(c)
      BY <3>2, PacketsWritten DEF FillString
    <3>3. CASE LinkString(c)
      BY <1>1, <3>3, PacketsWritten DEF LinkString
    <3>4. QED
      BY <1>4, <3>1, <3>2, <3>3
  <2>2. Q!Holding(c)
    BY <2>1 DEF Q!WritePacket
  <2>3. \A d \in Clients \ {c} : Q!Holding(d) => data'[p_r_old[d]] = data[p_r_old[d]]
    BY <1>1, <2>1, <2>2, SlotsApart DEF Q!WritePacket
  <2>4. data'[p_r_old[c]] = packet
    BY <1>1, <2>1 DEF Q!WritePacket
  <2>5. spc = "free" => data'[p_free] = data[p_free]
    BY <1>1, <1>2, <2>1, <2>2, SlotsApart DEF Q!WritePacket
  <2>6. /\ \A d \in Clients \ {c} :
             stage'[d] = stage[d] /\ pc'[d] = pc[d] /\ apc'[d] = apc[d]
        /\ p_r_old' = p_r_old /\ cpc' = cpc /\ p_free' = p_free
        /\ UNCHANGED serverVars /\ alive' = alive
        /\ pc'[c] = "written" /\ apc[c] = "idle"
        /\ stage'[c] \in {"commit", "alloc"}
        /\ stage'[c] # "alloc" => apc'[c] = "idle"
    BY <1>1, <1>4, <2>1 DEF FillValue, FillString, LinkString, Q!WritePacket,
       V!AllocStart, storVars
  <2>7. \A d \in Clients \ {c} :
          stage'[d] \in {"alloc", "copy", "link"} => data'[p_r_old'[d]].type = "STRING"
    BY <1>1, <2>3, <2>6 DEF Q!Holding
  <2>8. stage'[c] = "alloc" => data'[p_r_old'[c]].type = "STRING"
    BY <2>1, <2>4, <2>6
  <2>9. QED
    BY <1>1, <2>5, <2>6, <2>7, <2>8 DEF serverVars, IsString
<1>5. ASSUME NEW c \in Clients, AllocSpin(c) \/ AllocDone(c)
      PROVE  PlacesMatch'
  BY <1>1, <1>5 DEF AllocSpin, AllocDone, V!Scan, V!AllocNoBit, V!AllocLoad,
     V!AllocLost, V!AllocCas, queueVars, clientVars, serverVars, IsString
<1>6. ASSUME NEW c \in Clients, CopyString(c)
      PROVE  PlacesMatch'
  BY <1>1, <1>6 DEF CopyString, queueVars, storVars, serverVars, IsString
<1>7. ASSUME NEW c \in Clients, PrintCommit(c)
      PROVE  PlacesMatch'
  BY <1>1, <1>7 DEF PrintCommit, Q!Enqueue, storVars, serverVars, IsString
<1>8. ASSUME Server
      PROVE  PlacesMatch'
  <2> USE <1>1 DEF ServerGoes, clientVars
  <2>1. CASE OpenProcess \/ OpenFileMapping
    BY <2>1 DEF OpenProcess, OpenFileMapping, queueVars, storVars
  <2>2. CASE ServerLook \/ ServerNothing \/ ServerPick
    BY <2>2 DEF ServerLook, ServerNothing, ServerPick, Q!PickInUse,
       Q!PickEmpty, Q!PickUncommitted, Q!PickCommitted, Q!queueVars,
       Q!sharedVars, storVars
  <2>3. CASE ServerPrint
    BY <2>3 DEF ServerPrint, queueVars, storVars
  <2>4. CASE ServerFree
    BY <2>4 DEF ServerFree, V!Free, V!storLocals, queueVars
  <2>5. CASE ServerClear \/ ServerAdvance
    BY <2>5 DEF ServerClear, ServerAdvance, Q!DequeueClear, Q!DequeueAdvance, storVars
  <2>6. CASE ServerWait
    <3>1. exiting' => ~alive'
      BY <2>6 DEF ServerWait
    <3>2. QED
      BY <2>6, <3>1 DEF ServerWait, queueVars, storVars
  <2>7. QED
    BY <1>8, <2>1, <2>2, <2>3, <2>4, <2>5, <2>6 DEF Server
<1>9. ASSUME ProcExit \/ UNCHANGED printVars
      PROVE  PlacesMatch'
  BY <1>1, <1>9 DEF ProcExit, printVars, queueVars, storVars, clientVars,
     serverVars, IsString
<1>10. QED
  BY <1>3, <1>4, <1>5, <1>6, <1>7, <1>8, <1>9 DEF Next, Client, FinishPrint

-----------------------------------------------------------------------------
(* How a step changes which slots hold a whole packet.  Most steps of a    *)
(* client change nothing of it: a commit only turns into a flag what the   *)
(* client's place in print said before.                                    *)
LEMMA QuietClient ==
  ASSUME PrintInv, NEW c \in Clients,
         \/ PrintStart(c) \/ ClientSpin(c) \/ ClientReserve(c) \/ FillString(c)
         \/ AllocSpin(c) \/ AllocDone(c) \/ CopyString(c) \/ PrintCommit(c)
  PROVE  \A i \in Q!Slots : /\ Whole(i)' <=> Whole(i)
                            /\ Whole(i) => data'[i] = data[i]
<1>1. /\ stage \in [Clients -> Stages] /\ pc \in [Clients -> {"idle", "check", "cas", "held", "written"}]
      /\ p_r_old \in [Clients -> Q!Slots] /\ flags \in [Q!Slots -> BOOLEAN]
      /\ data \in [Q!Slots -> Packet \cup {ZeroPage}]
      /\ PlacesMatch
  BY DEF PrintInv, TypeOK, Q!RingInv, Q!TypeOK
<1>2. /\ p_free' = p_free /\ spc' = spc
      /\ \A d \in Clients \ {c} :
           stage'[d] = stage[d] /\ pc'[d] = pc[d] /\ p_r_old'[d] = p_r_old[d]
  BY <1>1 DEF PrintStart, ClientSpin, ClientReserve, FillString, AllocSpin,
     AllocDone, CopyString, PrintCommit, Q!ReserveLoad, Q!ReserveFull,
     Q!ReserveRoom, Q!ReserveRetry, Q!ReserveCas, Q!WritePacket, Q!Enqueue,
     Q!sharedVars, queueVars, clientVars, serverVars
<1>3. CASE PrintCommit(c)
  <2> DEFINE s == p_r_old[c]
  <2>1. /\ Q!Holding(c) /\ stage[c] = "commit"
        /\ pc'[c] = "idle" /\ p_r_old' = p_r_old
        /\ flags' = [flags EXCEPT ![s] = TRUE] /\ data' = data
    BY <1>1, <1>3 DEF PrintCommit, Q!Enqueue, Q!Holding
  <2>2. Q!HeldBy(c, s) /\ s \in Q!Slots
    BY <2>1, SlotsApart
  <2>3. Ready(s) /\ Ready(s)'
    BY <1>1, <2>1, <2>2 DEF Ready
  <2>4. \A i \in Q!Slots : i # s => (Ready(i)' <=> Ready(i))
    BY <1>1, <1>2, <2>1 DEF Ready, Q!HeldBy, Q!Holding
  <2>5. \A i \in Q!Slots : Ready(i)' <=> Ready(i)
    BY <2>1, <2>3, <2>4
  <2>6. QED
    BY <1>2, <2>1, <2>5 DEF Whole
<1>4. CASE ~PrintCommit(c)
  <2>1. /\ flags' = flags /\ stage[c] # "commit" /\ stage'[c] # "commit"
        /\ \A i \in Q!Slots : data'[i] = data[i] \/ Q!HeldBy(c, i)
    BY <1>1, <1>4 DEF PrintStart, ClientSpin, ClientReserve, FillString,
       AllocSpin, AllocDone, CopyString, Q!ReserveLoad, Q!ReserveFull,
       Q!ReserveRoom, Q!ReserveRetry, Q!ReserveCas, Q!WritePacket, Q!HeldBy,
       Q!sharedVars, queueVars, clientVars
  <2>2. \A i \in Q!Slots : Ready(i)' <=> Ready(i)
    BY <1>1, <1>2, <2>1 DEF Ready, Q!HeldBy, Q!Holding
  <2>3. \A i \in Q!Slots : Q!HeldBy(c, i) => ~Ready(i)
    BY <2>1, SlotsApart DEF Ready, Q!HeldBy
  <2>4. QED
    BY <1>2, <2>1, <2>2, <2>3 DEF Whole
<1>5. QED
  BY <1>3, <1>4

(* The last write of a client makes its own slot whole.                    *)
LEMMA LastWrite ==
  ASSUME PrintInv, NEW c \in Clients, FillValue(c) \/ LinkString(c)
  PROVE  LET s == p_r_old[c]
         IN  /\ ~Whole(s) /\ Whole(s)' /\ Q!HeldBy(c, s) /\ s \in Q!Slots
             /\ p_r_old' = p_r_old
             /\ data'[s] = IF stage[c] = "fill" THEN [type |-> "VALUE", data |-> msg[c]]
                           ELSE [type |-> "STRING", data |-> vstr[c]]
             /\ \A i \in Q!Slots \ {s} : /\ Whole(i)' <=> Whole(i)
                                         /\ data'[i] = data[i]
<1> DEFINE s == p_r_old[c]
<1>1. /\ stage \in [Clients -> Stages] /\ pc \in [Clients -> {"idle", "check", "cas", "held", "written"}]
      /\ p_r_old \in [Clients -> Q!Slots] /\ flags \in [Q!Slots -> BOOLEAN]
      /\ data \in [Q!Slots -> Packet \cup {ZeroPage}]
      /\ PlacesMatch
  BY DEF PrintInv, TypeOK, Q!RingInv, Q!TypeOK
<1>2. /\ p_free' = p_free /\ spc' = spc /\ flags' = flags
      /\ pc' = [pc EXCEPT ![c] = "written"] /\ p_r_old' = p_r_old
      /\ stage[c] \in {"fill", "link"} /\ stage' = [stage EXCEPT ![c] = "commit"]
      /\ Q!Holding(c)
  BY DEF FillValue, LinkString, Q!WritePacket, serverVars
<1>3. /\ s \in Q!Slots /\ Q!HeldBy(c, s) /\ ~flags[s]
      /\ cpc \in {"picked", "advance"} => s # p_free
      /\ \A d \in Clients \ {c} : ~Q!HeldBy(d, s)
  BY <1>2, SlotsApart
<1>4. ~Whole(s)
  BY <1>2, <1>3 DEF Whole, Ready
<1>5. Whole(s)'
  <2>1. stage'[c] = "commit" /\ Q!HeldBy(c, s)'
    BY <1>1, <1>2 DEF Q!HeldBy, Q!Holding
  <2>2. Ready(s)'
    BY <2>1 DEF Ready
  <2>3. ~(s = p_free /\ spc = "dequeue")
    BY <1>1, <1>3 DEF PlacesMatch
  <2>4. QED
    BY <1>2, <2>2, <2>3 DEF Whole
<1>6. data'[s] = IF stage[c] = "fill" THEN [type |-> "VALUE", data |-> msg[c]]
                 ELSE [type |-> "STRING", data |-> vstr[c]]
  <2>1. CASE FillValue(c)
    BY <1>1, <2>1 DEF FillValue, Q!WritePacket
  <2>2. CASE LinkString(c)
    <3>1. /\ data[s] \in Packet \cup {ZeroPage}
          /\ data[s].type = "STRING" /\ stage[c] = "link"
      BY <1>1, <2>2 DEF LinkString, PlacesMatch, Slot
    <3>2. [data[s] EXCEPT !.data = vstr[c]] = [type |-> "STRING", data |-> vstr[c]]
      BY <3>1 DEF Packet, ZeroPage
    <3>3. QED
      BY <1>1, <2>2, <3>1, <3>2 DEF LinkString, Q!WritePacket, Slot
  <2>3. QED
    BY <2>1, <2>2
<1>7. ASSUME NEW i \in Q!Slots \ {s}
      PROVE  (Whole(i)' <=> Whole(i)) /\ data'[i] = data[i]
  <2>1. Ready(i)' <=> Ready(i)
    BY <1>1, <1>2 DEF Ready, Q!HeldBy, Q!Holding
  <2>2. data'[i] = data[i]
    BY <1>1 DEF FillValue, LinkString, Q!WritePacket
  <2>3. QED
    BY <1>2, <2>1, <2>2 DEF Whole
<1>8. QED
  BY <1>2, <1>3, <1>4, <1>5, <1>6, <1>7

(* The server takes the oldest slot's packet when it printed a value or    *)
(* freed a string; Dequeue then only does away with an empty slot.         *)
LEMMA ServerTakes ==
  ASSUME PrintInv, Server
  PROVE  /\ \A i \in Q!Slots :
              Whole(i)' <=> /\ Whole(i)
                            /\ ~(i = p_free /\ (ServerFree \/ (ServerPrint /\ ~IsString(Oldest))))
         /\ data' = data /\ stage' = stage /\ vstr' = vstr
         /\ strs' = strs /\ msg' = msg /\ order' = order /\ p_r_old' = p_r_old
         /\ pc' = pc /\ p_reserve' = p_reserve
<1>1. /\ PlacesMatch /\ p_free \in Q!Slots /\ flags \in [Q!Slots -> BOOLEAN]
      /\ pc \in [Clients -> {"idle", "check", "cas", "held", "written"}]
  BY DEF PrintInv, Q!RingInv, Q!TypeOK
<1>2. /\ data' = data /\ stage' = stage /\ vstr' = vstr
      /\ strs' = strs /\ msg' = msg /\ order' = order
      /\ p_r_old' = p_r_old /\ pc' = pc /\ p_reserve' = p_reserve
  BY DEF Server, OpenProcess, OpenFileMapping, ServerLook, ServerNothing,
     ServerWait, ServerPick, ServerPrint, ServerFree, ServerClear,
     ServerAdvance, ServerGoes, clientVars, queueVars, Q!PickInUse,
     Q!PickEmpty, Q!PickUncommitted, Q!PickCommitted, Q!DequeueClear,
     Q!DequeueAdvance, Q!queueVars, Q!sharedVars
<1>3. \A i \in Q!Slots, c \in Clients : Q!HeldBy(c, i)' <=> Q!HeldBy(c, i)
  BY <1>2 DEF Q!HeldBy, Q!Holding
<1>4. ASSUME flags' = flags
      PROVE  \A i \in Q!Slots : Ready(i)' <=> Ready(i)
  BY <1>2, <1>3, <1>4 DEF Ready
<1>5. CASE ServerClear
  <2>1. /\ p_free' = p_free /\ flags' = [flags EXCEPT ![p_free] = FALSE]
        /\ spc = "dequeue" /\ spc' = "dequeue" /\ ~ServerFree /\ ~ServerPrint
    BY <1>5 DEF ServerClear, Q!DequeueClear, ServerGoes, ServerFree, ServerPrint
  <2>2. \A i \in Q!Slots : i # p_free => (Ready(i)' <=> Ready(i))
    BY <1>1, <1>2, <1>3, <2>1 DEF Ready
  <2>3. QED
    BY <1>2, <2>1, <2>2 DEF Whole
<1>6. CASE ServerAdvance
  <2>1. /\ p_free' = Q!NextSlot(p_free) /\ flags' = flags
        /\ spc = "dequeue" /\ spc' = "pick" /\ cpc = "advance"
        /\ ~ServerFree /\ ~ServerPrint
    BY <1>6 DEF ServerAdvance, Q!DequeueAdvance, ServerGoes, ServerFree, ServerPrint
  <2>2. ~Ready(p_free)
    BY <1>1, <2>1 DEF PrintInv, Q!RingInv, Q!ConsumerKnows, Ready, Q!IsHeld
  <2>3. QED
    BY <1>2, <1>4, <2>1, <2>2 DEF Whole
<1>7. CASE ServerFree
  <2>1. /\ p_free' = p_free /\ flags' = flags
        /\ spc = "free" /\ spc' = "dequeue" /\ ~ServerPrint
    BY <1>7 DEF ServerFree, ServerGoes, queueVars, ServerPrint
  <2>2. \A i \in Q!Slots : Whole(i)' <=> Ready(i) /\ i # p_free
    BY <1>4, <2>1 DEF Whole
  <2>3. \A i \in Q!Slots : Whole(i) <=> Ready(i)
    BY <2>1 DEF Whole
  <2>4. QED
    BY <1>2, <1>7, <2>2, <2>3
<1>8. CASE ServerPrint
  <2>1. /\ p_free' = p_free /\ flags' = flags
        /\ spc = "print" /\ spc' = IF IsString(Oldest) THEN "free" ELSE "dequeue"
        /\ ~ServerFree
    BY <1>8 DEF ServerPrint, ServerGoes, queueVars, ServerFree
  <2>2. QED
    BY <1>2, <1>4, <1>8, <2>1 DEF Whole
<1>9. CASE ~(ServerClear \/ ServerAdvance \/ ServerFree \/ ServerPrint)
  <2>1. /\ p_free' = p_free /\ flags' = flags
        /\ spc # "dequeue" /\ spc' # "dequeue"
    BY <1>9 DEF Server, OpenProcess, OpenFileMapping, ServerLook,
       ServerNothing, ServerWait, ServerPick, ServerGoes, queueVars,
       Q!PickInUse, Q!PickEmpty, Q!PickUncommitted, Q!PickCommitted,
       Q!queueVars, Q!sharedVars
  <2>2. QED
    BY <1>2, <1>4, <1>9, <2>1 DEF Whole
<1>10. QED
  BY <1>5, <1>6, <1>7, <1>8, <1>9

LEMMA IdleStep ==
  ASSUME ProcExit \/ UNCHANGED printVars
  PROVE  /\ \A i \in Q!Slots : (Whole(i)' <=> Whole(i)) /\ data'[i] = data[i]
         /\ UNCHANGED <<queueVars, storVars, clientVars, serverVars>>
<1>1. UNCHANGED <<queueVars, storVars, clientVars, serverVars>>
  BY DEF ProcExit, printVars
<1>2. /\ stage' = stage /\ pc' = pc /\ p_r_old' = p_r_old /\ flags' = flags
      /\ spc' = spc /\ p_free' = p_free /\ data' = data
  BY <1>1 DEF queueVars, clientVars, serverVars
<1>3. \A i \in Q!Slots : Ready(i)' <=> Ready(i)
  BY <1>2 DEF Ready, Q!HeldBy, Q!Holding
<1>4. QED
  BY <1>1, <1>2, <1>3 DEF Whole

-----------------------------------------------------------------------------
(* Who has a cell.                                                         *)
LEMMA NamesWhole ==
  ASSUME NEW i \in Q!Slots, NEW cell \in V!Cells
  PROVE  /\ Names(i, cell) <=> Whole(i) /\ IsString(data[i]) /\ data[i].data = cell
         /\ Names(i, cell)' <=> Whole(i)' /\ IsString(data'[i]) /\ data'[i].data = cell
BY DEF Names, Whole, Ready, IsString

(* A step that leaves the naming slots, the copying clients and the taken  *)
(* cells alone.                                                            *)
LEMMA CellsFrame ==
  ASSUME CellsUsed,
         \A i \in Q!Slots :
           /\ Whole(i)' /\ IsString(data'[i]) <=> Whole(i) /\ IsString(data[i])
           /\ Whole(i) /\ IsString(data[i]) => data'[i] = data[i],
         \A c \in Clients, cell \in V!Cells : Copying(c, cell)' <=> Copying(c, cell),
         \A cell \in V!Cells : owner'[cell] = NoOne <=> owner[cell] = NoOne
  PROVE  CellsUsed'
<1>1. \A i \in Q!Slots, cell \in V!Cells : Names(i, cell)' <=> Names(i, cell)
  BY NamesWhole
<1>2. \A i \in Q!Slots : Whole(i)' /\ IsString(data'[i]) => data'[i].data \in V!Cells
  BY DEF CellsUsed
<1>3. Q!Slots' = Q!Slots /\ V!Cells' = V!Cells
  BY DEF Q!Slots, V!Cells
<1>4. \A cell \in V!Cells :
        /\ owner'[cell] # NoOne <=> \/ \E i \in Q!Slots : Names(i, cell)'
                                    \/ \E c \in Clients : Copying(c, cell)'
        /\ \A i, j \in Q!Slots : Names(i, cell)' /\ Names(j, cell)' => i = j
        /\ \A c, d \in Clients : Copying(c, cell)' /\ Copying(d, cell)' => c = d
        /\ \A i \in Q!Slots, c \in Clients : ~(Names(i, cell)' /\ Copying(c, cell)')
  BY <1>1 DEF CellsUsed
<1>5. QED
  BY <1>2, <1>3, <1>4 DEF CellsUsed, IsString

LEMMA CellsPreserved ==
  ASSUME PrintInv, [Next]_printVars
  PROVE  CellsUsed'
<1>1. /\ CellsUsed /\ PlacesMatch
      /\ stage \in [Clients -> Stages] /\ vstr \in [Clients -> V!Cells]
      /\ owner \in [V!Cells -> Clients \cup {NoOne}]
      /\ p_free \in Q!Slots /\ NoOne \notin Clients
  BY PrintAssumption DEF PrintInv, TypeOK, V!TypeOK, Q!RingInv, Q!TypeOK
<1>2. ASSUME NEW c \in Clients,
             \/ PrintStart(c) \/ ClientSpin(c) \/ ClientReserve(c) \/ FillString(c)
             \/ AllocSpin(c) \/ CopyString(c) \/ PrintCommit(c)
      PROVE  CellsUsed'
  <2>1. \A d \in Clients, cell \in V!Cells : Copying(d, cell)' <=> Copying(d, cell)
    BY <1>1, <1>2 DEF Copying, PrintStart, ClientSpin, ClientReserve,
       FillString, AllocSpin, CopyString, PrintCommit, clientVars
  <2>2. owner' = owner
    BY <1>2 DEF PrintStart, ClientSpin, ClientReserve, FillString, AllocSpin,
       CopyString, PrintCommit, storVars, V!AllocStart, V!Scan, V!AllocNoBit,
       V!AllocLoad, V!AllocLost
  <2>3. QED
    BY <1>1, <1>2, <2>1, <2>2, QuietClient, CellsFrame
<1>3. ASSUME NEW c \in Clients, AllocDone(c)
      PROVE  CellsUsed'
  <2>1. PICK cell \in V!Cells :
          V!AllocCas(c, cell) /\ vstr' = [vstr EXCEPT ![c] = cell]
    BY <1>3 DEF AllocDone
  <2>2. /\ owner[cell] = NoOne /\ owner' = [owner EXCEPT ![cell] = c]
        /\ stage[c] = "alloc" /\ stage' = [stage EXCEPT ![c] = "copy"]
    BY <1>3, <2>1, AllocTakesFree DEF AllocDone, V!AllocCas, PrintInv
  <2>3. \A i \in Q!Slots : /\ Whole(i)' <=> Whole(i)
                           /\ Whole(i) => data'[i] = data[i]
    BY <1>3, QuietClient
  <2>4. \A i \in Q!Slots, any \in V!Cells : Names(i, any)' <=> Names(i, any)
    BY <2>3, NamesWhole
  <2>5. \A d \in Clients, any \in V!Cells :
          Copying(d, any)' <=> Copying(d, any) \/ (d = c /\ any = cell)
    BY <1>1, <2>1, <2>2 DEF Copying
  <2>6. \A d \in Clients : ~Copying(d, cell)
    BY <1>1, <2>2 DEF CellsUsed
  <2>7. \A i \in Q!Slots : ~Names(i, cell)
    BY <1>1, <2>2 DEF CellsUsed
  <2>8. \A i \in Q!Slots : Whole(i)' /\ IsString(data'[i]) => data'[i].data \in V!Cells
    BY <1>1, <2>3 DEF CellsUsed
  <2>9. \A d \in Clients : ~\E any \in V!Cells : d = c /\ Copying(d, any)
    BY <2>2 DEF Copying
  <2>10. \A any \in V!Cells :
          /\ owner'[any] # NoOne <=> \/ \E i \in Q!Slots : Names(i, any)'
                                     \/ \E d \in Clients : Copying(d, any)'
          /\ \A i, j \in Q!Slots : Names(i, any)' /\ Names(j, any)' => i = j
          /\ \A d, e \in Clients : Copying(d, any)' /\ Copying(e, any)' => d = e
          /\ \A i \in Q!Slots, d \in Clients : ~(Names(i, any)' /\ Copying(d, any)')
    <3> TAKE any \in V!Cells
    <3>1. CASE any = cell
      BY <1>1, <2>2, <2>4, <2>5, <2>6, <2>7, <3>1
    <3>2. CASE any # cell
      <4>1. owner'[any] = owner[any]
        BY <1>1, <2>2, <3>2
      <4>2. \A d \in Clients : Copying(d, any)' <=> Copying(d, any)
        BY <2>5, <3>2
      <4>3. QED
        BY <1>1, <2>4, <4>1, <4>2 DEF CellsUsed
    <3>3. QED
      BY <3>1, <3>2
  <2>11. Q!Slots' = Q!Slots /\ V!Cells' = V!Cells
    BY DEF Q!Slots, V!Cells
  <2>12. QED
    BY <2>8, <2>10, <2>11 DEF CellsUsed, IsString
<1>4. ASSUME NEW c \in Clients, FillValue(c)
      PROVE  CellsUsed'
  <2> DEFINE s == p_r_old[c]
  <2>1. /\ stage[c] = "fill" /\ stage' = [stage EXCEPT ![c] = "commit"]
        /\ vstr' = vstr /\ owner' = owner
    BY <1>4 DEF FillValue, storVars
  <2>2. /\ ~Whole(s) /\ s \in Q!Slots
        /\ data'[s] = [type |-> "VALUE", data |-> msg[c]]
        /\ \A i \in Q!Slots \ {s} : /\ Whole(i)' <=> Whole(i)
                                    /\ data'[i] = data[i]
    BY <1>4, <2>1, LastWrite
  <2>3. ~IsString(data'[s])
    BY <2>2 DEF IsString
  <2>4. \A i \in Q!Slots :
           /\ Whole(i)' /\ IsString(data'[i]) <=> Whole(i) /\ IsString(data[i])
           /\ Whole(i) /\ IsString(data[i]) => data'[i] = data[i]
    BY <2>2, <2>3 DEF IsString
  <2>5. \A d \in Clients, cell \in V!Cells : Copying(d, cell)' <=> Copying(d, cell)
    BY <1>1, <2>1 DEF Copying
  <2>6. QED
    BY <1>1, <2>1, <2>4, <2>5, CellsFrame
<1>5. ASSUME NEW c \in Clients, LinkString(c)
      PROVE  CellsUsed'
  <2> DEFINE s == p_r_old[c]
             cell == vstr[c]
  <2>1. /\ stage[c] = "link" /\ stage' = [stage EXCEPT ![c] = "commit"]
        /\ vstr' = vstr /\ owner' = owner /\ cell \in V!Cells
    BY <1>1, <1>5 DEF LinkString, storVars
  <2>2. /\ ~Whole(s) /\ Whole(s)' /\ s \in Q!Slots /\ p_r_old' = p_r_old
        /\ data'[s] = [type |-> "STRING", data |-> cell]
        /\ \A i \in Q!Slots \ {s} : /\ Whole(i)' <=> Whole(i)
                                    /\ data'[i] = data[i]
    BY <1>5, <2>1, LastWrite
  <2>3. Copying(c, cell)
    BY <2>1 DEF Copying
  <2>4. \A i \in Q!Slots, any \in V!Cells :
          Names(i, any)' <=> Names(i, any) \/ (i = s /\ any = cell)
    <3> SUFFICES ASSUME NEW i \in Q!Slots, NEW any \in V!Cells
                 PROVE  Names(i, any)' <=> Names(i, any) \/ (i = s /\ any = cell)
      OBVIOUS
    <3>1. CASE i = s
      <4>1. IsString(data'[i]) /\ data'[i].data = cell
        BY <2>2, <3>1 DEF IsString
      <4>2. QED
        BY <2>2, <3>1, <4>1, NamesWhole
    <3>2. CASE i # s
      BY <2>2, <3>2, NamesWhole
    <3>3. QED
      BY <3>1, <3>2
  <2>5. \A d \in Clients, any \in V!Cells :
          Copying(d, any)' <=> Copying(d, any) /\ d # c
    BY <1>1, <2>1 DEF Copying
  <2>6. /\ owner[cell] # NoOne
        /\ \A d \in Clients : Copying(d, cell) => d = c
        /\ \A i \in Q!Slots : ~Names(i, cell)
        /\ \A any \in V!Cells : any # cell => ~Copying(c, any)
    BY <1>1, <2>1, <2>3 DEF CellsUsed, Copying
  <2>7. \A i \in Q!Slots : Whole(i)' /\ IsString(data'[i]) => data'[i].data \in V!Cells
    <3> SUFFICES ASSUME NEW i \in Q!Slots, Whole(i)', IsString(data'[i])
                 PROVE  data'[i].data \in V!Cells
      OBVIOUS
    <3>1. CASE i = s
      BY <2>1, <2>2, <3>1
    <3>2. CASE i # s
      BY <1>1, <2>2, <3>2 DEF CellsUsed
    <3>3. QED
      BY <3>1, <3>2
  <2>8. \A any \in V!Cells :
          /\ owner'[any] # NoOne <=> \/ \E i \in Q!Slots : Names(i, any)'
                                     \/ \E d \in Clients : Copying(d, any)'
          /\ \A i, j \in Q!Slots : Names(i, any)' /\ Names(j, any)' => i = j
          /\ \A d, e \in Clients : Copying(d, any)' /\ Copying(e, any)' => d = e
          /\ \A i \in Q!Slots, d \in Clients : ~(Names(i, any)' /\ Copying(d, any)')
    <3> TAKE any \in V!Cells
    <3>1. CASE any = cell
      BY <2>1, <2>2, <2>4, <2>5, <2>6, <3>1
    <3>2. CASE any # cell
      <4>1. /\ \A d \in Clients : Copying(d, any)' <=> Copying(d, any)
            /\ \A i \in Q!Slots : Names(i, any)' <=> Names(i, any)
        BY <2>4, <2>5, <2>6, <3>2
      <4>2. QED
        BY <1>1, <2>1, <4>1 DEF CellsUsed
    <3>3. QED
      BY <3>1, <3>2
  <2>9. Q!Slots' = Q!Slots /\ V!Cells' = V!Cells
    BY DEF Q!Slots, V!Cells
  <2>10. QED
    BY <2>7, <2>8, <2>9 DEF CellsUsed, IsString
<1>6. ASSUME ServerFree
      PROVE  CellsUsed'
  <2> DEFINE cell == Oldest.data
  <2>1. /\ cell \in V!Cells /\ Names(p_free, cell) /\ spc = "free"
        /\ owner' = [owner EXCEPT ![cell] = NoOne]
    BY <1>6, FreedIsCell DEF ServerFree, V!Free
  <2>2. /\ \A i \in Q!Slots : Whole(i)' <=> Whole(i) /\ i # p_free
        /\ data' = data /\ stage' = stage /\ vstr' = vstr
    BY <1>6, ServerTakes DEF Server
  <2>3. \A i \in Q!Slots, any \in V!Cells : Names(i, any)' <=> Names(i, any) /\ i # p_free
    BY <2>2, NamesWhole
  <2>4. \A d \in Clients, any \in V!Cells : Copying(d, any)' <=> Copying(d, any)
    BY <2>2 DEF Copying
  <2>5. /\ \A i \in Q!Slots : Names(i, cell) => i = p_free
        /\ \A d \in Clients : ~Copying(d, cell)
        /\ \A any \in V!Cells : any # cell => ~Names(p_free, any)
    BY <1>1, <2>1, NamesWhole DEF CellsUsed
  <2>6. \A i \in Q!Slots : Whole(i)' /\ IsString(data'[i]) => data'[i].data \in V!Cells
    BY <1>1, <2>2 DEF CellsUsed
  <2>7. \A any \in V!Cells :
          /\ owner'[any] # NoOne <=> \/ \E i \in Q!Slots : Names(i, any)'
                                     \/ \E d \in Clients : Copying(d, any)'
          /\ \A i, j \in Q!Slots : Names(i, any)' /\ Names(j, any)' => i = j
          /\ \A d, e \in Clients : Copying(d, any)' /\ Copying(e, any)' => d = e
          /\ \A i \in Q!Slots, d \in Clients : ~(Names(i, any)' /\ Copying(d, any)')
    <3> TAKE any \in V!Cells
    <3>1. CASE any = cell
      BY <1>1, <2>1, <2>3, <2>4, <2>5, <3>1
    <3>2. CASE any # cell
      <4>1. owner'[any] = owner[any] /\ \A i \in Q!Slots : Names(i, any)' <=> Names(i, any)
        BY <1>1, <2>1, <2>3, <2>5, <3>2
      <4>2. QED
        BY <1>1, <2>4, <4>1 DEF CellsUsed
    <3>3. QED
      BY <3>1, <3>2
  <2>8. Q!Slots' = Q!Slots /\ V!Cells' = V!Cells
    BY DEF Q!Slots, V!Cells
  <2>9. QED
    BY <2>6, <2>7, <2>8 DEF CellsUsed, IsString
<1>7. ASSUME Server, ~ServerFree
      PROVE  CellsUsed'
  <2>1. owner' = owner
    BY <1>7 DEF Server, OpenProcess, OpenFileMapping, ServerLook,
       ServerNothing, ServerWait, ServerPick, ServerPrint, ServerClear,
       ServerAdvance, storVars
  <2>2. /\ data' = data /\ stage' = stage /\ vstr' = vstr
        /\ \A i \in Q!Slots : Whole(i)' /\ IsString(data[i]) <=> Whole(i) /\ IsString(data[i])
    BY <1>7, ServerTakes DEF Oldest
  <2>3. \A d \in Clients, cell \in V!Cells : Copying(d, cell)' <=> Copying(d, cell)
    BY <2>2 DEF Copying
  <2>4. QED
    BY <1>1, <2>1, <2>2, <2>3, CellsFrame
<1>8. ASSUME ProcExit \/ UNCHANGED printVars
      PROVE  CellsUsed'
  <2>1. \A i \in Q!Slots : (Whole(i)' <=> Whole(i)) /\ data'[i] = data[i]
    BY <1>8, IdleStep
  <2>2. /\ owner' = owner
        /\ \A c \in Clients, cell \in V!Cells : Copying(c, cell)' <=> Copying(c, cell)
    BY <1>8 DEF ProcExit, printVars, storVars, clientVars, Copying
  <2>3. QED
    BY <1>1, <2>1, <2>2, CellsFrame
<1>9. QED
  BY <1>2, <1>3, <1>4, <1>5, <1>6, <1>7, <1>8 DEF Next, Client, FinishPrint

-----------------------------------------------------------------------------
(* The window of slots in use.                                             *)
LEMMA WindowFacts ==
  ASSUME PrintInv
  PROVE  /\ p_reserve \in Q!Slots /\ p_free \in Q!Slots
         /\ Q!InUse \in 0 .. S - 1 /\ S \in Nat \ {0}
         /\ Len(order) \in Nat /\ Len(printed) \in Nat
         /\ \A i \in Q!Slots : Q!Distance(p_free, i) \in 0 .. S - 1
         /\ \A i \in Q!Slots : Q!InWindow(i) => Turn(i) \in 1 .. Len(order)
<1>1. p_reserve \in Q!Slots /\ p_free \in Q!Slots
  BY DEF PrintInv, Q!RingInv, Q!TypeOK
<1>2. /\ Q!InUse \in 0 .. S - 1 /\ S \in Nat \ {0}
      /\ \A i \in Q!Slots : Q!Distance(p_free, i) \in 0 .. S - 1
  BY <1>1, DistanceRange, PrintAssumption DEF Q!InUse
<1>3. Len(order) \in Nat /\ Len(printed) \in Nat /\ Q!InUse <= Len(order)
  BY DEF PrintInv, TypeOK, InOrder, PrintedSoFar
<1>4. \A i \in Q!Slots : Q!InWindow(i) => Turn(i) \in 1 .. Len(order)
  BY <1>2, <1>3 DEF Q!InWindow, Turn
<1>5. QED
  BY <1>1, <1>2, <1>3, <1>4

(* A reservation adds one slot at the far end, which nobody has.           *)
LEMMA ReserveEffect ==
  ASSUME PrintInv, Q!NoLap, [Next]_printVars, NEW c \in Clients, ClientReserve(c)
  PROVE  /\ p_r_old[c] = p_reserve /\ p_r_old' = p_r_old /\ p_free' = p_free
         /\ Q!InUse' = Q!InUse + 1
         /\ \A i \in Q!Slots : Q!InWindow(i)' <=> Q!InWindow(i) \/ i = p_reserve
         /\ ~Q!InWindow(p_reserve)
         /\ Q!Distance(p_free, p_reserve) = Q!InUse
<1>1. /\ p_r_old[c] = p_reserve /\ p_r_old' = p_r_old /\ p_free' = p_free
      /\ p_reserve' = Q!NextSlot(p_reserve) /\ pc' = [pc EXCEPT ![c] = "held"]
      /\ pc \in [Clients -> {"idle", "check", "cas", "held", "written"}]
  BY DEF ClientReserve, Q!ReserveCas, PrintInv, Q!RingInv, Q!TypeOK
<1>2. Q!RingInv'
  BY RingSteps, RingPreserves DEF PrintInv
<1>3. Q!NextSlot(p_reserve) # p_free
  <2>1. Q!HeldBy(c, p_r_old[c])'
    BY <1>1 DEF Q!HeldBy, Q!Holding
  <2>2. Q!IsHeld(p_r_old[c])' /\ p_r_old[c]' \in Q!Slots'
    BY <1>2, <2>1 DEF Q!IsHeld, Q!RingInv, Q!TypeOK
  <2>3. Q!InWindow(p_r_old[c])'
    BY <1>2, <2>2 DEF Q!RingInv, Q!RingLayout
  <2>4. Q!Distance(p_free', p_r_old[c]) < Q!Distance(p_free', p_reserve')
    BY <1>1, <2>3 DEF Q!InWindow, Q!InUse, Q!Distance
  <2>5. QED
    BY <1>1, <2>4, WindowFacts, DistanceRange
<1>4. Q!InUse' = Q!InUse + 1
  <2>1. Q!InUse' = Q!Distance(p_free, Q!NextSlot(p_reserve))
    BY <1>1 DEF Q!InUse, Q!Distance
  <2>2. QED
    BY <1>3, <2>1, WindowFacts, WindowGrows DEF Q!InUse
<1>5. Q!Distance(p_free, p_reserve) = Q!InUse /\ ~Q!InWindow(p_reserve)
  BY WindowFacts DEF Q!InUse, Q!InWindow
<1>6. ASSUME NEW i \in Q!Slots
      PROVE  Q!InWindow(i)' <=> Q!InWindow(i) \/ i = p_reserve
  <2>1. Q!InWindow(i)' <=> Q!Distance(p_free, i) < Q!InUse'
    BY <1>1 DEF Q!InWindow, Q!Distance
  <2>2. Q!Distance(p_free, i) = Q!InUse <=> i = p_reserve
    BY <1>5, WindowFacts, DistanceRange
  <2>3. QED
    BY <1>4, <2>1, <2>2, WindowFacts DEF Q!InWindow
<1>7. QED
  BY <1>1, <1>4, <1>5, <1>6

(* Dequeue's last store takes the oldest slot away.                        *)
LEMMA AdvanceEffect ==
  ASSUME PrintInv, ServerAdvance
  PROVE  /\ Q!InUse' = Q!InUse - 1 /\ p_reserve' = p_reserve
         /\ \A i \in Q!Slots : /\ Q!InWindow(i)' <=> Q!InWindow(i) /\ i # p_free
                               /\ i # p_free => Q!Distance(p_free', i) = Q!Distance(p_free, i) - 1
         /\ spc = "dequeue" /\ spc' = "pick" /\ printed' = printed /\ order' = order
<1>1. /\ p_free' = Q!NextSlot(p_free) /\ p_reserve' = p_reserve /\ p_free # p_reserve
      /\ spc = "dequeue" /\ spc' = "pick" /\ printed' = printed /\ order' = order
  BY DEF ServerAdvance, Q!DequeueAdvance, ServerGoes, clientVars, PrintInv,
     Q!RingInv, Q!ConsumerKnows
<1>2. Q!InUse' = Q!InUse - 1
  <2>1. Q!InUse' = Q!Distance(Q!NextSlot(p_free), p_reserve)
    BY <1>1 DEF Q!InUse, Q!Distance
  <2>2. QED
    BY <1>1, <2>1, WindowFacts, WindowShrinks DEF Q!InUse
<1>3. ASSUME NEW i \in Q!Slots, i # p_free
      PROVE  Q!Distance(p_free', i) = Q!Distance(p_free, i) - 1
  BY <1>1, <1>3, WindowFacts, WindowShrinks
<1>4. ASSUME NEW i \in Q!Slots
      PROVE  Q!InWindow(i)' <=> Q!InWindow(i) /\ i # p_free
  <2>1. Q!InWindow(i)' <=> Q!Distance(p_free', i) < Q!InUse'
    BY DEF Q!InWindow, Q!Distance
  <2>2. CASE i = p_free
    <3>1. Q!Distance(p_free', i) = S - 1
      <4>1. p_free' = IF i = S - 1 THEN 0 ELSE i + 1
        BY <1>1, <2>2, NextSlotValue
      <4>2. i \in 0 .. S - 1 /\ S \in Nat \ {0}
        BY PrintAssumption DEF Q!Slots
      <4>3. QED
        BY <4>1, <4>2 DEF Q!Distance
    <3>2. QED
      BY <1>2, <2>1, <2>2, <3>1, WindowFacts
  <2>3. CASE i # p_free
    BY <1>2, <1>3, <2>1, <2>3, WindowFacts DEF Q!InWindow
  <2>4. QED
    BY <2>2, <2>3
<1>5. QED
  BY <1>1, <1>2, <1>3, <1>4

-----------------------------------------------------------------------------
(* What a whole packet shows does not change under the server's eyes: its  *)
(* string is in a cell that no client is copying into.                     *)
LEMMA ShownKept ==
  ASSUME PrintInv, NEW i \in Q!Slots, Whole(i), data'[i] = data[i],
         strs' = strs \/ \E c \in Clients : CopyString(c)
  PROVE  Shown(i)' = Shown(i)
<1>1. CASE strs' = strs
  BY <1>1 DEF Shown, IsString
<1>2. ASSUME NEW c \in Clients, CopyString(c), IsString(data[i])
      PROVE  strs'[data[i].data] = strs[data[i].data]
  <2>1. data[i].data \in V!Cells
    BY <1>2 DEF PrintInv, CellsUsed
  <2>2. Names(i, data[i].data)
    BY <1>2, <2>1, NamesWhole
  <2>3. Copying(c, vstr[c]) /\ vstr[c] \in V!Cells
    BY <1>2 DEF CopyString, Copying, PrintInv, TypeOK
  <2>4. data[i].data # vstr[c]
    BY <2>1, <2>2, <2>3 DEF PrintInv, CellsUsed
  <2>5. QED
    BY <1>2, <2>1, <2>4 DEF CopyString, PrintInv, TypeOK
<1>3. QED
  BY <1>1, <1>2 DEF Shown, IsString

(* The last write leaves the message in the slot.                          *)
LEMMA ShownWritten ==
  ASSUME PrintInv, NEW c \in Clients, FillValue(c) \/ LinkString(c)
  PROVE  Shown(p_r_old[c])' = msg[c]
<1> DEFINE s == p_r_old[c]
<1>1. strs' = strs /\ p_r_old' = p_r_old
  BY DEF FillValue, LinkString, Q!WritePacket
<1>2. CASE FillValue(c)
  <2>1. data'[s] = [type |-> "VALUE", data |-> msg[c]]
    BY <1>2, LastWrite DEF FillValue
  <2>2. QED
    BY <1>1, <2>1 DEF Shown, IsString
<1>3. CASE LinkString(c)
  <2>1. data'[s] = [type |-> "STRING", data |-> vstr[c]] /\ stage[c] = "link"
    BY <1>3, LastWrite DEF LinkString
  <2>2. strs[vstr[c]] = msg[c]
    BY <2>1 DEF PrintInv, InOrder, ClientsWrote
  <2>3. QED
    BY <1>1, <2>1, <2>2 DEF Shown, IsString
<1>4. QED
  BY <1>2, <1>3

(* The order of the slots when none is reserved and none dequeued.         *)
LEMMA WindowFrame ==
  ASSUME PrintInv, p_reserve' = p_reserve, p_free' = p_free, order' = order,
         \A i \in Q!Slots : Whole(i)' /\ Q!InWindow(i) => Shown(i)' = order[Turn(i)],
         \A i \in Q!Slots, c \in Clients :
           Q!HeldBy(c, i)' => Q!HeldBy(c, i) /\ msg'[c] = msg[c]
  PROVE  WindowInOrder'
<1>1. \A i \in Q!Slots : (Q!InWindow(i)' <=> Q!InWindow(i)) /\ Turn(i)' = Turn(i)
  BY DEF Q!InWindow, Q!InUse, Q!Distance, Turn
<1>2. Q!Slots' = Q!Slots
  BY DEF Q!Slots
<1>3. \A i \in Q!Slots : Q!InWindow(i)' =>
        /\ Whole(i)' => Shown(i)' = order'[Turn(i)']
        /\ \A c \in Clients : Q!HeldBy(c, i)' => msg'[c] = order'[Turn(i)']
  BY <1>1 DEF PrintInv, InOrder, WindowInOrder
<1>4. QED
  BY <1>2, <1>3 DEF WindowInOrder

LEMMA WindowPreserved ==
  ASSUME PrintInv, Q!NoLap, [Next]_printVars
  PROVE  WindowInOrder'
<1>1. /\ WindowInOrder /\ PlacesMatch
      /\ stage \in [Clients -> Stages] /\ msg \in [Clients -> 0 .. MaxPrints]
      /\ pc \in [Clients -> {"idle", "check", "cas", "held", "written"}]
      /\ p_r_old \in [Clients -> Q!Slots]
  BY DEF PrintInv, InOrder, TypeOK, Q!RingInv, Q!TypeOK
<1>2. ASSUME NEW c \in Clients,
             \/ PrintStart(c) \/ ClientSpin(c) \/ FillString(c) \/ AllocSpin(c)
             \/ AllocDone(c) \/ CopyString(c) \/ PrintCommit(c)
      PROVE  WindowInOrder'
  <2>1. /\ p_reserve' = p_reserve /\ p_free' = p_free /\ order' = order
        /\ strs' = strs \/ CopyString(c)
    BY <1>2 DEF PrintStart, ClientSpin, FillString, AllocSpin, AllocDone,
       CopyString, PrintCommit, Q!ReserveLoad, Q!ReserveFull, Q!ReserveRoom,
       Q!ReserveRetry, Q!WritePacket, Q!Enqueue, Q!sharedVars, queueVars, clientVars
  <2>2. \A i \in Q!Slots : Whole(i)' /\ Q!InWindow(i) => Shown(i)' = order[Turn(i)]
    BY <1>1, <1>2, <2>1, QuietClient, ShownKept DEF WindowInOrder
  <2>3. \A i \in Q!Slots, d \in Clients :
          Q!HeldBy(d, i)' => Q!HeldBy(d, i) /\ msg'[d] = msg[d]
    BY <1>1, <1>2 DEF Q!HeldBy, Q!Holding, PrintStart, ClientSpin, FillString,
       AllocSpin, AllocDone, CopyString, PrintCommit, Q!ReserveLoad,
       Q!ReserveFull, Q!ReserveRoom, Q!ReserveRetry, Q!WritePacket, Q!Enqueue,
       Q!sharedVars, queueVars, clientVars
  <2>4. QED
    BY <2>1, <2>2, <2>3, WindowFrame
<1>3. ASSUME NEW c \in Clients, ClientReserve(c)
      PROVE  WindowInOrder'
  <2>1. /\ p_r_old[c] = p_reserve /\ p_r_old' = p_r_old /\ p_free' = p_free
        /\ Q!InUse' = Q!InUse + 1
        /\ \A i \in Q!Slots : Q!InWindow(i)' <=> Q!InWindow(i) \/ i = p_reserve
        /\ ~Q!InWindow(p_reserve)
        /\ Q!Distance(p_free, p_reserve) = Q!InUse
    BY <1>3, ReserveEffect
  <2>2. /\ order' = Append(order, msg[c]) /\ msg' = msg /\ strs' = strs
        /\ data' = data /\ pc' = [pc EXCEPT ![c] = "held"] /\ pc[c] = "cas"
    BY <1>3 DEF ClientReserve, Q!ReserveCas
  <2>3. \A i \in Q!Slots : Turn(i)' = Turn(i)
    <3> SUFFICES ASSUME NEW i \in Q!Slots PROVE Turn(i)' = Turn(i)
      OBVIOUS
    <3>1. Len(order') = Len(order) + 1
      BY <2>2 DEF PrintInv, TypeOK
    <3>2. Turn(i)' = Len(order') - Q!InUse' + Q!Distance(p_free, i) + 1
      BY <2>1 DEF Turn, Q!Distance
    <3>3. QED
      BY <2>1, <3>1, <3>2, WindowFacts DEF Turn
  <2>4. \A i \in Q!Slots : Q!InWindow(i) => order'[Turn(i)] = order[Turn(i)]
    BY <2>2, WindowFacts DEF PrintInv, TypeOK
  <2>5. order'[Turn(p_reserve)] = msg[c]
    <3>1. Turn(p_reserve) = Len(order) + 1
      BY <2>1, WindowFacts DEF Turn
    <3>2. msg[c] \in Nat /\ order \in Seq(Nat)
      BY <1>1 DEF PrintInv, TypeOK
    <3>3. QED
      BY <2>2, <3>1, <3>2
  <2>6. \A i \in Q!Slots : (Whole(i)' => Whole(i)) /\ (Whole(i) => Shown(i)' = Shown(i))
    BY <1>3, <2>2, QuietClient, ShownKept
  <2>7. \A i \in Q!Slots, d \in Clients :
          Q!HeldBy(d, i)' <=> Q!HeldBy(d, i) \/ (d = c /\ i = p_reserve)
    BY <1>1, <2>1, <2>2 DEF Q!HeldBy, Q!Holding
  <2>8. ~Whole(p_reserve) /\ \A d \in Clients : ~Q!HeldBy(d, p_reserve)
    <3>1. ~Q!IsHeld(p_reserve) /\ ~flags[p_reserve]
      BY <2>1, WindowFacts DEF PrintInv, Q!RingInv, Q!RingLayout
    <3>2. QED
      BY <3>1 DEF Whole, Ready, Q!IsHeld
  <2>9. ASSUME NEW i \in Q!Slots, Q!InWindow(i)'
        PROVE  /\ Whole(i)' => Shown(i)' = order'[Turn(i)']
               /\ \A d \in Clients : Q!HeldBy(d, i)' => msg'[d] = order'[Turn(i)']
    <3>1. CASE i = p_reserve
      BY <2>2, <2>3, <2>5, <2>6, <2>7, <2>8, <3>1
    <3>2. CASE i # p_reserve
      <4>1. Q!InWindow(i)
        BY <2>1, <2>9, <3>2
      <4>2. QED
        BY <1>1, <2>2, <2>3, <2>4, <2>6, <2>7, <3>2, <4>1 DEF WindowInOrder
    <3>3. QED
      BY <3>1, <3>2
  <2>10. QED
    BY <2>9 DEF WindowInOrder, Q!Slots
<1>4. ASSUME NEW c \in Clients, FillValue(c) \/ LinkString(c)
      PROVE  WindowInOrder'
  <2> DEFINE s == p_r_old[c]
  <2>1. /\ p_reserve' = p_reserve /\ p_free' = p_free /\ order' = order
        /\ strs' = strs /\ msg' = msg /\ p_r_old' = p_r_old
        /\ pc' = [pc EXCEPT ![c] = "written"] /\ Q!Holding(c)
    BY <1>4 DEF FillValue, LinkString, Q!WritePacket
  <2>2. \A i \in Q!Slots, d \in Clients : Q!HeldBy(d, i)' => Q!HeldBy(d, i)
    BY <1>1, <2>1 DEF Q!HeldBy, Q!Holding
  <2>3. \A i \in Q!Slots \ {s} : /\ Whole(i)' <=> Whole(i)
                                 /\ data'[i] = data[i]
    BY <1>4, LastWrite
  <2>4. s \in Q!Slots /\ Q!HeldBy(c, s)
    BY <1>4, LastWrite
  <2>5. Shown(s)' = msg[c]
    BY <1>4, ShownWritten
  <2>6. ASSUME NEW i \in Q!Slots, Whole(i)', Q!InWindow(i)
        PROVE  Shown(i)' = order[Turn(i)]
    <3>1. CASE i = s
      <4>1. msg[c] = order[Turn(i)]
        BY <1>1, <2>4, <2>6, <3>1 DEF WindowInOrder
      <4>2. QED
        BY <2>1, <2>5, <3>1, <4>1
    <3>2. CASE i # s
      BY <1>1, <2>1, <2>3, <2>6, <3>2, ShownKept DEF WindowInOrder
    <3>3. QED
      BY <3>1, <3>2
  <2>7. QED
    BY <2>1, <2>2, <2>6, WindowFrame
<1>5. ASSUME Server
      PROVE  WindowInOrder'
  <2>1. /\ \A i \in Q!Slots : Whole(i)' => Whole(i)
        /\ data' = data /\ strs' = strs /\ msg' = msg /\ order' = order
        /\ p_r_old' = p_r_old /\ pc' = pc /\ p_reserve' = p_reserve
    BY <1>5, ServerTakes
  <2>2. \A i \in Q!Slots : Whole(i)' => Whole(i) /\ Shown(i)' = Shown(i)
    BY <2>1, ShownKept
  <2>3. \A i \in Q!Slots, d \in Clients : Q!HeldBy(d, i)' <=> Q!HeldBy(d, i)
    BY <2>1 DEF Q!HeldBy, Q!Holding
  <2>4. CASE ServerAdvance
    <3>1. /\ Q!InUse' = Q!InUse - 1
          /\ \A i \in Q!Slots : /\ Q!InWindow(i)' <=> Q!InWindow(i) /\ i # p_free
                                /\ i # p_free => Q!Distance(p_free', i) = Q!Distance(p_free, i) - 1
      BY <2>4, AdvanceEffect
    <3>2. \A i \in Q!Slots : i # p_free => Turn(i)' = Turn(i)
      <4> SUFFICES ASSUME NEW i \in Q!Slots, i # p_free PROVE Turn(i)' = Turn(i)
        OBVIOUS
      <4>1. Turn(i)' = Len(order) - Q!InUse' + Q!Distance(p_free', i) + 1
        BY <2>1 DEF Turn, Q!Distance
      <4>2. QED
        BY <3>1, <4>1, WindowFacts DEF Turn
    <3>3. \A i \in Q!Slots : Q!InWindow(i)' =>
            /\ Whole(i)' => Shown(i)' = order'[Turn(i)']
            /\ \A c \in Clients : Q!HeldBy(c, i)' => msg'[c] = order'[Turn(i)']
      BY <1>1, <2>1, <2>2, <2>3, <3>1, <3>2 DEF WindowInOrder
    <3>4. QED
      BY <3>3 DEF WindowInOrder, Q!Slots
  <2>5. CASE ~ServerAdvance
    <3>1. p_free' = p_free
      BY <1>5, <2>5 DEF Server, OpenProcess, OpenFileMapping, ServerLook,
         ServerNothing, ServerWait, ServerPick, ServerPrint, ServerFree,
         ServerClear, queueVars, Q!PickInUse, Q!PickEmpty, Q!PickUncommitted,
         Q!PickCommitted, Q!DequeueClear, Q!queueVars, Q!sharedVars
    <3>2. QED
      BY <1>1, <2>1, <2>2, <2>3, <3>1, WindowFrame DEF WindowInOrder
  <2>6. QED
    BY <2>4, <2>5
<1>6. ASSUME ProcExit \/ UNCHANGED printVars
      PROVE  WindowInOrder'
  <2>1. /\ \A i \in Q!Slots : (Whole(i)' <=> Whole(i)) /\ data'[i] = data[i]
        /\ p_reserve' = p_reserve /\ p_free' = p_free /\ order' = order
        /\ strs' = strs /\ msg' = msg /\ pc' = pc /\ p_r_old' = p_r_old
    BY <1>6, IdleStep DEF queueVars, clientVars
  <2>2. \A i \in Q!Slots, c \in Clients : Q!HeldBy(c, i)' <=> Q!HeldBy(c, i)
    BY <2>1 DEF Q!HeldBy, Q!Holding
  <2>3. \A i \in Q!Slots : Whole(i)' => Whole(i) /\ Shown(i)' = Shown(i)
    BY <2>1, ShownKept
  <2>4. QED
    BY <1>1, <2>1, <2>2, <2>3, WindowFrame DEF WindowInOrder
<1>7. QED
  BY <1>2, <1>3, <1>4, <1>5, <1>6 DEF Next, Client, FinishPrint

-----------------------------------------------------------------------------
(* The slot of a client that is about to commit it is whole.               *)
LEMMA CommitWhole ==
  ASSUME PrintInv, NEW c \in Clients, stage[c] = "commit"
  PROVE  Q!Holding(c) /\ p_r_old[c] \in Q!Slots /\ Whole(p_r_old[c])
<1>1. Q!Holding(c)
  BY DEF PrintInv, PlacesMatch, Q!Holding
<1>2. Q!HeldBy(c, p_r_old[c]) /\ Ready(p_r_old[c])
  BY <1>1, SlotsApart DEF Ready
<1>3. ~(p_r_old[c] = p_free /\ spc = "dequeue")
  BY <1>1, SlotsApart DEF PrintInv, PlacesMatch
<1>4. QED
  BY <1>1, <1>2, <1>3, SlotsApart DEF Whole

LEMMA WrotePreserved ==
  ASSUME PrintInv, [Next]_printVars
  PROVE  ClientsWrote'
<1>1. /\ ClientsWrote /\ PlacesMatch
      /\ stage \in [Clients -> Stages] /\ vstr \in [Clients -> V!Cells]
      /\ msg \in [Clients -> 0 .. MaxPrints] /\ strs \in [V!Cells -> Nat]
      /\ p_r_old \in [Clients -> Q!Slots]
      /\ data \in [Q!Slots -> Packet \cup {ZeroPage}]
  BY DEF PrintInv, InOrder, TypeOK, Q!RingInv, Q!TypeOK
<1>2. ASSUME NEW c \in Clients, CopyString(c)
      PROVE  ClientsWrote'
  <2>1. /\ stage[c] = "copy" /\ stage' = [stage EXCEPT ![c] = "link"]
        /\ strs' = [strs EXCEPT ![vstr[c]] = msg[c]]
        /\ msg' = msg /\ vstr' = vstr /\ data' = data /\ p_r_old' = p_r_old
    BY <1>2 DEF CopyString, queueVars
  <2>2. ASSUME NEW d \in Clients, stage'[d] = "commit"
        PROVE  Shown(p_r_old[d])' = msg'[d]
    <3>1. stage[d] = "commit"
      BY <1>1, <2>1, <2>2
    <3>2. PICK i \in Q!Slots : i = p_r_old[d] /\ Whole(i)
      BY <3>1, CommitWhole
    <3>3. Shown(i)' = Shown(i)
      BY <1>2, <2>1, <3>2, ShownKept
    <3>4. QED
      BY <1>1, <2>1, <3>1, <3>2, <3>3 DEF ClientsWrote
  <2>3. ASSUME NEW d \in Clients, stage'[d] = "link"
        PROVE  strs'[vstr'[d]] = msg'[d]
    <3>1. CASE d = c
      BY <1>1, <2>1, <3>1
    <3>2. CASE d # c
      <4>1. Copying(c, vstr[c]) /\ Copying(d, vstr[d]) /\ vstr[c] \in V!Cells
        BY <1>1, <2>1, <2>3, <3>2 DEF Copying
      <4>2. vstr[d] # vstr[c]
        BY <3>2, <4>1 DEF PrintInv, CellsUsed
      <4>3. QED
        BY <1>1, <2>1, <2>3, <3>2, <4>2 DEF ClientsWrote
    <3>3. QED
      BY <3>1, <3>2
  <2>4. QED
    BY <2>2, <2>3 DEF ClientsWrote
<1>3. ASSUME NEW c \in Clients, FillValue(c) \/ LinkString(c)
      PROVE  ClientsWrote'
  <2> DEFINE s == p_r_old[c]
  <2>1. /\ stage' = [stage EXCEPT ![c] = "commit"] /\ Q!Holding(c)
        /\ strs' = strs /\ msg' = msg /\ vstr' = vstr /\ p_r_old' = p_r_old
    BY <1>3 DEF FillValue, LinkString, Q!WritePacket
  <2>2. Shown(s)' = msg[c]
    BY <1>3, ShownWritten
  <2>3. \A i \in Q!Slots \ {s} : data'[i] = data[i]
    BY <1>3, LastWrite
  <2>4. ASSUME NEW d \in Clients \ {c}, stage[d] = "commit"
        PROVE  Shown(p_r_old[d])' = msg[d]
    <3>1. p_r_old[d] \in Q!Slots \ {s}
      BY <2>1, <2>4, CommitWhole, SlotsApart
    <3>2. QED
      BY <1>1, <2>1, <2>3, <2>4, <3>1 DEF Shown, IsString, ClientsWrote
  <2>5. QED
    BY <1>1, <2>1, <2>2, <2>4 DEF ClientsWrote
<1>4. ASSUME NEW c \in Clients,
             \/ PrintStart(c) \/ ClientSpin(c) \/ ClientReserve(c) \/ FillString(c)
             \/ AllocSpin(c) \/ AllocDone(c) \/ PrintCommit(c)
      PROVE  ClientsWrote'
  <2>1. /\ strs' = strs /\ stage'[c] # "commit" /\ stage'[c] # "link"
        /\ \A d \in Clients \ {c} : /\ stage'[d] = stage[d] /\ msg'[d] = msg[d]
                                    /\ vstr'[d] = vstr[d] /\ p_r_old'[d] = p_r_old[d]
    BY <1>1, <1>4 DEF PrintStart, ClientSpin, ClientReserve, FillString,
       AllocSpin, AllocDone, PrintCommit, Q!ReserveLoad, Q!ReserveFull,
       Q!ReserveRoom, Q!ReserveRetry, Q!ReserveCas, Q!WritePacket, Q!Enqueue,
       Q!sharedVars, queueVars, clientVars, Stages
  <2>2. \A i \in Q!Slots : Whole(i) => data'[i] = data[i]
    BY <1>4, QuietClient
  <2>3. ASSUME NEW d \in Clients \ {c}, stage[d] = "commit"
        PROVE  Shown(p_r_old[d])' = msg[d]
    <3>1. data'[p_r_old[d]] = data[p_r_old[d]]
      BY <2>2, <2>3, CommitWhole
    <3>2. QED
      BY <1>1, <2>1, <2>3, <3>1 DEF Shown, IsString, ClientsWrote
  <2>4. QED
    BY <1>1, <2>1, <2>3 DEF ClientsWrote
<1>5. ASSUME Server \/ ProcExit \/ UNCHANGED printVars
      PROVE  ClientsWrote'
  <2>1. /\ data' = data /\ stage' = stage /\ vstr' = vstr
        /\ strs' = strs /\ msg' = msg /\ p_r_old' = p_r_old
    BY <1>5, ServerTakes, IdleStep DEF queueVars, clientVars
  <2>2. QED
    BY <1>1, <2>1 DEF ClientsWrote, Shown, IsString
<1>6. QED
  BY <1>2, <1>3, <1>4, <1>5 DEF Next, Client, FinishPrint

LEMMA PrintedPreserved ==
  ASSUME PrintInv, Q!NoLap, [Next]_printVars
  PROVE  PrintedSoFar'
<1>1. /\ PrintedSoFar /\ order \in Seq(Nat) /\ printed \in Seq(Nat)
      /\ Len(order) \in Nat /\ Len(printed) \in Nat /\ Q!InUse \in Nat
      /\ msg \in [Clients -> 0 .. MaxPrints]
  BY WindowFacts DEF PrintInv, InOrder, TypeOK
<1>2. ASSUME NEW c \in Clients, ClientReserve(c)
      PROVE  PrintedSoFar'
  <2>1. Q!InUse' = Q!InUse + 1
    BY <1>2, ReserveEffect
  <2>2. order' = Append(order, msg[c]) /\ printed' = printed /\ spc' = spc
    BY <1>2 DEF ClientReserve, serverVars
  <2>3. /\ Len(order') = Len(order) + 1
        /\ \A k \in 1 .. Len(order) : order'[k] = order[k]
    BY <1>1, <2>2
  <2>4. \A k \in 1 .. Len(printed) : k \in 1 .. Len(order) /\ printed[k] = order[k]
    BY <1>1 DEF PrintedSoFar
  <2>5. \A k \in 1 .. Len(printed) : printed[k] = order'[k]
    BY <2>3, <2>4
  <2>6. /\ Len(printed') = Len(printed) /\ Len(printed) <= Len(order)
        /\ Q!InUse <= Len(order)
        /\ Len(printed) = Len(order) - Q!InUse + IF spc \in {"free", "dequeue"} THEN 1 ELSE 0
    BY <1>1, <2>2 DEF PrintedSoFar
  <2>7. /\ Q!InUse' <= Len(order') /\ Len(printed') <= Len(order')
        /\ Len(printed') = Len(order') - Q!InUse'
                            + IF spc' \in {"free", "dequeue"} THEN 1 ELSE 0
    <3>1. CASE spc \in {"free", "dequeue"}
      BY <1>1, <2>1, <2>2, <2>3, <2>6, <3>1
    <3>2. CASE spc \notin {"free", "dequeue"}
      BY <1>1, <2>1, <2>2, <2>3, <2>6, <3>2
    <3>3. QED
      BY <3>1, <3>2
  <2>8. \A k \in 1 .. Len(printed') : printed'[k] = order'[k]
    BY <2>2, <2>5
  <2>9. QED
    BY <2>7, <2>8 DEF PrintedSoFar
<1>3. CASE ServerAdvance
  BY <1>1, <1>3, AdvanceEffect DEF PrintedSoFar
<1>4. CASE ServerPrint
  <2>1. /\ spc = "print" /\ spc' \in {"free", "dequeue"}
        /\ printed' = Append(printed, Shown(p_free)) /\ order' = order
        /\ p_reserve' = p_reserve /\ p_free' = p_free
    BY <1>4 DEF ServerPrint, ServerGoes, queueVars, clientVars, Shown, Oldest
  <2>2. /\ Len(printed) + 1 \in 1 .. Len(order)
        /\ Shown(p_free) = order[Len(printed) + 1]
    BY <2>1, PrintedNext
  <2>3. Q!InUse' = Q!InUse
    BY <2>1 DEF Q!InUse, Q!Distance
  <2>4. Shown(p_free) \in Nat
    BY <1>1, <2>2
  <2>5. /\ Len(printed') = Len(printed) + 1
        /\ \A k \in 1 .. Len(printed) : printed'[k] = printed[k]
        /\ printed'[Len(printed) + 1] = Shown(p_free)
    BY <1>1, <2>1, <2>4
  <2>6. \A k \in 1 .. Len(printed') : printed'[k] = order'[k]
    BY <1>1, <2>1, <2>2, <2>5 DEF PrintedSoFar
  <2>7. QED
    BY <1>1, <2>1, <2>2, <2>3, <2>5, <2>6 DEF PrintedSoFar
<1>5. ASSUME p_reserve' = p_reserve, p_free' = p_free, order' = order,
             printed' = printed,
             spc' \in {"free", "dequeue"} <=> spc \in {"free", "dequeue"}
      PROVE  PrintedSoFar'
  <2>1. Q!InUse' = Q!InUse
    BY <1>5 DEF Q!InUse, Q!Distance
  <2>2. QED
    BY <1>1, <1>5, <2>1 DEF PrintedSoFar
<1>6. ASSUME NEW c \in Clients,
             \/ PrintStart(c) \/ ClientSpin(c) \/ FillValue(c) \/ FillString(c)
             \/ AllocSpin(c) \/ AllocDone(c) \/ CopyString(c) \/ LinkString(c)
             \/ PrintCommit(c)
      PROVE  PrintedSoFar'
  BY <1>5, <1>6 DEF PrintStart, ClientSpin, FillValue, FillString, AllocSpin,
     AllocDone, CopyString, LinkString, PrintCommit, Q!ReserveLoad,
     Q!ReserveFull, Q!ReserveRoom, Q!ReserveRetry, Q!WritePacket, Q!Enqueue,
     Q!sharedVars, queueVars, clientVars, serverVars
<1>7. ASSUME Server, ~ServerAdvance, ~ServerPrint
      PROVE  PrintedSoFar'
  BY <1>5, <1>7 DEF Server, OpenProcess, OpenFileMapping, ServerLook,
     ServerNothing, ServerWait, ServerPick, ServerFree, ServerClear,
     ServerGoes, clientVars, queueVars, Q!PickInUse, Q!PickEmpty,
     Q!PickUncommitted, Q!PickCommitted, Q!DequeueClear, Q!queueVars, Q!sharedVars
<1>8. ASSUME ProcExit \/ UNCHANGED printVars
      PROVE  PrintedSoFar'
  BY <1>5, <1>8, IdleStep DEF queueVars, clientVars, serverVars
<1>9. QED
  BY <1>2, <1>3, <1>4, <1>6, <1>7, <1>8 DEF Next, Client, FinishPrint

LEMMA StoppedPreserved ==
  ASSUME PrintInv, [Next]_printVars
  PROVE  StoppedLast'
<1>1. StoppedLast /\ PlacesMatch /\ exiting \in BOOLEAN /\ alive \in BOOLEAN
  BY DEF PrintInv, TypeOK
<1>2. ASSUME NEW c \in Clients, Client(c)
      PROVE  StoppedLast'
  <2>1. spc # "stopped" /\ spc' = spc
    BY <1>1, <1>2 DEF StoppedLast, Client, FinishPrint, PrintStart, ClientSpin,
       ClientReserve, FillValue, FillString, AllocSpin, AllocDone, CopyString,
       LinkString, PrintCommit, serverVars
  <2>2. QED
    BY <2>1 DEF StoppedLast
<1>3. CASE ServerNothing
  <2>1. CASE ~exiting
    BY <1>3, <2>1 DEF ServerNothing, ServerGoes, StoppedLast
  <2>2. CASE exiting
    <3>1. ~alive /\ alive' = alive
      BY <1>1, <1>3, <2>2 DEF ServerNothing, ServerGoes, PlacesMatch
    <3>2. /\ p_free' = p_free /\ p_reserve' = p_reserve /\ pc' = pc
          /\ p_r_old' = p_r_old
      BY <1>3 DEF ServerNothing, Q!PickEmpty, Q!PickUncommitted, Q!queueVars, Q!sharedVars
    <3>3. Q!PickEmpty => p_free = p_reserve
      BY DEF Q!PickEmpty
    <3>4. Q!PickUncommitted => Q!IsHeld(p_free)
      <4> SUFFICES ASSUME Q!PickUncommitted PROVE Q!IsHeld(p_free)
        OBVIOUS
      <4>1. cpc = "flag" /\ ~flags[p_free] /\ p_free # p_reserve
        BY DEF Q!PickUncommitted, PrintInv, Q!RingInv, Q!ConsumerKnows
      <4>2. Q!InWindow(p_free)
        BY <4>1, WindowFacts, DistanceRange DEF Q!InWindow, Q!InUse
      <4>3. QED
        BY <4>1, <4>2, WindowFacts DEF PrintInv, Q!RingInv, Q!RingLayout
    <3>5. p_free = p_reserve \/ Q!IsHeld(p_free)
      BY <1>3, <3>3, <3>4 DEF ServerNothing
    <3>6. Q!IsHeld(p_free)' <=> Q!IsHeld(p_free)
      BY <3>2 DEF Q!IsHeld, Q!HeldBy, Q!Holding
    <3>7. QED
      BY <3>1, <3>2, <3>5, <3>6 DEF StoppedLast
  <2>3. QED
    BY <1>1, <2>1, <2>2
<1>4. ASSUME Server, ~ServerNothing
      PROVE  StoppedLast'
  <2>1. spc' # "stopped"
    BY <1>4 DEF Server, OpenProcess, OpenFileMapping, ServerLook, ServerWait,
       ServerPick, ServerPrint, ServerFree, ServerClear, ServerAdvance, ServerGoes
  <2>2. QED
    BY <2>1 DEF StoppedLast
<1>5. ASSUME ProcExit \/ UNCHANGED printVars
      PROVE  StoppedLast'
  <2>1. /\ p_free' = p_free /\ p_reserve' = p_reserve /\ pc' = pc
        /\ p_r_old' = p_r_old /\ spc' = spc
    BY <1>5, IdleStep DEF queueVars, serverVars
  <2>2. Q!IsHeld(p_free)' <=> Q!IsHeld(p_free)
    BY <2>1 DEF Q!IsHeld, Q!HeldBy, Q!Holding
  <2>3. ~alive => ~alive'
    BY <1>5 DEF ProcExit, printVars
  <2>4. QED
    BY <1>1, <2>1, <2>2, <2>3 DEF StoppedLast
<1>6. QED
  BY <1>2, <1>3, <1>4, <1>5 DEF Next

-----------------------------------------------------------------------------
LEMMA InitEstablishes ==
  ASSUME Init
  PROVE  PrintInv
<1> USE DEF Init
<1>1. Q!RingInv /\ V!TypeOK /\ V!BooksMatchOwners
  BY RingStarts, StorStarts
<1>2. 0 \in V!Cells /\ 0 \in Q!Slots
  BY CellsAreNumbers, PrintAssumption DEF V!Cells, Q!Slots
<1>3. TypeOK
  <2>1. strs \in [V!Cells -> Nat] /\ vstr \in [Clients -> V!Cells]
    BY <1>2
  <2>2. stage \in [Clients -> Stages] /\ started \in 0 .. MaxPrints
    BY PrintAssumption DEF Stages
  <2>3. msg \in [Clients -> 0 .. MaxPrints]
    BY PrintAssumption
  <2>4. {alive, exiting} \subseteq BOOLEAN
    OBVIOUS
  <2>5. order \in Seq(Nat) /\ printed \in Seq(Nat)
    OBVIOUS
  <2>6. QED
    BY <2>1, <2>2, <2>3, <2>4, <2>5 DEF TypeOK
<1>4. PlacesMatch
  BY DEF PlacesMatch, Q!QueueInit, V!StorInit, Slot
<1>5. \A i \in Q!Slots : ~Whole(i)
  BY DEF Whole, Ready, Q!QueueInit
<1>6. CellsUsed
  BY <1>5, NamesWhole DEF CellsUsed, Copying, V!StorInit
<1>7. InOrder
  <2>1. Q!InUse = 0 /\ Len(order) = 0 /\ Len(printed) = 0
    BY <1>2, DistanceRange DEF Q!InUse, Q!QueueInit
  <2>2. \A i \in Q!Slots : ~Q!InWindow(i)
    BY <1>2, <2>1, DistanceRange DEF Q!InWindow, Q!QueueInit
  <2>3. QED
    BY <2>1, <2>2 DEF InOrder, WindowInOrder, ClientsWrote, PrintedSoFar
<1>8. StoppedLast
  BY DEF StoppedLast
<1>9. QED
  BY <1>1, <1>3, <1>4, <1>6, <1>7, <1>8 DEF PrintInv

LEMMA StepPreserves ==
  ASSUME Q!NoLap, PrintInv, [Next]_printVars
  PROVE  PrintInv'
<1>1. Q!RingInv'
  BY RingSteps, RingPreserves DEF PrintInv
<1>2. V!TypeOK' /\ V!BooksMatchOwners'
  BY StorSteps, StorPreserves DEF PrintInv
<1>3. TypeOK' /\ PlacesMatch'
  BY TypePreserved, PlacesPreserved
<1>4. CellsUsed' /\ StoppedLast'
  BY CellsPreserved, StoppedPreserved
<1>5. InOrder'
  BY WindowPreserved, WrotePreserved, PrintedPreserved DEF InOrder
<1>6. QED
  BY <1>1, <1>2, <1>3, <1>4, <1>5 DEF PrintInv

(* The inductive invariant of printing: holds through every interleaving   *)
(* of the clients with the server and the end of the clients' process.     *)
THEOREM PrintInvariant ==
  ASSUME Q!NoLap
  PROVE  Spec => []PrintInv
BY InitEstablishes, StepPreserves, PTL DEF Spec

(* Printing uses the ring and the store only as their specifications say.  *)
THEOREM PartsImplemented ==
  ASSUME Q!NoLap
  PROVE  Spec => Q!Spec /\ V!Spec
<1>1. Init => Q!QueueInit /\ V!StorInit
  BY DEF Init
<1>2. PrintInv /\ [Next]_printVars => [Q!Next]_(Q!queueVars)
  BY RingSteps DEF queueVars, Q!queueVars, Q!sharedVars
<1>3. PrintInv /\ [Next]_printVars => [V!Next]_(V!storVars)
  BY StorSteps DEF storVars, V!storVars, V!storLocals
<1>4. QED
  BY <1>1, <1>2, <1>3, PrintInvariant, PTL DEF Spec, Q!Spec, V!Spec

(* In the shared section the packets of two processes are a first-in       *)
(* first-out list, wherever the clients' process ends.                     *)
THEOREM PacketsAreFifo ==
  ASSUME Q!NoLap
  PROVE  Spec => Ring!ImplementsFifo
<1>1. Q!QueueInit => Ring!QueueInit
  BY DEF Q!QueueInit, Ring!QueueInit, Q!Slots, Ring!Slots
<1>2. [Q!Next]_(Q!queueVars) => [Ring!Next]_(Ring!queueVars)
  BY SameRingStep DEF queueVars, Q!queueVars, Q!sharedVars
<1>3. Q!Spec => Ring!Spec
  BY <1>1, <1>2, PTL DEF Q!Spec, Ring!Spec
<1>4. Ring!NoLap
  BY DEF Q!NoLap, Ring!NoLap
<1>5. Ring!Spec => Ring!ImplementsFifo
  BY <1>4, RingAssumed, Ring!FifoImplemented
<1>6. QED
  BY <1>3, <1>5, PartsImplemented, PTL

(* What the server printed is what the clients printed, whole, once each   *)
(* and in the order of their reservations.                                 *)
THEOREM PrintedInOrderHolds ==
  ASSUME Q!NoLap
  PROVE  Spec => []PrintedInOrder
<1>1. PrintInv => PrintedInOrder
  <2> SUFFICES ASSUME PrintInv PROVE PrintedInOrder
    OBVIOUS
  <2>1. /\ printed \in Seq(Nat) /\ order \in Seq(Nat)
        /\ Len(printed) <= Len(order)
        /\ \A k \in 1 .. Len(printed) : printed[k] = order[k]
    BY DEF PrintInv, TypeOK, InOrder, PrintedSoFar
  <2>2. SubSeq(printed, 1, Len(printed)) = SubSeq(order, 1, Len(printed))
    BY <2>1
  <2>3. QED
    BY <2>1, <2>2 DEF PrintedInOrder, IsPrefix
<1>2. QED
  BY <1>1, PrintInvariant, PTL

(* A server that stopped left nothing that was committed before a slot the *)
(* end of the process abandoned.                                           *)
THEOREM StopDrainsHolds ==
  ASSUME Q!NoLap
  PROVE  Spec => []StopDrains
<1>1. PrintInv => StopDrains
  <2> SUFFICES ASSUME PrintInv, spc = "stopped"
               PROVE  ~alive /\ (Len(printed) < Len(order) => Q!IsHeld(p_free))
    BY DEF StopDrains
  <2>1. ~alive /\ (p_free = p_reserve \/ Q!IsHeld(p_free))
    BY DEF PrintInv, StoppedLast
  <2>2. Len(printed) = Len(order) - Q!InUse
    BY WindowFacts DEF PrintInv, InOrder, PrintedSoFar
  <2>3. p_free = p_reserve => Q!InUse = 0
    BY WindowFacts, DistanceRange DEF Q!InUse
  <2>4. QED
    BY <2>1, <2>2, <2>3, WindowFacts
<1>2. QED
  BY <1>1, PrintInvariant, PTL

(* A string cell is taken exactly while one client copies into it or one   *)
(* packet names it.                                                        *)
THEOREM CellsAccountedHolds ==
  ASSUME Q!NoLap
  PROVE  Spec => []CellsAccounted
<1>1. PrintInv => CellsAccounted
  <2> SUFFICES ASSUME PrintInv, NEW cell \in V!Cells
               PROVE  Cardinality({i \in Q!Slots : Names(i, cell)}
                        \cup {c \in Clients : stage[c] \in {"copy", "link"} /\ vstr[c] = cell})
                      = IF owner[cell] = NoOne THEN 0 ELSE 1
    BY DEF CellsAccounted
  <2> DEFINE Users == {i \in Q!Slots : Names(i, cell)} \cup {c \in Clients : Copying(c, cell)}
  <2>1. CASE owner[cell] = NoOne
    <3>1. Users = {}
      BY <2>1 DEF PrintInv, CellsUsed
    <3>2. QED
      BY <2>1, <3>1, FS_EmptySet DEF Copying
  <2>2. CASE owner[cell] # NoOne
    <3>1. \E x : Users = {x}
      <4>1. ASSUME NEW i \in Q!Slots, Names(i, cell)
            PROVE  Users = {i}
        BY <4>1 DEF PrintInv, CellsUsed
      <4>2. ASSUME NEW c \in Clients, Copying(c, cell)
            PROVE  Users = {c}
        BY <4>2 DEF PrintInv, CellsUsed
      <4>3. QED
        BY <2>2, <4>1, <4>2 DEF PrintInv, CellsUsed
    <3>2. QED
      BY <2>2, <3>1, FS_Singleton DEF Copying
  <2>3. QED
    BY <2>1, <2>2
<1>2. QED
  BY <1>1, PrintInvariant, PTL

-----------------------------------------------------------------------------
(* A string that is out has a slot in use, and every client that will ask  *)
(* for one holds another: no slot stands for two of them.                  *)
HasSlot(cell, i) ==
  \/ Names(i, cell)
  \/ \E c \in Clients : Copying(c, cell) /\ Q!HeldBy(c, i)

LEMMA SlotsOfCells ==
  ASSUME PrintInv
  PROVE  /\ \A cell \in Owned : \E i \in Q!Slots : HasSlot(cell, i)
         /\ \A i \in Q!Slots, cell \in V!Cells :
              HasSlot(cell, i) =>
                /\ Q!InWindow(i)
                /\ \A other \in V!Cells : HasSlot(other, i) => other = cell
                /\ \A c \in MayAlloc : p_r_old[c] # i
         /\ \A c \in MayAlloc : /\ p_r_old[c] \in Q!Slots /\ Q!InWindow(p_r_old[c])
                                /\ \A d \in MayAlloc : p_r_old[c] = p_r_old[d] => c = d
<1>1. ASSUME NEW c \in Clients, stage[c] \in {"fill", "alloc", "copy", "link"}
      PROVE  Q!Holding(c) /\ ~Whole(p_r_old[c])
  <2>1. Q!Holding(c)
    BY <1>1 DEF PrintInv, PlacesMatch, Q!Holding
  <2>2. QED
    BY <1>1, <2>1, SlotsApart DEF Whole, Ready
<1>2. \A c \in Clients, cell \in V!Cells : Copying(c, cell) => Q!Holding(c)
  BY <1>1 DEF Copying
<1>3. ASSUME NEW cell \in Owned
      PROVE  \E i \in Q!Slots : HasSlot(cell, i)
  <2>1. (\E i \in Q!Slots : Names(i, cell)) \/ \E c \in Clients : Copying(c, cell)
    BY <1>3 DEF Owned, PrintInv, CellsUsed
  <2>2. QED
    BY <1>2, <2>1, SlotsApart DEF HasSlot, Owned
<1>4. ASSUME NEW i \in Q!Slots, NEW cell \in V!Cells, HasSlot(cell, i)
      PROVE  /\ Q!InWindow(i)
             /\ \A other \in V!Cells : HasSlot(other, i) => other = cell
             /\ \A c \in MayAlloc : p_r_old[c] # i
  <2>1. CASE Names(i, cell)
    <3>1. Whole(i)
      BY <2>1, NamesWhole
    <3>2. \A c \in Clients : stage[c] \in {"fill", "alloc", "copy", "link"} => p_r_old[c] # i
      BY <1>1, <3>1
    <3>3. Q!InWindow(i)
      BY <3>1 DEF Whole, Ready, Q!IsHeld, PrintInv, Q!RingInv, Q!RingLayout
    <3>4. \A other \in V!Cells : HasSlot(other, i) => Names(i, other)
      BY <3>2 DEF HasSlot, Copying, Q!HeldBy
    <3>5. QED
      BY <2>1, <3>2, <3>3, <3>4, NamesWhole DEF MayAlloc
  <2>2. CASE \E c \in Clients : Copying(c, cell) /\ Q!HeldBy(c, i)
    <3>1. PICK c \in Clients : Copying(c, cell) /\ Q!HeldBy(c, i)
      BY <2>2
    <3>2. p_r_old[c] = i /\ Q!Holding(c) /\ Q!InWindow(i) /\ ~Whole(i)
      BY <1>1, <3>1, SlotsApart DEF Copying, Q!HeldBy
    <3>3. \A d \in Clients : Q!Holding(d) /\ p_r_old[d] = i => d = c
      BY <3>2 DEF PrintInv, Q!RingInv, Q!SlotExclusive
    <3>4. \A other \in V!Cells : HasSlot(other, i) => other = cell
      BY <3>1, <3>2, <3>3, NamesWhole DEF HasSlot, Copying, Q!HeldBy
    <3>5. \A d \in MayAlloc : p_r_old[d] # i
      BY <1>1, <3>1, <3>3 DEF MayAlloc, Copying
    <3>6. QED
      BY <3>2, <3>4, <3>5
  <2>3. QED
    BY <1>4, <2>1, <2>2 DEF HasSlot
<1>5. ASSUME NEW c \in MayAlloc
      PROVE  /\ p_r_old[c] \in Q!Slots /\ Q!InWindow(p_r_old[c])
             /\ \A d \in MayAlloc : p_r_old[c] = p_r_old[d] => c = d
  <2>1. c \in Clients /\ Q!Holding(c)
    BY <1>1 DEF MayAlloc
  <2>2. \A d \in MayAlloc : d \in Clients /\ Q!Holding(d)
    BY <1>1 DEF MayAlloc
  <2>3. QED
    BY <2>1, <2>2, SlotsApart DEF PrintInv, Q!RingInv, Q!SlotExclusive
<1>6. QED
  BY <1>3, <1>4, <1>5

(* There are no more slots in the window than InUse counts.                *)
LEMMA WindowSize ==
  ASSUME PrintInv
  PROVE  LET Window == {i \in Q!Slots : Q!InWindow(i)}
         IN  IsFiniteSet(Window) /\ Cardinality(Window) <= Q!InUse
<1> DEFINE Window == {i \in Q!Slots : Q!InWindow(i)}
           Places == 0 .. Q!InUse - 1
           place == [i \in Window |-> Q!Distance(p_free, i)]
<1>1. place \in Injection(Window, Places)
  <2>1. \A i \in Window : Q!Distance(p_free, i) \in Places
    BY WindowFacts DEF Q!InWindow
  <2>2. \A i, j \in Window : Q!Distance(p_free, i) = Q!Distance(p_free, j) => i = j
    BY WindowFacts, DistanceRange
  <2>3. QED
    BY <2>1, <2>2 DEF Injection, IsInjective
<1>2. IsFiniteSet(Places) /\ Cardinality(Places) = Q!InUse
  <2>1. Q!InUse \in Nat
    BY WindowFacts
  <2>2. QED
    BY <2>1, FS_Interval
<1>3. QED
  BY <1>1, <1>2, FS_Injection

(* A client inside Alloc always has a free cell to find: strings out and   *)
(* strings still to be asked for are no more than the slots in use.        *)
THEOREM StoreHasRoomHolds ==
  ASSUME Q!NoLap
  PROVE  Spec => []StoreHasRoom
<1>1. PrintInv => StoreHasRoom
  <2> SUFFICES ASSUME PrintInv PROVE StoreHasRoom
    OBVIOUS
  <2> DEFINE Window == {i \in Q!Slots : Q!InWindow(i)}
             slotOf == [cell \in Owned |-> CHOOSE i \in Q!Slots : HasSlot(cell, i)]
             holds == [c \in MayAlloc |-> p_r_old[c]]
             Named == {slotOf[cell] : cell \in Owned}
             Asking == {holds[c] : c \in MayAlloc}
  <2>1. \A cell \in Owned : slotOf[cell] \in Q!Slots /\ HasSlot(cell, slotOf[cell])
    BY SlotsOfCells
  <2>2. Owned \subseteq V!Cells
    BY DEF Owned
  <2>3. Named \subseteq Window /\ Asking \subseteq Window
    BY <2>1, <2>2, SlotsOfCells
  <2>4. Named \cap Asking = {}
    BY <2>1, <2>2, SlotsOfCells
  <2>5. IsFiniteSet(Window) /\ Cardinality(Window) <= Q!InUse
    BY WindowSize
  <2>6. /\ IsFiniteSet(Named) /\ IsFiniteSet(Asking)
        /\ Cardinality(Named) + Cardinality(Asking) <= Q!InUse
    <3>1. IsFiniteSet(Named) /\ IsFiniteSet(Asking)
      BY <2>3, <2>5, FS_Subset
    <3>2. Cardinality(Named \cup Asking) = Cardinality(Named) + Cardinality(Asking)
      <4>1. /\ Cardinality(Named \cup Asking)
                 = Cardinality(Named) + Cardinality(Asking) - Cardinality(Named \cap Asking)
            /\ Cardinality(Named \cap Asking) = 0
        BY <2>4, <3>1, FS_Union, FS_EmptySet
      <4>2. Cardinality(Named) \in Nat /\ Cardinality(Asking) \in Nat
        BY <3>1, FS_CardinalityType
      <4>3. QED
        BY <4>1, <4>2
    <3>3. Cardinality(Named \cup Asking) <= Cardinality(Window)
      BY <2>3, <2>5, FS_Subset
    <3>4. /\ Cardinality(Named \cup Asking) \in Nat
          /\ Cardinality(Window) \in Nat /\ Q!InUse \in Nat
      <4>1. IsFiniteSet(Named \cup Asking)
        BY <3>1, FS_Union
      <4>2. Q!InUse \in Nat
        BY WindowFacts
      <4>3. QED
        BY <2>5, <4>1, <4>2, FS_CardinalityType
    <3>5. QED
      BY <2>5, <3>1, <3>2, <3>3, <3>4
  <2>7. Cardinality(Owned) <= Cardinality(Named) /\ IsFiniteSet(Owned)
    <3>1. slotOf \in Injection(Owned, Named)
      <4>1. \A cell, other \in Owned : slotOf[cell] = slotOf[other] => cell = other
        BY <2>1, <2>2, SlotsOfCells
      <4>2. QED
        BY <4>1 DEF Injection, IsInjective
    <3>2. QED
      BY <2>6, <3>1, FS_Injection
  <2>8. Cardinality(MayAlloc) <= Cardinality(Asking) /\ IsFiniteSet(MayAlloc)
    <3>1. holds \in Injection(MayAlloc, Asking)
      <4>1. \A c, d \in MayAlloc : holds[c] = holds[d] => c = d
        BY SlotsOfCells
      <4>2. QED
        BY <4>1 DEF Injection, IsInjective
    <3>2. QED
      BY <2>6, <3>1, FS_Injection
  <2>9. Cardinality(Owned) + Cardinality(MayAlloc) <= Q!InUse
    <3>1. /\ Cardinality(Owned) \in Nat /\ Cardinality(MayAlloc) \in Nat
          /\ Cardinality(Named) \in Nat /\ Cardinality(Asking) \in Nat
          /\ Q!InUse \in Nat
      BY <2>6, <2>7, <2>8, FS_CardinalityType, WindowFacts
    <3>2. QED
      BY <2>6, <2>7, <2>8, <3>1
  <2>10. Q!InUse < Cardinality(V!Cells)
    <3>1. Words * Unit \in Nat \ {0} /\ Words * Unit >= S
      BY CellsAreNumbers, PrintAssumption
    <3>2. Cardinality(V!Cells) = Words * Unit
      BY <3>1, FS_Interval DEF V!Cells
    <3>3. QED
      BY <3>1, <3>2, WindowFacts
  <2>11. QED
    BY <2>9, <2>10 DEF StoreHasRoom
<1>2. QED
  BY <1>1, PrintInvariant, PTL

-----------------------------------------------------------------------------
(* Callbacks of a watched variable that print, with every other frame      *)
(* stopped wherever it is, are prints like any others: all of the above    *)
(* holds of WatchPrint too.                                                *)
THEOREM WatchedIsPrinting == WatchSpec => Spec
<1>1. WatchInit => Init
  BY DEF WatchInit
<1>2. [WatchNext]_watchVars => [Next]_printVars
  BY DEF WatchNext, watchVars, Suspend, Resume, CallDBGr, Printing, Construct,
     Constructed, StartPrint, Reserving, Finishing, ServerRuns, Exit, Next, Client
<1>3. QED
  BY <1>1, <1>2, PTL DEF WatchSpec, Spec

(* What callbacks and threads print comes out whole, once and in order,    *)
(* and the store never runs dry under a callback.                          *)
THEOREM WatchedPrintsHold ==
  ASSUME Q!NoLap
  PROVE  WatchSpec => [](PrintedInOrder /\ CellsAccounted /\ StoreHasRoom /\ StopDrains)
BY WatchedIsPrinting, PrintedInOrderHolds, CellsAccountedHolds,
   StoreHasRoomHolds, StopDrainsHolds, PTL

=============================================================================
