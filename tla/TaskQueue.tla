----------------------------- MODULE TaskQueue ------------------------------
(***************************************************************************)
(* src/TaskQueue.hpp: the bounded multi-producer single-consumer ring that *)
(* the printing threads of a process share with the print server.          *)
(*                                                                         *)
(* One action per atomic access of the code: p_reserve, p_free and flags   *)
(* are std::atomic with the default (sequentially consistent) order, data  *)
(* is plain memory that its slot's owner alone may touch.  The local       *)
(* variables of Reserve are p_r_old and the program counter pc.  p_free is *)
(* stored by the consumer only, so the consumer's own loads of it read the *)
(* current value and are not separate actions.                             *)
(***************************************************************************)
EXTENDS Integers, FiniteSets

CONSTANTS
  S,             \* number of slots (template parameter)
  Producers,     \* threads that call Reserve
  Packets,       \* values of the element type T
  NoPacket,      \* content of a slot nobody has written
  MaxOvertakes   \* bound: reservations by others during one try of Reserve

ASSUME RingAssumption ==
  /\ S \in Nat \ {0}
  /\ MaxOvertakes \in Nat \ {0}
  /\ NoPacket \notin Packets \cup Producers

VARIABLES
  p_reserve,     \* next slot to reserve
  p_free,        \* oldest slot in use
  flags,         \* flags[i]: slot i is committed
  data,          \* the packets
  pc,            \* where each producer is in Reserve / use / Enqueue
  p_r_old,       \* each producer's p_r_old, and then the slot it reserved
  cpc,           \* where the consumer is in Pick / use / Dequeue
  overtakes      \* history: slots others reserved during the current try

sharedVars == <<p_reserve, p_free, flags, data>>
queueVars  == <<sharedVars, pc, p_r_old, cpc, overtakes>>

Slots == 0 .. S - 1

(* Mutant: the index is not wrapped.                                       *)
NextSlotNoWrap(i) == i + 1

(* The slot after i in the ring.                                           *)
NextSlot(i) == (i + 1) % S

(* In one try of Reserve's loop: between the last look at p_reserve and    *)
(* the compare-and-swap.                                                   *)
Trying(p)  == pc[p] \in {"check", "cas"}
Holding(p) == pc[p] \in {"held", "written"}

HeldBy(p, i) == Holding(p) /\ p_r_old[p] = i
IsHeld(i)    == \E p \in Producers : HeldBy(p, i)

-----------------------------------------------------------------------------
(* Zero pages of a fresh section: both indices 0, no flag set.             *)
QueueInit ==
  /\ p_reserve = 0
  /\ p_free = 0
  /\ flags = [i \in Slots |-> FALSE]
  /\ data = [i \in Slots |-> NoPacket]
  /\ pc = [p \in Producers |-> "idle"]
  /\ p_r_old = [p \in Producers |-> 0]
  /\ cpc = "idle"
  /\ overtakes = [p \in Producers |-> 0]

-----------------------------------------------------------------------------
(* Reserve, first line: load p_reserve.                                    *)
ReserveLoad(p) ==
  /\ pc[p] = "idle"
  /\ pc' = [pc EXCEPT ![p] = "check"]
  /\ p_r_old' = [p_r_old EXCEPT ![p] = p_reserve]
  /\ overtakes' = [overtakes EXCEPT ![p] = 0]
  /\ UNCHANGED <<sharedVars, cpc>>

(* p_r_new equals p_free: pause and try again with the same p_r_old.       *)
ReserveFull(p) ==
  /\ pc[p] = "check"
  /\ NextSlot(p_r_old[p]) = p_free
  /\ overtakes' = [overtakes EXCEPT ![p] = 0]
  /\ UNCHANGED <<sharedVars, pc, p_r_old, cpc>>

(* Mutant: the look at p_free is dropped.                                  *)
ReserveRoomUnchecked(p) ==
  /\ pc[p] = "check"
  /\ pc' = [pc EXCEPT ![p] = "cas"]
  /\ UNCHANGED <<sharedVars, p_r_old, cpc, overtakes>>

(* p_r_new differs from p_free: go on to the compare-and-swap.             *)
ReserveRoom(p) ==
  /\ pc[p] = "check"
  /\ NextSlot(p_r_old[p]) # p_free
  /\ pc' = [pc EXCEPT ![p] = "cas"]
  /\ UNCHANGED <<sharedVars, p_r_old, cpc, overtakes>>

(* Mutant: a plain store in the place of the compare-and-swap.             *)
ReserveStore(p) ==
  /\ pc[p] = "cas"
  /\ \A q \in Producers \ {p} : Trying(q) => overtakes[q] < MaxOvertakes
  /\ p_reserve' = NextSlot(p_r_old[p])
  /\ pc' = [pc EXCEPT ![p] = "held"]
  /\ overtakes' = [q \in Producers |->
                     IF q # p /\ Trying(q) THEN overtakes[q] + 1 ELSE 0]
  /\ UNCHANGED <<p_free, flags, data, p_r_old, cpc>>

(* The compare-and-swap succeeds: p owns slot p_r_old.  MaxOvertakes       *)
(* bounds how far others may run ahead of a thread stalled inside one try. *)
ReserveCas(p) ==
  /\ pc[p] = "cas"
  /\ p_reserve = p_r_old[p]
  /\ \A q \in Producers \ {p} : Trying(q) => overtakes[q] < MaxOvertakes
  /\ p_reserve' = NextSlot(p_r_old[p])
  /\ pc' = [pc EXCEPT ![p] = "held"]
  /\ overtakes' = [q \in Producers |->
                     IF q # p /\ Trying(q) THEN overtakes[q] + 1 ELSE 0]
  /\ UNCHANGED <<p_free, flags, data, p_r_old, cpc>>

(* It fails: the failing exchange reloads p_r_old.                         *)
ReserveRetry(p) ==
  /\ pc[p] = "cas"
  /\ p_reserve # p_r_old[p]
  /\ p_r_old' = [p_r_old EXCEPT ![p] = p_reserve]
  /\ pc' = [pc EXCEPT ![p] = "check"]
  /\ overtakes' = [overtakes EXCEPT ![p] = 0]
  /\ UNCHANGED <<sharedVars, cpc>>

(* The owner fills its slot through the smart pointer, field by field.     *)
WritePacket(p, packet) ==
  /\ Holding(p)
  /\ data' = [data EXCEPT ![p_r_old[p]] = packet]
  /\ pc' = [pc EXCEPT ![p] = "written"]
  /\ UNCHANGED <<p_reserve, p_free, flags, p_r_old, cpc, overtakes>>

(* The smart pointer dies: Committer calls Enqueue, which sets the flag.   *)
Enqueue(p) ==
  /\ pc[p] = "written"
  /\ flags' = [flags EXCEPT ![p_r_old[p]] = TRUE]
  /\ pc' = [pc EXCEPT ![p] = "idle"]
  /\ UNCHANGED <<p_reserve, p_free, data, p_r_old, cpc, overtakes>>

-----------------------------------------------------------------------------
(* Pick returns nullptr: p_free equals p_reserve.                          *)
PickEmpty ==
  /\ cpc = "idle"
  /\ p_free = p_reserve
  /\ UNCHANGED queueVars

(* Pick goes on to look at the flag of the oldest slot.                    *)
PickInUse ==
  /\ cpc = "idle"
  /\ p_free # p_reserve
  /\ cpc' = "flag"
  /\ UNCHANGED <<sharedVars, pc, p_r_old, overtakes>>

(* Pick returns nullptr: the oldest slot is reserved but not committed.    *)
PickUncommitted ==
  /\ cpc = "flag"
  /\ ~flags[p_free]
  /\ cpc' = "idle"
  /\ UNCHANGED <<sharedVars, pc, p_r_old, overtakes>>

(* Mutant: the flag is not looked at.                                      *)
PickReserved ==
  /\ cpc = "flag"
  /\ cpc' = "picked"
  /\ UNCHANGED <<sharedVars, pc, p_r_old, overtakes>>

(* Pick returns the oldest slot.                                           *)
PickCommitted ==
  /\ cpc = "flag"
  /\ flags[p_free]
  /\ cpc' = "picked"
  /\ UNCHANGED <<sharedVars, pc, p_r_old, overtakes>>

(* Mutant: the flag stays set.                                             *)
DequeueKeepFlag ==
  /\ cpc = "picked"
  /\ cpc' = "advance"
  /\ UNCHANGED <<sharedVars, pc, p_r_old, overtakes>>

(* Dequeue, first store: the flag of the oldest slot.                      *)
DequeueClear ==
  /\ cpc = "picked"
  /\ flags' = [flags EXCEPT ![p_free] = FALSE]
  /\ cpc' = "advance"
  /\ UNCHANGED <<p_reserve, p_free, data, pc, p_r_old, overtakes>>

(* Mutant: p_free stays where it is.                                       *)
DequeueStay ==
  /\ cpc = "advance"
  /\ cpc' = "idle"
  /\ UNCHANGED <<sharedVars, pc, p_r_old, overtakes>>

(* Dequeue, second store: p_free moves on.                                 *)
DequeueAdvance ==
  /\ cpc = "advance"
  /\ p_free' = NextSlot(p_free)
  /\ cpc' = "idle"
  /\ UNCHANGED <<p_reserve, flags, data, pc, p_r_old, overtakes>>

-----------------------------------------------------------------------------
Reserve(p) ==
  \/ ReserveFull(p) \/ ReserveRoom(p) \/ ReserveCas(p) \/ ReserveRetry(p)

Fill(p) == \E packet \in Packets : WritePacket(p, packet)

Produce(p) == ReserveLoad(p) \/ Reserve(p) \/ Fill(p) \/ Enqueue(p)

Consume ==
  \/ PickEmpty \/ PickInUse \/ PickUncommitted \/ PickCommitted
  \/ DequeueClear \/ DequeueAdvance

Next == Consume \/ \E p \in Producers : Produce(p)

Spec == QueueInit /\ [][Next]_queueVars

(* A thread that has entered Reserve keeps running, a slot it got is       *)
(* filled and committed, and the consumer keeps polling; nothing obliges a *)
(* thread to call Reserve.                                                 *)
Fairness ==
  /\ WF_queueVars(Consume)
  /\ \A p \in Producers :
       /\ WF_queueVars(Reserve(p))
       /\ WF_queueVars(pc[p] = "held" /\ Fill(p))
       /\ WF_queueVars(Enqueue(p))

FairSpec == Spec /\ Fairness

-----------------------------------------------------------------------------
(* How many slots lie between a and b, walking up from a.                  *)
Distance(a, b) == IF a <= b THEN b - a ELSE b + S - a

InUse       == Distance(p_free, p_reserve)
InWindow(i) == Distance(p_free, i) < InUse

(* The variables range over what the code's types and locals can hold.     *)
TypeOK ==
  /\ p_reserve \in Slots
  /\ p_free \in Slots
  /\ flags \in [Slots -> BOOLEAN]
  /\ data \in [Slots -> Packets \cup {NoPacket}]
  /\ pc \in [Producers -> {"idle", "check", "cas", "held", "written"}]
  /\ p_r_old \in [Producers -> Slots]
  /\ cpc \in {"idle", "flag", "picked", "advance"}
  /\ overtakes \in [Producers -> 0 .. MaxOvertakes]

(* The layout the comment at TaskQueue.hpp:14-18 draws: slots from p_free  *)
(* up to p_reserve are committed or reserved (the one Dequeue is half way  *)
(* through is neither), all others are free, and no slot is both reserved  *)
(* and committed: a producer never writes under the consumer's eyes.       *)
RingLayout ==
  \A i \in Slots :
    /\ InWindow(i) <=> IsHeld(i) \/ flags[i] \/ (cpc = "advance" /\ i = p_free)
    /\ ~(IsHeld(i) /\ flags[i])

(* The compare-and-swap in Reserve never hands one slot to two threads.    *)
SlotExclusive ==
  \A p, q \in Producers :
    p # q /\ Holding(p) /\ Holding(q) => p_r_old[p] # p_r_old[q]

(* Less than a full lap of the ring happens during one try of Reserve.     *)
NoLap == MaxOvertakes < S

(* The slot a try aims at, counted in reservations from p_reserve on:      *)
(* negative when others have already reserved it.                          *)
Lead(p) ==
  LET d == Distance(p_reserve, p_r_old[p])
  IN  IF d + overtakes[p] < S THEN d ELSE d - S

(* What a try of Reserve knows: reserving the slot it aims at cannot fill  *)
(* more than the ring, and after the look at p_free not even fill it.      *)
TryIsCurrent ==
  \A p \in Producers :
    /\ pc[p] = "check" => Lead(p) + InUse <= S - 1
    /\ pc[p] = "cas" => Lead(p) + InUse <= S - 2

(* What the consumer knows of the oldest slot between its loads and stores. *)
ConsumerKnows ==
  /\ cpc \in {"flag", "picked", "advance"} => p_free # p_reserve
  /\ cpc = "picked" => flags[p_free]
  /\ cpc = "advance" => ~flags[p_free] /\ ~IsHeld(p_free)

(* The inductive invariant behind RingLayout and SlotExclusive.            *)
RingInv ==
  TypeOK /\ RingLayout /\ SlotExclusive /\ TryIsCurrent /\ ConsumerKnows

(* The queue behaves as the first-in first-out list of PacketFifo: order   *)
(* of reservation, nothing lost, duplicated or changed after its commit.   *)
PlaceAt(i) ==
  IF flags[i] \/ (cpc = "advance" /\ i = p_free)
  THEN [holder |-> NoPacket, packet |-> data[i]]
  ELSE [holder |-> CHOOSE p \in Producers : HeldBy(p, i), packet |-> NoPacket]

Fifo == INSTANCE PacketFifo WITH
  Nobody   <- NoPacket,
  Capacity <- S - 1,
  fifo     <- [k \in 1 .. InUse |-> PlaceAt((p_free + k - 1) % S)],
  reading  <- IF cpc \in {"picked", "advance"} THEN data[p_free] ELSE NoPacket

ImplementsFifo == Fifo!FifoSpec

(* A committed packet is consumed whatever the other producers do: the     *)
(* consumer waits only for slots that their owners will commit.            *)
CommittedIsConsumed ==
  \A i \in Slots : (flags[i] ~> ~flags[i])

(* No thread stays in Reserve for ever while every slot is free, that is   *)
(* while the whole ring is what the comment at TaskQueue.hpp:15 marks      *)
(* "free".                                                                 *)
EmptyRingServes ==
  \A p \in Producers : []<>~(Trying(p) /\ p_free = p_reserve)

=============================================================================
