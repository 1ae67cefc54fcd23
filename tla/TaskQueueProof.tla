--------------------------- MODULE TaskQueueProof ---------------------------
(***************************************************************************)
(* The ring for every number of slots, producers and packets, as long as   *)
(* no thread is overtaken by a full lap within one try of Reserve: its     *)
(* safety, and that it implements the first-in first-out list PacketFifo.  *)
(***************************************************************************)
EXTENDS TaskQueue, SequenceTheorems, TLAPS

(* The ring successor, without the modulus.                                *)
LEMMA NextSlotValue ==
  ASSUME NEW i \in Slots
  PROVE  /\ NextSlot(i) = IF i = S - 1 THEN 0 ELSE i + 1
         /\ NextSlot(i) \in Slots
  BY RingAssumption DEF Slots, NextSlot

(* Distances stay inside the ring.                                         *)
LEMMA DistanceRange ==
  ASSUME NEW a \in Slots, NEW b \in Slots
  PROVE  /\ Distance(a, b) \in 0 .. S - 1
         /\ Distance(a, b) = 0 <=> a = b
  BY RingAssumption DEF Slots, Distance

(* Moving the far end of a window up by one adds exactly that slot, unless *)
(* the window then wraps onto its own start.                               *)
LEMMA WindowGrows ==
  ASSUME NEW a \in Slots, NEW b \in Slots, Distance(a, b) <= S - 2
  PROVE  /\ Distance(a, NextSlot(b)) = Distance(a, b) + 1
         /\ \A i \in Slots :
              Distance(a, i) < Distance(a, NextSlot(b)) <=>
                Distance(a, i) < Distance(a, b) \/ i = b
  BY RingAssumption, NextSlotValue DEF Slots, Distance

(* Moving the near end up by one removes exactly the first slot.           *)
LEMMA WindowShrinks ==
  ASSUME NEW a \in Slots, NEW b \in Slots, a # b
  PROVE  /\ Distance(NextSlot(a), b) = Distance(a, b) - 1
         /\ \A i \in Slots :
              Distance(NextSlot(a), i) < Distance(NextSlot(a), b) <=>
                Distance(a, i) < Distance(a, b) /\ i # a
  BY RingAssumption, NextSlotValue DEF Slots, Distance

(* The slot before a is the last one that a window starting at a can hold. *)
LEMMA FullRing ==
  ASSUME NEW a \in Slots, NEW b \in Slots, NEW c \in Slots
  PROVE  /\ NextSlot(c) = a => Distance(b, c) + Distance(a, b) <= S - 1
         /\ /\ NextSlot(c) # a
            /\ Distance(b, c) + Distance(a, b) = S - 1
            => FALSE
         /\ Distance(b, c) - S + Distance(a, b) <= S - 2
  BY RingAssumption, NextSlotValue DEF Slots, Distance

-----------------------------------------------------------------------------
(* A step keeps the indices in the ring, and a try is never overtaken      *)
(* more often than the bound.                                              *)
LEMMA TypePreserved ==
  ASSUME TypeOK, [Next]_queueVars
  PROVE  TypeOK'
<1> USE DEF TypeOK, sharedVars
<1>1. ASSUME NEW p \in Producers, ReserveLoad(p) PROVE TypeOK'
  BY <1>1, RingAssumption DEF ReserveLoad
<1>2. ASSUME NEW p \in Producers, ReserveFull(p) PROVE TypeOK'
  BY <1>2, RingAssumption DEF ReserveFull
<1>3. ASSUME NEW p \in Producers, ReserveRoom(p) PROVE TypeOK'
  BY <1>3 DEF ReserveRoom
<1>4. ASSUME NEW p \in Producers, ReserveCas(p) PROVE TypeOK'
  <2>1. p_reserve' \in Slots
    BY <1>4, NextSlotValue DEF ReserveCas
  <2>2. overtakes' \in [Producers -> 0 .. MaxOvertakes]
    BY <1>4, RingAssumption DEF ReserveCas
  <2>3. QED
    BY <1>4, <2>1, <2>2 DEF ReserveCas
<1>5. ASSUME NEW p \in Producers, ReserveRetry(p) PROVE TypeOK'
  BY <1>5, RingAssumption DEF ReserveRetry
<1>6. ASSUME NEW p \in Producers, Fill(p) PROVE TypeOK'
  BY <1>6 DEF Fill, WritePacket
<1>7. ASSUME NEW p \in Producers, Enqueue(p) PROVE TypeOK'
  BY <1>7 DEF Enqueue
<1>8. ASSUME Consume PROVE TypeOK'
  <2>1. CASE PickEmpty
    BY <2>1 DEF PickEmpty, queueVars
  <2>2. CASE PickInUse \/ PickUncommitted \/ PickCommitted
    BY <2>2 DEF PickInUse, PickUncommitted, PickCommitted
  <2>3. CASE DequeueClear
    BY <2>3 DEF DequeueClear
  <2>4. CASE DequeueAdvance
    BY <2>4, NextSlotValue DEF DequeueAdvance
  <2>5. QED
    BY <1>8, <2>1, <2>2, <2>3, <2>4 DEF Consume
<1>9. CASE UNCHANGED queueVars
  BY <1>9 DEF queueVars
<1>10. QED
  BY <1>1, <1>2, <1>3, <1>4, <1>5, <1>6, <1>7, <1>8, <1>9
  DEF Next, Produce, Reserve

(* Type correctness: the indices never leave the ring and a try is never   *)
(* overtaken more often than the bound.                                    *)
THEOREM TypeCorrect == Spec => []TypeOK
<1>1. QueueInit => TypeOK
  BY RingAssumption DEF QueueInit, TypeOK, Slots
<1>2. QED
  BY <1>1, TypePreserved, PTL DEF Spec

-----------------------------------------------------------------------------
(* A step of the consumer preserves the inductive invariant.               *)
LEMMA ConsumerPreserves ==
  ASSUME RingInv, Consume, TypeOK'
  PROVE  RingInv'
<1> USE DEF TypeOK
<1>1. CASE PickEmpty
  BY <1>1 DEF PickEmpty, queueVars, sharedVars, RingInv, RingLayout,
     SlotExclusive, TryIsCurrent, ConsumerKnows, InWindow, InUse, Lead,
     IsHeld, HeldBy, Holding, Distance
<1>2. CASE PickInUse \/ PickUncommitted \/ PickCommitted
  <2> USE <1>2 DEF PickInUse, PickUncommitted, PickCommitted, sharedVars
  <2>1. RingLayout'
    BY DEF RingInv, RingLayout, InWindow, InUse, IsHeld, HeldBy, Holding,
       Distance
  <2>2. SlotExclusive'
    BY DEF RingInv, SlotExclusive, Holding
  <2>3. TryIsCurrent'
    BY DEF RingInv, TryIsCurrent, Lead, InUse, Distance
  <2>4. ConsumerKnows'
    BY DEF RingInv, ConsumerKnows, IsHeld, HeldBy, Holding
  <2>5. QED
    BY <2>1, <2>2, <2>3, <2>4 DEF RingInv
<1>3. CASE DequeueClear
  <2> USE <1>3 DEF DequeueClear
  <2>1. ~IsHeld(p_free)
    BY DEF RingInv, RingLayout, ConsumerKnows
  <2>2. RingLayout'
    BY <2>1 DEF RingInv, RingLayout, ConsumerKnows, InWindow, InUse, IsHeld,
       HeldBy, Holding, Distance
  <2>3. SlotExclusive'
    BY DEF RingInv, SlotExclusive, Holding
  <2>4. TryIsCurrent'
    BY DEF RingInv, TryIsCurrent, Lead, InUse, Distance
  <2>5. ConsumerKnows'
    BY <2>1 DEF RingInv, ConsumerKnows, IsHeld, HeldBy, Holding
  <2>6. QED
    BY <2>2, <2>3, <2>4, <2>5 DEF RingInv
<1>4. CASE DequeueAdvance
  <2> USE <1>4 DEF DequeueAdvance
  <2>1. p_free # p_reserve /\ ~flags[p_free] /\ ~IsHeld(p_free)
    BY DEF RingInv, ConsumerKnows
  <2>2. \A i \in Slots : InWindow(i)' <=> InWindow(i) /\ i # p_free
    BY <2>1, WindowShrinks DEF RingInv, InWindow, InUse
  <2>3. InUse' = InUse - 1
    BY <2>1, WindowShrinks DEF RingInv, InUse
  <2>4. RingLayout'
    BY <2>1, <2>2 DEF RingInv, RingLayout, IsHeld, HeldBy, Holding
  <2>5. SlotExclusive'
    BY DEF RingInv, SlotExclusive, Holding
  <2>6. \A p \in Producers : Lead(p)' = Lead(p) /\ Lead(p) \in Int
    BY RingAssumption DEF Lead, Distance, Slots
  <2>7. TryIsCurrent'
    <3>1. InUse \in Int /\ S \in Int
      BY RingAssumption, DistanceRange DEF RingInv, InUse
    <3>2. QED
      BY <2>3, <2>6, <3>1 DEF RingInv, TryIsCurrent
  <2>8. ConsumerKnows'
    BY DEF ConsumerKnows
  <2>9. QED
    BY <2>4, <2>5, <2>7, <2>8 DEF RingInv
<1>5. QED
  BY <1>1, <1>2, <1>3, <1>4 DEF Consume

(* A step of a producer that leaves p_reserve alone preserves it too.      *)
LEMMA LocalStepPreserves ==
  ASSUME RingInv, TypeOK', NEW p \in Producers,
         \/ ReserveLoad(p) \/ ReserveFull(p) \/ ReserveRoom(p)
         \/ ReserveRetry(p) \/ Fill(p) \/ Enqueue(p)
  PROVE  RingInv'
<1> USE DEF TypeOK
<1>1. /\ InUse \in Int /\ S \in Int
      /\ \A q \in Producers : Lead(q) \in Int
      /\ InUse <= S - 1
  BY RingAssumption, DistanceRange DEF RingInv, InUse, Lead, Slots, Distance
<1>2. CASE ReserveLoad(p) \/ ReserveRetry(p)
  <2> USE <1>2 DEF ReserveLoad, ReserveRetry, sharedVars
  <2>1. \A i \in Slots : IsHeld(i)' <=> IsHeld(i)
    BY DEF IsHeld, HeldBy, Holding
  <2>2. RingLayout' /\ ConsumerKnows'
    BY <2>1 DEF RingInv, RingLayout, ConsumerKnows, InWindow, InUse, Distance
  <2>3. SlotExclusive'
    BY DEF RingInv, SlotExclusive, Holding
  <2>4. Lead(p)' = 0
    BY RingAssumption DEF Lead, Distance, Slots
  <2>5. \A q \in Producers \ {p} : Lead(q)' = Lead(q)
    BY DEF Lead, Distance
  <2>6. InUse' = InUse
    BY DEF InUse, Distance
  <2>7. TryIsCurrent'
    BY <1>1, <2>4, <2>5, <2>6 DEF RingInv, TryIsCurrent
  <2>8. QED
    BY <2>2, <2>3, <2>7 DEF RingInv
<1>3. CASE ReserveFull(p)
  <2> USE <1>3 DEF ReserveFull, sharedVars
  <2>1. RingLayout' /\ ConsumerKnows' /\ SlotExclusive'
    BY DEF RingInv, RingLayout, SlotExclusive, ConsumerKnows, InWindow, InUse,
       Distance, IsHeld, HeldBy, Holding
  <2>2. Lead(p)' = Distance(p_reserve, p_r_old[p])
    BY RingAssumption, DistanceRange DEF Lead, Distance, Slots
  <2>3. Lead(p)' + InUse <= S - 1
    BY <2>2, FullRing DEF InUse
  <2>4. \A q \in Producers \ {p} : Lead(q)' = Lead(q)
    BY DEF Lead, Distance
  <2>5. InUse' = InUse
    BY DEF InUse, Distance
  <2>6. TryIsCurrent'
    BY <1>1, <2>3, <2>4, <2>5 DEF RingInv, TryIsCurrent
  <2>7. QED
    BY <2>1, <2>6 DEF RingInv
<1>4. CASE ReserveRoom(p)
  <2> USE <1>4 DEF ReserveRoom, sharedVars
  <2>1. \A i \in Slots : IsHeld(i)' <=> IsHeld(i)
    BY DEF IsHeld, HeldBy, Holding
  <2>2. RingLayout' /\ ConsumerKnows'
    BY <2>1 DEF RingInv, RingLayout, ConsumerKnows, InWindow, InUse, Distance
  <2>3. SlotExclusive'
    BY DEF RingInv, SlotExclusive, Holding
  <2>4. InUse' = InUse /\ \A q \in Producers : Lead(q)' = Lead(q)
    BY DEF InUse, Lead, Distance
  <2>5. Lead(p) + InUse <= S - 1
    BY DEF RingInv, TryIsCurrent
  <2>6. Lead(p) + InUse # S - 1
    BY FullRing, RingAssumption DEF Lead, InUse
  <2>7. Lead(p) + InUse <= S - 2
    BY <1>1, <2>5, <2>6
  <2>8. TryIsCurrent'
    BY <1>1, <2>4, <2>7 DEF RingInv, TryIsCurrent
  <2>9. QED
    BY <2>2, <2>3, <2>8 DEF RingInv
<1>5. CASE Fill(p)
  <2>1. PICK packet \in Packets : WritePacket(p, packet)
    BY <1>5 DEF Fill
  <2> USE <2>1 DEF WritePacket
  <2>2. \A i \in Slots : IsHeld(i)' <=> IsHeld(i)
    BY DEF IsHeld, HeldBy, Holding
  <2>3. RingLayout' /\ ConsumerKnows'
    BY <2>2 DEF RingInv, RingLayout, ConsumerKnows, InWindow, InUse, Distance
  <2>4. SlotExclusive'
    BY DEF RingInv, SlotExclusive, Holding
  <2>5. InUse' = InUse /\ \A q \in Producers : Lead(q)' = Lead(q)
    BY DEF InUse, Lead, Distance
  <2>6. TryIsCurrent'
    BY <2>5 DEF RingInv, TryIsCurrent, Holding
  <2>7. QED
    BY <2>3, <2>4, <2>6 DEF RingInv
<1>6. CASE Enqueue(p)
  <2> USE <1>6 DEF Enqueue
  <2> DEFINE slot == p_r_old[p]
  <2>1. slot \in Slots /\ HeldBy(p, slot) /\ IsHeld(slot)
    BY DEF HeldBy, IsHeld, Holding
  <2>2. \A i \in Slots : IsHeld(i)' <=> IsHeld(i) /\ i # slot
    BY DEF RingInv, SlotExclusive, IsHeld, HeldBy, Holding
  <2>3. ~(cpc = "advance" /\ slot = p_free)
    BY <2>1 DEF RingInv, ConsumerKnows
  <2>4. \A i \in Slots : InWindow(i)' <=> InWindow(i)
    BY DEF InWindow, InUse, Distance
  <2>5. RingLayout'
    BY <2>1, <2>2, <2>4 DEF RingInv, RingLayout
  <2>6. ConsumerKnows'
    BY <2>1, <2>2, <2>3 DEF RingInv, ConsumerKnows
  <2>7. SlotExclusive'
    BY DEF RingInv, SlotExclusive, Holding
  <2>8. InUse' = InUse /\ \A q \in Producers : Lead(q)' = Lead(q)
    BY DEF InUse, Lead, Distance
  <2>9. TryIsCurrent'
    BY <2>8 DEF RingInv, TryIsCurrent
  <2>10. QED
    BY <2>5, <2>6, <2>7, <2>9 DEF RingInv
<1>7. QED
  BY <1>2, <1>3, <1>4, <1>5, <1>6

(* The compare-and-swap of a try that was not lapped takes a free slot.    *)
LEMMA CasPreserves ==
  ASSUME RingInv, NoLap, TypeOK', NEW p \in Producers, ReserveCas(p)
  PROVE  RingInv'
<1> USE DEF TypeOK, ReserveCas
<1> DEFINE slot == p_reserve
<1>1. /\ slot \in Slots /\ p_r_old[p] = slot
      /\ InUse \in 0 .. S - 1 /\ S \in Int
      /\ \A q \in Producers : Lead(q) \in Int
  BY RingAssumption, DistanceRange DEF RingInv, InUse, Lead, Slots, Distance
<1>2. InUse <= S - 2
  <2>1. Lead(p) = 0
    BY RingAssumption DEF RingInv, NoLap, Lead, Distance, Slots
  <2>2. QED
    BY <1>1, <2>1 DEF RingInv, TryIsCurrent
<1>3. /\ InUse' = InUse + 1
      /\ \A i \in Slots : InWindow(i)' <=> InWindow(i) \/ i = slot
  BY <1>1, <1>2, WindowGrows DEF RingInv, InWindow, InUse, Distance
<1>4. ~InWindow(slot)
  BY <1>1 DEF InWindow, InUse
<1>5. ~IsHeld(slot) /\ ~flags[slot]
  BY <1>1, <1>4 DEF RingInv, RingLayout
<1>6. \A i \in Slots : IsHeld(i)' <=> IsHeld(i) \/ i = slot
  BY <1>1 DEF RingInv, IsHeld, HeldBy, Holding
<1>7. RingLayout'
  BY <1>1, <1>3, <1>5, <1>6 DEF RingInv, RingLayout
<1>8. SlotExclusive'
  BY <1>1, <1>5 DEF RingInv, SlotExclusive, Holding, IsHeld, HeldBy
<1>9. ConsumerKnows'
  <2>1. cpc \in {"flag", "picked", "advance"} => p_free # NextSlot(slot)
    BY <1>1, <1>2, WindowGrows, DistanceRange, NextSlotValue, RingAssumption
    DEF RingInv, InUse
  <2>2. cpc = "advance" => ~IsHeld(p_free)'
    BY <1>1, <1>6 DEF RingInv, ConsumerKnows
  <2>3. QED
    BY <1>1, <2>1, <2>2 DEF RingInv, ConsumerKnows
<1>10. TryIsCurrent'
  <2>1. \A q \in Producers : Trying(q)' => q # p /\ Trying(q)
    BY DEF RingInv, Trying
  <2>2. ASSUME NEW q \in Producers, q # p, Trying(q)
        PROVE  Lead(q)' = Lead(q) - 1
    <3>1. overtakes[q] < MaxOvertakes /\ overtakes'[q] = overtakes[q] + 1
      BY <2>2
    <3>2. NextSlot(slot) = IF slot = S - 1 THEN 0 ELSE slot + 1
      BY <1>1, NextSlotValue
    <3>3. /\ overtakes[q] \in Nat /\ overtakes[q] + 1 < S
          /\ slot \in 0 .. S - 1 /\ p_r_old[q] \in 0 .. S - 1
          /\ S \in Nat
      BY <1>1, <3>1, RingAssumption DEF RingInv, NoLap, Slots
    <3>4. p_reserve' = NextSlot(slot) /\ p_r_old'[q] = p_r_old[q]
      BY <1>1
    <3>5. QED
      BY <3>1, <3>2, <3>3, <3>4 DEF Lead, Distance
  <2>3. QED
    BY <1>1, <1>3, <2>1, <2>2 DEF RingInv, TryIsCurrent, Trying
<1>11. QED
  BY <1>7, <1>8, <1>9, <1>10 DEF RingInv

LEMMA InitEstablishes ==
  ASSUME QueueInit
  PROVE  RingInv
<1>1. TypeOK
  BY RingAssumption DEF QueueInit, TypeOK, Slots
<1>2. InUse = 0 /\ \A i \in Slots : Distance(p_free, i) \in Nat
  BY RingAssumption, DistanceRange DEF QueueInit, InUse, Slots, Distance
<1>3. RingLayout
  BY <1>2 DEF QueueInit, RingLayout, InWindow, IsHeld, HeldBy, Holding
<1>4. SlotExclusive /\ TryIsCurrent /\ ConsumerKnows
  BY DEF QueueInit, SlotExclusive, TryIsCurrent, ConsumerKnows, Holding
<1>5. QED
  BY <1>1, <1>3, <1>4 DEF RingInv

LEMMA StepPreserves ==
  ASSUME NoLap, RingInv, [Next]_queueVars
  PROVE  RingInv'
<1>1. TypeOK'
  BY TypePreserved DEF RingInv
<1>2. CASE Consume
  BY <1>1, <1>2, ConsumerPreserves
<1>3. ASSUME NEW p \in Producers, Produce(p) PROVE RingInv'
  BY <1>1, <1>3, LocalStepPreserves, CasPreserves DEF Produce, Reserve
<1>4. CASE UNCHANGED queueVars
  BY <1>1, <1>4 DEF queueVars, sharedVars, RingInv, TypeOK, RingLayout,
     SlotExclusive, TryIsCurrent, ConsumerKnows, InWindow, InUse, Lead,
     IsHeld, HeldBy, Holding, Distance
<1>5. QED
  BY <1>2, <1>3, <1>4 DEF Next

(* The inductive invariant holds in every state, for every size of ring    *)
(* and every set of producers, when no try is overtaken by a full lap.     *)
THEOREM RingInvariant ==
  ASSUME NoLap
  PROVE  Spec => []RingInv
BY InitEstablishes, StepPreserves, PTL DEF Spec

(* Slots are used as the comment at TaskQueue.hpp:14-18 draws them.        *)
THEOREM RingLayoutHolds ==
  ASSUME NoLap
  PROVE  Spec => []RingLayout
<1>1. RingInv => RingLayout
  BY DEF RingInv
<1>2. QED
  BY <1>1, RingInvariant, PTL

(* Two threads never own the same slot.                                    *)
THEOREM SlotExclusiveHolds ==
  ASSUME NoLap
  PROVE  Spec => []SlotExclusive
<1>1. RingInv => SlotExclusive
  BY DEF RingInv
<1>2. QED
  BY <1>1, RingInvariant, PTL

-----------------------------------------------------------------------------
(* A slot in use that the list shows as committed.                         *)
Committed(i) == flags[i] \/ (cpc = "advance" /\ i = p_free)

(* What is committed, or about to be, is a packet.                         *)
PacketsWritten ==
  /\ \A i \in Slots : Committed(i) => data[i] \in Packets
  /\ \A p \in Producers : pc[p] = "written" => data[p_r_old[p]] \in Packets

FifoInv == RingInv /\ PacketsWritten

(* The variables of the list: its k-th place is the k-th slot in use.      *)
SlotNo(k) == (p_free + k - 1) % S
places    == [k \in 1 .. InUse |-> PlaceAt(SlotNo(k))]
looking   == IF cpc \in {"picked", "advance"} THEN data[p_free] ELSE NoPacket

Places     == [holder : Producers \cup {NoPacket}, packet : Packets \cup {NoPacket}]
PlaceOf(p) == [holder |-> p, packet |-> NoPacket]

(* The modulus of the refinement mapping, without the modulus.             *)
LEMMA SlotNumbers ==
  ASSUME NEW f \in Slots, NEW k \in 1 .. S
  PROVE  /\ (f + k - 1) % S = IF f + k - 1 < S THEN f + k - 1 ELSE f + k - 1 - S
         /\ (f + k - 1) % S \in Slots
         /\ Distance(f, (f + k - 1) % S) = k - 1
  BY RingAssumption DEF Slots, Distance

LEMMA SlotAtDistance ==
  ASSUME NEW f \in Slots, NEW i \in Slots
  PROVE  (f + (Distance(f, i) + 1) - 1) % S = i
  BY RingAssumption DEF Slots, Distance

LEMMA NextSlotNumber ==
  ASSUME NEW f \in Slots, NEW k \in 1 .. S - 1
  PROVE  (NextSlot(f) + k - 1) % S = (f + (k + 1) - 1) % S
<1>1. NextSlot(f) = IF f = S - 1 THEN 0 ELSE f + 1
  BY NextSlotValue
<1>2. S \in Nat /\ k + 1 \in 1 .. S /\ k \in 1 .. S
  BY RingAssumption
<1>3. NextSlot(f) \in Slots
  BY NextSlotValue
<1> DEFINE n == NextSlot(f)
<1>4. (n + k - 1) % S = IF n + k - 1 < S THEN n + k - 1 ELSE n + k - 1 - S
  BY <1>2, <1>3, SlotNumbers
<1>5. (f + (k + 1) - 1) % S = IF f + (k + 1) - 1 < S THEN f + (k + 1) - 1
                              ELSE f + (k + 1) - 1 - S
  BY <1>2, SlotNumbers
<1>6. QED
  BY <1>1, <1>2, <1>4, <1>5 DEF Slots

(* What the list shows of a slot in use.                                   *)
ShowsSlots ==
  \A i \in Slots :
    /\ Committed(i) => PlaceAt(i) = [holder |-> NoPacket, packet |-> data[i]]
    /\ \A q \in Producers : HeldBy(q, i) => ~Committed(i) /\ PlaceAt(i) = PlaceOf(q)
    /\ InWindow(i) => Committed(i) \/ IsHeld(i)

LEMMA PlaceValue == RingInv => ShowsSlots
<1> SUFFICES ASSUME RingInv, NEW i \in Slots
             PROVE  /\ Committed(i) => PlaceAt(i) = [holder |-> NoPacket, packet |-> data[i]]
                    /\ \A q \in Producers :
                         HeldBy(q, i) => ~Committed(i) /\ PlaceAt(i) = PlaceOf(q)
                    /\ InWindow(i) => Committed(i) \/ IsHeld(i)
  BY DEF ShowsSlots
<1>1. Committed(i) => PlaceAt(i) = [holder |-> NoPacket, packet |-> data[i]]
  BY DEF PlaceAt, Committed
<1>2. ASSUME NEW q \in Producers, HeldBy(q, i)
      PROVE  ~Committed(i) /\ PlaceAt(i) = PlaceOf(q)
  <2>1. ~Committed(i)
    BY <1>2 DEF RingInv, RingLayout, ConsumerKnows, IsHeld, Committed
  <2>2. \A r \in Producers : HeldBy(r, i) <=> r = q
    BY <1>2 DEF RingInv, SlotExclusive, HeldBy
  <2>3. (CHOOSE r \in Producers : HeldBy(r, i)) = q
    BY <2>2
  <2>4. QED
    BY <2>1, <2>3 DEF PlaceAt, Committed, PlaceOf
<1>3. InWindow(i) => Committed(i) \/ IsHeld(i)
  BY DEF RingInv, RingLayout, Committed
<1>4. QED
  BY <1>1, <1>2, <1>3

(* The list is a list of places.                                           *)
ListOK ==
  /\ InUse \in 0 .. S - 1
  /\ places \in Seq(Places) /\ Len(places) = InUse
  /\ \A k \in 1 .. InUse :
       /\ SlotNo(k) \in Slots /\ InWindow(SlotNo(k))
       /\ Distance(p_free, SlotNo(k)) = k - 1
       /\ places[k] = PlaceAt(SlotNo(k))
  /\ \A i \in Slots : InWindow(i) =>
       /\ Distance(p_free, i) + 1 \in 1 .. InUse
       /\ SlotNo(Distance(p_free, i) + 1) = i

LEMMA ListIsOK == FifoInv => ListOK
<1> SUFFICES ASSUME FifoInv PROVE ListOK
  OBVIOUS
<1>1. p_free \in Slots /\ p_reserve \in Slots /\ S \in Nat
  BY RingAssumption DEF FifoInv, RingInv, TypeOK
<1>2. InUse \in 0 .. S - 1
  BY <1>1, DistanceRange DEF InUse
<1>3. ASSUME NEW k \in 1 .. InUse
      PROVE  /\ SlotNo(k) \in Slots /\ InWindow(SlotNo(k))
             /\ Distance(p_free, SlotNo(k)) = k - 1
  <2>1. k \in 1 .. S
    BY <1>1, <1>2
  <2>2. SlotNo(k) \in Slots /\ Distance(p_free, SlotNo(k)) = k - 1
    BY <1>1, <2>1, SlotNumbers DEF SlotNo
  <2>3. QED
    BY <1>1, <1>2, <2>2 DEF InWindow
<1>4. ASSUME NEW i \in Slots, InWindow(i)
      PROVE  /\ Distance(p_free, i) + 1 \in 1 .. InUse
             /\ SlotNo(Distance(p_free, i) + 1) = i
  <2>1. Distance(p_free, i) \in 0 .. S - 1 /\ Distance(p_free, i) < InUse
    BY <1>1, <1>4, DistanceRange DEF InWindow
  <2>2. SlotNo(Distance(p_free, i) + 1) = i
    BY <1>1, SlotAtDistance DEF SlotNo
  <2>3. QED
    BY <1>1, <1>2, <2>1, <2>2
<1>5. ASSUME NEW i \in Slots, InWindow(i) PROVE PlaceAt(i) \in Places
  <2>1. CASE Committed(i)
    BY <2>1, PlaceValue DEF FifoInv, PacketsWritten, ShowsSlots, Places
  <2>2. CASE IsHeld(i)
    BY <2>2, PlaceValue DEF FifoInv, ShowsSlots, IsHeld, Places, PlaceOf
  <2>3. QED
    BY <1>5, <2>1, <2>2, PlaceValue DEF FifoInv, ShowsSlots
<1>6. /\ places \in [1 .. InUse -> Places]
      /\ \A k \in 1 .. InUse : places[k] = PlaceAt(SlotNo(k))
  BY <1>3, <1>5 DEF places
<1>7. places \in Seq(Places) /\ Len(places) = InUse
  BY <1>2, <1>6
<1>8. QED
  BY <1>2, <1>3, <1>4, <1>6, <1>7 DEF ListOK

-----------------------------------------------------------------------------
(* A slot that stays committed, or stays held, shows the same place.       *)
LEMMA SamePlace ==
  ASSUME ShowsSlots, ShowsSlots', NEW i \in Slots,
         \/ Committed(i) /\ Committed(i)' /\ data'[i] = data[i]
         \/ \E q \in Producers : HeldBy(q, i) /\ HeldBy(q, i)'
  PROVE  PlaceAt(i)' = PlaceAt(i)
BY DEF ShowsSlots

(* Steps that the list does not see: the looks and loads of Reserve and    *)
(* Pick, the writes to a slot that is held, the first store of Dequeue.    *)
LEMMA QuietStep ==
  ASSUME FifoInv, FifoInv', ListOK, ListOK', ShowsSlots, ShowsSlots',
         \/ \E p \in Producers : \/ ReserveLoad(p) \/ ReserveFull(p) \/ ReserveRoom(p)
                                \/ ReserveRetry(p) \/ Fill(p)
         \/ PickEmpty \/ PickInUse \/ PickUncommitted \/ DequeueClear
         \/ UNCHANGED queueVars
  PROVE  places' = places /\ looking' = looking
<1> USE DEF FifoInv, RingInv, TypeOK
<1> DEFINE Quiet ==
      /\ p_free' = p_free /\ p_reserve' = p_reserve
      /\ \A i \in Slots : Committed(i)' <=> Committed(i)
      /\ \A i \in Slots, q \in Producers : HeldBy(q, i)' <=> HeldBy(q, i)
      /\ \A i \in Slots : Committed(i) => data'[i] = data[i]
<1>1. Quiet
  <2>1. ASSUME NEW p \in Producers,
               \/ ReserveLoad(p) \/ ReserveFull(p) \/ ReserveRoom(p) \/ ReserveRetry(p)
        PROVE  Quiet
    BY <2>1 DEF ReserveLoad, ReserveFull, ReserveRoom, ReserveRetry, sharedVars,
       Committed, HeldBy, Holding
  <2>2. ASSUME NEW p \in Producers, Fill(p) PROVE Quiet
    <3>1. PICK packet \in Packets : WritePacket(p, packet)
      BY <2>2 DEF Fill
    <3>2. HeldBy(p, p_r_old[p]) /\ p_r_old[p] \in Slots
      BY <3>1 DEF WritePacket, HeldBy
    <3>3. ~Committed(p_r_old[p])
      BY <3>2 DEF ShowsSlots
    <3>4. QED
      BY <3>1, <3>3 DEF WritePacket, Committed, HeldBy, Holding
  <2>3. CASE PickEmpty \/ PickInUse \/ PickUncommitted \/ UNCHANGED queueVars
    BY <2>3 DEF PickEmpty, PickInUse, PickUncommitted, queueVars, sharedVars,
       Committed, HeldBy, Holding
  <2>4. CASE DequeueClear
    BY <2>4 DEF DequeueClear, Committed, HeldBy, Holding, ConsumerKnows
  <2>5. QED
    BY <2>1, <2>2, <2>3, <2>4
<1>2. InUse' = InUse /\ \A i \in Slots : InWindow(i)' <=> InWindow(i)
  BY <1>1 DEF InUse, InWindow, Distance
<1>3. \A i \in Slots : InWindow(i) => PlaceAt(i)' = PlaceAt(i)
  BY <1>1, SamePlace DEF ShowsSlots, IsHeld
<1>4. \A k \in 1 .. InUse : SlotNo(k)' = SlotNo(k) /\ PlaceAt(SlotNo(k))' = PlaceAt(SlotNo(k))
  BY <1>1, <1>3 DEF ListOK, SlotNo
<1>5. places' = places
  BY <1>2, <1>4 DEF places
<1>6. looking' = looking
  <2>1. cpc \in {"picked", "advance"} => Committed(p_free)
    BY DEF ConsumerKnows, Committed
  <2>2. cpc' \in {"picked", "advance"} <=> cpc \in {"picked", "advance"}
    BY DEF ReserveLoad, ReserveFull, ReserveRoom, ReserveRetry, Fill, WritePacket,
       PickEmpty, PickInUse, PickUncommitted, DequeueClear, queueVars, sharedVars
  <2>3. QED
    BY <1>1, <2>1, <2>2 DEF looking
<1>7. QED
  BY <1>5, <1>6

(* Reserve's exchange takes the next place of the list.                    *)
LEMMA TakeStep ==
  ASSUME FifoInv, FifoInv', NoLap, ListOK, ListOK', ShowsSlots, ShowsSlots',
         NEW p \in Producers, ReserveCas(p)
  PROVE  /\ Len(places) < S - 1
         /\ \A k \in DOMAIN places : places[k].holder # p
         /\ places' = Append(places, PlaceOf(p))
         /\ looking' = looking
<1> USE DEF FifoInv, RingInv, TypeOK
<1>1. /\ p_free \in Slots /\ p_reserve \in Slots /\ S \in Nat
      /\ p_free' = p_free /\ p_reserve' = NextSlot(p_reserve) /\ p_r_old' = p_r_old
      /\ p_r_old[p] = p_reserve /\ flags' = flags /\ data' = data /\ cpc' = cpc
      /\ ~Holding(p) /\ pc' = [pc EXCEPT ![p] = "held"]
  BY RingAssumption DEF ReserveCas, Holding
<1>2. InUse <= S - 2 /\ InUse' = InUse + 1
  <2>1. Lead(p) = 0
    BY <1>1, RingAssumption DEF ReserveCas, NoLap, Lead, Distance, Slots
  <2>2. InUse \in 0 .. S - 1 /\ InUse <= S - 2
    BY <1>1, <2>1 DEF TryIsCurrent, ReserveCas, ListOK
  <2>3. QED
    BY <1>1, <2>2, WindowGrows DEF InUse, Distance
<1> PICK slot \in Slots, n \in 0 .. S - 2 : slot = p_reserve /\ n = InUse
  BY <1>1, <1>2 DEF ListOK
<1>3. /\ \A i \in Slots : Committed(i)' <=> Committed(i)
      /\ \A i \in Slots, q \in Producers : HeldBy(q, i) => HeldBy(q, i)'
      /\ HeldBy(p, slot)'
  BY <1>1 DEF Committed, HeldBy, Holding
<1>4. \A i \in Slots : InWindow(i) => PlaceAt(i)' = PlaceAt(i)
  BY <1>1, <1>3, SamePlace DEF ShowsSlots, IsHeld
<1>5. \A k \in 1 .. InUse : places'[k] = places[k]
  <2>1. \A k \in 1 .. InUse : k \in 1 .. InUse' /\ SlotNo(k)' = SlotNo(k)
    BY <1>1, <1>2 DEF ListOK, SlotNo
  <2>2. \A k \in 1 .. InUse : PlaceAt(SlotNo(k))' = PlaceAt(SlotNo(k))
    BY <1>4, <2>1 DEF ListOK
  <2>3. QED
    BY <2>1, <2>2 DEF ListOK
<1>6. places'[n + 1] = PlaceOf(p)
  <2>1. SlotNo(n + 1)' = slot
    BY <1>1, <1>2, SlotAtDistance DEF SlotNo, InUse
  <2>2. PlaceAt(slot)' = PlaceOf(p)
    BY <1>1, <1>3 DEF ShowsSlots
  <2>3. n + 1 \in 1 .. InUse'
    BY <1>2
  <2>4. places'[n + 1] = PlaceAt(SlotNo(n + 1))'
    BY <2>3 DEF ListOK
  <2>5. QED
    BY <2>1, <2>2, <2>4
<1>7. places' = Append(places, PlaceOf(p))
  <2>1. PlaceOf(p) \in Places /\ places \in Seq(Places) /\ Len(places) = n
    BY DEF PlaceOf, Places, ListOK
  <2>2. /\ Append(places, PlaceOf(p)) \in Seq(Places)
        /\ Len(Append(places, PlaceOf(p))) = n + 1
        /\ \A k \in 1 .. n : Append(places, PlaceOf(p))[k] = places[k]
        /\ Append(places, PlaceOf(p))[n + 1] = PlaceOf(p)
    <3> HIDE DEF places, Places, PlaceOf
    <3> QED  BY <2>1, AppendProperties
  <2>3. places' \in Seq(Places) /\ Len(places') = n + 1
    BY <1>2 DEF ListOK, Places
  <2>4. \A k \in 1 .. n + 1 : places'[k] = Append(places, PlaceOf(p))[k]
    BY <1>5, <1>6, <2>2
  <2>5. QED
    BY <2>2, <2>3, <2>4, SeqEqual
<1>8. ASSUME NEW k \in DOMAIN places PROVE places[k].holder # p
  <2>1. k \in 1 .. InUse
    BY DEF places
  <2>2. SlotNo(k) \in Slots /\ InWindow(SlotNo(k)) /\ places[k] = PlaceAt(SlotNo(k))
    BY <2>1 DEF ListOK
  <2>3. CASE Committed(SlotNo(k))
    BY <2>2, <2>3, RingAssumption DEF ShowsSlots
  <2>4. ASSUME NEW q \in Producers, HeldBy(q, SlotNo(k)) PROVE places[k].holder # p
    BY <1>1, <2>2, <2>4 DEF ShowsSlots, PlaceOf, HeldBy
  <2>5. QED
    BY <2>2, <2>3, <2>4 DEF ShowsSlots, IsHeld
<1>9. Len(places) < S - 1
  BY <1>1, <1>2 DEF ListOK
<1>10. looking' = looking
  BY <1>1 DEF looking
<1>11. QED
  BY <1>7, <1>8, <1>9, <1>10

(* Enqueue commits the place of the slot, with what was written there.     *)
LEMMA CommitStep ==
  ASSUME FifoInv, FifoInv', ListOK, ListOK', ShowsSlots, ShowsSlots',
         NEW p \in Producers, Enqueue(p)
  PROVE  /\ \E packet \in Packets, k \in DOMAIN places :
              /\ places[k].holder = p
              /\ places' = [places EXCEPT ![k] = [holder |-> NoPacket, packet |-> packet]]
         /\ looking' = looking
<1> USE DEF FifoInv, RingInv, TypeOK
<1> DEFINE slot == p_r_old[p]
           k == Distance(p_free, slot) + 1
<1>1. /\ p_free' = p_free /\ p_reserve' = p_reserve /\ p_r_old' = p_r_old
      /\ flags' = [flags EXCEPT ![slot] = TRUE] /\ data' = data /\ cpc' = cpc
      /\ pc' = [pc EXCEPT ![p] = "idle"] /\ slot \in Slots /\ HeldBy(p, slot)
      /\ data[slot] \in Packets
  BY DEF Enqueue, HeldBy, Holding, PacketsWritten
<1>2. InUse' = InUse /\ \A i \in Slots : InWindow(i)' <=> InWindow(i)
  BY <1>1 DEF InUse, InWindow, Distance
<1>3. InWindow(slot)
  BY <1>1 DEF RingLayout, IsHeld
<1>4. k \in 1 .. InUse /\ SlotNo(k) = slot
  BY <1>1, <1>3 DEF ListOK
<1>5. places[k].holder = p
  <2>1. places[k] = PlaceAt(slot)
    BY <1>4 DEF ListOK
  <2>2. QED
    BY <1>1, <2>1 DEF ShowsSlots, PlaceOf
<1>6. PlaceAt(slot)' = [holder |-> NoPacket, packet |-> data[slot]]
  BY <1>1 DEF ShowsSlots, Committed
<1>7. ASSUME NEW i \in Slots, i # slot, InWindow(i) PROVE PlaceAt(i)' = PlaceAt(i)
  <2>1. CASE Committed(i)
    BY <1>1, <1>7, <2>1, SamePlace DEF Committed
  <2>2. ASSUME NEW q \in Producers, HeldBy(q, i) PROVE PlaceAt(i)' = PlaceAt(i)
    <3>1. HeldBy(q, i)'
      BY <1>1, <1>7, <2>2 DEF HeldBy, Holding
    <3>2. QED
      BY <2>2, <3>1, SamePlace
  <2>3. QED
    BY <1>7, <2>1, <2>2 DEF ShowsSlots, IsHeld
<1>8. ASSUME NEW j \in 1 .. InUse
      PROVE  places'[j] = IF j = k THEN [holder |-> NoPacket, packet |-> data[slot]]
                          ELSE places[j]
  <2>1. places'[j] = PlaceAt(SlotNo(j))'
    BY <1>2 DEF ListOK
  <2>2. SlotNo(j)' = SlotNo(j) /\ SlotNo(j) \in Slots /\ InWindow(SlotNo(j))
    BY <1>1 DEF SlotNo, ListOK
  <2>3. places[j] = PlaceAt(SlotNo(j)) /\ (SlotNo(j) = slot => j = k)
    BY <1>4 DEF ListOK
  <2>4. QED
    BY <1>1, <1>4, <1>6, <1>7, <2>1, <2>2, <2>3
<1>9. places' = [places EXCEPT ![k] = [holder |-> NoPacket, packet |-> data[slot]]]
  <2>1. places = [j \in 1 .. InUse |-> places[j]] /\ places' = [j \in 1 .. InUse |-> places'[j]]
    BY <1>2 DEF places
  <2> HIDE DEF k
  <2>2. QED
    BY <1>4, <1>8, <2>1
<1>10. looking' = looking
  BY <1>1 DEF looking
<1>11. k \in DOMAIN places
  BY <1>4 DEF places
<1>12. QED
  BY <1>1, <1>5, <1>9, <1>10, <1>11

(* Pick reads the first place, which is committed.                         *)
LEMMA ReadStep ==
  ASSUME FifoInv, FifoInv', ListOK, ListOK', ShowsSlots, ShowsSlots', PickCommitted
  PROVE  /\ places # << >> /\ Head(places).holder = NoPacket
         /\ looking = NoPacket /\ looking' = Head(places).packet
         /\ places' = places
<1> USE DEF FifoInv, RingInv, TypeOK
<1>1. /\ p_free' = p_free /\ p_reserve' = p_reserve /\ p_r_old' = p_r_old
      /\ flags' = flags /\ data' = data /\ pc' = pc /\ cpc = "flag" /\ cpc' = "picked"
      /\ p_free \in Slots /\ Committed(p_free)
  BY DEF PickCommitted, sharedVars, Committed
<1>2. places' = places
  <2>1. InUse' = InUse
    BY <1>1 DEF InUse, Distance
  <2>2. \A i \in Slots : InWindow(i) => PlaceAt(i)' = PlaceAt(i)
    <3>1. /\ \A i \in Slots : Committed(i)' <=> Committed(i)
          /\ \A i \in Slots, q \in Producers : HeldBy(q, i)' <=> HeldBy(q, i)
      BY <1>1 DEF Committed, HeldBy, Holding
    <3>2. QED
      BY <1>1, <3>1, SamePlace DEF ShowsSlots, IsHeld
  <2>3. \A k \in 1 .. InUse : SlotNo(k)' = SlotNo(k) /\ PlaceAt(SlotNo(k))' = PlaceAt(SlotNo(k))
    BY <1>1, <2>2 DEF ListOK, SlotNo
  <2>4. QED
    BY <2>1, <2>3 DEF places
<1>3. InWindow(p_free)
  BY <1>1 DEF RingLayout, Committed
<1>4. 1 \in 1 .. InUse /\ SlotNo(1) = p_free
  <2>1. Distance(p_free, p_free) = 0
    BY <1>1, DistanceRange
  <2>2. QED
    BY <1>1, <1>3, <2>1 DEF ListOK
<1>5. places[1] = [holder |-> NoPacket, packet |-> data[p_free]]
  BY <1>1, <1>4 DEF ListOK, ShowsSlots
<1>6. places # << >> /\ Head(places) = places[1]
  BY <1>4 DEF ListOK
<1>7. QED
  BY <1>1, <1>2, <1>5, <1>6 DEF looking

(* Dequeue's second store removes the first place.                         *)
LEMMA RemoveStep ==
  ASSUME FifoInv, FifoInv', ListOK, ListOK', ShowsSlots, ShowsSlots', DequeueAdvance
  PROVE  /\ looking # NoPacket /\ looking' = NoPacket
         /\ places' = Tail(places)
<1> USE DEF FifoInv, RingInv, TypeOK
<1>1. /\ p_free' = NextSlot(p_free) /\ p_reserve' = p_reserve /\ p_r_old' = p_r_old
      /\ flags' = flags /\ data' = data /\ pc' = pc /\ cpc = "advance" /\ cpc' = "idle"
      /\ p_free \in Slots /\ p_reserve \in Slots /\ p_free # p_reserve
      /\ S \in Nat /\ InUse \in 0 .. S - 1
  BY RingAssumption DEF DequeueAdvance, ConsumerKnows, ListOK
<1>2. looking # NoPacket /\ looking' = NoPacket
  BY <1>1, RingAssumption DEF looking, PacketsWritten, Committed
<1>3. InUse' = InUse - 1 /\ InUse >= 1
  BY <1>1, WindowShrinks, DistanceRange DEF InUse
<1>4. ASSUME NEW i \in Slots, i # p_free, InWindow(i) PROVE PlaceAt(i)' = PlaceAt(i)
  <2>1. Committed(i)' <=> Committed(i)
    BY <1>1, <1>4 DEF Committed
  <2>2. \A q \in Producers : HeldBy(q, i)' <=> HeldBy(q, i)
    BY <1>1 DEF HeldBy, Holding
  <2>3. QED
    BY <1>1, <1>4, <2>1, <2>2, SamePlace DEF ShowsSlots, IsHeld
<1>5. ASSUME NEW k \in 1 .. InUse - 1 PROVE places'[k] = places[k + 1]
  <2>1. k \in 1 .. InUse' /\ k + 1 \in 1 .. InUse /\ k \in 1 .. S - 1
    BY <1>1, <1>3
  <2>2. SlotNo(k)' = SlotNo(k + 1)
    BY <1>1, <2>1, NextSlotNumber DEF SlotNo
  <2>3. SlotNo(k + 1) \in Slots /\ InWindow(SlotNo(k + 1)) /\ SlotNo(k + 1) # p_free
    <3>1. Distance(p_free, SlotNo(k + 1)) = k
      BY <2>1 DEF ListOK
    <3>2. Distance(p_free, p_free) = 0
      BY <1>1, DistanceRange
    <3>3. QED
      BY <2>1, <3>1, <3>2 DEF ListOK
  <2>4. places'[k] = PlaceAt(SlotNo(k))' /\ places[k + 1] = PlaceAt(SlotNo(k + 1))
    BY <2>1 DEF ListOK
  <2>5. PICK i \in Slots : i = SlotNo(k + 1)
    BY <2>3
  <2>6. QED
    BY <1>4, <2>2, <2>3, <2>4, <2>5
<1>6. places' = Tail(places)
  <2>1. places \in Seq(Places) /\ Len(places) = InUse /\ places # << >>
    BY <1>3 DEF ListOK
  <2>2. /\ Tail(places) \in Seq(Places) /\ Len(Tail(places)) = InUse - 1
        /\ \A k \in 1 .. InUse - 1 : Tail(places)[k] = places[k + 1]
    <3> HIDE DEF places, Places
    <3> QED  BY <2>1, HeadTailProperties
  <2>3. places' \in Seq(Places) /\ Len(places') = InUse - 1
    BY <1>3 DEF ListOK, Places
  <2>4. QED
    BY <1>5, <2>2, <2>3, SeqEqual
<1>7. QED
  BY <1>2, <1>6

-----------------------------------------------------------------------------
(* A committed slot keeps the packet that was written before its commit.   *)
LEMMA WrittenPreserved ==
  ASSUME FifoInv, RingInv', [Next]_queueVars
  PROVE  PacketsWritten'
<1> USE DEF FifoInv, RingInv, TypeOK, PacketsWritten, Committed
<1>1. ASSUME NEW p \in Producers,
             \/ ReserveLoad(p) \/ ReserveFull(p) \/ ReserveRoom(p) \/ ReserveRetry(p)
      PROVE  PacketsWritten'
  BY <1>1 DEF ReserveLoad, ReserveFull, ReserveRoom, ReserveRetry, sharedVars
<1>2. ASSUME NEW p \in Producers, ReserveCas(p) PROVE PacketsWritten'
  BY <1>2 DEF ReserveCas
<1>3. ASSUME NEW p \in Producers, Fill(p) PROVE PacketsWritten'
  <2>1. PICK packet \in Packets : WritePacket(p, packet)
    BY <1>3 DEF Fill
  <2>2. p_r_old[p] \in Slots
    OBVIOUS
  <2>3. ASSUME NEW q \in Producers, pc'[q] = "written"
        PROVE  data'[p_r_old'[q]] \in Packets
    BY <2>1, <2>2, <2>3 DEF WritePacket
  <2>4. ASSUME NEW i \in Slots, Committed(i)'
        PROVE  data'[i] \in Packets
    BY <2>1, <2>2, <2>4 DEF WritePacket
  <2>5. QED
    BY <2>3, <2>4
<1>4. ASSUME NEW p \in Producers, Enqueue(p) PROVE PacketsWritten'
  BY <1>4 DEF Enqueue
<1>5. CASE Consume
  <2>1. CASE PickEmpty \/ PickInUse \/ PickUncommitted \/ PickCommitted
    BY <2>1 DEF PickEmpty, PickInUse, PickUncommitted, PickCommitted, queueVars, sharedVars
  <2>2. CASE DequeueClear \/ DequeueAdvance
    BY <2>2 DEF DequeueClear, DequeueAdvance, ConsumerKnows
  <2>3. QED
    BY <1>5, <2>1, <2>2 DEF Consume
<1>6. CASE UNCHANGED queueVars
  BY <1>6 DEF queueVars, sharedVars
<1>7. QED
  BY <1>1, <1>2, <1>3, <1>4, <1>5, <1>6 DEF Next, Produce, Reserve

THEOREM FifoInvariant ==
  ASSUME NoLap
  PROVE  Spec => []FifoInv
<1>1. QueueInit => PacketsWritten
  BY DEF QueueInit, PacketsWritten, Committed
<1>2. RingInv /\ PacketsWritten /\ RingInv' /\ [Next]_queueVars => PacketsWritten'
  BY WrittenPreserved DEF FifoInv
<1>3. QED
  BY <1>1, <1>2, RingInvariant, PTL DEF Spec, FifoInv

(* The mapped variables of PacketFifo are places and looking.              *)
LEMMA StepImplements ==
  ASSUME FifoInv, FifoInv', NoLap, ListOK, ListOK', ShowsSlots, ShowsSlots',
         [Next]_queueVars
  PROVE  [Fifo!FifoNext]_(Fifo!fifoVars)
<1>1. ASSUME NEW p \in Producers, ReserveCas(p) PROVE Fifo!TakePlace(p)
  BY <1>1, TakeStep DEF Fifo!TakePlace, places, looking, PlaceOf, SlotNo
<1>2. ASSUME NEW p \in Producers, Enqueue(p)
      PROVE  \E packet \in Packets : Fifo!CommitPlace(p, packet)
  BY <1>2, CommitStep DEF Fifo!CommitPlace, places, looking, SlotNo
<1>3. PickCommitted => Fifo!ReadFirst
  BY ReadStep DEF Fifo!ReadFirst, Fifo!IsCommitted, places, looking, SlotNo
<1>4. DequeueAdvance => Fifo!RemoveFirst
  BY RemoveStep DEF Fifo!RemoveFirst, places, looking, SlotNo
<1>5. places' = places /\ looking' = looking => UNCHANGED Fifo!fifoVars
  BY DEF Fifo!fifoVars, places, looking, SlotNo
<1>6. \/ \E p \in Producers : ReserveCas(p) \/ Enqueue(p)
      \/ PickCommitted \/ DequeueAdvance
      \/ places' = places /\ looking' = looking
  BY QuietStep DEF Next, Produce, Reserve, Consume
<1>7. QED
  BY <1>1, <1>2, <1>3, <1>4, <1>5, <1>6 DEF Fifo!FifoNext

(* Packets leave in the order their slots were reserved, each once and as  *)
(* committed: every step is a step of the list or changes nothing of it.   *)
THEOREM FifoImplemented ==
  ASSUME NoLap
  PROVE  Spec => ImplementsFifo
<1>1. QueueInit => Fifo!FifoInit
  <2> SUFFICES ASSUME QueueInit PROVE Fifo!FifoInit
    OBVIOUS
  <2>1. InUse = 0
    BY RingAssumption DEF QueueInit, InUse, Distance
  <2>2. QED
    BY <2>1 DEF Fifo!FifoInit, QueueInit
<1>2. FifoInv => ListOK /\ ShowsSlots
  BY ListIsOK, PlaceValue DEF FifoInv
<1>3. /\ FifoInv /\ ListOK /\ ShowsSlots
      /\ FifoInv' /\ ListOK' /\ ShowsSlots'
      /\ [Next]_queueVars
      => [Fifo!FifoNext]_(Fifo!fifoVars)
  BY StepImplements
<1>4. QED
  BY <1>1, <1>2, <1>3, FifoInvariant, PTL DEF Spec, ImplementsFifo, Fifo!FifoSpec

=============================================================================
