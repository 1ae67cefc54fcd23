------------------------- MODULE LockFreeQueueProof -------------------------
(***************************************************************************)
(* What holds of the queue for every capacity, set of producers and number *)
(* of elements: the count is right for ever, the order until a Dequeue     *)
(* leaves an element behind, and from then on nothing comes out.           *)
(***************************************************************************)
EXTENDS LockFreeQueue, TLAPS

(* A value of ptrval that some thread may have loaded: head never moves.   *)
PtrValues == [head : {0}, size : 0 .. Capacity]

TypeOK ==
  /\ ptrval \in PtrValues
  /\ bitmap \in [Slots -> BOOLEAN]
  /\ queue \in [Slots -> Nat]
  /\ pc \in [Producers -> {"idle", "try", "write", "commit"}]
  /\ old \in [Producers -> PtrValues]
  /\ item \in [Producers -> Nat]
  /\ cpc \in {"idle", "front", "read", "unset", "load", "exchange"}
  /\ cold \in PtrValues
  /\ acquired \in Nat
  /\ taken \in Seq(Nat)
  /\ skewed \in BOOLEAN

Holds(p) == pc[p] \in {"write", "commit"}
HasFront == cpc \in {"read", "unset", "load", "exchange"}

(* size is what was acquired and is not dequeued.                          *)
Counted == ptrval.size = acquired - Len(taken) + Leaving

(* Acquire hands out slots of the array only.                              *)
HoldersFit == \A p \in Producers : Holds(p) => old[p].size < Capacity

(* Once Front has vouched for the element at head, and for ever once one   *)
(* was left behind, the queue is not empty and no producer has head's slot.*)
HeadSettled ==
  HasFront \/ skewed =>
    /\ ptrval.size >= 1
    /\ \A p \in Producers : Holds(p) => old[p].size # 0

(* The bit of head is set until Dequeue unsets it, and then stays unset.   *)
HeadBit ==
  /\ cpc \in {"read", "unset"} => bitmap[0]
  /\ cpc \in {"load", "exchange"} => ~bitmap[0]
  /\ skewed => ~bitmap[0] /\ ~HasFront

(* The element number of a slot, as long as slots are not reused.          *)
Number(i) == acquired - ptrval.size + 1 + i

(* A slot that is handed out is one producer's, which knows its number.    *)
HoldersKnow ==
  ~skewed => \A p \in Producers : Holds(p) =>
    /\ old[p].size < ptrval.size
    /\ ~bitmap[old[p].size]
    /\ item[p] = Number(old[p].size)
    /\ pc[p] = "commit" => queue[old[p].size] = item[p]
    /\ \A q \in Producers \ {p} : Holds(q) => old[p].size # old[q].size

(* A slot whose bit is set holds the element of its number.                *)
CommittedHold ==
  ~skewed => \A i \in Slots : bitmap[i] => i < ptrval.size /\ queue[i] = Number(i)

(* What was taken are the elements in the order of their numbers.          *)
TakenInOrder == ~skewed => \A n \in 1 .. Len(taken) : taken[n] = n

QueueInv ==
  /\ TypeOK
  /\ Counted
  /\ HoldersFit
  /\ HeadSettled
  /\ HeadBit
  /\ HoldersKnow
  /\ CommittedHold
  /\ TakenInOrder

-----------------------------------------------------------------------------
LEMMA SmallMod ==
  ASSUME NEW n \in Nat, NEW m \in Nat, n < m
  PROVE  n % m = n
  OBVIOUS

(* head and size fit their halves of the word: neither wraps.              *)
LEMMA PtrsInRange ==
  ASSUME NEW n \in 0 .. Capacity
  PROVE  /\ Ptrs(0, n) = [head |-> 0, size |-> n]
         /\ Ptrs(0, n) \in PtrValues
         /\ 0 % Capacity = 0
<1>1. Capacity \in Nat /\ 0 < Capacity /\ Capacity < 65536
  BY QueueAssumption DEF W
<1>2. n \in Nat /\ n < W /\ W \in Nat
  BY <1>1 DEF W
<1>3. n % W = n /\ 0 % Capacity = 0
  BY <1>1, <1>2, SmallMod
<1>4. QED
  BY <1>3 DEF Ptrs, PtrValues

(* The slot of a producer is as far from the start as size was.            *)
LEMMA HolderSlot ==
  ASSUME TypeOK, HoldersFit, NEW p \in Producers, Holds(p)
  PROVE  SlotOf(p) = old[p].size /\ SlotOf(p) \in Slots
<1>1. old[p].head = 0 /\ old[p].size \in 0 .. Capacity - 1
  BY QueueAssumption DEF TypeOK, HoldersFit, PtrValues
<1>2. old[p].size % Capacity = old[p].size
  BY <1>1, SmallMod, QueueAssumption
<1>3. QED
  BY <1>1, <1>2 DEF SlotOf, Slots

(* A step of a producer preserves the inductive invariant.                 *)
LEMMA ProducerPreserves ==
  ASSUME QueueInv, NEW p \in Producers, Produce(p)
  PROVE  QueueInv'
<1> USE DEF QueueInv, TypeOK, Holds, HasFront, Goes, consVars
<1>1. CASE AcquireLoad(p) \/ AcquireFull(p)
  <2>1. TypeOK' /\ Leaving' = Leaving
    BY <1>1 DEF AcquireLoad, AcquireFull, Leaving
  <2>2. /\ UNCHANGED <<ptrval, bitmap, queue, item, acquired, cpc, taken, skewed>>
        /\ ~Holds(p)'
        /\ \A q \in Producers \ {p} : pc'[q] = pc[q] /\ old'[q] = old[q]
    BY <1>1 DEF AcquireLoad, AcquireFull
  <2>3. Counted' /\ HoldersFit' /\ HeadSettled' /\ HeadBit'
    BY <2>1, <2>2 DEF Counted, HoldersFit, HeadSettled, HeadBit
  <2>4. HoldersKnow'
    <3> SUFFICES ASSUME ~skewed, NEW q \in Producers, Holds(q)'
                 PROVE  /\ old'[q].size < ptrval.size
                        /\ ~bitmap[old'[q].size]
                        /\ item[q] = Number(old'[q].size)
                        /\ pc'[q] = "commit" => queue[old'[q].size] = item[q]
                        /\ \A r \in Producers \ {q} :
                             Holds(r)' => old'[q].size # old'[r].size
      BY <2>2 DEF HoldersKnow, Number
    <3>1. q # p /\ Holds(q) /\ old'[q] = old[q] /\ pc'[q] = pc[q]
      BY <2>2
    <3>2. QED
      BY <2>2, <3>1 DEF HoldersKnow
  <2>5. CommittedHold' /\ TakenInOrder'
    BY <2>2 DEF CommittedHold, TakenInOrder, Number
  <2>6. QED
    BY <2>1, <2>3, <2>4, <2>5
<1>2. CASE AcquireCas(p)
  <2> USE <1>2 DEF AcquireCas
  <2>1. /\ old[p] = ptrval
        /\ ptrval.size \in 0 .. Capacity - 1
        /\ ptrval' = [head |-> 0, size |-> ptrval.size + 1]
        /\ ptrval' \in PtrValues
    BY PtrsInRange, QueueAssumption DEF PtrValues
  <2>2. TypeOK' /\ taken' = taken /\ skewed' = skewed /\ Leaving' = Leaving
    BY <2>1 DEF Leaving
  <2>3. /\ ptrval'.size = ptrval.size + 1
        /\ acquired' - ptrval'.size = acquired - ptrval.size
    BY <2>1
  <2>4. Counted' /\ HoldersFit'
    BY <2>1, <2>2, <2>3 DEF Counted, HoldersFit, Leaving
  <2>5. HeadSettled' /\ HeadBit'
    BY <2>1, <2>2, <2>3 DEF HeadSettled, HeadBit
  <2>6. ASSUME ~skewed, NEW q \in Producers, Holds(q), q # p
        PROVE  old[q].size < ptrval.size /\ ~bitmap[old[q].size]
    BY <2>6 DEF HoldersKnow
  <2>7. ~skewed => ~bitmap[ptrval.size]
    BY <2>1 DEF CommittedHold, Slots
  <2>8. HoldersKnow'
    <3> SUFFICES ASSUME ~skewed, NEW q \in Producers, Holds(q)'
                 PROVE  /\ old[q].size < ptrval'.size
                        /\ ~bitmap[old[q].size]
                        /\ item'[q] = Number(old[q].size)'
                        /\ pc'[q] = "commit" => queue[old[q].size] = item'[q]
                        /\ \A r \in Producers \ {q} :
                             Holds(r)' => old[q].size # old[r].size
      BY <2>2 DEF HoldersKnow
    <3>1. CASE q = p
      BY <2>1, <2>3, <2>6, <2>7, <3>1 DEF Number
    <3>2. CASE q # p
      <4>1. Holds(q) /\ item'[q] = item[q] /\ pc'[q] = pc[q]
        BY <3>2
      <4>2. old[q].size < ptrval.size /\ old[q].size \in Nat
        BY <2>6, <3>2, <4>1 DEF PtrValues
      <4>3. item'[q] = Number(old[q].size)'
        BY <2>1, <2>3, <4>1, <4>2 DEF HoldersKnow, Number
      <4>4. QED
        BY <2>1, <2>3, <4>1, <4>2, <4>3 DEF HoldersKnow
    <3>3. QED
      BY <3>1, <3>2
  <2>9. CommittedHold' /\ TakenInOrder'
    <3>1. \A i \in Slots : Number(i)' = Number(i)
      BY <2>1, <2>3 DEF Number, Slots
    <3>2. QED
      BY <2>1, <2>2, <3>1 DEF CommittedHold, TakenInOrder, Slots
  <2>10. QED
    BY <2>2, <2>4, <2>5, <2>8, <2>9
<1>3. CASE Write(p)
  <2> USE <1>3 DEF Write
  <2>1. SlotOf(p) = old[p].size /\ SlotOf(p) \in Slots
    BY HolderSlot
  <2>2. TypeOK' /\ taken' = taken /\ skewed' = skewed /\ Leaving' = Leaving
    BY <2>1 DEF Leaving
  <2>3. Counted' /\ HoldersFit' /\ HeadSettled' /\ HeadBit'
    BY <2>2 DEF Counted, HoldersFit, HeadSettled, HeadBit
  <2>4. HoldersKnow'
    BY <2>1, <2>2 DEF HoldersKnow, Number, PtrValues
  <2>5. CommittedHold' /\ TakenInOrder'
    BY <2>1, <2>2 DEF CommittedHold, TakenInOrder, HoldersKnow, Number
  <2>6. QED
    BY <2>2, <2>3, <2>4, <2>5
<1>4. CASE Commit(p)
  <2> USE <1>4 DEF Commit
  <2>1. SlotOf(p) = old[p].size /\ SlotOf(p) \in Slots
    BY HolderSlot
  <2>2. TypeOK' /\ taken' = taken /\ skewed' = skewed /\ Leaving' = Leaving
    BY <2>1 DEF Leaving
  <2>3. Counted' /\ HoldersFit' /\ HeadSettled'
    BY <2>2 DEF Counted, HoldersFit, HeadSettled
  <2>4. HeadBit'
    BY <2>1, <2>2, QueueAssumption DEF HeadBit, HeadSettled, Slots
  <2>5. HoldersKnow'
    BY <2>1, <2>2 DEF HoldersKnow, Number
  <2>6. CommittedHold' /\ TakenInOrder'
    BY <2>1, <2>2 DEF CommittedHold, TakenInOrder, HoldersKnow, Number
  <2>7. QED
    BY <2>2, <2>3, <2>4, <2>5, <2>6
<1>5. QED
  BY <1>1, <1>2, <1>3, <1>4 DEF Produce

(* A step of the consumer preserves it.                                    *)
LEMMA ConsumerPreserves ==
  ASSUME QueueInv, Consume
  PROVE  QueueInv'
<1> USE DEF QueueInv, TypeOK, Holds, HasFront, ConsumerGoes, prodVars
<1>0. 0 \in Slots
  BY QueueAssumption DEF Slots
<1>1. CASE FrontLoad \/ FrontTest \/ DequeueLoad
  <2> USE <1>1 DEF FrontLoad, FrontTest, DequeueLoad
  <2>1. TypeOK' /\ Leaving' = Leaving
    BY DEF Leaving
  <2>2. Counted' /\ HoldersFit'
    BY <2>1 DEF Counted, HoldersFit
  <2>3. cold.head = 0
    BY DEF PtrValues
  <2>4. HeadSettled'
    BY <1>0, <2>3 DEF HeadSettled, HeadBit, CommittedHold, HoldersKnow, PtrValues
  <2>5. HeadBit'
    BY <2>3 DEF HeadBit
  <2>6. HoldersKnow' /\ CommittedHold' /\ TakenInOrder'
    BY DEF HoldersKnow, CommittedHold, TakenInOrder, Number
  <2>7. QED
    BY <2>1, <2>2, <2>4, <2>5, <2>6
<1>2. CASE Read
  <2> USE <1>2 DEF Read
  <2>1. /\ cold.head = 0
        /\ queue[0] = Len(taken) + 1
    BY <1>0 DEF PtrValues, HeadBit, CommittedHold, Number, Counted, Leaving
  <2>2. taken' = Append(taken, Len(taken) + 1)
    BY <2>1
  <2>3. /\ taken' \in Seq(Nat)
        /\ Len(taken') = Len(taken) + 1
        /\ \A n \in 1 .. Len(taken') :
             taken'[n] = IF n = Len(taken) + 1 THEN Len(taken) + 1 ELSE taken[n]
    BY <2>2
  <2>4. TypeOK'
    BY <2>3
  <2>5. Counted' /\ HoldersFit' /\ HeadSettled' /\ HeadBit'
    BY <2>3 DEF Counted, HoldersFit, HeadSettled, HeadBit, Leaving, PtrValues
  <2>6. HoldersKnow' /\ CommittedHold'
    BY DEF HoldersKnow, CommittedHold, Number
  <2>7. TakenInOrder'
    BY <2>3 DEF TakenInOrder
  <2>8. QED
    BY <2>4, <2>5, <2>6, <2>7
<1>3. CASE DequeueUnset
  <2> USE <1>3 DEF DequeueUnset
  <2>1. ptrval.head = 0
    BY DEF PtrValues
  <2>2. TypeOK'
    BY <1>0, <2>1
  <2>3. Counted' /\ HoldersFit' /\ HeadSettled' /\ HeadBit'
    BY <1>0, <2>1 DEF Counted, HoldersFit, HeadSettled, HeadBit, Leaving
  <2>4. HoldersKnow'
    BY <1>0, <2>1 DEF HoldersKnow, Number, HeadSettled
  <2>5. CommittedHold' /\ TakenInOrder'
    BY <2>1 DEF CommittedHold, TakenInOrder, Number
  <2>6. QED
    BY <2>2, <2>3, <2>4, <2>5
<1>4. CASE DequeueCas
  <2> USE <1>4 DEF DequeueCas
  <2>1. /\ ptrval.size \in 1 .. Capacity
        /\ ptrval' = [head |-> 0, size |-> ptrval.size - 1]
        /\ ptrval' \in PtrValues
    <3>1. cold.head = 0 /\ cold.size = ptrval.size /\ ptrval.size \in 1 .. Capacity
      BY QueueAssumption DEF PtrValues, HeadSettled
    <3>2. cold.size - 1 \in 0 .. Capacity
      BY <3>1, QueueAssumption
    <3>3. QED
      BY <3>1, <3>2, PtrsInRange
  <2>2. TypeOK' /\ Leaving = 1 /\ Leaving' = 0
    BY <2>1 DEF Leaving
  <2>3. Counted' /\ HoldersFit'
    BY <2>1, <2>2 DEF Counted, HoldersFit
  <2>4. ~skewed /\ (skewed' <=> ptrval.size > 1)
    BY DEF HeadBit
  <2>5. HeadSettled' /\ HeadBit'
    BY <2>1, <2>4 DEF HeadSettled, HeadBit
  <2>6. HoldersKnow'
    BY <2>1, <2>4 DEF HoldersKnow, HeadSettled, PtrValues
  <2>7. CommittedHold' /\ TakenInOrder'
    BY <2>1, <2>4 DEF CommittedHold, TakenInOrder, HeadBit, Slots
  <2>8. QED
    BY <2>2, <2>3, <2>5, <2>6, <2>7
<1>5. QED
  BY <1>1, <1>2, <1>3, <1>4 DEF Consume

-----------------------------------------------------------------------------
(* The inductive invariant, through every race of the exchanges.           *)
THEOREM QueueInvariant == Spec => []QueueInv
<1>1. Init => QueueInv
  <2> SUFFICES ASSUME Init PROVE QueueInv
    OBVIOUS
  <2>0. Ptrs(0, 0) = [head |-> 0, size |-> 0] /\ Ptrs(0, 0) \in PtrValues
    BY PtrsInRange, QueueAssumption
  <2>1. TypeOK
    <3>1. taken \in Seq(Nat)
      BY DEF Init
    <3>2. QED
      BY <2>0, <3>1 DEF Init, TypeOK
  <2>2. ptrval.size = 0 /\ Leaving = 0 /\ Len(taken) = 0
    BY <2>0 DEF Init, Leaving
  <2>3. QED
    BY <2>1, <2>2 DEF Init, QueueInv, Counted, HoldersFit, HeadSettled, HeadBit,
       HoldersKnow, CommittedHold, TakenInOrder, Holds, HasFront
<1>2. QueueInv /\ UNCHANGED queueVars => QueueInv'
  BY DEF queueVars, prodVars, consVars, QueueInv, TypeOK, Counted, HoldersFit,
     HeadSettled, HeadBit, HoldersKnow, CommittedHold, TakenInOrder, Number,
     Holds, HasFront, Leaving
<1>3. QueueInv /\ [Next]_queueVars => QueueInv'
  BY <1>2, ProducerPreserves, ConsumerPreserves DEF Next
<1>4. QED
  BY <1>1, <1>3, PTL DEF Spec

(* size counts what is in the queue and never wraps.                       *)
THEOREM SizeCountsHolds == Spec => []SizeCounts
<1>1. QueueInv => SizeCounts
  BY QueueAssumption DEF QueueInv, TypeOK, PtrValues, Counted, SizeCounts, Size
<1>2. QED
  BY <1>1, QueueInvariant, PTL

(* Until a Dequeue leaves an element behind it is a queue.                 *)
THEOREM QueueUntilSkewedHolds == Spec => []QueueUntilSkewed
<1>1. ASSUME QueueInv, ~skewed PROVE taken = [n \in 1 .. Len(taken) |-> n]
  BY <1>1 DEF QueueInv, TypeOK, TakenInOrder
<1>2. ASSUME QueueInv, ~skewed, NEW p \in Producers, Holds(p)
      PROVE  /\ ~bitmap[SlotOf(p)]
             /\ \A q \in Producers \ {p} : Holds(q) => SlotOf(p) # SlotOf(q)
  BY <1>2, HolderSlot DEF QueueInv, HoldersKnow
<1>3. QueueInv => QueueUntilSkewed
  BY <1>1, <1>2 DEF QueueUntilSkewed, Holds
<1>4. QED
  BY <1>3, QueueInvariant, PTL

(* Once an element was left behind nothing is ever taken again.            *)
THEOREM WedgedHolds == Spec => WedgedForEver
<1>1. QueueInv /\ [Next]_queueVars => [skewed => taken' = taken]_queueVars
  BY DEF QueueInv, HeadBit, HasFront, Next, Produce, Consume, AcquireLoad,
     AcquireFull, AcquireCas, Write, Commit, FrontLoad, FrontTest, Read,
     DequeueUnset, DequeueLoad, DequeueCas, ConsumerGoes, consVars
<1>2. QED
  BY <1>1, QueueInvariant, PTL DEF Spec, WedgedForEver

=============================================================================
