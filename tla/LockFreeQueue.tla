---------------------------- MODULE LockFreeQueue ---------------------------
(***************************************************************************)
(* src/LockFreeQueue.hpp: a queue in an array whose head and size share    *)
(* one word, ptrval, changed by compare-and-swap, and whose bitmap says    *)
(* which elements are committed.  Nothing in the repository uses it.       *)
(*                                                                         *)
(* Producers Acquire a slot, write it and Commit; one consumer calls       *)
(* Dequeue when Front returned an element.  One action per access to       *)
(* ptrval, bitmap or array.  No constructor initialises ptrval: the model  *)
(* has the queue in zeroed storage (a static, or a new section).           *)
(*                                                                         *)
(* Dequeue stores the old head again, so head stays where it is.           *)
(***************************************************************************)
EXTENDS Integers, Sequences

CONSTANTS
  Producers,
  Capacity,      \* number of slots, a multiple of 8 in the code
  MaxAcquires    \* bound: successful calls of Acquire in a behaviour

W == 65536       \* head and size are unsigned short

ASSUME QueueAssumption == Capacity \in 1 .. W - 1

VARIABLES
  ptrval,    \* packed_ptr: [head, size]
  bitmap,    \* Bitmap
  queue,     \* the array: the number of the element, 0 in the zeroed storage
  pc, old,   \* each producer's place and its old_ptrs
  item,      \* the number of the element it has a slot for
  cpc, cold, \* the consumer's place and its old_ptrs
  acquired,  \* history: slots handed out so far, which numbers the elements
  taken,     \* history: elements the consumer has read, in order
  skewed     \* history: a Dequeue left elements behind

prodVars  == <<pc, old, item, acquired>>
consVars  == <<cpc, cold, taken, skewed>>
queueVars == <<ptrval, bitmap, queue, prodVars, consVars>>

Slots == 0 .. Capacity - 1
Ptrs(head, size) == [head |-> head, size |-> size % W]
Size == ptrval.size

Init ==
  /\ ptrval = Ptrs(0, 0)
  /\ bitmap = [i \in Slots |-> FALSE]
  /\ queue = [i \in Slots |-> 0]
  /\ pc = [p \in Producers |-> "idle"]
  /\ old = [p \in Producers |-> Ptrs(0, 0)]
  /\ item = [p \in Producers |-> 0]
  /\ cpc = "idle" /\ cold = Ptrs(0, 0)
  /\ acquired = 0
  /\ taken = <<>>
  /\ skewed = FALSE

Goes(p, from, to) == pc[p] = from /\ pc' = [pc EXCEPT ![p] = to]

-----------------------------------------------------------------------------
(* Acquire loads ptrval, at its start or because the exchange failed.      *)
AcquireLoad(p) ==
  /\ \/ Goes(p, "idle", "try")
     \/ ptrval # old[p] /\ Goes(p, "try", "try")
  /\ old' = [old EXCEPT ![p] = ptrval]
  /\ UNCHANGED <<ptrval, bitmap, queue, item, acquired, consVars>>

(* It returns NULL.                                                        *)
AcquireFull(p) ==
  /\ old[p].size >= Capacity
  /\ Goes(p, "try", "idle")
  /\ UNCHANGED <<ptrval, bitmap, queue, old, item, acquired, consVars>>

(* Mutant: a plain store in the place of the compare-and-swap.             *)
AcquireStore(p) ==
  /\ old[p].size < Capacity /\ acquired < MaxAcquires
  /\ ptrval' = Ptrs(old[p].head, old[p].size + 1)
  /\ item' = [item EXCEPT ![p] = acquired + 1]
  /\ acquired' = acquired + 1
  /\ Goes(p, "try", "write")
  /\ UNCHANGED <<bitmap, queue, old, consVars>>

(* The exchange succeeds, and it returns the slot size places on from head.*)
AcquireCas(p) ==
  /\ old[p].size < Capacity /\ acquired < MaxAcquires
  /\ ptrval = old[p]
  /\ ptrval' = Ptrs(old[p].head, old[p].size + 1)
  /\ item' = [item EXCEPT ![p] = acquired + 1]
  /\ acquired' = acquired + 1
  /\ Goes(p, "try", "write")
  /\ UNCHANGED <<bitmap, queue, old, consVars>>

SlotOf(p) == (old[p].head + old[p].size) % Capacity

(* The caller writes the element.                                          *)
Write(p) ==
  /\ Goes(p, "write", "commit")
  /\ queue' = [queue EXCEPT ![SlotOf(p)] = item[p]]
  /\ UNCHANGED <<ptrval, bitmap, old, item, acquired, consVars>>

Commit(p) ==
  /\ Goes(p, "commit", "idle")
  /\ bitmap' = [bitmap EXCEPT ![SlotOf(p)] = TRUE]
  /\ UNCHANGED <<ptrval, queue, old, item, acquired, consVars>>

-----------------------------------------------------------------------------
ConsumerGoes(from, to) == cpc = from /\ cpc' = to

FrontLoad ==
  /\ ConsumerGoes("idle", "front")
  /\ cold' = ptrval
  /\ UNCHANGED <<ptrval, bitmap, queue, prodVars, taken, skewed>>

(* Mutant: the bitmap is not looked at.                                    *)
FrontUnchecked ==
  /\ ConsumerGoes("front", "read")
  /\ UNCHANGED <<ptrval, bitmap, queue, prodVars, cold, taken, skewed>>

(* Front returns the element at head, or NULL.                             *)
FrontTest ==
  /\ ConsumerGoes("front", IF bitmap[cold.head] THEN "read" ELSE "idle")
  /\ UNCHANGED <<ptrval, bitmap, queue, prodVars, cold, taken, skewed>>

(* The caller reads it, and calls Dequeue.                                 *)
Read ==
  /\ ConsumerGoes("read", "unset")
  /\ taken' = Append(taken, queue[cold.head])
  /\ UNCHANGED <<ptrval, bitmap, queue, prodVars, cold, skewed>>

DequeueUnset ==
  /\ ConsumerGoes("unset", "load")
  /\ bitmap' = [bitmap EXCEPT ![ptrval.head] = FALSE]
  /\ UNCHANGED <<ptrval, queue, prodVars, cold, taken, skewed>>

(* It loads ptrval, again when the exchange failed.                        *)
DequeueLoad ==
  /\ \/ ConsumerGoes("load", "exchange")
     \/ ptrval # cold /\ ConsumerGoes("exchange", "exchange")
  /\ cold' = ptrval
  /\ UNCHANGED <<ptrval, bitmap, queue, prodVars, taken, skewed>>

DequeueCas ==
  /\ ConsumerGoes("exchange", "idle")
  /\ ptrval = cold
  /\ ptrval' = Ptrs(cold.head % Capacity, cold.size - 1)
  /\ skewed' = (skewed \/ cold.size > 1)
  /\ UNCHANGED <<bitmap, queue, prodVars, cold, taken>>

-----------------------------------------------------------------------------
Produce(p) ==
  AcquireLoad(p) \/ AcquireFull(p) \/ AcquireCas(p) \/ Write(p) \/ Commit(p)

Consume ==
  FrontLoad \/ FrontTest \/ Read \/ DequeueUnset \/ DequeueLoad \/ DequeueCas

Next == Consume \/ \E p \in Producers : Produce(p)

Spec == Init /\ [][Next]_queueVars

-----------------------------------------------------------------------------
(* Elements read whose Dequeue is still under way.                         *)
Leaving == IF cpc \in {"unset", "load", "exchange"} THEN 1 ELSE 0

(* size counts what was acquired and is not dequeued, through every race   *)
(* of the exchanges, and neither exceeds the array nor wraps below zero:   *)
(* Front vouches for an element before Dequeue takes one away.             *)
SizeCounts ==
  /\ Size = acquired - Len(taken) + Leaving
  /\ Size <= Capacity

(* As long as every Dequeue leaves the queue empty it is a queue: what     *)
(* comes out are the elements in the order of their slots' acquisition,    *)
(* each written before it is read, and no slot is written by two producers *)
(* or while it holds an element that is not taken.                         *)
QueueUntilSkewed ==
  ~skewed =>
    /\ taken = [n \in 1 .. Len(taken) |-> n]
    /\ \A p \in Producers : pc[p] \in {"write", "commit"} =>
         /\ ~bitmap[SlotOf(p)]
         /\ \A q \in Producers \ {p} :
              pc[q] \in {"write", "commit"} => SlotOf(p) # SlotOf(q)

(* Once a Dequeue has left an element behind, nothing comes out any more,  *)
(* so that no later element overtakes those that are lost: head does not   *)
(* move, its bit is unset, and no race of Acquire hands its slot out       *)
(* again, which happens in an empty queue only.                            *)
WedgedForEver == [][skewed => taken' = taken]_queueVars

=============================================================================
