----------------------------- MODULE PacketFifo -----------------------------
(***************************************************************************)
(* What src/TaskQueue.hpp promises to the code that uses it, without       *)
(* indices or flags: a first-in first-out list of at most Capacity places. *)
(* A producer reserves the last place, fills it at leisure and commits it; *)
(* the single consumer reads the first place once it is committed and      *)
(* removes it.  Packets leave in the order their places were reserved,     *)
(* each once and as committed.  TaskQueue.tla implements this module.      *)
(***************************************************************************)
EXTENDS Naturals, Sequences

CONSTANTS
  Producers,   \* threads that reserve and commit
  Packets,     \* values that can be committed
  Nobody,      \* holder of a committed place
  NoPacket,    \* content of a place that is not committed
  Capacity     \* most places that can be in use at once

VARIABLES
  fifo,        \* places in use, oldest first
  reading      \* packet the consumer is looking at, or NoPacket

fifoVars == <<fifo, reading>>

Place == [holder : Producers \cup {Nobody}, packet : Packets \cup {NoPacket}]

IsCommitted(place) == place.holder = Nobody

FifoInit == fifo = << >> /\ reading = NoPacket

(* A producer that holds no place takes one at the end of the list.        *)
TakePlace(p) ==
  /\ Len(fifo) < Capacity
  /\ \A i \in DOMAIN fifo : fifo[i].holder # p
  /\ fifo' = Append(fifo, [holder |-> p, packet |-> NoPacket])
  /\ UNCHANGED reading

(* The producer publishes the packet it has put in its place.              *)
CommitPlace(p, packet) ==
  \E i \in DOMAIN fifo :
    /\ fifo[i].holder = p
    /\ fifo' = [fifo EXCEPT ![i] = [holder |-> Nobody, packet |-> packet]]
    /\ UNCHANGED reading

(* The consumer looks at the oldest place, if it is committed.             *)
ReadFirst ==
  /\ fifo # << >> /\ IsCommitted(Head(fifo))
  /\ reading = NoPacket
  /\ reading' = Head(fifo).packet
  /\ UNCHANGED fifo

(* The consumer removes the place it has read.                             *)
RemoveFirst ==
  /\ reading # NoPacket
  /\ fifo' = Tail(fifo)
  /\ reading' = NoPacket

FifoNext ==
  \/ \E p \in Producers : TakePlace(p) \/ \E v \in Packets : CommitPlace(p, v)
  \/ ReadFirst
  \/ RemoveFirst

FifoSpec == FifoInit /\ [][FifoNext]_fifoVars

=============================================================================
