------------------------------ MODULE FlitFifo ------------------------------
(***************************************************************************)
(* What a NoC buffer promises its neighbours: a queue of flits of bounded  *)
(* capacity, whose first flit is visible at the output.  A cycle may       *)
(* enqueue, dequeue, or do both at once.  Whether there is room is decided *)
(* before the dequeue of the same cycle takes effect, as in the hardware,  *)
(* where the ready signal is a function of the registers only.             *)
(*                                                                         *)
(* A flit is a record of a payload and the marker of a packet's end.  The  *)
(* output keeps showing the flit that was dequeued last while the queue is *)
(* empty: consumers that look at out without checking for validity depend  *)
(* on it.                                                                  *)
(***************************************************************************)
EXTENDS Naturals, Sequences

CONSTANTS
  Data,      \* payloads of a flit
  Capacity   \* flits the queue holds

VARIABLES
  queue,     \* the flits accepted and not yet delivered, oldest first
  out        \* the flit shown at the output

fifoVars == <<queue, out>>

Flit == [data : Data, last : BOOLEAN]

FifoInit ==
  /\ queue = <<>>
  /\ out \in Flit

(* The output shows the head of the new queue, and holds when it is empty. *)
ShowHead == out' = IF queue' = <<>> THEN out ELSE Head(queue')

Enqueue(f) ==
  /\ Len(queue) < Capacity
  /\ queue' = Append(queue, f)
  /\ ShowHead

Dequeue ==
  /\ queue # <<>>
  /\ queue' = Tail(queue)
  /\ ShowHead

EnqueueDequeue(f) ==
  /\ queue # <<>>
  /\ Len(queue) < Capacity
  /\ queue' = Append(Tail(queue), f)
  /\ ShowHead

FifoNext ==
  \/ \E f \in Flit : Enqueue(f) \/ EnqueueDequeue(f)
  \/ Dequeue

FifoSpec == FifoInit /\ [][FifoNext]_fifoVars
=============================================================================
