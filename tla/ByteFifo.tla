------------------------------ MODULE ByteFifo ------------------------------
(***************************************************************************)
(* What the receive ring of a unit's control plane promises: a queue of at *)
(* most Capacity bytes that gives them back in the order it took them and  *)
(* is emptied when the unit is reset.  The promise ends when a byte is put *)
(* into a full queue, and holds again after the next reset.                *)
(***************************************************************************)
EXTENDS Integers, Sequences

CONSTANTS Byte, Capacity

VARIABLES fifo,   \* the bytes, oldest first
          over    \* a byte has been put into a full queue

Init == fifo = <<>> /\ over = FALSE

Put(x)  == Len(fifo) < Capacity /\ fifo' = Append(fifo, x) /\ UNCHANGED over
Get     == fifo # <<>> /\ fifo' = Tail(fifo) /\ UNCHANGED over
Clear   == fifo' = <<>> /\ over' = FALSE
Overrun == Len(fifo) = Capacity /\ over' = TRUE
Broken  == over /\ over' = TRUE

Next == (\E x \in Byte : Put(x)) \/ Get \/ Clear \/ Overrun \/ Broken

Spec == Init /\ [][Next]_<<fifo, over>>
=============================================================================
