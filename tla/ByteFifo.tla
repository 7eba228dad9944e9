------------------------------ MODULE ByteFifo ------------------------------
(***************************************************************************)
(* What the receive queue of src/hal/src/rx_queue.rs promises, without its *)
(* indices: a bounded first-in first-out queue that refuses the newest     *)
(* byte when it is full and keeps a saturating count of the refusals.      *)
(***************************************************************************)
EXTENDS Naturals, Sequences

CONSTANTS Byte,      \* the bytes
          N,         \* the capacity
          DropMax    \* where the tally saturates

VARIABLES queue,     \* the bytes held, oldest first
          dropped    \* the tally

fifoVars == <<queue, dropped>>

Init == queue = <<>> /\ dropped = 0

Accept(b) ==
    /\ Len(queue) < N
    /\ queue' = Append(queue, b)
    /\ UNCHANGED dropped

Refuse ==
    /\ Len(queue) = N
    /\ dropped' = IF dropped < DropMax THEN dropped + 1 ELSE DropMax
    /\ UNCHANGED queue

Remove ==
    /\ queue # <<>>
    /\ queue' = Tail(queue)
    /\ UNCHANGED dropped

Next == (\E b \in Byte : Accept(b)) \/ Refuse \/ Remove

Spec == Init /\ [][Next]_fifoVars
=============================================================================
