----------------------------- MODULE DmaChannel -----------------------------
(***************************************************************************)
(* One channel of the DMA controller as src/hal/src/dma.rs drives it in    *)
(* single-transfer mode: one item per rising edge of the trigger.          *)
(*                                                                         *)
(*   en      DMAEN, the channel is armed                                   *)
(*   size    the count it was armed with                                   *)
(*   left    DMAxSZ, which counts down and is reloaded on completion       *)
(*   done    DMAIFG, the completion flag                                   *)
(*   edge    the trigger rose while the channel was armed and the item     *)
(*           has not been moved yet                                        *)
(*                                                                         *)
(* A flag that is already high when the channel is armed gives no edge.    *)
(***************************************************************************)
EXTENDS Naturals

IdleChannel ==
    [en |-> FALSE, size |-> 0, left |-> 0, done |-> FALSE, edge |-> FALSE]

ChannelType(max) ==
    [en : BOOLEAN, size : 0 .. max, left : 0 .. max,
     done : BOOLEAN, edge : BOOLEAN]

\* arm_single: the whole-word write of DMAxCTL enables the channel and
\* clears a stale DMAIFG.
Armed(n) ==
    [en |-> TRUE, size |-> n, left |-> n, done |-> FALSE, edge |-> FALSE]

Disarmed(c) == [c EXCEPT !.en = FALSE, !.edge = FALSE]

DoneCleared(c) == [c EXCEPT !.done = FALSE]

\* remaining(): DMAxSZ, which reads the full count again once all is moved.
Remaining(c) == c.left

IsDone(c) == c.done

\* Silicon: the trigger rises.  A channel armed with a count of zero never
\* fires.
Triggered(c) == [c EXCEPT !.edge = c.en /\ c.left > 0]

\* Silicon: the pending item is moved, and the last one disarms the channel,
\* raises DMAIFG and reloads the count.
Moved(c) ==
    IF c.left = 1
      THEN [c EXCEPT !.en = FALSE, !.left = c.size, !.done = TRUE, !.edge = FALSE]
      ELSE [c EXCEPT !.left = c.left - 1, !.edge = FALSE]

\* The place in the block of the item the next move transfers.
NextItem(c) == c.size - c.left + 1
=============================================================================
