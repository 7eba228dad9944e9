---------------------------- MODULE MCReception -----------------------------
(***************************************************************************)
(* The three ways a received byte takes: through an interrupt into the     *)
(* queue, by DMA into a buffer, and into a loop that polls, on which the   *)
(* commands of the two-board rig rely.  They share no state, so that the   *)
(* run chooses one at the start.                                           *)
(*                                                                         *)
(* A two-slot queue whose indices wrap after four values: every position   *)
(* of the wrap against a full, an empty and a half-full queue is reached.  *)
(* Buffers of one to four bytes: zero, one or more bytes go by CPU before  *)
(* the channel takes over, and any number of them by DMA.  Two boards,     *)
(* any number of hosts one after the other, each aborted anywhere, with    *)
(* any choice of the suites.                                               *)
(***************************************************************************)
EXTENDS RxQueue

CONSTANTS MaxLen, Burst

ASSUME BoundsAssumption == MaxLen \in Nat \ {0} /\ Burst \in Nat \ {0}

MCByte == {0, 1}
MCZero == 0

VARIABLES
    unit,
    len, dmaBuf, filled, pc, status, result, rxbuf, rxifg, ucoe, ch, landed, torn,
    mode, rx, poked, b0, latched, tainted, left, good, tally, edges, wire, out, open,
    phase, who, found, suite, todo

Dma == INSTANCE SerialDmaRx WITH buf <- dmaBuf, Surplus <- 0

Rig == INSTANCE TwoBoard

dma == <<len, dmaBuf, filled, pc, status, result, rxbuf, rxifg, ucoe, ch, landed, torn>>
rig == <<mode, rx, poked, b0, latched, tainted, left, good, tally, edges, wire, out,
         open, phase, who, found, suite, todo>>
allVars == <<unit, vars, dma, rig>>

OnQueue == unit = "queue" /\ UNCHANGED <<unit, dma, rig>>
OnDma   == unit = "dma"   /\ UNCHANGED <<unit, vars, rig>>
OnRig   == unit = "rig"   /\ UNCHANGED <<unit, vars, dma>>

MCInit ==
    /\ unit \in {"queue", "dma", "rig"}
    /\ Init /\ Dma!Init /\ Rig!Init
    /\ unit # "dma" => len = 1

MCNext ==
    \/ OnQueue /\ Next
    \/ OnDma   /\ Dma!Next
    \/ OnRig   /\ Rig!Next

\* The CPUs and the host run, the peer sends what it has to send and the
\* channel moves it, and a byte on a wire arrives.
MCFairness ==
    /\ WF_allVars(OnDma /\ Dma!Cpu)
    /\ WF_allVars(OnDma /\ Dma!DmaMove)
    /\ WF_allVars(OnDma /\ Dma!Land)
    /\ WF_allVars(OnRig /\ Rig!HostRuns)
    /\ \A b \in Rig!Board :
         WF_allVars(OnRig /\ Rig!Arrive(b)) /\ WF_allVars(OnRig /\ Rig!Executes(b))

MCSpec == MCInit /\ [][MCNext]_allVars /\ MCFairness

\* The DMA call and the rig are well typed (TypeOK is the queue's).
TypesOK == Dma!TypeOK /\ Rig!TypeOK

\* serial.rs:535-538: the call receives exactly the peer's stream, whichever
\* bytes went by CPU and whichever by DMA.
OkMeansTheStream == Dma!OkMeansTheStream

\* serial.rs:582-587: the channel is out of the buffer when the call returns.
ChannelOutOfBuffer == Dma!ChannelOutOfBuffer

\* boards.rs:103-107, 163-165: whatever the host before left behind, no suite
\* loses a command to an overrun or to a board that is in another loop.
CommandsHeard == Rig!CommandsHeard

\* suites.rs: no suite but the I2C bridge fails for what an aborted one left
\* behind, and that one only if its slave was taken up with something latched.
VerdictsHonest == Rig!VerdictsHonest

\* serial.rs:577-581, boards.rs:88-91, 100-103: a call never waits for an edge
\* that is spent, nor a host for an answer that will not come.
WaitsEnd == (unit = "dma" => Dma!Returns) /\ Rig!RunsEnd
=============================================================================
