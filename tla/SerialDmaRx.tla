---------------------------- MODULE SerialDmaRx -----------------------------
(***************************************************************************)
(* Rx::read_exact_dma of src/hal/src/serial.rs: receive exactly len bytes, *)
(* those already latched by CPU and the rest by DMA.                       *)
(*                                                                         *)
(* Four actors interleave: the wire, which lands the peer's bytes in       *)
(* RXBUF; the DMA channel, which moves a byte when it saw RXIFG rise; the  *)
(* CPU running the call one register access at a time; and interrupt       *)
(* handlers, which are the reason why any number of bytes may land between *)
(* two steps of the CPU.  What the code's comments grant is granted here:  *)
(* the channel moves a byte before the CPU's next access.                  *)
(*                                                                         *)
(* The peer's bytes are 1, 2, 3, ...: a byte is its place in the stream.   *)
(***************************************************************************)
EXTENDS Naturals, Sequences, DmaChannel

CONSTANTS MaxLen,   \* the longest buffer a call is made with
          Surplus   \* how many bytes the peer sends beyond the buffer

VARIABLES
    len, buf, filled, \* the caller's buffer and how much of it is filled
    pc,               \* where the CPU is in the call
    status,           \* the local `status`: does the STATW snapshot report an overrun?
    result,           \* "none" while the call runs, then "ok" or "error"
    rxbuf, rxifg, ucoe, \* RXBUF, UCRXIFG and the overrun flag
    ch,               \* the DMA channel
    landed,           \* history: how many bytes the wire has landed
    torn              \* history: a byte landed between STATW and RXBUF reads

cpu == <<len, filled, pc, status, result>>
uart == <<rxbuf, rxifg, ucoe>>
vars == <<len, buf, filled, pc, status, result, rxbuf, rxifg, ucoe, ch,
          landed, torn>>

Total == len + Surplus
None == 0

Init ==
    /\ len \in 1 .. MaxLen
    /\ buf = [i \in 1 .. len |-> None]
    /\ filled = 0
    /\ pc = "drain"
    /\ status = FALSE
    /\ result = "none"
    /\ rxbuf = None /\ rxifg = FALSE /\ ucoe = FALSE
    /\ ch = IdleChannel
    /\ landed = 0
    /\ torn = FALSE
-----------------------------------------------------------------------------
\* The silicon, as the code uses it.

\* A byte lands.  If the last one was not read yet it is lost, UCOE says so,
\* and RXIFG, being up, does not rise.  A byte takes hundreds of CPU cycles,
\* so the channel is through with one before the next one lands.
Land ==
    /\ landed < Total
    /\ ~ch.edge
    /\ landed' = landed + 1
    /\ rxbuf' = landed + 1
    /\ rxifg' = TRUE
    /\ ucoe' = (ucoe \/ rxifg)
    /\ ch' = IF rxifg THEN ch ELSE Triggered(ch)
    /\ torn' = (torn \/ pc = "read")
    /\ UNCHANGED <<buf, cpu>>

\* Reading RXBUF gives the byte and clears RXIFG and the error flags.
ReadRxbuf ==
    /\ rxifg' = FALSE
    /\ ucoe' = FALSE
    /\ UNCHANGED rxbuf

\* (mutation: the channel armed on the start of the buffer)
DestinationFromStart(c) == NextItem(c)

\* The address the channel was armed with, buf + filled, and its increment:
\* the place in the buffer of the next byte it moves.
Destination(c) == len - c.size + NextItem(c)

\* The channel moves RXBUF to the buffer, behind what the CPU filled.
DmaMove ==
    /\ ch.edge
    /\ ReadRxbuf
    /\ buf' = [buf EXCEPT ![Destination(ch)] = rxbuf]
    /\ ch' = Moved(ch)
    /\ UNCHANGED <<cpu, landed, torn>>
-----------------------------------------------------------------------------
\* The call.  The channel wins the bus before the CPU's next access.
At(label) == pc = label /\ ~ch.edge

\* while filled < buf.len() && rx_ready(): the test, which is also the first
\* test of try_read_byte, as nobody but the CPU lowers RXIFG here.
Drain ==
    /\ At("drain")
    /\ pc' = IF filled = len THEN "return" ELSE IF rxifg THEN "status" ELSE "arm"
    /\ UNCHANGED <<len, buf, filled, status, result, uart, ch, landed, torn>>

\* try_read_byte: STATW first, as reading RXBUF clears the error flags.
ReadStatus ==
    /\ At("status")
    /\ status' = ucoe
    /\ pc' = "read"
    /\ UNCHANGED <<len, buf, filled, result, uart, ch, landed, torn>>

\* try_read_byte: an overrun ends the call, a good byte goes to the buffer.
ReadByte ==
    /\ At("read")
    /\ ReadRxbuf
    /\ IF status
         THEN /\ pc' = "return" /\ result' = "error"
              /\ UNCHANGED <<buf, filled>>
         ELSE /\ buf' = [buf EXCEPT ![filled + 1] = rxbuf]
              /\ filled' = filled + 1
              /\ pc' = "drain"
              /\ UNCHANGED result
    /\ UNCHANGED <<len, status, ch, landed, torn>>

\* (mutation: a count one too large)
ArmOneMore ==
    /\ At("arm")
    /\ ch' = Armed(len - filled + 1)
    /\ pc' = "check"
    /\ UNCHANGED <<len, buf, filled, status, result, uart, landed, torn>>

\* arm_single_bytes for the rest of the buffer
Arm ==
    /\ At("arm")
    /\ ch' = Armed(len - filled)
    /\ pc' = "check"
    /\ UNCHANGED <<len, buf, filled, status, result, uart, landed, torn>>

\* (mutation: no second look at RXIFG once the channel is armed)
CheckSkipped ==
    /\ At("check")
    /\ pc' = "wait"
    /\ UNCHANGED <<len, buf, filled, status, result, uart, ch, landed, torn>>

\* if rx_ready() && ch.remaining() == count: two accesses, one after the
\* other.
CheckReady ==
    /\ At("check")
    /\ pc' = IF rxifg THEN "remaining" ELSE "wait"
    /\ UNCHANGED <<len, buf, filled, status, result, uart, ch, landed, torn>>

CheckRemaining ==
    /\ At("remaining")
    /\ pc' = IF Remaining(ch) = len - filled THEN "disarm" ELSE "wait"
    /\ UNCHANGED <<len, buf, filled, status, result, uart, ch, landed, torn>>

\* (mutation: the channel left armed when the CPU goes around)
DisarmForgotten ==
    /\ At("disarm")
    /\ pc' = "drain"
    /\ UNCHANGED <<len, buf, filled, status, result, uart, ch, landed, torn>>

\* The byte in RXBUF is taken for one whose edge the channel missed: go
\* around.
Disarm ==
    /\ At("disarm")
    /\ ch' = Disarmed(ch)
    /\ pc' = "drain"
    /\ UNCHANGED <<len, buf, filled, status, result, uart, landed, torn>>

\* wait_done, then filled = buf.len(), which ends the loop.
WaitDone ==
    /\ At("wait")
    /\ IsDone(ch)
    /\ ch' = DoneCleared(ch)
    /\ filled' = len
    /\ pc' = "drain"
    /\ UNCHANGED <<len, buf, status, result, uart, landed, torn>>

Return ==
    /\ At("return")
    /\ result = "none"
    /\ result' = "ok"
    /\ UNCHANGED <<len, buf, filled, pc, status, uart, ch, landed, torn>>

Cpu ==
    \/ Drain \/ ReadStatus \/ ReadByte \/ Arm \/ CheckReady
    \/ CheckRemaining \/ Disarm \/ WaitDone \/ Return

Next == Land \/ DmaMove \/ Cpu

Spec == Init /\ [][Next]_vars

\* The CPU runs, a pending transfer is serviced, and the peer sends all it
\* has to send.
Fairness == WF_vars(Cpu) /\ WF_vars(DmaMove) /\ WF_vars(Land)

FairSpec == Spec /\ Fairness
-----------------------------------------------------------------------------
TypeOK ==
    /\ len \in 1 .. MaxLen
    /\ buf \in [1 .. len -> 0 .. Total]
    /\ filled \in 0 .. len
    /\ pc \in {"drain", "status", "read", "arm", "check", "remaining",
               "disarm", "wait", "return"}
    /\ status \in BOOLEAN
    /\ result \in {"none", "ok", "error"}
    /\ rxbuf \in 0 .. Total
    /\ rxifg \in BOOLEAN /\ ucoe \in BOOLEAN
    /\ ch \in ChannelType(len)
    /\ landed \in 0 .. Total
    /\ torn \in BOOLEAN

\* serial.rs:535-538: the call receives exactly buf.len() bytes: what it
\* returns Ok with is the stream from its beginning, without a hole, a
\* repetition or a transposition, whichever bytes went by CPU and whichever
\* by DMA.  (A byte that lands between the reads of STATW and RXBUF replaces
\* the one whose status was read: that loss is the silicon's to report.)
OkMeansTheStream ==
    result = "ok" /\ ~torn => \A i \in 1 .. len : buf[i] = i

\* The channel is out of the buffer before the borrow of it ends, on every
\* way out of the call.
ChannelOutOfBuffer == pc = "return" => ~ch.en /\ ~ch.edge

\* serial.rs:577-581: remaining() == count tells a byte whose edge the
\* channel missed from one it serviced, so what the channel has written is
\* never thrown away.
DisarmOnlyUntouched ==
    pc = "disarm" => \A i \in filled + 1 .. len : buf[i] = None

\* The call never waits for an edge that is already spent: with all the
\* bytes sent, it returns.
Returns == <>(result # "none" \/ torn)
=============================================================================
