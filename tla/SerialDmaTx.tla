---------------------------- MODULE SerialDmaTx -----------------------------
(***************************************************************************)
(* Tx::write_all_dma of src/hal/src/serial.rs: burst after burst through   *)
(* one transmitter, the first byte of a burst written by CPU and the rest  *)
(* fed by DMA, one byte per rise of TXIFG.                                 *)
(*                                                                         *)
(* TXIFG idles high and rises when TXBUF hands its byte to the shift       *)
(* register.  CPU and channel both write TXBUF; nothing but the order of   *)
(* the CPU's steps keeps them apart, with the previous burst still leaving *)
(* the shift register.                                                     *)
(*                                                                         *)
(* Bytes are numbered in the order the program writes them.                *)
(***************************************************************************)
EXTENDS Integers, Sequences, DmaChannel

CONSTANTS MaxLen,    \* the longest burst
          MaxBytes   \* bound: how many bytes the program writes in all

ASSUME BoundsAssumption == MaxLen \in Nat \ {0} /\ MaxBytes \in Nat

VARIABLES
    pc,       \* where the CPU is: "idle" between two calls
    first,    \* the number of the call's first byte
    n,        \* the length of its buffer
    txbuf,    \* TXBUF; TXIFG is up exactly when it is empty
    shift,    \* the shift register
    wire,     \* what went over the wire
    ch        \* the DMA channel

vars == <<pc, first, n, txbuf, shift, wire, ch>>

Empty == 0

Init ==
    /\ pc = "idle"
    /\ first = 1
    /\ n = 0
    /\ txbuf = Empty
    /\ shift = Empty
    /\ wire = <<>>
    /\ ch = IdleChannel
-----------------------------------------------------------------------------
\* The silicon.  A write to an occupied TXBUF replaces the byte in it.
WriteTxbuf(b) == txbuf' = b

TxReady == txbuf = Empty

\* TXBUF moves to the shift register: TXIFG rises, and an armed channel sees
\* the edge.
HandOff ==
    /\ txbuf # Empty /\ shift = Empty
    /\ shift' = txbuf
    /\ txbuf' = Empty
    /\ ch' = Triggered(ch)
    /\ UNCHANGED <<pc, first, n, wire>>

ShiftOut ==
    /\ shift # Empty
    /\ wire' = Append(wire, shift)
    /\ shift' = Empty
    /\ UNCHANGED <<pc, first, n, txbuf, ch>>

\* rest.as_ptr() with increment: the channel walks the burst from its second
\* byte.
Source(c) == first + NextItem(c)

DmaMove ==
    /\ ch.edge
    /\ WriteTxbuf(Source(ch))
    /\ ch' = Moved(ch)
    /\ UNCHANGED <<pc, first, n, shift, wire>>
-----------------------------------------------------------------------------
At(label) == pc = label

\* write_all_dma with a buffer of k bytes.  Nothing to send is done at once;
\* a single byte needs no channel.
Call(k) ==
    /\ At("idle")
    /\ first + n + k <= MaxBytes + 1
    /\ first' = first + n
    /\ n' = k
    /\ pc' = CASE k = 0 -> "idle" [] k = 1 -> "single" [] OTHER -> "ready"
    /\ UNCHANGED <<txbuf, shift, wire, ch>>

\* nb::block!(try_write_byte(first)): one access tests TXIFG, the next
\* writes.
Single ==
    /\ At("single")
    /\ TxReady
    /\ WriteTxbuf(first)
    /\ pc' = "idle"
    /\ UNCHANGED <<first, n, shift, wire, ch>>

\* (mutation: the channel armed with the previous burst still in TXBUF)
AwaitReadySkipped ==
    /\ At("ready")
    /\ pc' = "arm"
    /\ UNCHANGED <<first, n, txbuf, shift, wire, ch>>

\* while !tx_ready() {}: TXBUF must be free before the channel is armed.
AwaitReady ==
    /\ At("ready")
    /\ TxReady
    /\ pc' = "arm"
    /\ UNCHANGED <<first, n, txbuf, shift, wire, ch>>

\* (mutation: the count of the whole burst)
ArmWholeBurst ==
    /\ At("arm")
    /\ ch' = Armed(n)
    /\ pc' = "prime"
    /\ UNCHANGED <<first, n, txbuf, shift, wire>>

ArmRest ==
    /\ At("arm")
    /\ ch' = Armed(n - 1)
    /\ pc' = "prime"
    /\ UNCHANGED <<first, n, txbuf, shift, wire>>

\* The CPU writes the first byte without a further test.
Prime ==
    /\ At("prime")
    /\ WriteTxbuf(first)
    /\ pc' = "wait"
    /\ UNCHANGED <<first, n, shift, wire, ch>>

\* (mutation: the call returns with the channel under way)
WaitDoneAtOnce ==
    /\ At("wait")
    /\ ch' = DoneCleared(ch)
    /\ pc' = "idle"
    /\ UNCHANGED <<first, n, txbuf, shift, wire>>

WaitDone ==
    /\ At("wait")
    /\ IsDone(ch)
    /\ ch' = DoneCleared(ch)
    /\ pc' = "idle"
    /\ UNCHANGED <<first, n, txbuf, shift, wire>>

InCall == Single \/ AwaitReady \/ ArmRest \/ Prime \/ WaitDone

Hardware == HandOff \/ ShiftOut \/ DmaMove

Next == Hardware \/ InCall \/ (\E k \in 0 .. MaxLen : Call(k))

Spec == Init /\ [][Next]_vars

\* The transmitter and the channel work, and a call once made runs; nobody
\* is obliged to make one.
Fairness ==
    /\ WF_vars(InCall) /\ WF_vars(HandOff)
    /\ WF_vars(ShiftOut) /\ WF_vars(DmaMove)

FairSpec == Spec /\ Fairness
-----------------------------------------------------------------------------
TypeOK ==
    /\ pc \in {"idle", "single", "ready", "arm", "prime", "wait"}
    /\ first \in 1 .. MaxBytes + 1
    /\ n \in 0 .. MaxLen
    /\ txbuf \in 0 .. MaxBytes
    /\ shift \in 0 .. MaxBytes
    /\ wire \in Seq(1 .. MaxBytes)
    /\ ch \in ChannelType(MaxLen)

Held(r) == IF r = Empty THEN <<>> ELSE <<r>>

\* What left, what is leaving and what waits in TXBUF.
Out == wire \o Held(shift) \o Held(txbuf)

\* serial.rs:468-474: no byte is dropped or transposed, however far the
\* previous burst has drained when the next one starts.
InOrder == \A i \in 1 .. Len(Out) : Out[i] = i

\* serial.rs:448-454: a call returns once its last byte was accepted, and
\* not before, with the channel out of the caller's buffer.
AcceptedWhenDone ==
    pc = "idle" => /\ Len(Out) = first + n - 1
                   /\ ~ch.en /\ ~ch.edge

\* Every call returns.
CallsReturn == (pc # "idle") ~> (pc = "idle")
=============================================================================
