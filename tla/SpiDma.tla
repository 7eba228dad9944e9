------------------------------- MODULE SpiDma --------------------------------
(***************************************************************************)
(* The SPI master of src/hal/src/spi.rs: the byte-by-byte operations and   *)
(* their DMA-paced twins, which promise the same exchange with one channel *)
(* feeding TXBUF and another draining RXBUF.                               *)
(*                                                                         *)
(* A call is a list of passes, each a run of bytes with one source and one *)
(* destination; transfer_dma with slices of different lengths makes two.   *)
(* The i-th byte a call clocks out is answered by Answer(i).               *)
(*                                                                         *)
(* PromptChannel is what the code takes for granted: the receive channel   *)
(* moves a byte before the next one has been shifted in.                   *)
(***************************************************************************)
EXTENDS Integers, Sequences, DmaChannel

CONSTANT MaxLen   \* the longest slice, a natural number

VARIABLES
    pc,        \* where the CPU is: "idle" between two calls
    r, w,      \* how many bytes the call reads and writes
    passes,    \* what is left of the call
    mem,       \* the slice that is read into
    txbuf, shift,     \* TXIFG is up exactly when txbuf is empty
    rxbuf, rxifg,
    sent,      \* what the call clocked out
    rx, tx     \* the two channels

call == <<r, w, passes>>
bus == <<txbuf, shift, rxbuf, rxifg, sent>>
vars == <<pc, r, w, passes, mem, txbuf, shift, rxbuf, rxifg, sent, rx, tx>>

Out(i) == <<"out", i>>
Answer(i) == <<"in", i>>
Dummy == <<"dummy", 0>>
None == <<"none", 0>>
Byte == {Dummy, None} \cup {Out(i) : i \in 1 .. MaxLen} \cup {Answer(i) : i \in 1 .. MaxLen}

\* The read slice of transfer_in_place is the write slice.
Fresh == [i \in 1 .. MaxLen |-> Out(i)]

Init ==
    /\ pc = "idle"
    /\ r = 0 /\ w = 0 /\ passes = <<>>
    /\ mem = Fresh
    /\ txbuf = None /\ shift = None
    /\ rxbuf = None /\ rxifg = FALSE
    /\ sent = <<>>
    /\ rx = IdleChannel /\ tx = IdleChannel
-----------------------------------------------------------------------------
Pass(src, dst, off, n) == [src |-> src, dst |-> dst, off |-> off, n |-> n]

Now == Head(passes)

\* The byte a pass sends at its place i, read from memory when it is asked
\* for.
Source(i) == CASE Now.src = "words" -> Out(Now.off + i)
               [] Now.src = "mem"   -> mem[Now.off + i]
               [] Now.src = "dummy" -> Dummy

Stored(i, b) == IF Now.dst = "mem" THEN [mem EXCEPT ![Now.off + i] = b] ELSE mem

\* The silicon.  TXBUF moves to the shift register, TXIFG rises.
HandOff ==
    /\ txbuf # None /\ shift = None
    /\ shift' = txbuf
    /\ txbuf' = None
    /\ tx' = Triggered(tx)
    /\ UNCHANGED <<pc, call, mem, rxbuf, rxifg, sent, rx>>

PromptChannel == ~rx.edge

\* A byte is out and its answer in.  A flag that is up already cannot rise.
Clock ==
    /\ shift # None
    /\ PromptChannel
    /\ sent' = Append(sent, shift)
    /\ shift' = None
    /\ rxbuf' = Answer(Len(sent) + 1)
    /\ rxifg' = TRUE
    /\ rx' = IF rxifg THEN rx ELSE Triggered(rx)
    /\ UNCHANGED <<pc, call, mem, txbuf, tx>>

MoveIn ==
    /\ rx.edge
    /\ mem' = Stored(NextItem(rx), rxbuf)
    /\ rxifg' = FALSE
    /\ rx' = Moved(rx)
    /\ UNCHANGED <<pc, call, txbuf, shift, rxbuf, sent, tx>>

\* The feeding channel starts at the second byte of the pass.
MoveOut ==
    /\ tx.edge
    /\ txbuf' = Source(NextItem(tx) + 1)
    /\ tx' = Moved(tx)
    /\ UNCHANGED <<pc, call, mem, shift, rxbuf, rxifg, sent, rx>>
-----------------------------------------------------------------------------
Begin(reads, writes, list, first) ==
    /\ pc = "idle"
    /\ r' = reads /\ w' = writes
    /\ passes' = list
    /\ pc' = IF list = <<>> THEN "idle" ELSE first
    /\ mem' = Fresh
    /\ sent' = <<>>
    /\ UNCHANGED <<txbuf, shift, rxbuf, rxifg, rx, tx>>

\* A pass over nothing is not made.
Run(src, dst, off, n) == IF n > 0 THEN <<Pass(src, dst, off, n)>> ELSE <<>>

WriteDma(n) == Begin(0, n, Run("words", "scratch", 0, n), "ready")

ReadDma(n) == Begin(n, 0, Run("dummy", "mem", 0, n), "ready")

TransferInPlaceDma(n) == Begin(n, n, Run("mem", "mem", 0, n), "ready")

Least(a, b) == IF a < b THEN a ELSE b

\* (mutation: the overhang sent from the start of the slice)
TransferRunsRestarting(n, m) ==
    LET common == Least(n, m)
    IN  Run("words", "mem", 0, common) \o
          (IF m > common THEN Run("words", "scratch", 0, m - common)
           ELSE Run("dummy", "mem", common, n - common))

\* The common part in one pass, and the rest of the longer slice in another.
TransferRuns(n, m) ==
    LET common == Least(n, m)
    IN  Run("words", "mem", 0, common) \o
          (IF m > common THEN Run("words", "scratch", common, m - common)
           ELSE Run("dummy", "mem", common, n - common))

TransferDma(n, m) == Begin(n, m, TransferRuns(n, m), "ready")

\* The polled operations: transfer with slices of n and m bytes; write and
\* read are the cases n = 0 and m = 0.
TransferPolled(n, m) == Begin(n, m, TransferRuns(n, m), "put")

TransferInPlacePolled(n) == Begin(n, n, Run("mem", "mem", 0, n), "put")

\* The next byte of the call, counted by what was clocked out.
Place == Len(sent) + 1 - Now.off

\* transfer_byte: TXBUF is written once free, and RXBUF read once full.
PutByte ==
    /\ pc = "put"
    /\ txbuf = None
    /\ txbuf' = Source(Place)
    /\ pc' = "get"
    /\ UNCHANGED <<call, mem, shift, rxbuf, rxifg, sent, rx, tx>>

Following(stage) ==
    /\ passes' = Tail(passes)
    /\ pc' = IF Tail(passes) = <<>> THEN "idle" ELSE stage

GetByte ==
    /\ pc = "get"
    /\ rxifg
    /\ mem' = Stored(Place - 1, rxbuf)
    /\ rxifg' = FALSE
    /\ \/ Place > Now.n /\ Following("put")
       \/ Place <= Now.n /\ pc' = "put" /\ UNCHANGED passes
    /\ UNCHANGED <<r, w, txbuf, shift, rxbuf, sent, rx, tx>>

\* dma_clock_bytes: TXBUF must be free before anything is armed.
AwaitReady ==
    /\ pc = "ready"
    /\ txbuf = None
    /\ pc' = "drain"
    /\ UNCHANGED <<call, mem, bus, rx, tx>>

\* A stale byte, if there were one, is dropped, so that the first answer
\* raises the flag.
Drain ==
    /\ pc = "drain"
    /\ pc' = "arm_receive"
    /\ rxifg' = FALSE
    /\ UNCHANGED <<call, mem, txbuf, shift, rxbuf, sent, rx, tx>>

ArmReceive ==
    /\ pc = "arm_receive"
    /\ rx' = Armed(Now.n)
    /\ pc' = IF Now.n > 1 THEN "arm_transmit" ELSE "prime"
    /\ UNCHANGED <<call, mem, bus, tx>>

ArmTransmit ==
    /\ pc = "arm_transmit"
    /\ tx' = Armed(Now.n - 1)
    /\ pc' = "prime"
    /\ UNCHANGED <<call, mem, bus, rx>>

\* The first byte by CPU; its hand-off is the first edge the feeding channel
\* sees.
Prime ==
    /\ pc = "prime"
    /\ txbuf' = Source(1)
    /\ pc' = "wait_receive"
    /\ UNCHANGED <<call, mem, shift, rxbuf, rxifg, sent, rx, tx>>

\* (mutation: the end of the feeding taken for the end of the call)
WaitFedOnly ==
    /\ pc = "wait_receive"
    /\ Now.n = 1 \/ IsDone(tx)
    /\ rx' = DoneCleared(rx)
    /\ tx' = DoneCleared(tx)
    /\ Following("ready")
    /\ UNCHANGED <<r, w, mem, bus>>

\* Reception of the last byte is the end of the pass.
WaitReceive ==
    /\ pc = "wait_receive"
    /\ IsDone(rx)
    /\ rx' = DoneCleared(rx)
    /\ \/ Now.n > 1 /\ pc' = "wait_transmit" /\ UNCHANGED passes
       \/ Now.n = 1 /\ Following("ready")
    /\ UNCHANGED <<r, w, mem, bus, tx>>

WaitTransmit ==
    /\ pc = "wait_transmit"
    /\ IsDone(tx)
    /\ tx' = DoneCleared(tx)
    /\ Following("ready")
    /\ UNCHANGED <<r, w, mem, bus, rx>>

InCall ==
    \/ PutByte \/ GetByte
    \/ AwaitReady \/ Drain \/ ArmReceive \/ ArmTransmit \/ Prime
    \/ WaitReceive \/ WaitTransmit

Hardware == HandOff \/ Clock \/ MoveIn \/ MoveOut

Call ==
    \E n \in 0 .. MaxLen :
        \/ WriteDma(n) \/ ReadDma(n) \/ TransferInPlaceDma(n)
        \/ TransferInPlacePolled(n)
        \/ \E m \in 0 .. MaxLen : TransferDma(n, m) \/ TransferPolled(n, m)

Next == Hardware \/ InCall \/ Call

Spec == Init /\ [][Next]_vars
-----------------------------------------------------------------------------
TypeOK ==
    /\ pc \in {"idle", "put", "get", "ready", "drain", "arm_receive",
               "arm_transmit", "prime", "wait_receive", "wait_transmit"}
    /\ r \in 0 .. MaxLen /\ w \in 0 .. MaxLen
    /\ \A i \in 1 .. Len(passes) : passes[i].n \in 1 .. MaxLen
    /\ mem \in [1 .. MaxLen -> Byte]
    /\ {txbuf, shift, rxbuf} \subseteq Byte
    /\ rxifg \in BOOLEAN
    /\ Len(sent) <= MaxLen
    /\ rx \in ChannelType(MaxLen) /\ tx \in ChannelType(MaxLen)

Greatest(a, b) == IF a > b THEN a ELSE b

\* spi.rs:403-440: a call sends its slice padded with zeroes, stores answer
\* after answer, and touches nothing beyond what it was asked to read; polled
\* or by DMA, in one pass or in two, with one slice for both directions or
\* with two, and whatever the call before left in RXBUF.
Exchanged ==
    pc = "idle" =>
        /\ sent = [i \in 1 .. Greatest(r, w) |-> IF i <= w THEN Out(i) ELSE Dummy]
        /\ mem = [i \in 1 .. MaxLen |-> IF i <= r THEN Answer(i) ELSE Out(i)]

\* And the bus is quiet when the call returns, its channels out of the
\* caller's memory: no byte is under way, none waits in RXBUF to be taken
\* for the next call's.
QuietAtReturn ==
    pc = "idle" /\ sent # <<>> =>
        /\ txbuf = None /\ shift = None /\ ~rxifg
        /\ \A c \in {rx, tx} : ~c.en /\ ~c.done

\* Every call returns: each channel hears as many edges as it was armed for.
CallsReturn == pc # "idle" ~> pc = "idle"
=============================================================================
