------------------------------ MODULE I2cSlave ------------------------------
(***************************************************************************)
(* I2cSlave of src/hal/src/i2c.rs: the event pump poll(), which turns the  *)
(* pending flags of the eUSCI into at most one event per call, against a   *)
(* master that keeps driving the bus between any two of its register       *)
(* accesses.                                                               *)
(*                                                                         *)
(* The silicon stretches SCL: a byte written by the master lands only when *)
(* RXBUF is free, and a byte read by the master leaves only when TXBUF was *)
(* loaded.  START, STOP and the flags they set are not held up.  A segment *)
(* is what goes from one START or repeated START to the next, or to the    *)
(* STOP.                                                                   *)
(***************************************************************************)
EXTENDS Integers, Sequences

CONSTANTS
    MaxSegments,      \* bound: how many segments the master drives
    MaxBytes,         \* bound: bytes in a segment
    PromptPolling,    \* does the loop keep up with the bus? (see below)
    RestartAfterRead  \* does the master follow a read by a repeated START?

VARIABLES
    seg,          \* the segment on the bus: "idle", "write" or "read"
    segNo,        \* how many there were
    moved,        \* the bytes it has moved so far
    nacked,       \* the master has NACKed the last byte it reads
    stt, stp,     \* UCSTTIFG and UCSTPIFG
    uctr,         \* the direction of the last address byte
    attached,     \* the slave takes part in the transaction on the bus
    rx,           \* RXBUF; UCRXIFG is up when it holds a byte
    tx, shift,    \* TXBUF and the byte being clocked out; UCTXIFG is up
                  \* when TXBUF is empty
    pc,           \* where the CPU is in poll and in the loop around it
    transmitting, \* the driver's field
    appSeg,       \* how many Start events the application was given
    bus, seen,    \* history: the events on the bus, and those delivered
    stale         \* history: the master read a byte of another segment

busVars == <<seg, segNo, moved, nacked, bus>>
hwVars == <<stt, stp, uctr, attached, rx, tx, shift>>
swVars == <<pc, transmitting, appSeg, seen>>
vars == <<busVars, hwVars, swVars, stale>>

None == 0

Start(d) == <<"start", d>>
Received(b) == <<"received", b>>
Stop == <<"stop">>

Init ==
    /\ seg = "idle" /\ segNo = 0 /\ moved = 0 /\ nacked = FALSE
    /\ stt = FALSE /\ stp = FALSE /\ uctr = "write" /\ attached = FALSE
    /\ rx = None /\ tx = None /\ shift = None
    /\ pc = "poll" /\ transmitting = FALSE /\ appSeg = 0
    /\ bus = <<>> /\ seen = <<>>
    /\ stale = FALSE
-----------------------------------------------------------------------------
\* The master and the silicon.

\* What prompt polling spares the slave: a START is polled before the bus
\* does more than end its transaction, and the STOP of a master-read before
\* the next START; one STOP is polled before the next.
StartPolled == ~stt /\ pc \notin {"start", "direction"}
ReadEnded == pc # "flush" /\ (stp => ~transmitting)

\* A START, or a repeated START: the own address is ACKed, UCTR takes the
\* direction and UCBBUSY is up until the STOP.
MasterStart(d) ==
    /\ segNo < MaxSegments
    /\ seg = "read" => nacked /\ RestartAfterRead
    /\ PromptPolling => StartPolled /\ ReadEnded
    /\ seg' = d
    /\ segNo' = segNo + 1
    /\ moved' = 0
    /\ nacked' = FALSE
    /\ stt' = TRUE
    /\ uctr' = d
    /\ attached' = TRUE
    /\ bus' = Append(bus, Start(d))
    /\ UNCHANGED <<stp, rx, tx, shift, swVars, stale>>

\* A byte written by the master lands in RXBUF once that is free.
MasterWrite ==
    /\ seg = "write" /\ attached
    /\ moved < MaxBytes
    /\ rx = None
    /\ PromptPolling => StartPolled
    /\ rx' = Len(bus) + 1
    /\ moved' = moved + 1
    /\ bus' = Append(bus, Received(Len(bus) + 1))
    /\ UNCHANGED <<seg, segNo, nacked, stt, stp, uctr, attached, tx, shift,
                   swVars, stale>>

\* TXBUF moves to the shift register, which raises UCTXIFG: the next byte is
\* asked for before the master says whether it wants it.
LoadShift ==
    /\ seg = "read" /\ ~nacked
    /\ tx # None /\ shift = None
    /\ shift' = tx
    /\ tx' = None
    /\ UNCHANGED <<busVars, stt, stp, uctr, attached, rx, swVars, stale>>

\* The master clocks a byte in, and ACKs it or NACKs it as its last.
MasterRead(last) ==
    /\ seg = "read" /\ ~nacked
    /\ shift # None
    /\ last \/ moved + 1 < MaxBytes
    /\ shift' = None
    /\ moved' = moved + 1
    /\ nacked' = last
    /\ stale' = (stale \/ shift # segNo)
    /\ UNCHANGED <<seg, segNo, bus, stt, stp, uctr, attached, rx, tx, swVars>>

MasterStop ==
    /\ seg = "write" \/ (seg = "read" /\ (nacked \/ ~attached))
    /\ PromptPolling => ~stp
    /\ seg' = "idle"
    /\ stp' = (stp \/ attached)
    /\ bus' = Append(bus, Stop)
    /\ UNCHANGED <<segNo, moved, nacked, stt, uctr, attached, rx, tx, shift,
                   swVars, stale>>

Busy == seg # "idle"
-----------------------------------------------------------------------------
\* poll(), one register access at a time.

\* What one reading of UCBxIFG makes poll do next.  A STOP and a START both
\* pending are told apart by UCBBUSY, read afterwards.
Decide(rxifg, sttifg, stpifg, txifg) ==
    CASE rxifg -> "receive"
      [] ~rxifg /\ stpifg /\ sttifg -> "busy?"
      [] ~rxifg /\ stpifg /\ ~sttifg -> "stop"
      [] ~rxifg /\ ~stpifg /\ sttifg -> "start"
      [] OTHER -> IF transmitting /\ txifg THEN "answer" ELSE "poll"

Poll ==
    /\ pc = "poll"
    /\ pc' = Decide(rx # None, stt, stp, tx = None)
    /\ pc' # "poll"
    /\ UNCHANGED <<busVars, hwVars, transmitting, appSeg, seen, stale>>

Receive ==
    /\ pc = "receive"
    /\ rx' = None
    /\ seen' = Append(seen, Received(rx))
    /\ pc' = "poll"
    /\ UNCHANGED <<busVars, stt, stp, uctr, attached, tx, shift, transmitting,
                   appSeg, stale>>

\* (mutation: a STOP always taken for the older of the two)
ReadBusyIgnored ==
    /\ pc = "busy?"
    /\ pc' = "stop"
    /\ UNCHANGED <<busVars, hwVars, transmitting, appSeg, seen, stale>>

\* start_first: the bus is idle, so the STOP ended the START's transaction.
ReadBusy ==
    /\ pc = "busy?"
    /\ pc' = IF Busy THEN "stop" ELSE "start"
    /\ UNCHANGED <<busVars, hwVars, transmitting, appSeg, seen, stale>>

\* (mutation: both flags cleared at the STOP)
ClearStopAndStart ==
    /\ pc = "stop"
    /\ stp' = FALSE /\ stt' = FALSE
    /\ transmitting' = FALSE
    /\ IF transmitting
         THEN pc' = "flush" /\ UNCHANGED seen
         ELSE pc' = "poll" /\ seen' = Append(seen, Stop)
    /\ UNCHANGED <<busVars, uctr, attached, rx, tx, shift, appSeg, stale>>

\* STPIFG is cleared; after a master-read the stale byte is flushed first.
ClearStop ==
    /\ pc = "stop"
    /\ stp' = FALSE
    /\ transmitting' = FALSE
    /\ IF transmitting
         THEN pc' = "flush" /\ UNCHANGED seen
         ELSE pc' = "poll" /\ seen' = Append(seen, Stop)
    /\ UNCHANGED <<busVars, stt, uctr, attached, rx, tx, shift, appSeg, stale>>

\* (mutation: the speculative byte left in TXBUF)
FlushSkipped ==
    /\ pc = "flush"
    /\ seen' = Append(seen, Stop)
    /\ pc' = "poll"
    /\ UNCHANGED <<busVars, hwVars, transmitting, appSeg, stale>>

\* flush_stale_tx_byte: UCTXIFG down means a byte sits in TXBUF that nobody
\* clocked out.  The reset empties TXBUF; every flag goes with it, and a
\* transaction that is open by then goes on without the slave.
Flush ==
    /\ pc = "flush"
    /\ IF tx = None
         THEN UNCHANGED hwVars
         ELSE /\ tx' = None /\ shift' = None /\ rx' = None
              /\ stt' = FALSE /\ stp' = FALSE /\ attached' = FALSE
              /\ UNCHANGED uctr
    /\ seen' = Append(seen, Stop)
    /\ pc' = "poll"
    /\ UNCHANGED <<busVars, transmitting, appSeg, stale>>

\* (mutation: the START left pending)
ClearStartForgotten ==
    /\ pc = "start"
    /\ pc' = "direction"
    /\ UNCHANGED <<busVars, hwVars, transmitting, appSeg, seen, stale>>

ClearStart ==
    /\ pc = "start"
    /\ stt' = FALSE
    /\ pc' = "direction"
    /\ UNCHANGED <<busVars, stp, uctr, attached, rx, tx, shift, transmitting,
                   appSeg, seen, stale>>

\* (mutation: the direction not remembered for the TX requests)
ReadDirectionForgotten ==
    /\ pc = "direction"
    /\ appSeg' = appSeg + 1
    /\ seen' = Append(seen, Start(uctr))
    /\ pc' = "poll"
    /\ UNCHANGED <<busVars, hwVars, transmitting, stale>>

\* UCTR is read after the flag was cleared.
ReadDirection ==
    /\ pc = "direction"
    /\ transmitting' = (uctr = "read")
    /\ appSeg' = appSeg + 1
    /\ seen' = Append(seen, Start(uctr))
    /\ pc' = "poll"
    /\ UNCHANGED <<busVars, hwVars, stale>>

\* The application answers a TxRequest with write_byte.
Answer ==
    /\ pc = "answer"
    /\ tx' = appSeg
    /\ pc' = "poll"
    /\ UNCHANGED <<busVars, stt, stp, uctr, attached, rx, shift, transmitting,
                   appSeg, seen, stale>>

Slave ==
    \/ Poll \/ Receive \/ ReadBusy \/ ClearStop \/ Flush
    \/ ClearStart \/ ReadDirection \/ Answer

Transfer == MasterWrite \/ LoadShift \/ (\E last \in BOOLEAN : MasterRead(last))

Next ==
    \/ \E d \in {"write", "read"} : MasterStart(d)
    \/ Transfer
    \/ MasterStop
    \/ Slave

Spec == Init /\ [][Next]_vars

\* The main loop polls on, the silicon shifts, and a master that opened a
\* transaction goes through with it.
Fairness ==
    /\ WF_vars(Slave)
    /\ WF_vars(Transfer)
    /\ WF_vars(MasterStop)

FairSpec == Spec /\ Fairness
-----------------------------------------------------------------------------
TypeOK ==
    /\ seg \in {"idle", "write", "read"}
    /\ segNo \in 0 .. MaxSegments
    /\ moved \in 0 .. MaxBytes
    /\ {nacked, stt, stp, attached, transmitting, stale} \subseteq BOOLEAN
    /\ uctr \in {"write", "read"}
    /\ rx \in 0 .. Len(bus)
    /\ {tx, shift} \subseteq 0 .. MaxSegments
    /\ pc \in {"poll", "receive", "busy?", "stop", "flush", "start",
               "direction", "answer"}
    /\ appSeg \in 0 .. MaxSegments

IsPrefix(s, t) == Len(s) <= Len(t) /\ s = SubSeq(t, 1, Len(s))

\* i2c.rs:656-661: a transaction arrives as its Start, its bytes and its
\* Stop, a repeated START as a second Start; nothing is reordered, merged or
\* invented.
EventsInOrder == IsPrefix(seen, bus)

\* The same for the bytes alone: a received byte is delivered within the
\* write it belongs to, after its Start and before its Stop.
ReceivedInsideWrite ==
    \A i \in 1 .. Len(seen) : seen[i][1] = "received" =>
        \E j \in 1 .. i - 1 :
            /\ seen[j] = Start("write")
            /\ \A k \in j + 1 .. i - 1 : seen[k][1] = "received"

\* i2c.rs:868-873: a byte the application supplied for one read is never
\* clocked out in a later one.
NoStaleByte == ~stale

\* i2c.rs:684-686: the slave releases every stretch of SCL, so a transaction
\* once opened is carried through to its STOP.
TransactionsEnd == (seg # "idle") ~> (seg = "idle")

\* Every event of the bus reaches the application.
AllDelivered == []<>(seen = bus)
=============================================================================
