----------------------------- MODULE I2cMaster ------------------------------
(***************************************************************************)
(* The I2C master of src/hal/src/i2c.rs: transaction, with the runs of     *)
(* same-direction operations it is made of (write_run, read_run), the      *)
(* bounded waits and the recovery, against a slave that may ACK or NACK    *)
(* its address and every byte, and may hold SCL for as long as it likes.   *)
(*                                                                         *)
(* A run is [dir, n]: its direction and the bytes its operations add up    *)
(* to.  A written byte is its place <<run, k>> in the transaction; a byte  *)
(* of the slave is <<segment, k>>, a segment being what one address phase  *)
(* opens.                                                                  *)
(*                                                                         *)
(* wait() gives up when SCL was low for 28 ms or after a number of polls.  *)
(* Here it may give up whenever what it waits for is not there yet, which  *)
(* covers both, and nothing obliges the bus to move at all.                *)
(***************************************************************************)
EXTENDS Naturals, Sequences

CONSTANTS
    Transactions, \* the sequences of runs the application asks for
    MaxCalls,     \* bound: how many transactions
    Prompt        \* is STOP requested before a byte more is clocked in?

Run == [dir : {"write", "read"}, n : Nat]

ASSUME TransactionsAssumption ==
    Transactions \subseteq Seq(Run) \ {<<>>}
ASSUME BoundsAssumption == MaxCalls \in Nat /\ Prompt \in BOOLEAN

VARIABLES
    stt, stp, tr,      \* UCTXSTT, UCTXSTP and UCTR
    nack,              \* UCNACKIFG
    tx, rx,            \* TXBUF and RXBUF: UCTXIFG is up when TXBUF is empty,
                       \* UCRXIFG when RXBUF is not
    bus, shift,        \* "idle", "transmit" with the byte being sent,
                       \* "receive", or "held" after a NACK
    pc, ops, run, idx, \* the call, its runs, the run and the bytes done of it
    result,            \* what it returns, once pc is back at "idle"
    calls, seg, clocked,        \* history: calls, address phases, bytes of
                                \* the slave in this one
    acked, refused,             \* history of the call: bytes the slave
                                \* ACKed, and whether it NACKed anything
    lastNacked, stale           \* history: it NACKed the last byte of a write
                                \* run; a read took a byte of another

hw == <<stt, stp, tr, nack, tx, rx, bus, shift>>
slave == <<seg, clocked, acked, refused, lastNacked>>
cpu == <<pc, ops, run, idx, result, calls, stale>>
vars == <<hw, slave, cpu>>

None == <<>>

Init ==
    /\ stt = FALSE /\ stp = FALSE /\ tr = TRUE /\ nack = FALSE
    /\ tx = None /\ rx = None /\ bus = "idle" /\ shift = None
    /\ pc = "idle" /\ ops = <<>> /\ run = 1 /\ idx = 0 /\ result = "ok"
    /\ calls = 0 /\ seg = 0 /\ clocked = 0
    /\ acked = {} /\ refused = FALSE /\ lastNacked = FALSE /\ stale = FALSE

Dir == ops[run].dir
Total == ops[run].n
LastRun == run = Len(ops)
-----------------------------------------------------------------------------
\* The silicon and the slave.

\* START and STOP wait for the byte in hand.
BetweenBytes ==
    bus \in {"idle", "held"} \/ (bus = "transmit" /\ tx = None /\ shift = None)

\* START, which raises UCTXIFG whatever TXBUF holds, address and the slave's
\* answer.  A STOP requested with the START follows the address at once.
Address(ack) ==
    /\ stt /\ BetweenBytes
    /\ stt' = FALSE /\ stp' = FALSE /\ tx' = None
    /\ nack' = (nack \/ ~ack)
    /\ refused' = (refused \/ ~ack)
    /\ bus' = CASE stp -> "idle"
                [] ~stp /\ ~ack -> "held"
                [] OTHER -> IF tr THEN "transmit" ELSE "receive"
    /\ seg' = seg + 1
    /\ clocked' = 0
    /\ UNCHANGED <<tr, rx, shift, acked, lastNacked, cpu>>

LoadShift ==
    /\ bus = "transmit"
    /\ tx # None /\ shift = None
    /\ shift' = tx
    /\ tx' = None
    /\ UNCHANGED <<stt, stp, tr, nack, rx, bus, slave, cpu>>

ByteAcked ==
    /\ bus = "transmit" /\ shift # None
    /\ shift' = None
    /\ acked' = acked \cup {shift}
    /\ UNCHANGED <<stt, stp, tr, nack, tx, rx, bus, seg, clocked, refused,
                   lastNacked, cpu>>

\* A NACK stops the bus where it is and drops what TXBUF holds.
ByteNacked ==
    /\ bus = "transmit" /\ shift # None
    /\ shift' = None /\ tx' = None
    /\ bus' = "held"
    /\ nack' = TRUE
    /\ refused' = TRUE
    /\ lastNacked' = (lastNacked \/ shift[2] = ops[shift[1]].n)
    /\ UNCHANGED <<stt, stp, tr, rx, seg, clocked, acked, cpu>>

\* The call is about to request a STOP for the byte being clocked in.
StopDue ==
    /\ pc \in {"address", "verdict", "next"}
    /\ Dir = "read" /\ LastRun /\ idx + 1 >= Total
    /\ ~stp

\* A byte of the slave is moved to RXBUF; it is NACKed if STOP or START is
\* requested by then, and ACKed otherwise, which asks for another.
ReceiveByte ==
    /\ bus = "receive" /\ rx = None
    /\ Prompt => ~StopDue
    /\ clocked' = clocked + 1
    /\ rx' = <<seg, clocked + 1>>
    /\ stp' = (stp /\ stt)
    /\ bus' = IF stt THEN "held" ELSE IF stp THEN "idle" ELSE "receive"
    /\ UNCHANGED <<stt, tr, nack, tx, shift, seg, acked, refused, lastNacked, cpu>>

StopOut ==
    /\ stp /\ ~stt
    /\ bus # "idle" /\ BetweenBytes
    /\ stp' = FALSE
    /\ bus' = "idle"
    /\ UNCHANGED <<stt, tr, nack, tx, rx, shift, slave, cpu>>

Bus ==
    \/ Address(TRUE) \/ Address(FALSE) \/ LoadShift \/ ByteAcked \/ ByteNacked
    \/ ReceiveByte \/ StopOut
-----------------------------------------------------------------------------
\* The call.
Step(from, to) == pc = from /\ pc' = to

Call(t) ==
    /\ calls < MaxCalls
    /\ Step("idle", "prior")
    /\ ops' = t /\ run' = 1 /\ idx' = 0 /\ result' = "ok"
    /\ calls' = calls + 1
    /\ acked' = {} /\ refused' = FALSE
    /\ UNCHANGED <<hw, seg, clocked, lastNacked, stale>>

\* A STOP of before is over.
PriorStop ==
    /\ Step("prior", "clear")
    /\ ~stp
    /\ UNCHANGED <<hw, slave, ops, run, idx, result, calls, stale>>

\* (mutation: the verdict of before left in the flag)
ClearSkipped ==
    /\ Step("clear", "start")
    /\ UNCHANGED <<hw, slave, ops, run, idx, result, calls, stale>>

ClearFlags ==
    /\ Step("clear", "start")
    /\ nack' = FALSE
    /\ UNCHANGED <<stt, stp, tr, tx, rx, bus, shift, slave, ops, run, idx,
                   result, calls, stale>>

\* A write of nothing requests its STOP together with the START.
Probe == Dir = "write" /\ Total = 0 /\ LastRun

RequestStart ==
    /\ pc = "start"
    /\ pc' = IF Probe THEN "closing" ELSE "address"
    /\ stt' = TRUE
    /\ stp' = Probe
    /\ tr' = (Dir = "write")
    /\ UNCHANGED <<nack, tx, rx, bus, shift, slave, ops, run, idx, result,
                   calls, stale>>

AddressDone ==
    /\ Step("address", "verdict")
    /\ ~stt
    /\ UNCHANGED <<hw, slave, ops, run, idx, result, calls, stale>>

Verdict ==
    /\ \/ /\ nack
          /\ Step("verdict", "stop")
          /\ result' = "AddressNack"
       \/ /\ ~nack
          /\ Step("verdict", IF Dir = "write" THEN "ready" ELSE "next")
          /\ UNCHANGED result
    /\ UNCHANGED <<hw, slave, ops, run, idx, calls, stale>>

\* (mutation: the count of the run before goes on)
NextRunKeepsCount ==
    /\ pc' = "clear"
    /\ run' = run + 1
    /\ UNCHANGED idx

\* transaction's loop: the next run begins with a repeated START.
NextRun ==
    /\ pc' = "clear"
    /\ run' = run + 1
    /\ idx' = 0

\* With TXBUF free, write_run writes the next byte, or is done.
WriteStep ==
    /\ pc = "ready"
    /\ \/ idx < Total /\ pc' = "put" /\ UNCHANGED <<run, idx>>
       \/ idx = Total /\ LastRun /\ pc' = "stop" /\ UNCHANGED <<run, idx>>
       \/ idx = Total /\ ~LastRun /\ NextRun

\* (mutation: no look at the flags)
TxReadyUnchecked ==
    /\ WriteStep
    /\ UNCHANGED <<hw, slave, ops, result, calls, stale>>

\* wait_tx_ready, before every byte and once more after the last.
TxReady ==
    /\ \/ nack /\ Step("ready", "stop") /\ result' = "DataNack" /\ UNCHANGED <<run, idx>>
       \/ ~nack /\ tx = None /\ WriteStep /\ UNCHANGED result
    /\ UNCHANGED <<hw, slave, ops, calls, stale>>

Put ==
    /\ Step("put", "ready")
    /\ tx' = <<run, idx + 1>>
    /\ idx' = idx + 1
    /\ UNCHANGED <<stt, stp, tr, nack, rx, bus, shift, slave, ops, run,
                   result, calls, stale>>

\* (mutation: STOP requested after the last byte instead of before it)
StopIsLate == LastRun /\ idx = Total

\* read_run requests its STOP before the last byte, so that this one is
\* NACKed, or where there is none.
StopHere == LastRun /\ (idx + 1 = Total \/ Total = 0)

ReadStep ==
    /\ pc = "next"
    /\ stp' = (stp \/ StopHere)
    /\ \/ idx < Total /\ pc' = "full" /\ UNCHANGED <<run, idx>>
       \/ idx = Total /\ LastRun /\ pc' = "closing" /\ UNCHANGED <<run, idx>>
       \/ idx = Total /\ ~LastRun /\ NextRun
    /\ UNCHANGED <<stt, tr, nack, tx, rx, bus, shift, slave, ops, result,
                   calls, stale>>

RxFull ==
    /\ Step("full", "get")
    /\ rx # None
    /\ UNCHANGED <<hw, slave, ops, run, idx, result, calls, stale>>

Get ==
    /\ Step("get", "next")
    /\ stale' = (stale \/ rx # <<seg, idx + 1>>)
    /\ rx' = None
    /\ idx' = idx + 1
    /\ UNCHANGED <<stt, stp, tr, nack, tx, bus, shift, slave, ops, run,
                   result, calls>>

\* stop()
RequestStop ==
    /\ Step("stop", "stopping")
    /\ stp' = TRUE
    /\ UNCHANGED <<stt, tr, nack, tx, rx, bus, shift, slave, ops, run, idx,
                   result, calls, stale>>

StopDone ==
    /\ Step("stopping", "idle")
    /\ ~stp
    /\ UNCHANGED <<hw, slave, ops, run, idx, result, calls, stale>>

\* The end of a probe, whose verdict is in the flag, and of a read.
Closed ==
    /\ Step("closing", "idle")
    /\ ~stp
    /\ result' = IF Dir = "write" /\ nack THEN "AddressNack" ELSE "ok"
    /\ UNCHANGED <<hw, slave, ops, run, idx, calls, stale>>

\* (mutation: requests that outlive the reset)
RecoverKeepsRequests ==
    /\ nack' = FALSE
    /\ tx' = None /\ rx' = None /\ shift' = None /\ bus' = "idle"
    /\ UNCHANGED <<stt, stp, tr>>

\* recover(): the reset empties buffers and state machine; the requests
\* survive it and are cleared by hand.
Recover ==
    /\ stt' = FALSE /\ stp' = FALSE /\ nack' = FALSE
    /\ tx' = None /\ rx' = None /\ shift' = None /\ bus' = "idle"
    /\ UNCHANGED tr

\* wait() still waits.
Pending ==
    \/ pc \in {"prior", "closing", "stopping"} /\ stp
    \/ pc = "address" /\ stt
    \/ pc = "ready" /\ ~nack /\ tx # None
    \/ pc = "full" /\ rx = None

\* (mutation: a stop() that waits without a bound)
GiveUpNotInStop ==
    /\ Pending /\ pc # "stopping"
    /\ Recover
    /\ pc' = "idle"
    /\ result' = "Timeout"
    /\ UNCHANGED <<slave, ops, run, idx, calls, stale>>

\* stop() drops the error of its wait.
GiveUp ==
    /\ Pending
    /\ Recover
    /\ pc' = "idle"
    /\ result' = IF pc = "stopping" THEN result ELSE "Timeout"
    /\ UNCHANGED <<slave, ops, run, idx, calls, stale>>

Cpu ==
    \/ PriorStop \/ ClearFlags \/ RequestStart \/ AddressDone \/ Verdict
    \/ TxReady \/ Put \/ ReadStep \/ RxFull \/ Get
    \/ RequestStop \/ StopDone \/ Closed \/ GiveUp

Next == Bus \/ Cpu \/ (\E t \in Transactions : Call(t))

Spec == Init /\ [][Next]_vars

\* Only the CPU is obliged to go on.
FairSpec == Spec /\ WF_vars(Cpu)
-----------------------------------------------------------------------------
Byte == {None} \cup (Nat \X Nat)

TypeOK ==
    /\ {stt, stp, tr, nack, refused, lastNacked, stale} \subseteq BOOLEAN
    /\ tx \in Byte /\ rx \in Byte /\ shift \in Byte
    /\ bus \in {"idle", "transmit", "receive", "held"}
    /\ pc \in {"idle", "prior", "clear", "start", "address", "verdict",
               "ready", "put", "next", "full", "get", "stop", "stopping",
               "closing"}
    /\ pc # "idle" =>
           ops \in Transactions /\ run \in 1 .. Len(ops) /\ idx \in 0 .. Total
    /\ result \in {"ok", "AddressNack", "DataNack", "Timeout"}

\* i2c.rs:394-396: "the bus is never left held": whatever the slave did and
\* wherever the call gave up, no request is pending and the bus is idle when
\* it returns.
BusReleased == pc = "idle" => bus = "idle" /\ ~stt /\ ~stp

Succeeded == pc = "idle" /\ result = "ok"

\* A transaction that succeeds had every byte ACKed but the last of each of
\* its write runs, which is still being sent when it is last looked after.
OkMeansSent ==
    Succeeded =>
        \A r \in 1 .. Len(ops) :
            ops[r].dir = "write" => {r} \X (1 .. ops[r].n - 1) \subseteq acked

\* Every byte read was clocked in by the same read, in the order the slave
\* sent them: none is left over from an earlier one.  (Once the last byte of
\* a write run was NACKed, this holds no more: the flag may be taken for the
\* verdict on the repeated START, and the read that goes on behind the
\* call's back leaves a byte in RXBUF.)
FreshRead == ~lastNacked => ~stale

\* A NACK reported is one the slave gave in this very call: one that went
\* unnoticed at the end of a call is not blamed on the next.
NackOfThisCall == result \in {"AddressNack", "DataNack"} => refused

\* Every call returns, even if the bus never moves again.
CallsReturn == (pc # "idle") ~> (pc = "idle")

\* i2c.rs:1021: "NACKs abort the transaction with the bus released": a
\* transaction with a NACK in it is not reported as a success.
NackAborts == Succeeded => ~refused
=============================================================================
