------------------------------ MODULE I2c_proofs -----------------------------
(***************************************************************************)
(* Both ends of the I2C driver.                                            *)
(*                                                                         *)
(* The master, for every set of transactions, any number of calls, and     *)
(* whatever the slave does: types, the bus released when a call returns,   *)
(* everything sent when a call succeeds, and no NACK blamed that was not   *)
(* given in the call.  For a prompt master whose transactions read at      *)
(* their end: no byte read that belongs to another read.                   *)
(*                                                                         *)
(* The slave (Slave), polled in time, for any number of segments and of    *)
(* bytes in them.  What was put on the bus is what was delivered, and then *)
(* what RXBUF and the flags hold of it, in that order: SlaveDeliveryInv.   *)
(* SlaveBusInv and SlavePollInv say which flags can be up together with    *)
(* which state of the bus, and so why the order in which poll looks at     *)
(* them is the order of the bus; SlaveReadInv, that the byte being clocked *)
(* out was supplied for this read.                                         *)
(***************************************************************************)
EXTENDS MCI2c, SequenceTheorems, TLAPS

USE DEF Step

-----------------------------------------------------------------------------
\* Types.

TypeInv ==
    /\ TypeOK
    /\ {seg, clocked, run, idx} \subseteq Nat
    /\ pc \in {"put", "full", "get"} => idx < Total

LEMMA RunsOf ==
    ASSUME NEW t \in Transactions
    PROVE  /\ Len(t) \in Nat \ {0}
           /\ \A r \in 1 .. Len(t) : t[r].n \in Nat
<1>1. t \in Seq(Run) /\ t # <<>>
  BY TransactionsAssumption
<1>2. Len(t) \in Nat \ {0}
  BY <1>1, EmptySeq
<1>3. \A r \in 1 .. Len(t) : t[r] \in Run
  BY <1>1
<1> QED
  BY <1>2, <1>3 DEF Run

LEMMA TypeInvInit == Init => TypeInv
<1> SUFFICES ASSUME Init PROVE TypeInv
  OBVIOUS
<1> USE DEF Init
<1>1. tx \in Byte /\ rx \in Byte /\ shift \in Byte
  BY DEF Byte
<1>2. {stt, stp, tr, nack, refused, lastNacked, stale} \subseteq BOOLEAN
  OBVIOUS
<1>3. pc = "idle" /\ bus = "idle" /\ result = "ok"
  OBVIOUS
<1> QED
  BY <1>1, <1>2, <1>3 DEF TypeInv, TypeOK

LEMMA TypeInvBus ==
    ASSUME TypeInv, Bus
    PROVE  TypeInv'
<1> USE DEF TypeInv, TypeOK, Byte, Total, cpu
<1>1. ASSUME NEW ack \in BOOLEAN, Address(ack)
      PROVE  TypeInv'
  <2>1. bus' \in {"idle", "transmit", "receive", "held"}
    BY <1>1, Zenon DEF Address
  <2>2. nack' \in BOOLEAN /\ refused' \in BOOLEAN
    BY <1>1 DEF Address
  <2>3. /\ stt' = FALSE /\ stp' = FALSE /\ tx' = None
        /\ seg' = seg + 1 /\ clocked' = 0
        /\ UNCHANGED <<tr, rx, shift, lastNacked, cpu>>
    BY <1>1, Zenon DEF Address
  <2>4. tx' \in Byte /\ rx' \in Byte /\ shift' \in Byte
    BY <2>3
  <2>5. {stt', stp', tr', nack', refused', lastNacked', stale'} \subseteq BOOLEAN
    BY <2>2, <2>3
  <2>6. {seg', clocked', run', idx'} \subseteq Nat
    BY <2>3
  <2> QED
    BY <2>1, <2>3, <2>4, <2>5, <2>6
<1>2. CASE LoadShift
  BY <1>2 DEF LoadShift, slave
<1>3. CASE ByteAcked
  BY <1>3 DEF ByteAcked
<1>4. CASE ByteNacked
  BY <1>4 DEF ByteNacked
<1>5. CASE ReceiveByte
  BY <1>5 DEF ReceiveByte
<1>6. CASE StopOut
  BY <1>6 DEF StopOut, slave
<1> QED
  BY <1>1, <1>2, <1>3, <1>4, <1>5, <1>6 DEF Bus

LEMMA TypeInvCpu ==
    ASSUME TypeInv, Cpu
    PROVE  TypeInv'
<1> USE DEF TypeInv, TypeOK, Byte, Total, LastRun, hw, slave
<1>1. CASE PriorStop
  BY <1>1 DEF PriorStop
<1>2. CASE ClearFlags
  BY <1>2 DEF ClearFlags
<1>3. CASE RequestStart
  BY <1>3 DEF RequestStart, Probe, Dir
<1>4. CASE AddressDone
  BY <1>4 DEF AddressDone
<1>5. CASE Verdict
  BY <1>5 DEF Verdict
<1>6. CASE TxReady
  BY <1>6, RunsOf DEF TxReady, WriteStep, NextRun
<1>7. CASE Put
  BY <1>7, RunsOf DEF Put
<1>8. CASE ReadStep
  BY <1>8, RunsOf DEF ReadStep, StopHere, NextRun
<1>9. CASE RxFull
  BY <1>9 DEF RxFull
<1>10. CASE Get
  BY <1>10, RunsOf DEF Get
<1>11. CASE RequestStop
  BY <1>11 DEF RequestStop
<1>12. CASE StopDone
  BY <1>12 DEF StopDone
<1>13. CASE Closed
  BY <1>13 DEF Closed
<1>14. CASE GiveUp
  BY <1>14 DEF GiveUp, Recover
<1> QED
  BY <1>1, <1>2, <1>3, <1>4, <1>5, <1>6, <1>7, <1>8, <1>9, <1>10, <1>11,
     <1>12, <1>13, <1>14 DEF Cpu

LEMMA TypeInvNext == TypeInv /\ [Next]_vars => TypeInv'
<1> SUFFICES ASSUME TypeInv, [Next]_vars PROVE TypeInv'
  OBVIOUS
<1>1. ASSUME NEW t \in Transactions, Call(t) PROVE TypeInv'
  <2> USE <1>1 DEF Call, TypeInv, TypeOK
  <2>1. 1 \in 1 .. Len(t) /\ 0 \in 0 .. t[1].n
    BY RunsOf
  <2>2. UNCHANGED <<stt, stp, tr, nack, tx, rx, bus, shift>>
    BY DEF hw
  <2>3. ops' \in Transactions /\ run' \in 1 .. Len(ops') /\ idx' \in 0 .. Total'
    BY <2>1 DEF Total
  <2>4. tx \in Byte /\ rx \in Byte /\ shift \in Byte
    OBVIOUS
  <2>5. tx' \in Byte /\ rx' \in Byte /\ shift' \in Byte
    BY <2>2, <2>4 DEF Byte
  <2>6. {stt', stp', tr', nack', refused', lastNacked', stale'} \subseteq BOOLEAN
    BY <2>2
  <2> QED
    BY <2>2, <2>3, <2>5, <2>6
<1>2. CASE UNCHANGED vars
  BY <1>2 DEF vars, hw, slave, cpu, TypeInv, TypeOK, Byte, Total
<1> QED
  BY <1>1, <1>2, TypeInvBus, TypeInvCpu DEF Next

\* Every state is well typed, and a byte is written or read only while there
\* is one left in the run.
THEOREM TypeCorrect == Spec => []TypeOK
<1>1. TypeInv => TypeOK
  BY DEF TypeInv
<1> QED
  BY <1>1, TypeInvInit, TypeInvNext, PTL DEF Spec
-----------------------------------------------------------------------------
\* The bus.

Gone == stp \/ bus = "idle"

\* A START is pending only while the call waits for it, and STOP is pending
\* or done from the moment it is requested to the end of the call: in
\* stop(), at the end of a read or a probe, and before that from the last
\* byte of a read on.
BusInv ==
    /\ {stt, stp} \subseteq BOOLEAN
    /\ stt => pc = "address" \/ (pc = "closing" /\ stp)
    /\ pc = "idle" => bus = "idle" /\ ~stp
    /\ pc \in {"stopping", "closing"} => Gone
    /\ pc \in {"prior", "clear", "start", "address", "verdict"} => idx = 0
    /\ pc \in {"full", "get"} /\ LastRun /\ idx + 1 = Total => Gone
    /\ pc = "next" /\ LastRun /\ idx = Total /\ Total # 0 => Gone

LEMMA BusInvInit == Init => BusInv
BY DEF Init, BusInv, Gone

\* Nothing the bus does undoes a STOP.
LEMMA BusInvBus ==
    ASSUME BusInv, Bus
    PROVE  BusInv'
<1> USE DEF BusInv, Gone, LastRun, Total, BetweenBytes, cpu
<1>1. ASSUME NEW ack \in BOOLEAN, Address(ack)
      PROVE  BusInv'
  BY <1>1 DEF Address
<1>2. CASE LoadShift
  BY <1>2 DEF LoadShift
<1>3. CASE ByteAcked
  BY <1>3 DEF ByteAcked
<1>4. CASE ByteNacked
  BY <1>4 DEF ByteNacked
<1>5. CASE ReceiveByte
  BY <1>5 DEF ReceiveByte
<1>6. CASE StopOut
  BY <1>6 DEF StopOut
<1> QED
  BY <1>1, <1>2, <1>3, <1>4, <1>5, <1>6 DEF Bus

\* Nor does the call, before it is over.
LEMMA BusInvCpu ==
    ASSUME BusInv, Cpu
    PROVE  BusInv'
<1> USE DEF BusInv, Gone, LastRun, Total, hw, slave
<1>1. CASE PriorStop
  BY <1>1 DEF PriorStop
<1>2. CASE ClearFlags
  BY <1>2 DEF ClearFlags
<1>3. CASE RequestStart
  BY <1>3 DEF RequestStart, Probe
<1>4. CASE AddressDone
  BY <1>4 DEF AddressDone
<1>5. CASE Verdict
  BY <1>5 DEF Verdict
<1>6. CASE TxReady
  BY <1>6 DEF TxReady, WriteStep, NextRun
<1>7. CASE Put
  BY <1>7 DEF Put
<1>8. CASE ReadStep
  BY <1>8 DEF ReadStep, StopHere, NextRun
<1>9. CASE RxFull
  BY <1>9 DEF RxFull
<1>10. CASE Get
  BY <1>10 DEF Get
<1>11. CASE RequestStop
  BY <1>11 DEF RequestStop
<1>12. CASE StopDone
  BY <1>12 DEF StopDone
<1>13. CASE Closed
  BY <1>13 DEF Closed
<1>14. CASE GiveUp
  BY <1>14 DEF GiveUp, Recover
<1> QED
  BY <1>1, <1>2, <1>3, <1>4, <1>5, <1>6, <1>7, <1>8, <1>9, <1>10, <1>11,
     <1>12, <1>13, <1>14 DEF Cpu

LEMMA BusInvNext == BusInv /\ [Next]_vars => BusInv'
<1> SUFFICES ASSUME BusInv, [Next]_vars PROVE BusInv'
  OBVIOUS
<1>1. ASSUME NEW t \in Transactions, Call(t) PROVE BusInv'
  BY <1>1 DEF Call, BusInv, Gone, LastRun, Total, hw
<1>2. CASE UNCHANGED vars
  BY <1>2 DEF vars, hw, cpu, BusInv, Gone, LastRun, Total
<1> QED
  BY <1>1, <1>2, BusInvBus, BusInvCpu DEF Next

\* When transaction returns, with whatever result, the bus is idle and no
\* START or STOP is pending.
THEOREM BusReleasedCorrect == Spec => []BusReleased
<1>1. BusInv => BusReleased
  BY DEF BusInv, BusReleased
<1> QED
  BY <1>1, BusInvInit, BusInvNext, PTL DEF Spec
-----------------------------------------------------------------------------
\* The NACK flag.

Blamed == result \in {"AddressNack", "DataNack"}

\* Between the clear of the flag and the end of the call, the flag stands for
\* a NACK of this call.  Before it, it may be an old one.
NackInv ==
    /\ pc \notin {"idle", "prior", "clear", "stop", "stopping"} =>
           (nack => refused)
    /\ Blamed => refused

LEMMA NackInvInit == Init => NackInv
BY DEF Init, NackInv, Blamed

LEMMA NackInvBus ==
    ASSUME NackInv, Bus
    PROVE  NackInv'
<1> USE DEF NackInv, Blamed, cpu
<1>1. ASSUME NEW ack \in BOOLEAN, Address(ack)
      PROVE  NackInv'
  BY <1>1 DEF Address
<1>2. CASE LoadShift
  BY <1>2 DEF LoadShift, slave
<1>3. CASE ByteAcked
  BY <1>3 DEF ByteAcked
<1>4. CASE ByteNacked
  BY <1>4 DEF ByteNacked
<1>5. CASE ReceiveByte
  BY <1>5 DEF ReceiveByte
<1>6. CASE StopOut
  BY <1>6 DEF StopOut, slave
<1> QED
  BY <1>1, <1>2, <1>3, <1>4, <1>5, <1>6 DEF Bus

LEMMA NackInvCpu ==
    ASSUME NackInv, Cpu
    PROVE  NackInv'
<1> USE DEF NackInv, Blamed, hw, slave
<1>1. CASE PriorStop
  BY <1>1 DEF PriorStop
<1>2. CASE ClearFlags
  BY <1>2 DEF ClearFlags
<1>3. CASE RequestStart
  BY <1>3 DEF RequestStart
<1>4. CASE AddressDone
  BY <1>4 DEF AddressDone
<1>5. CASE Verdict
  BY <1>5 DEF Verdict
<1>6. CASE TxReady
  BY <1>6 DEF TxReady, WriteStep, NextRun
<1>7. CASE Put
  BY <1>7 DEF Put
<1>8. CASE ReadStep
  BY <1>8 DEF ReadStep, NextRun
<1>9. CASE RxFull
  BY <1>9 DEF RxFull
<1>10. CASE Get
  BY <1>10 DEF Get
<1>11. CASE RequestStop
  BY <1>11 DEF RequestStop
<1>12. CASE StopDone
  BY <1>12 DEF StopDone
<1>13. CASE Closed
  BY <1>13 DEF Closed
<1>14. CASE GiveUp
  BY <1>14 DEF GiveUp, Recover
<1> QED
  BY <1>1, <1>2, <1>3, <1>4, <1>5, <1>6, <1>7, <1>8, <1>9, <1>10, <1>11,
     <1>12, <1>13, <1>14 DEF Cpu

\* A call that returns AddressNack or DataNack was refused by the slave
\* itself, in this call.
THEOREM NackCorrect == Spec => []NackOfThisCall
<1>1. NackInv /\ [Next]_vars => NackInv'
  <2> SUFFICES ASSUME NackInv, [Next]_vars PROVE NackInv'
    OBVIOUS
  <2>1. ASSUME NEW t \in Transactions, Call(t) PROVE NackInv'
    BY <2>1 DEF Call, NackInv, Blamed
  <2>2. CASE UNCHANGED vars
    BY <2>2 DEF vars, hw, slave, cpu, NackInv, Blamed
  <2> QED
    BY <2>1, <2>2, NackInvBus, NackInvCpu DEF Next
<1>2. NackInv => NackOfThisCall
  BY DEF NackInv, Blamed, NackOfThisCall
<1> QED
  BY <1>1, <1>2, NackInvInit, PTL DEF Spec
-----------------------------------------------------------------------------
\* The bytes written.

AckedUpTo(r, m) == \A k \in 1 .. m : <<r, k>> \in acked

\* What write_run has written is ACKed but for what is in TXBUF and in the
\* shift register, in this order, unless a NACK is flagged.
InHand ==
    \/ nack
    \/ tx = None /\ shift = None /\ AckedUpTo(run, idx)
    \/ tx = None /\ shift = <<run, idx>> /\ AckedUpTo(run, idx - 1)
    \/ tx = <<run, idx>> /\ shift = None /\ AckedUpTo(run, idx - 1)
    \/ tx = <<run, idx>> /\ shift = <<run, idx - 1>> /\ AckedUpTo(run, idx - 2)

RunsSent(m) ==
    \A r \in 1 .. m : ops[r].dir = "write" => AckedUpTo(r, ops[r].n - 1)

\* Nothing of an earlier run is left in TXBUF or the shift register after
\* START, so that TXBUF free at the end of a run means all but one byte ACKed.
SentInv ==
    /\ shift # None => bus = "transmit"
    /\ pc = "verdict" \/ (pc = "address" /\ ~stt) => tx = None /\ shift = None
    /\ pc \in {"ready", "put"} => InHand
    /\ pc = "put" => tx = None
    /\ pc \in {"next", "full", "get"} => Dir # "write"
    /\ pc = "closing" => LastRun /\ (Dir = "write" => Total = 0)
    /\ pc \notin {"idle", "stop", "stopping"} => RunsSent(run - 1)
    /\ pc \in {"idle", "stop", "stopping"} /\ result = "ok" => RunsSent(Len(ops))

Inv == TypeInv /\ BusInv /\ SentInv

LEMMA ByteIsNotNone == \A a, b : <<a, b>> # None
BY DEF None

\* ACKs are not taken back, and the transaction stays what it is, until the
\* next call.
LEMMA SentGrows ==
    ASSUME acked \subseteq acked', UNCHANGED ops
    PROVE  /\ \A r, m : AckedUpTo(r, m) => AckedUpTo(r, m)'
           /\ \A m : RunsSent(m) => RunsSent(m)'
BY DEF AckedUpTo, RunsSent

LEMMA Counts ==
    ASSUME TypeInv
    PROVE  /\ run \in Nat /\ idx \in Nat
           /\ pc # "idle" => Total \in Nat /\ run \in 1 .. Len(ops)
BY RunsOf DEF TypeInv, TypeOK, Total

LEMMA SentInvInit == Init => SentInv
BY EmptySeq DEF Init, SentInv, RunsSent

LEMMA SentInvBus ==
    ASSUME Inv, Bus
    PROVE  SentInv'
<1> USE DEF Inv, SentInv
<1>1. ASSUME NEW ack \in BOOLEAN, Address(ack)
      PROVE  SentInv'
  <2>1. /\ stt /\ BetweenBytes
        /\ tx' = None
        /\ UNCHANGED <<shift, pc, ops, run, idx, result, acked>>
    BY <1>1, Zenon DEF Address, cpu
  <2>2. pc \in {"address", "closing"}
    BY <2>1 DEF BusInv
  <2>3. shift = None
    BY <2>1 DEF BetweenBytes
  <2> QED
    BY <2>1, <2>2, <2>3, SentGrows DEF Dir, Total, LastRun
<1>2. CASE LoadShift
  <2>1. pc \in {"ready", "put"} => InHand'
    BY <1>2, Counts, ByteIsNotNone DEF LoadShift, slave, cpu, InHand, AckedUpTo
  <2> QED
    BY <1>2, <2>1, SentGrows DEF LoadShift, slave, cpu, Dir, Total, LastRun
<1>3. CASE ByteAcked
  <2>1. pc \in {"ready", "put"} => InHand'
    BY <1>3, Counts, ByteIsNotNone DEF ByteAcked, cpu, InHand, AckedUpTo
  <2> QED
    BY <1>3, <2>1, SentGrows DEF ByteAcked, cpu, Dir, Total, LastRun
<1>4. CASE ByteNacked
  BY <1>4, SentGrows DEF ByteNacked, cpu, Dir, Total, LastRun, InHand
<1>5. CASE ReceiveByte
  BY <1>5, SentGrows DEF ReceiveByte, cpu, Dir, Total, LastRun, InHand
<1>6. CASE StopOut
  BY <1>6, SentGrows DEF StopOut, BetweenBytes, slave, cpu, Dir, Total, LastRun,
                         InHand
<1> QED
  BY <1>1, <1>2, <1>3, <1>4, <1>5, <1>6 DEF Bus

\* A run more is sent when the loop moves on to the next, and all of them
\* when it is the last.
LEMMA RunsSentStep ==
    ASSUME TypeInv, pc # "idle", RunsSent(run - 1),
           Dir = "write" => AckedUpTo(run, Total - 1)
    PROVE  RunsSent(run) /\ (LastRun => RunsSent(Len(ops)))
BY Counts DEF RunsSent, LastRun, Dir, Total

LEMMA SentInvCpu ==
    ASSUME Inv, Cpu
    PROVE  SentInv'
<1> USE SentGrows DEF Inv, SentInv, Dir, Total, LastRun, hw, slave
<1>1. CASE PriorStop
  BY <1>1 DEF PriorStop
<1>2. CASE ClearFlags
  BY <1>2 DEF ClearFlags
<1>3. CASE RequestStart
  BY <1>3 DEF RequestStart, Probe
<1>4. CASE AddressDone
  BY <1>4 DEF AddressDone
<1>5. CASE Verdict
  <2>1. pc' = "ready" => InHand'
    BY <1>5 DEF Verdict, BusInv, InHand, AckedUpTo
  <2> QED
    BY <1>5, <2>1 DEF Verdict
<1>6. CASE TxReady
  <2>1. CASE nack
    BY <1>6, <2>1 DEF TxReady
  <2>2. CASE ~nack
    <3>1. tx = None /\ InHand /\ WriteStep
      BY <1>6, <2>2 DEF TxReady, WriteStep
    <3>2. AckedUpTo(run, idx - 1)
      BY <3>1, <2>2, Counts, ByteIsNotNone DEF InHand, AckedUpTo
    <3>3. idx = Total => RunsSent(run) /\ (LastRun => RunsSent(Len(ops)))
      BY <1>6, <3>2, RunsSentStep DEF TxReady, WriteStep
    <3> QED
      BY <1>6, <2>2, <3>1, <3>3, Counts DEF TxReady, WriteStep, NextRun, InHand
  <2> QED
    BY <2>1, <2>2
<1>7. CASE Put
  <2>1. InHand'
    BY <1>7, Counts, ByteIsNotNone DEF Put, InHand, AckedUpTo
  <2> QED
    BY <1>7, <2>1 DEF Put
<1>8. CASE ReadStep
  <2>1. RunsSent(run) /\ (LastRun => RunsSent(Len(ops)))
    BY <1>8, RunsSentStep DEF ReadStep
  <2> QED
    BY <1>8, <2>1, Counts DEF ReadStep, NextRun
<1>9. CASE RxFull
  BY <1>9 DEF RxFull
<1>10. CASE Get
  BY <1>10 DEF Get
<1>11. CASE RequestStop
  BY <1>11 DEF RequestStop
<1>12. CASE StopDone
  BY <1>12 DEF StopDone
<1>13. CASE Closed
  <2>1. RunsSent(Len(ops))
    BY <1>13, RunsSentStep, Counts DEF Closed, AckedUpTo
  <2> QED
    BY <1>13, <2>1 DEF Closed
<1>14. CASE GiveUp
  BY <1>14 DEF GiveUp, Recover
<1> QED
  BY <1>1, <1>2, <1>3, <1>4, <1>5, <1>6, <1>7, <1>8, <1>9, <1>10, <1>11,
     <1>12, <1>13, <1>14 DEF Cpu

LEMMA SentInvNext == Inv /\ [Next]_vars => SentInv'
<1> SUFFICES ASSUME Inv, [Next]_vars PROVE SentInv'
  OBVIOUS
<1>1. ASSUME NEW t \in Transactions, Call(t) PROVE SentInv'
  BY <1>1 DEF Call, Inv, SentInv, RunsSent, hw
<1>2. CASE UNCHANGED vars
  BY <1>2, SentGrows DEF vars, hw, slave, cpu, Inv, SentInv, Dir, Total, LastRun,
                         InHand
<1> QED
  BY <1>1, <1>2, SentInvBus, SentInvCpu DEF Next

\* A transaction that returns Ok had every byte of its writes ACKed but the
\* last one of each run.
THEOREM SentCorrect == Spec => []OkMeansSent
<1>1. Inv => OkMeansSent
  <2> SUFFICES ASSUME Inv, Succeeded, NEW r \in 1 .. Len(ops),
                      ops[r].dir = "write", NEW k \in 1 .. ops[r].n - 1
               PROVE  <<r, k>> \in acked
    BY DEF OkMeansSent
  <2> QED
    BY DEF Inv, SentInv, Succeeded, RunsSent, AckedUpTo
<1>2. Inv /\ [Next]_vars => Inv'
  BY TypeInvNext, BusInvNext, SentInvNext DEF Inv
<1> QED
  BY <1>1, <1>2, TypeInvInit, BusInvInit, SentInvInit, PTL DEF Spec, Inv
-----------------------------------------------------------------------------
\* The bytes read.

\* With Prompt, for transactions that read at their end, if at all, and then
\* something.
ReadsLast ==
    \A t \in Transactions : \A r \in 1 .. Len(t) :
        t[r].dir = "read" => r = Len(t) /\ t[r].n # 0

\* The call has still to send the START of this run, or waits for it.
Before == pc \in {"prior", "clear", "start"} \/ stt

Reading == /\ pc \in {"address", "verdict", "next", "full", "get"}
           /\ ~stt /\ Dir = "read"

\* Only a read leaves the bus receiving, and only one under way has a byte in
\* RXBUF.
Resting ==
    /\ bus # "transmit" => shift = None
    /\ bus = "receive" \/ rx # None => Reading
    /\ pc \in {"prior", "clear", "start", "address", "verdict", "ready", "put"} =>
         ~stp

\* A run begins on an idle bus, or with the last byte of a write at most still
\* going out; its NACK comes too late and is the one the property excepts.
BeforeStart ==
    /\ Before => \/ bus = "idle"
                 \/ /\ bus = "transmit" /\ tx = None
                    /\ shift # None => shift[2] = ops[shift[1]].n
    /\ pc = "start" \/ stt => ~nack
    /\ stt => (tr <=> Dir = "write")

\* So the flag found after START is the answer to the address.
Addressed ==
    /\ pc \in {"address", "verdict"} /\ ~stt =>
         /\ tx = None /\ shift = None
         /\ bus # "idle" /\ (bus = "held" <=> nack)
    /\ pc \in {"next", "full", "get"} => Dir = "read" /\ bus # "held"

Writing ==
    pc \in {"ready", "put"} =>
        /\ Dir = "write"
        /\ bus = "transmit" \/ (bus = "held" /\ nack)
        /\ shift # None => shift = <<run, IF tx = None THEN idx ELSE idx - 1>>
        /\ tx # None => pc = "ready" /\ tx = <<run, idx>>

\* The byte in RXBUF is the next one of this read; the bus goes idle behind the
\* last one, and before that none is taken while a STOP is still to be
\* requested for it.
ReadInStep ==
    Reading =>
        /\ bus # "transmit"
        /\ clocked <= Total
        /\ bus = "receive" <=> clocked < Total /\ bus # "held"
        /\ bus = "held" => rx = None
        /\ rx = None => clocked = idx
        /\ rx # None => clocked = idx + 1 /\ rx = <<seg, clocked>>
        /\ rx # None /\ idx + 1 = Total => pc \in {"full", "get"}
        /\ stp => pc = "full" /\ bus = "receive" /\ idx + 1 = Total
        /\ pc = "get" => rx # None

FreshInv ==
    \/ lastNacked
    \/ ~stale /\ Resting /\ BeforeStart /\ Addressed /\ Writing /\ ReadInStep

\* Within a run, a read is the last one and reads something.
LEMMA RunFacts ==
    ASSUME ReadsLast, TypeInv, pc # "idle"
    PROVE  /\ Total \in Nat /\ idx \in 0 .. Total /\ run \in 1 .. Len(ops)
           /\ Dir = "read" => LastRun /\ Total # 0
BY RunsOf DEF ReadsLast, TypeInv, TypeOK, Dir, Total, LastRun

LEMMA RunDir ==
    ASSUME TypeInv, pc # "idle"
    PROVE  Dir \in {"read", "write"}
<1>1. ops \in Seq(Run) /\ run \in 1 .. Len(ops)
  BY TransactionsAssumption DEF TypeInv, TypeOK
<1>2. ops[run] \in Run
  BY <1>1
<1> QED
  BY <1>2 DEF Dir, Run

LEMMA SameRun ==
    ASSUME UNCHANGED <<ops, run>>
    PROVE  (Dir' = Dir) /\ (Total' = Total) /\ (LastRun' <=> LastRun)
BY DEF Dir, Total, LastRun

LEMMA FreshInvInit == Init => FreshInv
BY DEF Init, FreshInv, Resting, BeforeStart, Addressed, Writing, ReadInStep, Before,
       Reading

LEMMA FreshInvBus ==
    ASSUME ReadsLast, Prompt, TypeInv, BusInv, FreshInv, Bus
    PROVE  FreshInv'
<1> SUFFICES ASSUME ~lastNacked' PROVE FreshInv'
  BY DEF FreshInv
<1>0. /\ ~lastNacked
      /\ UNCHANGED <<pc, ops, run, idx, stale>>
      /\ {seg, clocked, idx, run} \subseteq Nat
      /\ (Dir' = Dir) /\ (Total' = Total) /\ (LastRun' <=> LastRun)
  <2>1. ~lastNacked /\ UNCHANGED <<pc, ops, run, idx, stale>>
    <3>1. ASSUME NEW ack \in BOOLEAN, Address(ack)
          PROVE  ~lastNacked /\ UNCHANGED <<pc, ops, run, idx, stale>>
      BY <3>1, Zenon DEF Address, cpu
    <3>2. CASE LoadShift \/ StopOut
      BY <3>2 DEF LoadShift, StopOut, cpu, slave
    <3>3. CASE ByteAcked \/ ReceiveByte
      BY <3>3 DEF ByteAcked, ReceiveByte, cpu
    <3>4. CASE ByteNacked
      BY <3>4 DEF ByteNacked, cpu
    <3> QED
      BY <3>1, <3>2, <3>3, <3>4 DEF Bus
  <2> QED
    BY <2>1, SameRun DEF TypeInv
<1>1. ~stale /\ Resting /\ BeforeStart /\ Addressed /\ Writing /\ ReadInStep
  BY <1>0 DEF FreshInv
<1>2. pc # "idle" => /\ Total \in Nat /\ idx \in 0 .. Total
                     /\ Dir = "read" => LastRun /\ Total # 0
  BY RunFacts
<1>b. /\ stt => pc = "address" \/ (pc = "closing" /\ stp)
      /\ pc = "idle" => bus = "idle" /\ ~stp
      /\ pc = "address" => idx = 0
      /\ pc \in {"full", "get"} /\ LastRun /\ idx + 1 = Total => stp \/ bus = "idle"
  BY DEF BusInv, Gone
<1> SUFFICES (Resting /\ BeforeStart /\ Addressed /\ Writing /\ ReadInStep)'
  BY <1>0, <1>1 DEF FreshInv
<1> USE DEF Resting, BeforeStart, Addressed, Writing, ReadInStep, Before, Reading
<1>3. ASSUME NEW ack \in BOOLEAN, Address(ack)
      PROVE  (Resting /\ BeforeStart /\ Addressed /\ Writing /\ ReadInStep)'
  <2>1. /\ stt /\ BetweenBytes
        /\ ~stt' /\ ~stp' /\ tx' = None
        /\ nack' <=> (nack \/ ~ack)
        /\ stp => bus' = "idle"
        /\ ~stp /\ ~ack => bus' = "held"
        /\ ~stp /\ ack => bus' = IF tr THEN "transmit" ELSE "receive"
        /\ clocked' = 0
        /\ UNCHANGED <<tr, rx, shift>>
    BY <1>3, Zenon DEF Address
  <2>2. shift = None /\ rx = None /\ ~nack /\ (tr <=> Dir = "write")
    BY <1>1, <2>1 DEF BetweenBytes
  <2>3. pc = "closing" => stp
    BY <1>b, <2>1
  <2>4. pc = "address" => ~stp /\ idx = 0
    BY <1>b, <1>1
  <2>5. pc \in {"address", "closing"}
    BY <1>b, <2>1
  <2>6. (Resting /\ BeforeStart)'
    BY <1>0, <2>1, <2>2, <2>3, <2>4, <2>5, RunDir
  <2>7. (Addressed /\ Writing)'
    BY <1>0, <2>1, <2>2, <2>3, <2>4, <2>5
  <2>8. ReadInStep'
    BY <1>0, <1>2, <2>1, <2>2, <2>3, <2>4, <2>5
  <2> QED
    BY <2>6, <2>7, <2>8
<1>4. CASE LoadShift
  BY <1>0, <1>1, <1>2, <1>b, <1>4 DEF LoadShift, slave
<1>5. CASE ByteAcked
  BY <1>0, <1>1, <1>2, <1>b, <1>5 DEF ByteAcked
<1>6. CASE ByteNacked
  BY <1>0, <1>1, <1>2, <1>b, <1>6 DEF ByteNacked
<1>7. CASE ReceiveByte
  <2>1. /\ bus = "receive" /\ rx = None /\ ~StopDue
        /\ clocked' = clocked + 1 /\ rx' = <<seg, clocked + 1>>
        /\ ~stt /\ ~stp'
        /\ bus' = IF stp THEN "idle" ELSE "receive"
        /\ UNCHANGED <<stt, tr, nack, tx, shift, seg>>
    BY <1>1, <1>7 DEF ReceiveByte
  <2>2. Reading /\ clocked = idx /\ idx < Total
    BY <1>1, <2>1
  <2>3. /\ rx' # None
        /\ idx + 1 = Total => stp /\ pc = "full"
    BY <1>0, <1>1, <1>2, <1>b, <2>1, <2>2 DEF StopDue, None
  <2>4. stp => idx + 1 = Total
    BY <1>1, <2>2
  <2>5. (Resting /\ BeforeStart /\ Addressed /\ Writing)'
    BY <1>0, <1>1, <2>1, <2>2
  <2>6. ReadInStep'
    BY <1>0, <1>1, <1>2, <2>1, <2>2, <2>3, <2>4
  <2> QED
    BY <2>5, <2>6
<1>8. CASE StopOut
  BY <1>0, <1>1, <1>2, <1>b, <1>8 DEF StopOut, BetweenBytes, slave
<1> QED
  BY <1>3, <1>4, <1>5, <1>6, <1>7, <1>8 DEF Bus

LEMMA FreshInvCpu ==
    ASSUME ReadsLast, TypeInv, BusInv, FreshInv, Cpu
    PROVE  FreshInv'
<1> SUFFICES ASSUME ~lastNacked' PROVE FreshInv'
  BY DEF FreshInv
<1>0. /\ ~lastNacked /\ UNCHANGED <<ops, seg, clocked>>
      /\ {seg, clocked, idx, run} \subseteq Nat
      /\ pc # "idle"
  <2> USE DEF slave
  <2>1. CASE PriorStop \/ ClearFlags \/ RequestStart \/ AddressDone \/ Verdict
    BY <2>1 DEF PriorStop, ClearFlags, RequestStart, AddressDone, Verdict, TypeInv
  <2>2. CASE TxReady \/ Put \/ ReadStep \/ RxFull \/ Get
    BY <2>2 DEF TxReady, WriteStep, Put, ReadStep, RxFull, Get, TypeInv
  <2>3. CASE RequestStop \/ StopDone \/ Closed
    BY <2>3 DEF RequestStop, StopDone, Closed, TypeInv
  <2>4. CASE GiveUp
    BY <2>4 DEF GiveUp, Pending, TypeInv
  <2> QED
    BY <2>1, <2>2, <2>3, <2>4 DEF Cpu
<1>1. ~stale /\ Resting /\ BeforeStart /\ Addressed /\ Writing /\ ReadInStep
  BY <1>0 DEF FreshInv
<1>2. /\ Total \in Nat /\ idx \in 0 .. Total /\ run \in 1 .. Len(ops)
      /\ Dir = "read" => LastRun /\ Total # 0
  BY <1>0, RunFacts
<1>b. /\ stt => pc = "address" \/ (pc = "closing" /\ stp)
      /\ pc \in {"stopping", "closing"} => stp \/ bus = "idle"
      /\ pc \in {"prior", "clear", "start", "address", "verdict"} => idx = 0
      /\ pc \in {"full", "get"} /\ LastRun /\ idx + 1 = Total => stp \/ bus = "idle"
  BY DEF BusInv, Gone
<1> SUFFICES (~stale /\ Resting /\ BeforeStart /\ Addressed /\ Writing /\ ReadInStep)'
  BY DEF FreshInv
<1> USE DEF Resting, BeforeStart, Addressed, Writing, ReadInStep, Before, Reading,
       hw, slave
<1>3. CASE PriorStop
  BY <1>0, <1>1, <1>3, SameRun DEF PriorStop
<1>4. CASE ClearFlags
  BY <1>0, <1>1, <1>b, <1>4, SameRun DEF ClearFlags
<1>5. CASE RequestStart
  BY <1>0, <1>1, <1>b, <1>5, SameRun DEF RequestStart, Probe
<1>6. CASE AddressDone
  BY <1>0, <1>1, <1>6, SameRun DEF AddressDone
<1>7. CASE Verdict
  <2>1. /\ pc = "verdict" /\ ~stt /\ ~stp
        /\ UNCHANGED <<hw, slave, ops, run, idx, stale>>
        /\ nack => pc' = "stop"
        /\ ~nack => pc' = IF Dir = "write" THEN "ready" ELSE "next"
    BY <1>1, <1>b, <1>7 DEF Verdict
  <2>2. Dir \in {"read", "write"} /\ bus \in {"idle", "transmit", "receive", "held"}
    BY <1>0, RunDir DEF TypeInv, TypeOK
  <2>3. CASE nack
    BY <1>0, <1>1, <2>1, <2>2, <2>3, SameRun
  <2>4. CASE ~nack
    <3>1. (Resting /\ BeforeStart /\ Addressed /\ Writing)'
      BY <1>0, <1>1, <1>b, <2>1, <2>2, <2>4, SameRun
    <3>2. ReadInStep'
      BY <1>0, <1>1, <2>1, <2>2, <2>4, SameRun
    <3> QED
      BY <1>1, <2>1, <3>1, <3>2
  <2> QED
    BY <2>3, <2>4
<1>8. CASE TxReady
  <2>1. CASE nack
    BY <1>0, <1>1, <1>b, <1>8, <2>1, SameRun DEF TxReady
  <2>2. CASE ~nack /\ pc' # "clear"
    BY <1>0, <1>1, <1>b, <1>8, <2>2, SameRun DEF TxReady, WriteStep, NextRun
  <2>3. CASE ~nack /\ pc' = "clear"
    <3>1. /\ tx = None /\ idx = Total /\ bus = "transmit" /\ pc = "ready"
          /\ shift # None => shift = <<run, Total>>
          /\ UNCHANGED <<hw, ops, stale>>
      BY <1>0, <1>1, <1>8, <2>3 DEF TxReady, WriteStep, NextRun
    <3>2. shift # None => shift[2] = ops[shift[1]].n
      BY <3>1 DEF Total
    <3> QED
      BY <1>0, <1>1, <1>b, <2>3, <3>1, <3>2
  <2> QED
    BY <2>1, <2>2, <2>3
<1>9. CASE Put
  BY <1>0, <1>1, <1>2, <1>b, <1>9, SameRun DEF Put, None
<1>10. CASE ReadStep
  <2>0. stp' = (stp \/ StopHere)
    BY <1>10 DEF ReadStep
  <2>1. /\ pc = "next" /\ Reading
        /\ idx < Total => pc' = "full"
        /\ idx = Total => pc' = "closing"
        /\ UNCHANGED <<stt, tr, nack, tx, rx, bus, shift, slave, ops, run, idx,
                       stale>>
    BY <1>0, <1>1, <1>2, <1>b, <1>10 DEF ReadStep
  <2>2. stp' <=> (stp \/ idx + 1 = Total)
    BY <1>1, <1>2, <2>0, <2>1 DEF StopHere
  <2>3. (Resting /\ BeforeStart /\ Addressed /\ Writing)'
    BY <1>0, <1>1, <1>2, <2>1, SameRun
  <2>4. ReadInStep'
    BY <1>0, <1>1, <1>2, <2>1, <2>2, SameRun
  <2> QED
    BY <1>1, <2>1, <2>3, <2>4
<1>11. CASE RxFull
  BY <1>0, <1>1, <1>11, SameRun DEF RxFull
<1>12. CASE Get
  BY <1>0, <1>1, <1>2, <1>b, <1>12, SameRun DEF Get
<1>13. CASE RequestStop
  BY <1>0, <1>1, <1>b, <1>13, SameRun DEF RequestStop
<1>14. CASE StopDone
  BY <1>0, <1>1, <1>b, <1>14, SameRun DEF StopDone
<1>15. CASE Closed
  BY <1>0, <1>1, <1>b, <1>15, SameRun DEF Closed
<1>16. CASE GiveUp
  BY <1>0, <1>1, <1>16, SameRun DEF GiveUp, Recover
<1> QED
  BY <1>3, <1>4, <1>5, <1>6, <1>7, <1>8, <1>9, <1>10, <1>11, <1>12, <1>13, <1>14,
     <1>15, <1>16 DEF Cpu

LEMMA FreshInvNext ==
    ASSUME ReadsLast, Prompt, TypeInv, BusInv, FreshInv, [Next]_vars
    PROVE  FreshInv'
<1> USE DEF FreshInv, Resting, BeforeStart, Addressed, Writing, ReadInStep, Before,
            Reading
<1>1. ASSUME NEW t \in Transactions, Call(t) PROVE FreshInv'
  <2>1. /\ pc = "idle" /\ pc' = "prior"
        /\ UNCHANGED <<stt, stp, tr, nack, tx, rx, bus, shift, lastNacked, stale>>
    BY <1>1 DEF Call, hw
  <2>2. bus = "idle" /\ ~stp /\ ~stt
    BY <2>1 DEF BusInv
  <2> QED
    BY <2>1, <2>2
<1>2. CASE UNCHANGED vars
  BY <1>2, SameRun DEF vars, hw, slave, cpu
<1> QED
  BY <1>1, <1>2, FreshInvBus, FreshInvCpu DEF Next

\* With Prompt, and for transactions that read at their end, no read takes a
\* byte of another, up to the first NACK of a last byte that goes unnoticed.
THEOREM FreshReadCorrect ==
    ASSUME ReadsLast, Prompt
    PROVE  Spec => []FreshRead
<1>1. FreshInv => FreshRead
  BY DEF FreshInv, FreshRead
<1>2. TypeInv /\ BusInv /\ FreshInv /\ [Next]_vars =>
        (TypeInv /\ BusInv /\ FreshInv)'
  BY TypeInvNext, BusInvNext, FreshInvNext
<1> QED
  BY <1>1, <1>2, TypeInvInit, BusInvInit, FreshInvInit, PTL DEF Spec
-----------------------------------------------------------------------------
HIDE DEF Step

SlaveEvent == {Slave!Start(d) : d \in {"write", "read"}} \cup {Slave!Received(b) : b \in Nat} \cup {Slave!Stop}

\* A START and a STOP that are on the bus and not delivered yet.
SlaveStartDue == sStt \/ sPc = "direction"
SlaveStopDue == sStp \/ sPc = "flush"

\* What is due, oldest first.  A bus that is idle ended with the STOP.
SlaveFlagged ==
    IF SlaveStartDue /\ SlaveStopDue
      THEN IF sSeg = "idle" THEN <<Slave!Start(uctr), Slave!Stop>> ELSE <<Slave!Stop, Slave!Start(uctr)>>
      ELSE IF SlaveStartDue THEN <<Slave!Start(uctr)>>
      ELSE IF SlaveStopDue THEN <<Slave!Stop>> ELSE <<>>

SlaveLanded == IF sRx = Slave!None THEN <<>> ELSE <<Slave!Received(sRx)>>

SlaveDeliveryInv ==
    /\ seen \in Seq(SlaveEvent) /\ sBus \in Seq(SlaveEvent)
    /\ sBus = seen \o (SlaveLanded \o SlaveFlagged)

SlaveFlagInv ==
    /\ nacked \in BOOLEAN /\ sStt \in BOOLEAN /\ sStp \in BOOLEAN
    /\ attached \in BOOLEAN /\ transmitting \in BOOLEAN /\ sStale \in BOOLEAN

SlaveControlInv ==
    /\ sSeg \in {"idle", "write", "read"} /\ uctr \in {"write", "read"}
    /\ sPc \in {"poll", "receive", "busy?", "stop", "flush", "start",
                "direction", "answer"}

SlaveNumberInv ==
    /\ segNo \in 0 .. MaxSegments /\ moved \in 0 .. MaxBytes
    /\ sSeg = "read" /\ ~nacked => moved < MaxBytes
    /\ sRx \in 0 .. Len(sBus) /\ appSeg \in Nat
    /\ sTx \in 0 .. MaxSegments /\ sShift \in 0 .. MaxSegments

SlaveBusInv ==
    /\ sSeg # "idle" => attached /\ uctr = sSeg
    /\ sSeg # "idle" /\ SlaveStopDue => SlaveStartDue
    /\ sSeg = "idle" /\ SlaveStartDue => sStp

SlavePollInv ==
    /\ sPc = "receive" => sRx # Slave!None
    /\ sPc \in {"busy?", "stop", "flush", "start", "direction"} => sRx = Slave!None
    /\ sPc = "busy?" => sStt /\ sStp
    /\ sPc = "stop" => sStp /\ (sStt => sSeg # "idle")
    /\ sPc = "flush" => sSeg = "idle" /\ ~sStt /\ ~sStp /\ ~transmitting
    /\ sPc = "start" => sStt /\ (sStp => sSeg = "idle")
    /\ sPc = "direction" => ~sStt /\ (sStp => sSeg = "idle") /\ ~transmitting
    /\ sPc = "answer" => transmitting

SlaveReadInv ==
    /\ transmitting => /\ ~SlaveStartDue /\ sRx = Slave!None
                       /\ sSeg = "idle" => sStp
                       /\ sSeg # "idle" => sSeg = "read" /\ ~sStp
    /\ sShift # Slave!None => sSeg = "read" /\ ~nacked /\ sShift = segNo
    /\ sTx # Slave!None => sTx = segNo /\ (transmitting \/ sPc = "flush")
    /\ SlaveStartDue => appSeg = segNo - 1
    /\ ~SlaveStartDue => appSeg = segNo
    /\ ~sStale

SlaveInv == SlaveFlagInv /\ SlaveControlInv /\ SlaveNumberInv /\ SlaveBusInv /\ SlavePollInv /\ SlaveReadInv /\ SlaveDeliveryInv
-----------------------------------------------------------------------------
LEMMA SlaveFlagStep ==
    SlaveFlagInv /\ SlaveControlInv /\ [Slave!Next]_(Slave!vars) => SlaveFlagInv'
<1> SUFFICES ASSUME SlaveFlagInv, SlaveControlInv, [Slave!Next]_(Slave!vars)
             PROVE  SlaveFlagInv'
  OBVIOUS
<1>1. ASSUME NEW d \in {"write", "read"}, Slave!MasterStart(d)
      PROVE  SlaveFlagInv'
  BY <1>1 DEF SlaveFlagInv, Slave!MasterStart, Slave!swVars
<1>2. CASE Slave!Transfer
  BY <1>2 DEF SlaveFlagInv, Slave!Transfer, Slave!MasterWrite, Slave!LoadShift,
     Slave!MasterRead, Slave!swVars, Slave!busVars
<1>3. CASE Slave!MasterStop
  BY <1>3 DEF SlaveFlagInv, Slave!MasterStop, Slave!swVars
<1>4. CASE Slave!Poll \/ Slave!Receive \/ Slave!ReadBusy \/ Slave!Answer
  BY <1>4 DEF SlaveFlagInv, Slave!Poll, Slave!Receive, Slave!ReadBusy,
     Slave!Answer, Slave!busVars, Slave!hwVars
<1>5. CASE Slave!ClearStop \/ Slave!Flush
  BY <1>5 DEF SlaveFlagInv, Slave!ClearStop, Slave!Flush, Slave!busVars,
     Slave!hwVars
<1>6. CASE Slave!ClearStart \/ Slave!ReadDirection
  BY <1>6 DEF SlaveFlagInv, SlaveControlInv, Slave!ClearStart, Slave!ReadDirection,
     Slave!busVars, Slave!hwVars
<1>7. CASE UNCHANGED Slave!vars
  BY <1>7 DEF SlaveFlagInv, Slave!vars, Slave!busVars, Slave!hwVars, Slave!swVars
<1> QED
  BY <1>1, <1>2, <1>3, <1>4, <1>5, <1>6, <1>7 DEF Slave!Next, Slave!Slave

LEMMA SlaveControlStep ==
    SlaveControlInv /\ [Slave!Next]_(Slave!vars) => SlaveControlInv'
<1> SUFFICES ASSUME SlaveControlInv, [Slave!Next]_(Slave!vars)
             PROVE  SlaveControlInv'
  OBVIOUS
<1>1. ASSUME NEW d \in {"write", "read"}, Slave!MasterStart(d)
      PROVE  SlaveControlInv'
  BY <1>1 DEF SlaveControlInv, Slave!MasterStart, Slave!swVars
<1>2. CASE Slave!Transfer
  BY <1>2 DEF SlaveControlInv, Slave!Transfer, Slave!MasterWrite, Slave!LoadShift,
     Slave!MasterRead, Slave!swVars, Slave!busVars
<1>3. CASE Slave!MasterStop
  BY <1>3 DEF SlaveControlInv, Slave!MasterStop, Slave!swVars
<1>4. CASE Slave!Poll
  BY <1>4 DEF SlaveControlInv, Slave!Poll, Slave!Decide, Slave!busVars, Slave!hwVars
<1>5. CASE Slave!Receive \/ Slave!ReadBusy \/ Slave!Answer
  BY <1>5 DEF SlaveControlInv, Slave!Receive, Slave!ReadBusy, Slave!Answer,
     Slave!busVars, Slave!hwVars
<1>6. CASE Slave!ClearStop \/ Slave!Flush
  BY <1>6 DEF SlaveControlInv, Slave!ClearStop, Slave!Flush, Slave!busVars,
     Slave!hwVars
<1>7. CASE Slave!ClearStart \/ Slave!ReadDirection
  BY <1>7 DEF SlaveControlInv, Slave!ClearStart, Slave!ReadDirection,
     Slave!busVars, Slave!hwVars
<1>8. CASE UNCHANGED Slave!vars
  BY <1>8 DEF SlaveControlInv, Slave!vars, Slave!busVars, Slave!hwVars, Slave!swVars
<1> QED
  BY <1>1, <1>2, <1>3, <1>4, <1>5, <1>6, <1>7, <1>8 DEF Slave!Next, Slave!Slave

LEMMA SlaveBusStep == SlaveInv /\ [Slave!Next]_(Slave!vars) => SlaveBusInv'
<1> SUFFICES ASSUME SlaveInv, [Slave!Next]_(Slave!vars) PROVE SlaveBusInv'
  OBVIOUS
<1>1. ASSUME NEW d \in {"write", "read"}, Slave!MasterStart(d)
      PROVE  SlaveBusInv'
  <2>1. /\ sSeg' = d /\ uctr' = d /\ attached' /\ sStt' /\ UNCHANGED <<sStp, sPc>>
    BY <1>1 DEF Slave!MasterStart, Slave!swVars
  <2> QED
    BY <2>1 DEF SlaveBusInv, SlaveStartDue, SlaveStopDue
<1>2. CASE Slave!Transfer
  BY <1>2 DEF SlaveInv, SlaveBusInv, SlaveStartDue, SlaveStopDue, Slave!Transfer,
     Slave!MasterWrite, Slave!LoadShift, Slave!MasterRead, Slave!swVars,
     Slave!busVars
<1>3. CASE Slave!MasterStop
  <2>1. /\ sSeg # "idle" /\ sSeg' = "idle" /\ sStp' = (sStp \/ attached)
        /\ UNCHANGED <<sStt, sPc>>
    BY <1>3 DEF Slave!MasterStop, Slave!swVars
  <2> QED
    BY <2>1 DEF SlaveInv, SlaveBusInv, SlaveStartDue, SlaveStopDue
<1>4. CASE Slave!Poll
  <2>1. sPc = "poll" /\ sPc' \in {"receive", "busy?", "stop", "start", "answer"}
        /\ UNCHANGED <<sSeg, attached, uctr, sStt, sStp>>
    BY <1>4 DEF Slave!Poll, Slave!Decide, Slave!busVars, Slave!hwVars
  <2> QED
    BY <2>1 DEF SlaveInv, SlaveBusInv, SlaveStartDue, SlaveStopDue
<1>5. CASE Slave!Receive \/ Slave!ReadBusy \/ Slave!Answer
  BY <1>5 DEF SlaveInv, SlaveBusInv, SlaveStartDue, SlaveStopDue, Slave!Receive,
     Slave!ReadBusy, Slave!Answer, Slave!busVars, Slave!hwVars
<1>6. CASE Slave!ClearStop
  BY <1>6 DEF SlaveInv, SlaveBusInv, SlavePollInv, SlaveStartDue, SlaveStopDue,
     Slave!ClearStop, Slave!busVars
<1>7. CASE Slave!Flush
  BY <1>7 DEF SlaveInv, SlaveBusInv, SlavePollInv, SlaveStartDue, SlaveStopDue,
     Slave!Flush, Slave!busVars, Slave!hwVars
<1>8. CASE Slave!ClearStart
  BY <1>8 DEF SlaveInv, SlaveBusInv, SlavePollInv, SlaveStartDue, SlaveStopDue,
     Slave!ClearStart, Slave!busVars
<1>9. CASE Slave!ReadDirection
  BY <1>9 DEF SlaveInv, SlaveBusInv, SlavePollInv, SlaveStartDue, SlaveStopDue,
     Slave!ReadDirection, Slave!busVars, Slave!hwVars
<1>10. CASE UNCHANGED Slave!vars
  BY <1>10 DEF SlaveInv, SlaveBusInv, SlaveStartDue, SlaveStopDue, Slave!vars,
     Slave!busVars, Slave!hwVars, Slave!swVars
<1> QED
  BY <1>1, <1>2, <1>3, <1>4, <1>5, <1>6, <1>7, <1>8, <1>9, <1>10 DEF Slave!Next,
     Slave!Slave

LEMMA SlavePollStep == SlaveInv /\ [Slave!Next]_(Slave!vars) => SlavePollInv'
<1> SUFFICES ASSUME SlaveInv, [Slave!Next]_(Slave!vars) PROVE SlavePollInv'
  OBVIOUS
<1>1. ASSUME NEW d \in {"write", "read"}, Slave!MasterStart(d)
      PROVE  SlavePollInv'
  <2>1. /\ sSeg' = d /\ sStt' /\ UNCHANGED <<sStp, sPc, sRx, transmitting>>
        /\ ~sStt /\ sPc \notin {"start", "direction", "flush"}
    BY <1>1 DEF Slave!MasterStart, Slave!swVars, Slave!StartPolled, Slave!ReadEnded
  <2> QED
    BY <2>1 DEF SlaveInv, SlavePollInv
<1>2. CASE Slave!MasterWrite
  <2>1. /\ UNCHANGED <<sPc, sStt, sStp, sSeg, transmitting>> /\ sRx' = Len(sBus) + 1
        /\ sSeg = "write" /\ ~sStt /\ sPc \notin {"start", "direction"}
    BY <1>2 DEF Slave!MasterWrite, Slave!swVars, Slave!StartPolled
  <2>2. sPc \notin {"busy?", "stop", "flush"}
    BY <2>1 DEF SlaveInv, SlavePollInv, SlaveBusInv, SlaveStartDue, SlaveStopDue
  <2>3. sRx' # Slave!None
    BY <2>1, LenProperties DEF SlaveInv, SlaveDeliveryInv, Slave!None
  <2> QED
    BY <2>1, <2>2, <2>3 DEF SlaveInv, SlavePollInv
<1>3. CASE Slave!LoadShift \/ (\E last \in BOOLEAN : Slave!MasterRead(last))
  BY <1>3 DEF SlaveInv, SlavePollInv, Slave!LoadShift, Slave!MasterRead,
     Slave!swVars, Slave!busVars
<1>4. CASE Slave!MasterStop
  <2>1. /\ sSeg # "idle" /\ sSeg' = "idle" /\ ~sStp
        /\ UNCHANGED <<sPc, sStt, sRx, transmitting>>
    BY <1>4 DEF Slave!MasterStop, Slave!swVars
  <2> QED
    BY <2>1 DEF SlaveInv, SlavePollInv
<1>5. CASE Slave!Poll
  <2>1. /\ sPc = "poll"
        /\ sPc' = Slave!Decide(sRx # Slave!None, sStt, sStp, sTx = Slave!None)
        /\ UNCHANGED <<sSeg, sRx, sStt, sStp, transmitting>>
    BY <1>5 DEF Slave!Poll, Slave!busVars, Slave!hwVars
  <2>2. /\ sPc' \in {"receive", "busy?", "stop", "start", "answer", "poll"}
        /\ sPc' = "receive" => sRx # Slave!None
        /\ sPc' # "receive" => sRx = Slave!None
        /\ sPc' = "busy?" => sStt /\ sStp
        /\ sPc' = "stop" => sStp /\ ~sStt
        /\ sPc' = "start" => sStt /\ ~sStp
        /\ sPc' = "answer" => transmitting
    BY <2>1 DEF Slave!Decide
  <2> QED
    BY <2>1, <2>2 DEF SlavePollInv
<1>6. CASE Slave!Receive \/ Slave!Answer
  BY <1>6 DEF SlavePollInv, Slave!Receive, Slave!Answer
<1>7. CASE Slave!ReadBusy
  BY <1>7 DEF SlaveInv, SlavePollInv, Slave!ReadBusy, Slave!Busy, Slave!busVars,
     Slave!hwVars
<1>8. CASE Slave!ClearStop
  <2>1. /\ sPc = "stop" /\ ~sStp' /\ ~transmitting' /\ UNCHANGED <<sStt, sSeg, sRx>>
        /\ sPc' = IF transmitting THEN "flush" ELSE "poll"
    BY <1>8 DEF Slave!ClearStop, Slave!busVars
  <2>2. sRx = Slave!None /\ sStp /\ (transmitting => ~sStt /\ sSeg = "idle")
    BY <2>1 DEF SlaveInv, SlavePollInv, SlaveReadInv, SlaveStartDue
  <2> QED
    BY <2>1, <2>2 DEF SlavePollInv
<1>9. CASE Slave!Flush
  BY <1>9 DEF SlavePollInv, Slave!Flush
<1>10. CASE Slave!ClearStart
  <2>1. /\ sPc = "start" /\ sPc' = "direction" /\ ~sStt'
        /\ UNCHANGED <<sStp, sSeg, sRx, transmitting>>
    BY <1>10 DEF Slave!ClearStart, Slave!busVars
  <2>2. sRx = Slave!None /\ (sStp => sSeg = "idle") /\ ~transmitting
    BY <2>1 DEF SlaveInv, SlavePollInv, SlaveReadInv, SlaveStartDue
  <2> QED
    BY <2>1, <2>2 DEF SlavePollInv
<1>11. CASE Slave!ReadDirection
  BY <1>11 DEF SlavePollInv, Slave!ReadDirection
<1>12. CASE UNCHANGED Slave!vars
  BY <1>12 DEF SlaveInv, SlavePollInv, Slave!vars, Slave!busVars, Slave!hwVars,
     Slave!swVars
<1> QED
  BY <1>1, <1>2, <1>3, <1>4, <1>5, <1>6, <1>7, <1>8, <1>9, <1>10, <1>11, <1>12
     DEF Slave!Next, Slave!Slave, Slave!Transfer
-----------------------------------------------------------------------------
LEMMA SlaveReadStep == SlaveInv /\ [Slave!Next]_(Slave!vars) => SlaveReadInv'
<1> SUFFICES ASSUME SlaveInv, [Slave!Next]_(Slave!vars) PROVE SlaveReadInv'
  OBVIOUS
<1>0. /\ segNo \in Nat /\ appSeg \in Nat
  BY SegmentsAssumption DEF SlaveInv, SlaveNumberInv
<1>1. ASSUME NEW d \in {"write", "read"}, Slave!MasterStart(d)
      PROVE  SlaveReadInv'
  <2>1. /\ sSeg' = d /\ sStt' /\ segNo' = segNo + 1
        /\ UNCHANGED <<sStp, sPc, sRx, sTx, sShift, transmitting, appSeg, sStale>>
        /\ ~SlaveStartDue /\ sPc # "flush" /\ (sStp => ~transmitting)
        /\ sSeg # "read"
    BY <1>1 DEF Slave!MasterStart, Slave!swVars, Slave!StartPolled,
       Slave!ReadEnded, SlaveStartDue
  <2>2. ~transmitting /\ sShift = Slave!None
    BY <2>1 DEF SlaveInv, SlaveReadInv
  <2>3. sTx = Slave!None /\ appSeg = segNo /\ ~sStale
    BY <2>1, <2>2 DEF SlaveInv, SlaveReadInv
  <2> QED
    BY <1>0, <2>1, <2>2, <2>3 DEF SlaveReadInv, SlaveStartDue
<1>2. CASE Slave!MasterWrite
  <2>1. /\ UNCHANGED <<sPc, sStt, sStp, sSeg, segNo, nacked, sTx, sShift,
                       transmitting, appSeg, sStale>>
        /\ sSeg = "write"
    BY <1>2 DEF Slave!MasterWrite, Slave!swVars
  <2>2. ~transmitting
    BY <2>1 DEF SlaveInv, SlaveReadInv
  <2> QED
    BY <2>1, <2>2 DEF SlaveInv, SlaveReadInv, SlaveStartDue
<1>3. CASE Slave!LoadShift
  BY <1>3 DEF SlaveInv, SlaveReadInv, Slave!LoadShift, SlaveStartDue, Slave!swVars,
     Slave!busVars
<1>4. ASSUME NEW last \in BOOLEAN, Slave!MasterRead(last)
      PROVE  SlaveReadInv'
  <2>1. /\ sShift # Slave!None /\ sShift' = Slave!None
        /\ (sStale' <=> sStale \/ sShift # segNo)
        /\ UNCHANGED <<sSeg, segNo, sStt, sStp, sRx, sTx, sPc, transmitting,
                       appSeg>>
    BY <1>4 DEF Slave!MasterRead, Slave!swVars, SlaveInv, SlaveFlagInv
  <2> QED
    BY <2>1 DEF SlaveInv, SlaveReadInv, SlaveStartDue
<1>5. CASE Slave!MasterStop
  <2>1. /\ sSeg # "idle" /\ sSeg' = "idle" /\ sStp' /\ (sSeg = "read" => nacked)
        /\ UNCHANGED <<sPc, sStt, sRx, segNo, sTx, sShift, transmitting, appSeg,
                       sStale>>
    BY <1>5 DEF Slave!MasterStop, Slave!swVars, SlaveInv, SlaveBusInv
  <2>2. sShift = Slave!None
    BY <2>1 DEF SlaveInv, SlaveReadInv
  <2> QED
    BY <2>1, <2>2 DEF SlaveInv, SlaveReadInv, SlaveStartDue
<1>6. CASE Slave!Poll
  <2>1. /\ sPc = "poll" /\ sPc' \in {"receive", "busy?", "stop", "start", "answer"}
        /\ UNCHANGED <<sSeg, segNo, nacked, sRx, sTx, sShift, sStt, sStp,
                       transmitting, appSeg, sStale>>
    BY <1>6 DEF Slave!Poll, Slave!Decide, Slave!busVars, Slave!hwVars
  <2> QED
    BY <2>1 DEF SlaveInv, SlaveReadInv, SlaveStartDue
<1>7. CASE Slave!Receive \/ Slave!ReadBusy
  <2>1. /\ sPc \in {"receive", "busy?"} /\ sPc' \in {"poll", "stop", "start"}
        /\ (sRx' = Slave!None \/ sRx' = sRx)
        /\ UNCHANGED <<sSeg, segNo, nacked, sTx, sShift, sStt, sStp, transmitting,
                       appSeg, sStale>>
    BY <1>7 DEF Slave!Receive, Slave!ReadBusy, Slave!busVars, Slave!hwVars
  <2> QED
    BY <2>1 DEF SlaveInv, SlaveReadInv, SlaveStartDue
<1>8. CASE Slave!Answer
  <2>1. /\ sPc = "answer" /\ sPc' = "poll" /\ sTx' = appSeg
        /\ UNCHANGED <<sSeg, segNo, nacked, sRx, sShift, sStt, sStp, transmitting,
                       appSeg, sStale>>
    BY <1>8 DEF Slave!Answer, Slave!busVars
  <2>2. transmitting
    BY <2>1 DEF SlaveInv, SlavePollInv
  <2>3. appSeg = segNo /\ ~SlaveStartDue
    BY <2>2 DEF SlaveInv, SlaveReadInv
  <2> QED
    BY <2>1, <2>2, <2>3 DEF SlaveInv, SlaveReadInv, SlaveStartDue
<1>9. CASE Slave!ClearStop
  <2>1. /\ sPc = "stop" /\ ~transmitting' /\ sPc' = IF transmitting THEN "flush" ELSE "poll"
        /\ UNCHANGED <<sStt, sSeg, segNo, nacked, sRx, sTx, sShift, appSeg, sStale>>
    BY <1>9 DEF Slave!ClearStop, Slave!busVars
  <2> QED
    BY <2>1 DEF SlaveInv, SlaveReadInv, SlaveStartDue
<1>10. CASE Slave!Flush
  <2>1. /\ sPc = "flush" /\ sPc' = "poll" /\ sTx' = Slave!None
        /\ (sShift' = Slave!None \/ sShift' = sShift)
        /\ (sStt' => sStt)
        /\ UNCHANGED <<sSeg, segNo, nacked, transmitting, appSeg, sStale>>
    BY <1>10 DEF Slave!Flush, Slave!busVars, Slave!hwVars
  <2>2. ~sStt /\ ~transmitting
    BY <2>1 DEF SlaveInv, SlavePollInv
  <2> QED
    BY <2>1, <2>2 DEF SlaveInv, SlaveReadInv, SlaveStartDue
<1>11. CASE Slave!ClearStart
  <2>1. /\ sPc = "start" /\ sPc' = "direction" /\ sStt
        /\ UNCHANGED <<sStp, sSeg, segNo, nacked, sRx, sTx, sShift, transmitting,
                       appSeg, sStale>>
    BY <1>11 DEF Slave!ClearStart, Slave!busVars, SlaveInv, SlavePollInv
  <2> QED
    BY <2>1 DEF SlaveInv, SlaveReadInv, SlaveStartDue
<1>12. CASE Slave!ReadDirection
  <2>1. /\ sPc = "direction" /\ sPc' = "poll" /\ appSeg' = appSeg + 1
        /\ (transmitting' <=> uctr = "read")
        /\ UNCHANGED <<sSeg, segNo, nacked, sRx, sTx, sShift, sStt, sStp, sStale>>
    BY <1>12 DEF Slave!ReadDirection, Slave!busVars, Slave!hwVars
  <2>2. /\ ~sStt /\ sRx = Slave!None /\ SlaveStartDue /\ ~transmitting
        /\ (sSeg = "idle" => sStp) /\ (sSeg # "idle" => uctr = sSeg /\ ~sStp)
    BY <2>1 DEF SlaveInv, SlavePollInv, SlaveBusInv, SlaveStartDue
  <2>3. sTx = Slave!None /\ appSeg = segNo - 1
    BY <2>1, <2>2 DEF SlaveInv, SlaveReadInv
  <2>4. appSeg' = segNo
    BY <1>0, <2>1, <2>3
  <2> QED
    BY <2>1, <2>2, <2>3, <2>4 DEF SlaveInv, SlaveReadInv, SlaveStartDue
<1>13. CASE UNCHANGED Slave!vars
  BY <1>13 DEF SlaveInv, SlaveReadInv, SlaveStartDue, Slave!vars, Slave!busVars,
     Slave!hwVars, Slave!swVars
<1> QED
  BY <1>1, <1>2, <1>3, <1>4, <1>5, <1>6, <1>7, <1>8, <1>9, <1>10, <1>11, <1>12,
     <1>13 DEF Slave!Next, Slave!Slave, Slave!Transfer

LEMMA SlaveEvents ==
    /\ Slave!Stop \in SlaveEvent
    /\ \A d \in {"write", "read"} : Slave!Start(d) \in SlaveEvent
    /\ \A b \in Nat : Slave!Received(b) \in SlaveEvent
  BY DEF SlaveEvent

\* One event more on the bus, and one less to deliver.
LEMMA SlaveOneMore ==
    ASSUME NEW s \in Seq(SlaveEvent), NEW p \in Seq(SlaveEvent),
           NEW q \in Seq(SlaveEvent), NEW e \in SlaveEvent
    PROVE  Append(s \o (p \o q), e) = s \o (p \o Append(q, e))
<1>1. <<e>> \in Seq(SlaveEvent) /\ p \o q \in Seq(SlaveEvent)
  BY ConcatProperties
<1>2. s \o (p \o q) \in Seq(SlaveEvent)
  BY <1>1, ConcatProperties
<1>3. Append(s \o (p \o q), e) = (s \o (p \o q)) \o <<e>>
  BY <1>2, AppendIsConcat
<1>4. (s \o (p \o q)) \o <<e>> = s \o ((p \o q) \o <<e>>)
  BY <1>1, ConcatAssociative
<1>5. (p \o q) \o <<e>> = p \o (q \o <<e>>)
  BY <1>1, ConcatAssociative
<1>6. Append(q, e) = q \o <<e>>
  BY AppendIsConcat
<1> QED
  BY <1>3, <1>4, <1>5, <1>6

LEMMA SlaveOneLess ==
    ASSUME NEW s \in Seq(SlaveEvent), NEW q \in Seq(SlaveEvent),
           NEW e \in SlaveEvent
    PROVE  s \o (<<e>> \o q) = Append(s, e) \o q
<1>1. <<e>> \in Seq(SlaveEvent)
  OBVIOUS
<1>2. s \o (<<e>> \o q) = (s \o <<e>>) \o q
  BY <1>1, ConcatAssociative
<1>3. Append(s, e) = s \o <<e>>
  BY AppendIsConcat
<1> QED
  BY <1>2, <1>3

LEMMA SlaveEmpties ==
    ASSUME NEW q \in Seq(SlaveEvent), NEW e \in SlaveEvent
    PROVE  /\ <<>> \o q = q /\ q \o <<>> = q /\ Append(<<>>, e) = <<e>>
           /\ <<>> \in Seq(SlaveEvent) /\ <<e>> \in Seq(SlaveEvent)
<1>1. <<>> \o q = q /\ q \o <<>> = q
  BY ConcatEmptySeq
<1>2. /\ Append(<<>>, e) = <<e>> /\ <<>> \in Seq(SlaveEvent)
      /\ <<e>> \in Seq(SlaveEvent)
  OBVIOUS
<1> QED
  BY <1>1, <1>2

LEMMA SlavePairs ==
    ASSUME NEW a, NEW b
    PROVE  Append(<<a>>, b) = <<a, b>> /\ <<a>> \o <<b>> = <<a, b>>
<1> DEFINE S == {a, b}
<1>1. <<a>> \in Seq(S) /\ <<b>> \in Seq(S) /\ <<a, b>> \in Seq(S)
  OBVIOUS
<1>2. Len(<<a>>) = 1 /\ Len(<<b>>) = 1 /\ Len(<<a, b>>) = 2
  OBVIOUS
<1>3. /\ <<a>> \o <<b>> \in Seq(S) /\ Len(<<a>> \o <<b>>) = 2
      /\ \A i \in 1 .. 2 :
           (<<a>> \o <<b>>)[i] = IF i <= 1 THEN <<a>>[i] ELSE <<b>>[i - 1]
  BY <1>1, <1>2, ConcatProperties
<1>4. \A i \in 1 .. 2 : (<<a>> \o <<b>>)[i] = <<a, b>>[i]
  BY <1>3
<1>5. <<a>> \o <<b>> = <<a, b>>
  BY <1>1, <1>2, <1>3, <1>4, SeqEqual
<1>6. Append(<<a>>, b) = <<a>> \o <<b>>
  BY <1>1, AppendIsConcat
<1> QED
  BY <1>5, <1>6

LEMMA SlaveDue ==
    ASSUME SlaveInv
    PROVE  SlaveLanded \in Seq(SlaveEvent) /\ SlaveFlagged \in Seq(SlaveEvent)
<1>1. /\ Slave!Start(uctr) \in SlaveEvent /\ Slave!Stop \in SlaveEvent
      /\ Slave!Received(sRx) \in SlaveEvent
  BY SlaveEvents DEF SlaveInv, SlaveControlInv, SlaveNumberInv
<1>2. ASSUME NEW a \in SlaveEvent, NEW b \in SlaveEvent
      PROVE  /\ <<>> \in Seq(SlaveEvent) /\ <<a>> \in Seq(SlaveEvent)
             /\ <<a, b>> \in Seq(SlaveEvent)
  OBVIOUS
<1> QED
  BY <1>1, <1>2 DEF SlaveLanded, SlaveFlagged

\* The master puts an event behind those that are due.
LEMMA SlaveEnqueued ==
    ASSUME SlaveInv, NEW e \in SlaveEvent, sBus' = Append(sBus, e), seen' = seen,
           \/ SlaveLanded' = SlaveLanded /\ SlaveFlagged' = Append(SlaveFlagged, e)
           \/ SlaveLanded = <<>> /\ SlaveFlagged = <<>> /\ SlaveLanded' = <<e>> /\ SlaveFlagged' = <<>>
    PROVE  SlaveDeliveryInv'
<1>1. /\ seen \in Seq(SlaveEvent) /\ sBus \in Seq(SlaveEvent)
      /\ sBus = seen \o (SlaveLanded \o SlaveFlagged)
      /\ SlaveLanded \in Seq(SlaveEvent) /\ SlaveFlagged \in Seq(SlaveEvent)
  BY SlaveDue DEF SlaveInv, SlaveDeliveryInv
<1>2. sBus' \in Seq(SlaveEvent)
  BY <1>1, AppendProperties
<1>3. CASE SlaveLanded' = SlaveLanded /\ SlaveFlagged' = Append(SlaveFlagged, e)
  <2>0. Append(seen \o (SlaveLanded \o SlaveFlagged), e) = seen \o (SlaveLanded \o Append(SlaveFlagged, e))
    <3>1. /\ seen \in Seq(SlaveEvent) /\ SlaveLanded \in Seq(SlaveEvent)
          /\ SlaveFlagged \in Seq(SlaveEvent)
      BY <1>1
    <3>2. \A s, p, q \in Seq(SlaveEvent) : \A a \in SlaveEvent :
            Append(s \o (p \o q), a) = s \o (p \o Append(q, a))
      BY SlaveOneMore
    <3> QED
      BY <3>1, <3>2, Zenon
  <2>1. sBus' = seen \o (SlaveLanded \o Append(SlaveFlagged, e))
    BY <1>1, <2>0, Zenon
  <2> QED
    BY <1>1, <1>2, <1>3, <2>1 DEF SlaveDeliveryInv
<1>4. CASE SlaveLanded = <<>> /\ SlaveFlagged = <<>> /\ SlaveLanded' = <<e>> /\ SlaveFlagged' = <<>>
  <2>1. /\ <<>> \in Seq(SlaveEvent) /\ <<e>> \in Seq(SlaveEvent)
        /\ Append(<<>>, e) = <<e>>
    BY <1>1, SlaveEmpties
  <2>2. sBus' = seen \o (<<>> \o <<e>>)
    BY <1>1, <1>4, <2>1, SlaveOneMore
  <2>3. <<>> \o <<e>> = <<e>> /\ <<e>> \o <<>> = <<e>>
    BY <2>1, ConcatEmptySeq
  <2> QED
    BY <1>1, <1>2, <1>4, <2>2, <2>3 DEF SlaveDeliveryInv
<1> QED
  BY <1>3, <1>4

\* The driver delivers the oldest.
LEMMA SlaveDequeued ==
    ASSUME SlaveInv, NEW e \in SlaveEvent, NEW q \in Seq(SlaveEvent), sBus' = sBus,
           seen' = Append(seen, e),
           SlaveLanded \o SlaveFlagged = <<e>> \o q, SlaveLanded' \o SlaveFlagged' = q
    PROVE  SlaveDeliveryInv'
<1>1. /\ seen \in Seq(SlaveEvent) /\ sBus \in Seq(SlaveEvent)
      /\ sBus = seen \o (<<e>> \o q)
  BY DEF SlaveInv, SlaveDeliveryInv
<1>2. seen' \in Seq(SlaveEvent)
  BY <1>1, AppendProperties
<1>3. sBus = Append(seen, e) \o q
  BY <1>1, SlaveOneLess
<1> QED
  BY <1>1, <1>2, <1>3 DEF SlaveDeliveryInv

LEMMA SlaveDeliveryStep ==
    SlaveInv /\ [Slave!Next]_(Slave!vars) => SlaveDeliveryInv'
<1> SUFFICES ASSUME SlaveInv, [Slave!Next]_(Slave!vars) PROVE SlaveDeliveryInv'
  OBVIOUS
<1>0. /\ Slave!Start(uctr) \in SlaveEvent /\ Slave!Stop \in SlaveEvent
      /\ SlaveLanded \in Seq(SlaveEvent) /\ SlaveFlagged \in Seq(SlaveEvent)
      /\ <<>> \in Seq(SlaveEvent)
      /\ (\A e \in SlaveEvent : <<e>> \in Seq(SlaveEvent))
  <2>1. Slave!Start(uctr) \in SlaveEvent /\ Slave!Stop \in SlaveEvent
    BY SlaveEvents DEF SlaveInv, SlaveControlInv
  <2>2. /\ <<>> \in Seq(SlaveEvent)
        /\ (\A e \in SlaveEvent : <<e>> \in Seq(SlaveEvent))
    OBVIOUS
  <2> QED
    BY <2>1, <2>2, SlaveDue
<1>1. ASSUME NEW d \in {"write", "read"}, Slave!MasterStart(d)
      PROVE  SlaveDeliveryInv'
  <2>1. /\ sSeg' = d /\ uctr' = d /\ sStt' /\ UNCHANGED <<sStp, sPc, sRx, seen>>
        /\ ~SlaveStartDue /\ sBus' = Append(sBus, Slave!Start(d))
    BY <1>1 DEF Slave!MasterStart, Slave!swVars, Slave!StartPolled, SlaveStartDue
  <2>2. /\ SlaveLanded' = SlaveLanded /\ SlaveStartDue'
        /\ (SlaveStopDue' <=> SlaveStopDue)
        /\ d # "idle" /\ Slave!Start(d) \in SlaveEvent
    BY <2>1, SlaveEvents DEF SlaveLanded, SlaveStartDue, SlaveStopDue
  <2>3. SlaveFlagged' = IF SlaveStopDue THEN <<Slave!Stop, Slave!Start(d)>> ELSE <<Slave!Start(d)>>
    BY <2>1, <2>2 DEF SlaveFlagged
  <2>4. SlaveFlagged = IF SlaveStopDue THEN <<Slave!Stop>> ELSE <<>>
    BY <2>1 DEF SlaveFlagged
  <2>5. SlaveFlagged' = Append(SlaveFlagged, Slave!Start(d))
    BY <1>0, <2>2, <2>3, <2>4, SlavePairs, SlaveEmpties
  <2> QED
    BY <2>1, <2>2, <2>5, SlaveEnqueued
<1>2. CASE Slave!MasterWrite
  <2>1. /\ UNCHANGED <<sStt, sStp, uctr, sSeg, sPc, seen>> /\ sRx = Slave!None
        /\ sRx' = Len(sBus) + 1
        /\ sSeg = "write" /\ ~SlaveStartDue
        /\ sBus' = Append(sBus, Slave!Received(Len(sBus) + 1))
    BY <1>2 DEF Slave!MasterWrite, Slave!swVars, Slave!StartPolled, SlaveStartDue
  <2>2. ~SlaveStopDue
    BY <2>1 DEF SlaveInv, SlaveBusInv
  <2>3. ~SlaveStartDue' /\ ~SlaveStopDue'
    BY <2>1, <2>2 DEF SlaveStartDue, SlaveStopDue
  <2>4. Len(sBus) + 1 \in Nat /\ Len(sBus) + 1 # Slave!None
    BY DEF SlaveInv, SlaveDeliveryInv, Slave!None
  <2>5. /\ SlaveLanded = <<>> /\ SlaveFlagged = <<>>
        /\ SlaveLanded' = <<Slave!Received(Len(sBus) + 1)>> /\ SlaveFlagged' = <<>>
    BY <2>1, <2>2, <2>3, <2>4 DEF SlaveLanded, SlaveFlagged
  <2> QED
    BY <2>1, <2>4, <2>5, SlaveEnqueued, SlaveEvents
<1>3. CASE Slave!MasterStop
  <2>1. /\ UNCHANGED <<sStt, uctr, sPc, sRx, seen>> /\ sSeg # "idle"
        /\ sSeg' = "idle"
        /\ ~sStp /\ sStp' /\ sBus' = Append(sBus, Slave!Stop)
    BY <1>3 DEF Slave!MasterStop, Slave!swVars, SlaveInv, SlaveBusInv
  <2>2. /\ ~SlaveStopDue /\ SlaveStopDue' /\ (SlaveStartDue' <=> SlaveStartDue)
        /\ SlaveLanded' = SlaveLanded
    BY <2>1 DEF SlaveInv, SlavePollInv, SlaveStopDue, SlaveStartDue, SlaveLanded
  <2>3. /\ SlaveFlagged' = IF SlaveStartDue THEN <<Slave!Start(uctr), Slave!Stop>> ELSE <<Slave!Stop>>
        /\ SlaveFlagged = IF SlaveStartDue THEN <<Slave!Start(uctr)>> ELSE <<>>
    BY <2>1, <2>2 DEF SlaveFlagged
  <2>4. SlaveFlagged' = Append(SlaveFlagged, Slave!Stop)
    BY <1>0, <2>3, SlavePairs, SlaveEmpties
  <2> QED
    BY <1>0, <2>1, <2>2, <2>4, SlaveEnqueued
<1>4. CASE Slave!Receive
  <2>1. /\ UNCHANGED <<sStt, sStp, uctr, sSeg, sBus>> /\ sRx' = Slave!None
        /\ seen' = Append(seen, Slave!Received(sRx))
        /\ sPc = "receive" /\ sPc' = "poll"
    BY <1>4 DEF Slave!Receive, Slave!busVars
  <2>2. sRx # Slave!None /\ Slave!Received(sRx) \in SlaveEvent
    BY <2>1, SlaveEvents DEF SlaveInv, SlavePollInv, SlaveNumberInv
  <2>3. /\ SlaveLanded = <<Slave!Received(sRx)>> /\ SlaveLanded' = <<>>
        /\ SlaveFlagged' = SlaveFlagged
    BY <2>1, <2>2 DEF SlaveLanded, SlaveFlagged, SlaveStartDue, SlaveStopDue
  <2>4. SlaveLanded' \o SlaveFlagged' = SlaveFlagged
    BY <1>0, <2>2, <2>3, SlaveEmpties
  <2> QED
    BY <1>0, <2>1, <2>2, <2>3, <2>4, SlaveDequeued
<1>5. CASE Slave!ClearStop /\ ~transmitting
  <2>1. /\ UNCHANGED <<sStt, uctr, sSeg, sRx, sBus>> /\ ~sStp' /\ sPc = "stop"
        /\ sPc' = "poll"
        /\ seen' = Append(seen, Slave!Stop)
    BY <1>5 DEF Slave!ClearStop, Slave!busVars
  <2>2. sStp /\ sRx = Slave!None /\ (sStt => sSeg # "idle")
    BY <2>1 DEF SlaveInv, SlavePollInv
  <2>3. /\ SlaveFlagged = IF sStt THEN <<Slave!Stop, Slave!Start(uctr)>> ELSE <<Slave!Stop>>
        /\ SlaveFlagged' = IF sStt THEN <<Slave!Start(uctr)>> ELSE <<>>
        /\ SlaveLanded = <<>> /\ SlaveLanded' = <<>>
    BY <2>1, <2>2 DEF SlaveLanded, SlaveFlagged, SlaveStartDue, SlaveStopDue
  <2>4. /\ SlaveFlagged' \in Seq(SlaveEvent)
        /\ SlaveFlagged = <<Slave!Stop>> \o SlaveFlagged'
    BY <1>0, <2>3, SlavePairs, SlaveEmpties
  <2>5. /\ SlaveLanded \o SlaveFlagged = <<Slave!Stop>> \o SlaveFlagged'
        /\ SlaveLanded' \o SlaveFlagged' = SlaveFlagged'
    BY <1>0, <2>3, <2>4, SlaveEmpties
  <2> QED
    BY <1>0, <2>1, <2>4, <2>5, SlaveDequeued
<1>6. CASE Slave!Flush
  <2>1. /\ UNCHANGED <<uctr, sSeg, sBus>> /\ sPc = "flush" /\ sPc' = "poll"
        /\ seen' = Append(seen, Slave!Stop)
        /\ (sRx' = Slave!None \/ sRx' = sRx) /\ (sStt' => sStt) /\ (sStp' => sStp)
    BY <1>6 DEF Slave!Flush, Slave!busVars, Slave!hwVars
  <2>2. sRx = Slave!None /\ ~sStt /\ ~sStp
    BY <2>1 DEF SlaveInv, SlavePollInv
  <2>3. /\ SlaveFlagged = <<Slave!Stop>> /\ SlaveFlagged' = <<>>
        /\ SlaveLanded = <<>> /\ SlaveLanded' = <<>>
    BY <2>1, <2>2 DEF SlaveLanded, SlaveFlagged, SlaveStartDue, SlaveStopDue
  <2>4. /\ SlaveLanded \o SlaveFlagged = <<Slave!Stop>> \o <<>>
        /\ SlaveLanded' \o SlaveFlagged' = <<>>
    <3>1. <<Slave!Stop>> \in Seq(SlaveEvent)
      BY <1>0
    <3> HIDE <1>6
    <3>2. <<>> \o <<Slave!Stop>> = <<Slave!Stop>> \o <<>> /\ <<>> \o <<>> = <<>>
      BY <1>0, <3>1, ConcatEmptySeq
    <3> QED
      BY <2>3, <3>2
  <2> QED
    BY <1>0, <2>1, <2>4, SlaveDequeued
<1>7. CASE Slave!ReadDirection
  <2>1. /\ UNCHANGED <<sStt, sStp, uctr, sSeg, sRx, sBus>> /\ sPc = "direction"
        /\ sPc' = "poll"
        /\ seen' = Append(seen, Slave!Start(uctr))
    BY <1>7 DEF Slave!ReadDirection, Slave!busVars, Slave!hwVars
  <2>2. ~sStt /\ sRx = Slave!None /\ (sStp => sSeg = "idle")
    BY <2>1 DEF SlaveInv, SlavePollInv
  <2>3. /\ SlaveFlagged = IF sStp THEN <<Slave!Start(uctr), Slave!Stop>> ELSE <<Slave!Start(uctr)>>
        /\ SlaveFlagged' = IF sStp THEN <<Slave!Stop>> ELSE <<>>
        /\ SlaveLanded = <<>> /\ SlaveLanded' = <<>>
    BY <2>1, <2>2 DEF SlaveLanded, SlaveFlagged, SlaveStartDue, SlaveStopDue
  <2>4. /\ SlaveFlagged' \in Seq(SlaveEvent)
        /\ SlaveFlagged = <<Slave!Start(uctr)>> \o SlaveFlagged'
    BY <1>0, <2>3, SlavePairs, SlaveEmpties
  <2>5. /\ SlaveLanded \o SlaveFlagged = <<Slave!Start(uctr)>> \o SlaveFlagged'
        /\ SlaveLanded' \o SlaveFlagged' = SlaveFlagged'
    BY <1>0, <2>3, <2>4, SlaveEmpties
  <2> QED
    BY <1>0, <2>1, <2>4, <2>5, SlaveDequeued
<1>8. CASE SlaveFlagged' = SlaveFlagged /\ SlaveLanded' = SlaveLanded /\ sBus' = sBus /\ seen' = seen
  BY <1>8 DEF SlaveInv, SlaveDeliveryInv
<1>9. ASSUME Slave!LoadShift \/ (\E last \in BOOLEAN : Slave!MasterRead(last))
      PROVE  /\ SlaveFlagged' = SlaveFlagged /\ SlaveLanded' = SlaveLanded
             /\ sBus' = sBus /\ seen' = seen
  BY <1>9 DEF Slave!LoadShift, Slave!MasterRead, Slave!busVars, Slave!swVars,
     SlaveLanded, SlaveFlagged, SlaveStartDue, SlaveStopDue
<1>10. ASSUME Slave!Poll
       PROVE  /\ SlaveFlagged' = SlaveFlagged /\ SlaveLanded' = SlaveLanded
              /\ sBus' = sBus /\ seen' = seen
  <2>1. /\ sPc = "poll" /\ sPc' \in {"receive", "busy?", "stop", "start", "answer"}
        /\ UNCHANGED <<sSeg, sRx, uctr, sStt, sStp, sBus, seen>>
    BY <1>10 DEF Slave!Poll, Slave!Decide, Slave!busVars, Slave!hwVars
  <2> QED
    BY <2>1 DEF SlaveLanded, SlaveFlagged, SlaveStartDue, SlaveStopDue
<1>11. ASSUME Slave!ReadBusy \/ Slave!Answer
       PROVE  /\ SlaveFlagged' = SlaveFlagged /\ SlaveLanded' = SlaveLanded
              /\ sBus' = sBus /\ seen' = seen
  BY <1>11 DEF Slave!ReadBusy, Slave!Answer, Slave!busVars, Slave!hwVars,
     SlaveLanded, SlaveFlagged, SlaveStartDue, SlaveStopDue
<1>12. ASSUME Slave!ClearStop, transmitting
       PROVE  /\ SlaveFlagged' = SlaveFlagged /\ SlaveLanded' = SlaveLanded
              /\ sBus' = sBus /\ seen' = seen
  <2>1. /\ UNCHANGED <<sStt, uctr, sSeg, sRx, sBus, seen>> /\ sPc = "stop"
        /\ sPc' = "flush"
    BY <1>12 DEF Slave!ClearStop, Slave!busVars
  <2>2. sStp
    BY <2>1 DEF SlaveInv, SlavePollInv
  <2> QED
    BY <2>1, <2>2 DEF SlaveLanded, SlaveFlagged, SlaveStartDue, SlaveStopDue
<1>13. ASSUME Slave!ClearStart
       PROVE  /\ SlaveFlagged' = SlaveFlagged /\ SlaveLanded' = SlaveLanded
              /\ sBus' = sBus /\ seen' = seen
  <2>1. /\ UNCHANGED <<sStp, uctr, sSeg, sRx, sBus, seen>> /\ sPc = "start"
        /\ sPc' = "direction"
    BY <1>13 DEF Slave!ClearStart, Slave!busVars
  <2>2. sStt
    BY <2>1 DEF SlaveInv, SlavePollInv
  <2> QED
    BY <2>1, <2>2 DEF SlaveLanded, SlaveFlagged, SlaveStartDue, SlaveStopDue
<1>14. ASSUME UNCHANGED Slave!vars
       PROVE  /\ SlaveFlagged' = SlaveFlagged /\ SlaveLanded' = SlaveLanded
              /\ sBus' = sBus /\ seen' = seen
  BY <1>14 DEF Slave!vars, Slave!busVars, Slave!hwVars, Slave!swVars, SlaveLanded,
     SlaveFlagged, SlaveStartDue, SlaveStopDue
<1> QED
  BY <1>1, <1>2, <1>3, <1>4, <1>5, <1>6, <1>7, <1>8, <1>9, <1>10, <1>11, <1>12,
     <1>13, <1>14 DEF Slave!Next, Slave!Slave, Slave!Transfer
-----------------------------------------------------------------------------
LEMMA SlaveNumberStep ==
    SlaveInv /\ SlaveDeliveryInv' /\ SlaveReadInv' /\ [Slave!Next]_(Slave!vars)
      => SlaveNumberInv'
<1> SUFFICES ASSUME SlaveInv, SlaveDeliveryInv', SlaveReadInv',
                    [Slave!Next]_(Slave!vars)
             PROVE  SlaveNumberInv'
  OBVIOUS
<1> USE SegmentsAssumption
<1>0. /\ segNo \in Nat /\ appSeg \in Nat /\ Len(sBus) \in Nat /\ moved \in Nat
      /\ Len(sBus') \in Nat
  BY LenProperties DEF SlaveInv, SlaveNumberInv, SlaveDeliveryInv
<1>1. segNo' \in 0 .. MaxSegments
  <2>1. segNo' = segNo \/ (segNo' = segNo + 1 /\ segNo < MaxSegments)
    BY DEF Slave!Next, Slave!MasterStart, Slave!Transfer, Slave!MasterWrite,
       Slave!LoadShift, Slave!MasterRead, Slave!MasterStop, Slave!Slave,
       Slave!Poll, Slave!Receive, Slave!ReadBusy, Slave!ClearStop, Slave!Flush,
       Slave!ClearStart, Slave!ReadDirection, Slave!Answer, Slave!vars,
       Slave!busVars
  <2> QED
    BY <1>0, <2>1 DEF SlaveInv, SlaveNumberInv
<1>2. moved' \in 0 .. MaxBytes /\ (sSeg' = "read" /\ ~nacked' => moved' < MaxBytes)
  <2>1. CASE UNCHANGED <<sSeg, moved, nacked>>
    BY <2>1 DEF SlaveInv, SlaveNumberInv
  <2>2. ASSUME NEW d \in {"write", "read"}, Slave!MasterStart(d)
        PROVE  moved' \in 0 .. MaxBytes /\ moved' < MaxBytes
    BY <2>2 DEF Slave!MasterStart
  <2>3. CASE Slave!MasterWrite
    BY <1>0, <2>3 DEF Slave!MasterWrite
  <2>4. ASSUME NEW last \in BOOLEAN, Slave!MasterRead(last)
        PROVE  /\ moved' \in 0 .. MaxBytes
               /\ (sSeg' = "read" /\ ~nacked' => moved' < MaxBytes)
    <3>1. /\ sSeg = "read" /\ ~nacked /\ moved' = moved + 1 /\ nacked' = last
          /\ last \/ moved + 1 < MaxBytes
      BY <2>4 DEF Slave!MasterRead
    <3>2. moved < MaxBytes
      BY <3>1 DEF SlaveInv, SlaveNumberInv
    <3> QED
      BY <1>0, <3>1, <3>2
  <2>5. CASE Slave!MasterStop
    BY <2>5 DEF SlaveInv, SlaveNumberInv, Slave!MasterStop
  <2>6. Slave!LoadShift \/ Slave!Slave \/ UNCHANGED Slave!vars => UNCHANGED <<sSeg,
                                                                              moved, nacked>>
    BY DEF Slave!LoadShift, Slave!Slave, Slave!Poll, Slave!Receive, Slave!ReadBusy,
       Slave!ClearStop, Slave!Flush, Slave!ClearStart, Slave!ReadDirection,
       Slave!Answer, Slave!vars, Slave!busVars
  <2> QED
    BY <2>1, <2>2, <2>3, <2>4, <2>5, <2>6 DEF Slave!Next, Slave!Transfer
<1>3. sRx' \in 0 .. Len(sBus')
  <2>1. CASE sRx' = Slave!None
    BY <1>0, <2>1 DEF Slave!None
  <2>2. CASE sRx' = sRx /\ sBus' = sBus
    BY <2>2 DEF SlaveInv, SlaveNumberInv
  <2>3. ASSUME NEW e, sBus' = Append(sBus, e)
        PROVE  Len(sBus') = Len(sBus) + 1
    BY <2>3 DEF SlaveInv, SlaveDeliveryInv
  <2>4. ASSUME NEW e, sBus' = Append(sBus, e), sRx' = sRx
        PROVE  sRx' \in 0 .. Len(sBus')
    BY <1>0, <2>3, <2>4 DEF SlaveInv, SlaveNumberInv
  <2>5. CASE Slave!MasterWrite
    BY <1>0, <2>3, <2>5 DEF Slave!MasterWrite
  <2>6. ASSUME NEW d \in {"write", "read"}, Slave!MasterStart(d)
        PROVE  sRx' \in 0 .. Len(sBus')
    BY <2>4, <2>6 DEF Slave!MasterStart
  <2>7. CASE Slave!MasterStop
    BY <2>4, <2>7 DEF Slave!MasterStop
  <2>8. Slave!LoadShift \/ (\E last \in BOOLEAN : Slave!MasterRead(last)) \/ Slave!Slave \/ UNCHANGED Slave!vars =>
          sRx' = Slave!None \/ (sRx' = sRx /\ sBus' = sBus)
    BY DEF Slave!LoadShift, Slave!MasterRead, Slave!Slave, Slave!Poll,
       Slave!Receive, Slave!ReadBusy, Slave!ClearStop, Slave!Flush,
       Slave!ClearStart, Slave!ReadDirection, Slave!Answer, Slave!vars,
       Slave!busVars, Slave!hwVars
  <2> QED
    BY <2>1, <2>2, <2>5, <2>6, <2>7, <2>8 DEF Slave!Next, Slave!Transfer
<1>4. appSeg' \in Nat
  BY <1>0 DEF Slave!Next, Slave!MasterStart, Slave!Transfer, Slave!MasterWrite,
     Slave!LoadShift, Slave!MasterRead, Slave!MasterStop, Slave!Slave, Slave!Poll,
     Slave!Receive, Slave!ReadBusy, Slave!ClearStop, Slave!Flush, Slave!ClearStart,
     Slave!ReadDirection, Slave!Answer, Slave!vars, Slave!swVars
<1>5. sTx' \in 0 .. MaxSegments /\ sShift' \in 0 .. MaxSegments
  BY <1>1 DEF SlaveReadInv, Slave!None
<1> QED
  BY <1>1, <1>2, <1>3, <1>4, <1>5 DEF SlaveNumberInv

LEMMA SlaveInitInv == Slave!Init => SlaveInv
<1> SUFFICES ASSUME Slave!Init PROVE SlaveInv
  OBVIOUS
<1> USE SegmentsAssumption
<1>1. ~SlaveStartDue /\ ~SlaveStopDue
  BY DEF Slave!Init, SlaveStartDue, SlaveStopDue
<1>2. SlaveFlagInv /\ SlaveControlInv
  BY DEF Slave!Init, SlaveFlagInv, SlaveControlInv
<1>3. SlaveBusInv /\ SlavePollInv /\ SlaveReadInv
  BY <1>1 DEF Slave!Init, SlaveBusInv, SlavePollInv, SlaveReadInv, Slave!None
<1>4. SlaveNumberInv
  BY DEF Slave!Init, SlaveNumberInv, Slave!None
<1>5. SlaveDeliveryInv
  <2>1. SlaveLanded = <<>> /\ SlaveFlagged = <<>> /\ seen = <<>> /\ sBus = <<>>
    BY <1>1 DEF Slave!Init, SlaveLanded, SlaveFlagged
  <2>2. <<>> \in Seq(SlaveEvent) /\ <<>> \o (<<>> \o <<>>) = <<>>
    BY EmptySeq, ConcatEmptySeq
  <2> QED
    BY <2>1, <2>2 DEF SlaveDeliveryInv
<1> QED
  BY <1>2, <1>3, <1>4, <1>5 DEF SlaveInv

\* What is on the bus and not yet delivered is in the flags and in RXBUF, in
\* every behaviour of a slave polled in time (i2c.rs, poll).
THEOREM SlaveInvariant == Slave!Spec => []SlaveInv
<1>1. SlaveInv /\ [Slave!Next]_(Slave!vars) => SlaveInv'
  BY SlaveFlagStep, SlaveControlStep, SlaveBusStep, SlavePollStep, SlaveReadStep,
     SlaveDeliveryStep, SlaveNumberStep DEF SlaveInv
<1> QED
  BY SlaveInitInv, <1>1, PTL DEF Slave!Spec

\* The application hears the events of the bus in their order, none twice and
\* none invented (i2c.rs, poll), for any number of segments and bytes.
THEOREM SlaveEventsCorrect == Slave!Spec => []Slave!EventsInOrder
<1>1. SlaveInv => Slave!EventsInOrder
  <2> SUFFICES ASSUME SlaveInv PROVE Slave!IsPrefix(seen, sBus)
    BY DEF Slave!EventsInOrder
  <2> DEFINE due == SlaveLanded \o SlaveFlagged
  <2>1. seen \in Seq(SlaveEvent) /\ due \in Seq(SlaveEvent) /\ sBus = seen \o due
    BY SlaveDue, ConcatProperties DEF SlaveInv, SlaveDeliveryInv
  <2> HIDE DEF due
  <2>2. /\ Len(seen) \in Nat /\ Len(seen) <= Len(sBus)
        /\ \A i \in 1 .. Len(seen) : sBus[i] = seen[i]
    BY <2>1, ConcatProperties, LenProperties
  <2>3. sBus \in Seq(SlaveEvent)
    BY <2>1, ConcatProperties
  <2>4. /\ SubSeq(sBus, 1, Len(seen)) \in Seq(SlaveEvent)
        /\ Len(SubSeq(sBus, 1, Len(seen))) = Len(seen)
        /\ \A i \in 1 .. Len(seen) : SubSeq(sBus, 1, Len(seen))[i] = sBus[i]
    <3>1. \A i \in 1 .. Len(seen) : sBus[i] \in SlaveEvent
      BY <2>1, <2>2, ElementOfSeq
    <3> QED
      BY <2>2, <3>1, SubSeqProperties
  <2>5. seen = SubSeq(sBus, 1, Len(seen))
    BY <2>1, <2>2, <2>4, SeqEqual
  <2> QED
    BY <2>2, <2>5 DEF Slave!IsPrefix
<1> QED
  BY SlaveInvariant, <1>1, PTL

\* No byte supplied for one read is clocked out in a later one, unless the
\* master restarts after a read (i2c.rs, the reset in poll).
THEOREM SlaveNoStaleByteCorrect == Slave!Spec => []Slave!NoStaleByte
<1>1. SlaveInv => Slave!NoStaleByte
  BY DEF SlaveInv, SlaveReadInv, Slave!NoStaleByte
<1> QED
  BY SlaveInvariant, <1>1, PTL

\* Every variable of the slave keeps its type (i2c.rs, I2cSlave).
THEOREM SlaveTypeCorrect == Slave!Spec => []Slave!TypeOK
<1>1. SlaveInv => Slave!TypeOK
  <2> SUFFICES ASSUME SlaveInv PROVE Slave!TypeOK
    OBVIOUS
  <2>1. appSeg \in 0 .. MaxSegments
    BY SegmentsAssumption DEF SlaveInv, SlaveNumberInv, SlaveReadInv
  <2>2. {nacked, sStt, sStp, attached, transmitting, sStale} \subseteq BOOLEAN
    BY DEF SlaveInv, SlaveFlagInv
  <2>3. segNo \in 0 .. MaxSegments /\ moved \in 0 .. MaxBytes /\ sRx \in 0 .. Len(sBus)
        /\ {sTx, sShift} \subseteq 0 .. MaxSegments
    BY DEF SlaveInv, SlaveNumberInv
  <2> QED
    BY <2>1, <2>2, <2>3 DEF SlaveInv, SlaveControlInv, Slave!TypeOK
<1> QED
  BY SlaveInvariant, <1>1, PTL
-----------------------------------------------------------------------------
\* The run has the two beside each other: each of its steps is the slave's, or
\* leaves the slave alone.
LEMMA SlaveRefined == MCSpec => Slave!Spec
<1>1. MCInit => Slave!Init
  BY DEF MCInit
<1>2. [MCNext]_allVars => [Slave!Next]_(Slave!vars)
  BY DEF MCNext, allVars, OnMaster, OnSlave, polled, Slave!vars, Slave!busVars,
     Slave!hwVars, Slave!swVars
<1> QED
  BY <1>1, <1>2, PTL DEF MCSpec, Slave!Spec

\* The slave keeps its types in the run (i2c.rs, I2cSlave).
THEOREM SlaveTypeHolds == MCSpec => []SlaveTypeOK
<1>1. SlaveTypeOK <=> Slave!TypeOK
  BY DEF SlaveTypeOK
<1> QED
  BY <1>1, SlaveRefined, SlaveTypeCorrect, PTL

\* In the run, the events are delivered in the order of the bus, and none twice
\* (i2c.rs:656-661).
THEOREM EventsHold == MCSpec => []EventsInOrder
<1>1. EventsInOrder <=> Slave!EventsInOrder
  BY DEF EventsInOrder
<1> QED
  BY <1>1, SlaveRefined, SlaveEventsCorrect, PTL

\* In the run, no byte loaded for one transaction is sent in another
\* (i2c.rs:868-873).
THEOREM NoStaleByteHolds == MCSpec => []NoStaleByte
<1>1. NoStaleByte <=> Slave!NoStaleByte
  BY DEF NoStaleByte
<1> QED
  BY <1>1, SlaveRefined, SlaveNoStaleByteCorrect, PTL
=============================================================================
