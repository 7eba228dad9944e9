------------------------- MODULE SerialDmaRx_proofs -------------------------
(***************************************************************************)
(* read_exact_dma for buffers of every length: the channel is out of the   *)
(* buffer when the call returns, and, if the peer sends no more than the   *)
(* buffer holds, Ok means that the stream is in it and the re-check throws *)
(* nothing away that the channel wrote.                                    *)
(***************************************************************************)
EXTENDS SerialDmaRx, TLAPS

\* The CPU drains with the channel off; it has armed the channel and waits.
Draining == pc \in {"drain", "status", "read", "arm"}
Waiting == pc \in {"check", "remaining", "disarm", "wait"}

\* An armed channel has something left to move and is not done; an edge is
\* pending only at an armed one, and only in the wait.
ChannelInv ==
    /\ ch.edge => ch.en /\ rxifg
    /\ ch.en => ch.left \in 1 .. ch.size /\ ~ch.done
    /\ ~Waiting => ~ch.en
    /\ pc \in {"status", "read", "arm"} => filled < len
    /\ Waiting => filled < len /\ ch.size = len - filled /\ (ch.en \/ ch.done)
    /\ pc = "return" \/ result = "none"

TypeInv == TypeOK /\ ChannelInv

\* The bytes in the buffer up to n are those of the stream.
InStream(n) == \A i \in 1 .. n : buf[i] = i

\* What the channel has written, and what is in RXBUF.
Written == IF ch.done THEN ch.size ELSE ch.size - ch.left
Pending == IF rxifg THEN 1 ELSE 0

\* The byte in RXBUF came before the channel was armed: no edge is left of it,
\* and none comes as long as it is there.
EdgeMissed ==
    /\ pc # "wait" /\ rxifg /\ ~ch.edge
    /\ ch.en /\ ch.left = ch.size
    /\ ~ucoe => landed = filled + 1

\* Each byte is moved before the next one lands.
EdgesServed ==
    /\ pc \in {"check", "wait"} /\ rxifg = ch.edge /\ ~ucoe
    /\ landed = filled + Written + Pending
    /\ InStream(filled + Written)

\* Without an overrun, what landed is in the buffer or in RXBUF.
StreamInv ==
    ~torn /\ result # "error" =>
        /\ rxifg => rxbuf = landed
        /\ ucoe => rxifg
        /\ InStream(filled)
        /\ Draining => (~ucoe => landed = filled + Pending)
        /\ pc \in {"status", "read"} => rxifg
        /\ pc = "read" => status = ucoe
        /\ Waiting => EdgeMissed \/ EdgesServed
        /\ pc = "return" => filled = len

\* The same without looking at what the bytes are, and whatever was lost: how
\* many the wire has landed, and which places nothing was written to.
Moves == IF Waiting THEN Written ELSE 0

MissedOrServed ==
    Waiting =>
        \/ pc # "wait" /\ rxifg /\ ~ch.edge /\ ch.en /\ ch.left = ch.size
        \/ pc \in {"check", "wait"} /\ rxifg = ch.edge

UntouchedInv ==
    /\ pc \in {"status", "read"} => rxifg
    /\ MissedOrServed
    /\ landed >= filled + Moves + Pending
    /\ \A i \in filled + Moves + 1 .. len : buf[i] = None
-----------------------------------------------------------------------------
\* Each operation of the channel keeps it a channel.
LEMMA ChannelTypes ==
    ASSUME NEW n \in Nat, NEW c \in ChannelType(n)
    PROVE  /\ IdleChannel \in ChannelType(n)
           /\ \A m \in 0 .. n : Armed(m) \in ChannelType(n)
           /\ {Disarmed(c), DoneCleared(c), Triggered(c)} \subseteq ChannelType(n)
           /\ c.left > 0 => Moved(c) \in ChannelType(n)
<1>1. IdleChannel \in ChannelType(n)
  BY DEF ChannelType, IdleChannel
<1>2. \A m \in 0 .. n : Armed(m) \in ChannelType(n)
  BY DEF ChannelType, Armed
<1>3. Disarmed(c) \in ChannelType(n)
  BY DEF ChannelType, Disarmed
<1>4. DoneCleared(c) \in ChannelType(n)
  BY DEF ChannelType, DoneCleared
<1>5. Triggered(c) \in ChannelType(n)
  BY DEF ChannelType, Triggered
<1>6. ASSUME c.left > 0
      PROVE  Moved(c) \in ChannelType(n)
  <2>1. c.left \in 1 .. n /\ c.left - 1 \in 0 .. n /\ c.size \in 0 .. n
    BY <1>6 DEF ChannelType
  <2>2. CASE c.left = 1
    BY <2>1, <2>2 DEF ChannelType, Moved
  <2>3. CASE c.left # 1
    BY <2>1, <2>3 DEF ChannelType, Moved
  <2> QED
    BY <2>2, <2>3
<1> QED
  BY <1>1, <1>2, <1>3, <1>4, <1>5, <1>6

LEMMA TypeInvInit ==
    ASSUME MaxLen \in Nat, Surplus \in Nat, Init
    PROVE  TypeInv
<1>1. len \in 1 .. MaxLen /\ Total \in Nat
  BY DEF Init, Total
<1>2. buf \in [1 .. len -> 0 .. Total]
  BY <1>1 DEF Init, None
<1>3. ch \in ChannelType(len)
  BY <1>1 DEF Init, IdleChannel, ChannelType
<1>4. /\ filled = 0 /\ pc = "drain" /\ status = FALSE /\ result = "none"
      /\ rxbuf = 0 /\ rxifg = FALSE /\ ucoe = FALSE /\ landed = 0 /\ torn = FALSE
  BY DEF Init, None
<1>5. filled \in 0 .. len /\ rxbuf \in 0 .. Total /\ landed \in 0 .. Total
  BY <1>1, <1>4
<1>6. TypeOK
  BY <1>1, <1>2, <1>3, <1>4, <1>5 DEF TypeOK
<1>7. ~ch.en /\ ~ch.edge
  BY DEF Init, IdleChannel
<1>8. ChannelInv
  BY <1>4, <1>7 DEF ChannelInv, Waiting
<1> QED
  BY <1>6, <1>8 DEF TypeInv

LEMMA TypeInvStep ==
    ASSUME MaxLen \in Nat, Surplus \in Nat, TypeInv, [Next]_vars
    PROVE  TypeInv'
<1> USE DEF TypeInv, TypeOK, ChannelInv, Waiting, Total, At
<1>1. CASE Land
  <2>1. ch' \in ChannelType(len)
    BY <1>1, ChannelTypes DEF Land
  <2>2. /\ ch'.en = ch.en /\ ch'.done = ch.done /\ ch'.size = ch.size
        /\ ch'.left = ch.left /\ (ch'.edge => ch'.en)
    BY <1>1 DEF Land, Triggered, ChannelType
  <2>3. TypeOK'
    BY <1>1, <2>1 DEF Land, cpu
  <2>4. ChannelInv'
    BY <1>1, <2>2 DEF Land, cpu
  <2> QED
    BY <2>3, <2>4
<1>2. CASE DmaMove
  <2>1. ch.en /\ ch.left \in 1 .. ch.size /\ Waiting /\ ch.size = len - filled
    BY <1>2 DEF DmaMove, ChannelType
  <2>2. Destination(ch) \in 1 .. len
    BY <2>1 DEF Destination, NextItem, ChannelType
  <2>3. buf' \in [1 .. len -> 0 .. Total]
    BY <1>2, <2>2 DEF DmaMove
  <2>4. ch' \in ChannelType(len)
    BY <1>2, <2>1, ChannelTypes DEF DmaMove
  <2>5. TypeOK'
    BY <1>2, <2>3, <2>4 DEF DmaMove, ReadRxbuf, cpu
  <2>6. /\ ~ch'.edge /\ ch'.size = ch.size /\ (ch'.en \/ ch'.done)
        /\ ch'.en => ch'.left \in 1 .. ch'.size /\ ~ch'.done
    BY <1>2, <2>1 DEF DmaMove, Moved, ChannelType
  <2>7. ChannelInv'
    BY <1>2, <2>1, <2>6 DEF DmaMove, cpu
  <2> QED
    BY <2>5, <2>7
<1>3. CASE Drain
  BY <1>3 DEF Drain, uart
<1>4. CASE ReadStatus
  BY <1>4 DEF ReadStatus, uart
<1>5. CASE ReadByte
  <2>1. buf' \in [1 .. len -> 0 .. Total] /\ filled' \in 0 .. len
    BY <1>5 DEF ReadByte
  <2> QED
    BY <1>5, <2>1 DEF ReadByte, ReadRxbuf
<1>6. CASE Arm
  <2>1. ch' \in ChannelType(len)
    BY <1>6, ChannelTypes DEF Arm
  <2> QED
    BY <1>6, <2>1 DEF Arm, Armed, uart
<1>7. CASE CheckReady
  BY <1>7 DEF CheckReady, uart
<1>8. CASE CheckRemaining
  BY <1>8 DEF CheckRemaining, uart
<1>9. CASE Disarm
  <2>1. ch' \in ChannelType(len)
    BY <1>9, ChannelTypes DEF Disarm
  <2> QED
    BY <1>9, <2>1 DEF Disarm, Disarmed, ChannelType, uart
<1>10. CASE WaitDone
  <2>1. ch' \in ChannelType(len)
    BY <1>10, ChannelTypes DEF WaitDone
  <2> QED
    BY <1>10, <2>1 DEF WaitDone, IsDone, DoneCleared, ChannelType, uart
<1>11. CASE Return
  BY <1>11 DEF Return, uart
<1>12. CASE UNCHANGED vars
  BY <1>12 DEF vars
<1> QED
  BY <1>1, <1>2, <1>3, <1>4, <1>5, <1>6, <1>7, <1>8, <1>9, <1>10, <1>11, <1>12
  DEF Next, Cpu

LEMMA StreamInvInit ==
    ASSUME Init
    PROVE  StreamInv
  BY DEF Init, StreamInv, InStream, Draining, Waiting, Pending

LEMMA StreamInvStep ==
    ASSUME MaxLen \in Nat, Surplus = 0, TypeInv, StreamInv, [Next]_vars
    PROVE  StreamInv'
<1> SUFFICES ASSUME ~torn', result' # "error"
             PROVE  StreamInv'
  BY DEF StreamInv
<1>0. ~torn /\ result # "error" /\ Total = len
  <2>1. Total = len
    BY DEF Total, TypeInv, TypeOK
  <2>2. CASE Land \/ DmaMove
    BY <2>1, <2>2 DEF Land, DmaMove, cpu, TypeInv, TypeOK
  <2>3. CASE Cpu
    BY <2>1, <2>3 DEF Cpu, Drain, ReadStatus, ReadByte, Arm, CheckReady,
       CheckRemaining, Disarm, WaitDone, Return, TypeInv, ChannelInv, Waiting, At
  <2>4. CASE UNCHANGED vars
    BY <2>1, <2>4 DEF vars
  <2> QED
    BY <2>2, <2>3, <2>4 DEF Next
<1> USE <1>0 DEF TypeInv, TypeOK, ChannelInv, Waiting, Draining, StreamInv, At
<1>1. CASE Land
  <2>1. /\ landed' = landed + 1 /\ rxbuf' = landed' /\ rxifg' /\ pc # "read"
        /\ ucoe' = (ucoe \/ rxifg) /\ landed < len /\ ~ch.edge
        /\ UNCHANGED <<len, buf, filled, pc, status, result>>
    BY <1>1 DEF Land, cpu
  <2>2. InStream(filled)'
    BY <2>1 DEF InStream
  <2>3. CASE Waiting /\ EdgeMissed
    <3>1. EdgeMissed'
      BY <1>1, <2>1, <2>3 DEF EdgeMissed, Land
    <3> QED
      BY <2>1, <2>2, <2>3, <3>1
  <2>4. CASE Waiting /\ EdgesServed
    <3>1. ~rxifg /\ landed = filled + Written
      BY <2>1, <2>4 DEF EdgesServed, Pending, Written, ChannelType
    <3>2. ch.en
      BY <2>1, <2>4, <3>1 DEF Written
    <3>3. ch'.edge /\ ch'.left = ch.left /\ ch'.size = ch.size /\ ch'.done = ch.done
      BY <1>1, <3>1, <3>2 DEF Land, Triggered, ChannelType
    <3>4. Written' = Written /\ Pending' = 1
      BY <2>1, <3>3 DEF Written, Pending
    <3>5. InStream(filled + Written)'
      BY <2>1, <2>4, <3>4 DEF EdgesServed, InStream
    <3>6. EdgesServed'
      BY <2>1, <2>4, <3>1, <3>3, <3>4, <3>5 DEF EdgesServed
    <3> QED
      BY <2>1, <2>2, <2>4, <3>6
  <2>5. CASE ~Waiting
    BY <2>1, <2>2, <2>5 DEF Pending
  <2> QED
    BY <2>3, <2>4, <2>5
<1>2. CASE DmaMove
  <2>1. /\ ch.edge /\ ch.en /\ ~ch.done /\ Waiting /\ ch.left \in 1 .. ch.size
        /\ ch.size = len - filled /\ rxifg /\ rxifg' = FALSE /\ ~ucoe'
        /\ UNCHANGED <<len, filled, pc, status, result, landed>>
    BY <1>2 DEF DmaMove, ReadRxbuf, cpu
  <2>2. /\ EdgesServed /\ Written = ch.size - ch.left
        /\ rxbuf = filled + Written + 1
    BY <2>1 DEF EdgeMissed, EdgesServed, Written, Pending
  <2>3. ch'.edge = FALSE /\ rxifg' = FALSE /\ Written' = Written + 1 /\ Pending' = 0
    BY <1>2, <2>1, <2>2 DEF DmaMove, Moved, ChannelType, Written, Pending
  <2>4. /\ Written \in Nat /\ filled + Written + 1 \in 1 .. len
        /\ Destination(ch) = filled + Written + 1
    <3>1. len \in Nat /\ filled \in Nat /\ ch.size \in Nat /\ ch.left \in Nat
      BY <2>1 DEF ChannelType
    <3> HIDE DEF TypeInv, StreamInv, Waiting
    <3>2. Destination(ch) = len - ch.size + (ch.size - ch.left + 1)
      BY DEF Destination, NextItem
    <3>3. Written \in Nat /\ Written < len - filled
      BY <2>1, <2>2, <3>1
    <3>4. Destination(ch) = filled + Written + 1
      BY <2>1, <2>2, <3>1, <3>2
    <3> QED
      BY <3>1, <3>3, <3>4
  <2>5. buf' = [buf EXCEPT ![filled + Written + 1] = filled + Written + 1]
    BY <1>2, <2>2, <2>4 DEF DmaMove
  <2>6. \A i \in 1 .. filled + Written + 1 : buf'[i] = i
    <3> DEFINE last == filled + Written + 1
    <3>1. \A i \in 1 .. last - 1 : buf[i] = i
      BY <2>2, <2>4 DEF EdgesServed, InStream
    <3>2. buf' = [buf EXCEPT ![last] = last] /\ last \in 1 .. len /\ last \in Nat
      BY <2>4, <2>5
    <3> HIDE DEF last
    <3>3. \A i \in 1 .. last : buf'[i] = i
      BY <3>1, <3>2
    <3> QED
      BY <3>3 DEF last
  <2>7. InStream(filled)' /\ InStream(filled + Written)'
    BY <2>1, <2>3, <2>4, <2>6 DEF InStream
  <2>8. EdgesServed'
    <3>1. /\ pc \in {"check", "wait"} /\ InStream(filled + Written)
          /\ landed = filled + Written + 1 /\ filled \in Nat
      BY <2>1, <2>2 DEF EdgesServed, Pending
    <3> HIDE DEF TypeInv, StreamInv, Waiting
    <3>2. pc' \in {"check", "wait"}
      BY <2>1, <3>1
    <3>3. rxifg' = ch'.edge
      BY <2>3
    <3>4. landed' = filled' + Written' + Pending'
      BY <2>1, <2>3, <2>4, <3>1
    <3> QED
      BY <2>1, <2>7, <3>2, <3>3, <3>4 DEF EdgesServed
  <2> QED
    BY <2>1, <2>7, <2>8
<1>3. CASE Drain
  BY <1>3 DEF Drain, uart, InStream, Pending
<1>4. CASE ReadStatus
  BY <1>4 DEF ReadStatus, uart, InStream, Pending
<1>5. CASE ReadByte
  BY <1>5 DEF ReadByte, ReadRxbuf, InStream, Pending
<1>6. CASE Arm
  <2>1. /\ ch' = Armed(len - filled) /\ ch'.edge = FALSE /\ ch'.en /\ ~ch'.done
        /\ ch'.left = ch'.size /\ pc = "arm" /\ pc' = "check"
        /\ UNCHANGED <<len, buf, filled, status, result, rxbuf, rxifg, ucoe, landed>>
    BY <1>6 DEF Arm, Armed, uart
  <2>2. ch'.size \in Nat /\ Written' = 0
    BY <2>1 DEF Armed, Written
  <2>3. InStream(filled)' /\ InStream(filled + Written)'
    BY <2>1, <2>2 DEF InStream
  <2>4. CASE rxifg
    <3>1. EdgeMissed'
      BY <2>1, <2>4 DEF EdgeMissed, Pending
    <3> QED
      BY <2>1, <2>3, <3>1
  <2>5. CASE ~rxifg
    <3>1. ~ucoe /\ landed = filled /\ Pending' = 0 /\ rxifg' = FALSE
      BY <2>1, <2>5 DEF Pending
    <3>2. EdgesServed'
      <4>1. filled \in Nat
        OBVIOUS
      <4> HIDE DEF TypeInv, StreamInv, Waiting
      <4>2. rxifg' = ch'.edge
        BY <2>1, <3>1
      <4>3. landed' = filled' + Written' + Pending'
        BY <2>1, <2>2, <3>1, <4>1
      <4> QED
        BY <2>1, <2>3, <3>1, <4>2, <4>3 DEF EdgesServed
    <3> QED
      BY <2>1, <2>3, <3>2
  <2> QED
    BY <2>4, <2>5
<1>7. CASE CheckReady
  BY <1>7 DEF CheckReady, uart, InStream, Pending, EdgeMissed, EdgesServed, Written
<1>8. CASE CheckRemaining
  BY <1>8 DEF CheckRemaining, Remaining, uart, InStream, Pending, EdgeMissed, EdgesServed, Written
<1>9. CASE Disarm
  BY <1>9 DEF Disarm, uart, InStream, Pending, EdgeMissed, EdgesServed
<1>10. CASE WaitDone
  BY <1>10 DEF WaitDone, IsDone, DoneCleared, uart, InStream, Pending, EdgeMissed, EdgesServed, Written
<1>11. CASE Return
  BY <1>11 DEF Return, uart, InStream, Pending
<1>12. CASE UNCHANGED vars
  BY <1>12 DEF vars, InStream, Pending, EdgeMissed, EdgesServed, Written
<1> QED
  BY <1>1, <1>2, <1>3, <1>4, <1>5, <1>6, <1>7, <1>8, <1>9, <1>10, <1>11, <1>12
  DEF Next, Cpu

LEMMA UntouchedInit ==
    ASSUME Init
    PROVE  UntouchedInv
  BY DEF Init, UntouchedInv, MissedOrServed, Waiting, Moves, Pending

LEMMA UntouchedStep ==
    ASSUME MaxLen \in Nat, Surplus = 0, TypeInv, UntouchedInv, [Next]_vars
    PROVE  UntouchedInv'
<1> USE DEF TypeInv, TypeOK, ChannelInv, UntouchedInv, Waiting, At
<1>1. CASE Land
  <2>1. /\ landed' = landed + 1 /\ rxifg' /\ landed < len /\ ~ch.edge /\ Pending' = 1
        /\ UNCHANGED <<len, buf, filled, pc>>
    BY <1>1 DEF Land, cpu, Pending, Total
  <2>2. /\ ch'.left = ch.left /\ ch'.size = ch.size /\ ch'.done = ch.done
        /\ ch'.en = ch.en /\ (rxifg => ch' = ch)
    BY <1>1 DEF Land, Triggered, ChannelType
  <2>3. Moves' = Moves /\ Moves \in Nat
    BY <2>1, <2>2 DEF Moves, Written, ChannelType
  <2>4. MissedOrServed'
    <3>1. CASE rxifg
      BY <2>1, <2>2, <3>1 DEF MissedOrServed
    <3>2. CASE Waiting /\ ~rxifg
      <4>1. pc \in {"check", "wait"} /\ landed >= filled + Written
        <5>1. pc \in {"check", "wait"} /\ Pending = 0 /\ Moves = Written
          BY <2>1, <3>2 DEF MissedOrServed, Moves, Pending
        <5>2. landed >= filled + Moves + 0 /\ filled \in Nat
          BY <5>1
        <5> HIDE DEF TypeInv, UntouchedInv, Waiting
        <5> QED
          BY <2>3, <5>1, <5>2
      <4>2. ch.en
        BY <2>1, <3>2, <4>1 DEF Written
      <4>3. ch'.edge = TRUE
        BY <1>1, <3>2, <4>2 DEF Land, Triggered, ChannelType
      <4> QED
        BY <1>1, <2>1, <4>1, <4>3 DEF MissedOrServed, Land
    <3>3. CASE ~Waiting
      BY <2>1, <3>3 DEF MissedOrServed
    <3> QED
      BY <3>1, <3>2, <3>3
  <2>5. landed' >= filled' + Moves' + Pending'
    BY <2>1, <2>3 DEF Pending
  <2> QED
    BY <2>1, <2>3, <2>4, <2>5
<1>2. CASE DmaMove
  <2>1. /\ ch.edge /\ ch.en /\ ~ch.done /\ Waiting /\ ch.left \in 1 .. ch.size
        /\ ch.size = len - filled /\ rxifg /\ rxifg' = FALSE
        /\ pc \in {"check", "wait"} /\ pc' = pc
        /\ UNCHANGED <<len, filled, landed>>
    BY <1>2 DEF DmaMove, ReadRxbuf, cpu, MissedOrServed
  <2>2. Moves = ch.size - ch.left /\ Pending = 1
    BY <2>1 DEF Moves, Written, Pending
  <2>3. ch'.edge = FALSE /\ Moves' = Moves + 1 /\ Pending' = 0
    BY <1>2, <2>1, <2>2 DEF DmaMove, Moved, ChannelType, Moves, Written, Pending
  <2>4. MissedOrServed'
    BY <2>1, <2>3 DEF MissedOrServed
  <2>5. filled \in Nat /\ Moves \in Nat /\ len \in Nat
    <3>1. filled \in Nat /\ len \in Nat /\ ch.size \in Nat
      BY <2>1 DEF ChannelType
    <3> HIDE DEF TypeInv, UntouchedInv, Waiting
    <3> QED
      BY <2>1, <2>2, <3>1
  <2>6. landed' >= filled' + Moves' + Pending'
    BY <2>1, <2>2, <2>3, <2>5
  <2>7. Destination(ch) = filled + Moves + 1
    BY <2>1, <2>2, <2>5 DEF Destination, NextItem, ChannelType
  <2>8. \A i \in filled + Moves + 2 .. len : buf'[i] = None
    BY <1>2, <2>5, <2>7 DEF DmaMove
  <2>9. \A i \in filled' + Moves' + 1 .. len' : buf'[i] = None
    BY <2>1, <2>3, <2>5, <2>8
  <2> QED
    BY <2>1, <2>4, <2>6, <2>9
<1>3. CASE Drain
  BY <1>3 DEF Drain, uart, MissedOrServed, Moves, Pending
<1>4. CASE ReadStatus
  BY <1>4 DEF ReadStatus, uart, MissedOrServed, Moves, Pending
<1>5. CASE ReadByte
  BY <1>5 DEF ReadByte, ReadRxbuf, MissedOrServed, Moves, Pending
<1>6. CASE Arm
  <2>1. /\ ch'.edge = FALSE /\ ch'.en = TRUE /\ ch'.done = FALSE /\ ch'.size \in Nat
        /\ ch'.left = ch'.size /\ pc = "arm" /\ pc' = "check"
        /\ UNCHANGED <<len, buf, filled, rxifg, landed>>
    BY <1>6 DEF Arm, Armed, uart
  <2>2. Moves = 0 /\ Moves' = 0 /\ Pending' = Pending
    BY <2>1 DEF Moves, Written, Pending
  <2>3. MissedOrServed'
    BY <2>1 DEF MissedOrServed
  <2> QED
    BY <2>1, <2>2, <2>3
<1>7. CASE CheckReady
  BY <1>7 DEF CheckReady, uart, MissedOrServed, Moves, Pending, Written
<1>8. CASE CheckRemaining
  BY <1>8 DEF CheckRemaining, Remaining, uart, MissedOrServed, Moves, Pending, Written
<1>9. CASE Disarm
  BY <1>9 DEF Disarm, uart, MissedOrServed, Moves, Pending, Written
<1>10. CASE WaitDone
  BY <1>10 DEF WaitDone, IsDone, DoneCleared, uart, MissedOrServed, Moves, Pending, Written
<1>11. CASE Return
  BY <1>11 DEF Return, uart, MissedOrServed, Moves, Pending
<1>12. CASE UNCHANGED vars
  BY <1>12 DEF vars, MissedOrServed, Moves, Pending, Written
<1> QED
  BY <1>1, <1>2, <1>3, <1>4, <1>5, <1>6, <1>7, <1>8, <1>9, <1>10, <1>11, <1>12
  DEF Next, Cpu

\* For buffers of every length and any number of bytes beyond, the state is
\* well typed and the channel follows the call.
THEOREM TypeInvHolds ==
    ASSUME MaxLen \in Nat, Surplus \in Nat
    PROVE  Spec => []TypeInv
  BY TypeInvInit, TypeInvStep, PTL DEF Spec

\* serial.rs:582-587: for buffers of every length and any number of bytes
\* beyond, the channel is out of the buffer on every way out of the call.
THEOREM OutOfBufferCorrect ==
    ASSUME MaxLen \in Nat, Surplus \in Nat
    PROVE  Spec => []ChannelOutOfBuffer
<1>1. TypeInv => ChannelOutOfBuffer
  BY DEF TypeInv, TypeOK, ChannelInv, ChannelOutOfBuffer, Waiting
<1> QED
  BY <1>1, TypeInvHolds, PTL

\* serial.rs:535-538: for buffers of every length, if the peer sends no more
\* bytes than the buffer holds, Ok means that the stream is in it.
THEOREM StreamCorrect ==
    ASSUME MaxLen \in Nat, Surplus = 0
    PROVE  Spec => []OkMeansTheStream
<1>1. Init => TypeInv /\ StreamInv
  BY TypeInvInit, StreamInvInit
<1>2. TypeInv /\ StreamInv /\ [Next]_vars => (TypeInv /\ StreamInv)'
  BY TypeInvStep, StreamInvStep
<1>3. TypeInv /\ StreamInv => OkMeansTheStream
  BY DEF TypeInv, ChannelInv, StreamInv, InStream, OkMeansTheStream
<1> QED
  BY <1>1, <1>2, <1>3, PTL DEF Spec
\* serial.rs:577-581: for buffers of every length, if the peer sends no more
\* bytes than the buffer holds, what the channel wrote is never thrown away.
THEOREM DisarmCorrect ==
    ASSUME MaxLen \in Nat, Surplus = 0
    PROVE  Spec => []DisarmOnlyUntouched
<1>1. Init => TypeInv /\ UntouchedInv
  BY TypeInvInit, UntouchedInit
<1>2. TypeInv /\ UntouchedInv /\ [Next]_vars => (TypeInv /\ UntouchedInv)'
  BY TypeInvStep, UntouchedStep
<1>3. TypeInv /\ UntouchedInv => DisarmOnlyUntouched
  BY DEF TypeInv, TypeOK, ChannelInv, UntouchedInv, MissedOrServed, Waiting, Moves,
     Written, DisarmOnlyUntouched
<1> QED
  BY <1>1, <1>2, <1>3, PTL DEF Spec
=============================================================================
