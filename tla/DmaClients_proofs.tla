-------------------------- MODULE DmaClients_proofs --------------------------
(***************************************************************************)
(* The drivers that wait for a DMA channel, for bursts, slices, sequences  *)
(* and buffers of every length.                                            *)
(*                                                                         *)
(* The UART transmitter.  CPU and channel both write TXBUF.  InOrder holds *)
(* because no write meets an occupied TXBUF, and that is what Phase is     *)
(* for: it says, of every point in the call, how many bytes were written,  *)
(* whether the channel may move one, and that it may only while TXBUF is   *)
(* empty.                                                                  *)
(*                                                                         *)
(* The SPI master (Spi).  SpiPassesInv says that what is left of the call  *)
(* follows on what was clocked, SpiDataInv which bytes were and where the  *)
(* answers went; the rest says, for a call by CPU and for each stage of a  *)
(* pass by DMA, where the one byte under way is and how many edges each    *)
(* channel has still to hear.                                              *)
(*                                                                         *)
(* The converter (Adc).  The invariant follows a call from what may be     *)
(* left of the one before, over the results it has collected and the ones  *)
(* that wait in ADC12MEM, to what it leaves behind.                        *)
(***************************************************************************)
EXTENDS MCDmaClients, SequenceTheorems, TLAPS

In(r) == IF r = Empty THEN 0 ELSE 1

\* How many bytes were written to TXBUF.
Written == Len(wire) + In(shift) + In(txbuf)

\* The bytes, by where they are.
Line ==
    /\ \A i \in 1 .. Len(wire) : wire[i] = i
    /\ shift # Empty => shift = Len(wire) + 1
    /\ txbuf # Empty => txbuf = Written

Off == ~ch.en /\ ~ch.edge

Phase ==
    /\ first + n <= MaxBytes + 1
    /\ pc = "idle" => Off /\ Written = first + n - 1
    /\ pc = "single" => Off /\ n = 1 /\ Written = first - 1
    /\ pc \in {"ready", "arm"} => Off /\ n > 1 /\ Written = first - 1
    /\ pc \in {"arm", "prime"} => txbuf = Empty
    /\ pc = "prime" => n > 1 /\ Written = first - 1 /\ ch = Armed(n - 1)
    /\ pc = "wait" =>
           /\ n > 1 /\ ch.size = n - 1
           /\ \/ /\ ch.en /\ ~ch.done
                 /\ ch.left \in 1 .. n - 1
                 /\ Written = first + n - 1 - ch.left
                 /\ ch.edge <=> txbuf = Empty
              \/ /\ Off /\ ch.done
                 /\ Written = first + n - 1

Inv == TypeOK /\ Line /\ Phase

LEMMA InitInv == Init => Inv
BY BoundsAssumption
   DEF Init, Inv, TypeOK, Line, Phase, Off, Written, In, Empty, IdleChannel,
       ChannelType

\* The channel's operators, field by field.
LEMMA MovedFields ==
    ASSUME NEW c \in ChannelType(MaxLen), c.left > 0
    PROVE  /\ Moved(c) \in ChannelType(MaxLen)
           /\ ~Moved(c).edge /\ Moved(c).size = c.size
           /\ c.left = 1 => ~Moved(c).en /\ Moved(c).done
           /\ c.left > 1 => /\ Moved(c).en = c.en /\ Moved(c).done = c.done
                            /\ Moved(c).left = c.left - 1
<1>1. /\ c = [en |-> c.en, size |-> c.size, left |-> c.left,
               done |-> c.done, edge |-> c.edge]
      /\ c.en \in BOOLEAN /\ c.done \in BOOLEAN /\ c.edge \in BOOLEAN
      /\ c.size \in 0 .. MaxLen /\ c.left \in 0 .. MaxLen
  BY DEF ChannelType
<1>2. CASE c.left = 1
  <2>1. Moved(c) = [en |-> FALSE, size |-> c.size, left |-> c.size,
                    done |-> TRUE, edge |-> FALSE]
    BY <1>1, <1>2 DEF Moved, ChannelType
  <2> QED
    BY <1>1, <1>2, <2>1 DEF ChannelType
<1>3. CASE c.left # 1
  <2>1. Moved(c) = [en |-> c.en, size |-> c.size, left |-> c.left - 1,
                    done |-> c.done, edge |-> FALSE]
    BY <1>1, <1>3 DEF Moved, ChannelType
  <2>2. c.left - 1 \in 0 .. MaxLen
    BY <1>1, BoundsAssumption
  <2> QED
    BY <1>1, <1>3, <2>1, <2>2 DEF ChannelType
<1> QED
  BY <1>2, <1>3

LEMMA ArmedFields ==
    ASSUME NEW k \in 0 .. MaxLen
    PROVE  /\ Armed(k) \in ChannelType(MaxLen)
           /\ Armed(k).en /\ ~Armed(k).edge /\ ~Armed(k).done
           /\ Armed(k).size = k /\ Armed(k).left = k
BY BoundsAssumption DEF Armed, ChannelType

\* A byte written to an empty TXBUF is one more.
LEMMA OneMore ==
    ASSUME Line, txbuf = Empty, Written \in Nat,
           txbuf' = Written + 1, UNCHANGED <<shift, wire>>
    PROVE  Written' = Written + 1 /\ Line'
<1>1. txbuf' # Empty
  BY DEF Empty
<1>2. In(txbuf) = 0 /\ In(txbuf') = 1
  BY <1>1 DEF In
<1>3. Len(wire) + In(shift) = Written
  BY <1>2 DEF Written, In
<1>4. Written' = Written + 1
  BY <1>2, <1>3 DEF Written
<1> QED
  BY <1>4 DEF Line

LEMMA WrittenType ==
    ASSUME TypeOK
    PROVE  /\ Len(wire) \in Nat /\ Written \in Nat
           /\ In(shift) \in {0, 1} /\ In(txbuf) \in {0, 1}
<1>1. Len(wire) \in Nat
  BY LenProperties DEF TypeOK
<1>2. In(shift) \in {0, 1} /\ In(txbuf) \in {0, 1}
  BY DEF In
<1> QED
  BY <1>1, <1>2 DEF Written

LEMMA HandOffInv == Inv /\ HandOff => Inv'
<1> SUFFICES ASSUME Inv, HandOff PROVE Inv'
  OBVIOUS
<1> USE DEF Inv, HandOff, Triggered
<1>1. TypeOK'
  BY DEF TypeOK, ChannelType
<1>2. Written' = Written /\ Line'
  BY DEF TypeOK, Line, Written, In, Empty
<1>3. Phase'
  BY <1>2 DEF TypeOK, ChannelType, Phase, Off, Armed, Empty
<1> QED
  BY <1>1, <1>2, <1>3

LEMMA ShiftOutInv == Inv /\ ShiftOut => Inv'
<1> SUFFICES ASSUME Inv, ShiftOut PROVE Inv'
  OBVIOUS
<1> USE DEF Inv, ShiftOut
<1>1. TypeOK' /\ Len(wire') = Len(wire) + 1
  <2>1. shift \in 1 .. MaxBytes /\ wire \in Seq(1 .. MaxBytes)
    BY DEF TypeOK, Empty
  <2>2. wire' \in Seq(1 .. MaxBytes) /\ Len(wire') = Len(wire) + 1
    BY <2>1, AppendProperties
  <2> QED
    BY <2>2, BoundsAssumption DEF TypeOK, Empty
<1>2. Written' = Written
  BY <1>1 DEF TypeOK, Written, In, Empty
<1>3. Line'
  BY <1>1, <1>2 DEF TypeOK, Line, Empty
<1>4. Phase'
  BY <1>2 DEF Phase, Off
<1> QED
  BY <1>1, <1>3, <1>4

\* The channel's next item is the next byte of the burst.
LEMMA DmaMoveInv == Inv /\ DmaMove => Inv'
<1> SUFFICES ASSUME Inv, DmaMove PROVE Inv'
  OBVIOUS
<1> USE DEF Inv, DmaMove
<1>2. pc # "prime"
  <2>1. ASSUME pc = "prime" PROVE FALSE
    <3>1. ch = Armed(n - 1) /\ n - 1 \in 0 .. MaxLen
      BY <2>1, BoundsAssumption DEF TypeOK, Phase
    <3> QED
      BY <3>1, ArmedFields
  <2> QED
    BY <2>1
<1>3. pc = "wait"
  BY <1>2 DEF TypeOK, Phase, Off
<1>4. /\ txbuf = Empty /\ ch.en /\ ~ch.done
      /\ n > 1 /\ ch.left \in 1 .. n - 1 /\ ch.size = n - 1
      /\ Written = first + n - 1 - ch.left
  BY <1>3 DEF Phase, Off
<1>5. txbuf' = Written + 1 /\ Written \in Nat
  BY <1>4, WrittenType DEF WriteTxbuf, Source, NextItem, TypeOK
<1>6. Written' = Written + 1 /\ Line'
  BY <1>4, <1>5, OneMore
<1>7. ch \in ChannelType(MaxLen) /\ ch.left \in Nat /\ ch.left > 0
  BY <1>4 DEF TypeOK
<1>8. txbuf' \in 1 .. MaxBytes
  BY <1>4, <1>5, BoundsAssumption DEF TypeOK, Phase
<1>9. TypeOK'
  BY <1>7, <1>8, MovedFields DEF TypeOK
<1>10. Phase'
  <2>1. CASE ch.left = 1
    BY <1>3, <1>4, <1>6, <1>7, <2>1, MovedFields DEF TypeOK, Phase, Off
  <2>2. CASE ch.left > 1
    <3>1. /\ ch'.en /\ ~ch'.done /\ ~ch'.edge
          /\ ch'.size = n - 1 /\ ch'.left = ch.left - 1
      BY <1>4, <1>7, <2>2, MovedFields
    <3>2. ch'.left \in 1 .. n - 1 /\ Written' = first + n - 1 - ch'.left
      BY <1>4, <1>6, <2>2, <3>1 DEF TypeOK
    <3>3. txbuf' # Empty
      BY <1>8 DEF Empty
    <3> QED
      BY <1>3, <1>4, <3>1, <3>2, <3>3 DEF Phase
  <2> QED
    BY <1>7, <2>1, <2>2
<1> QED
  BY <1>6, <1>9, <1>10

LEMMA CallInv == ASSUME NEW k \in 0 .. MaxLen, Inv, Call(k) PROVE Inv'
<1> USE DEF Inv, Call, At
<1>1. /\ k = 0 => pc' = "idle"
      /\ k = 1 => pc' = "single"
      /\ k > 1 => pc' = "ready"
  BY DEF TypeOK
<1>2. /\ pc = "idle" /\ first' = first + n /\ n' = k
      /\ first' + n' <= MaxBytes + 1
      /\ UNCHANGED <<txbuf, shift, wire, ch>>
  BY Zenon
<1>3. TypeOK'
  BY <1>1, <1>2, BoundsAssumption DEF TypeOK
<1>4. Line'
  BY <1>2 DEF Line, Written
<1>5. Phase'
  BY <1>1, <1>2, BoundsAssumption DEF TypeOK, Phase, Off, Written
<1> QED
  BY <1>3, <1>4, <1>5

LEMMA InCallInv == Inv /\ InCall => Inv'
<1> SUFFICES ASSUME Inv, InCall PROVE Inv'
  OBVIOUS
<1> USE DEF Inv, At, TxReady, WriteTxbuf
<1>1. ASSUME txbuf = Empty, txbuf' = first, Written = first - 1,
             UNCHANGED <<shift, wire>>, TypeOK
      PROVE  Written' = first /\ Line'
  BY <1>1, OneMore, WrittenType DEF TypeOK
<1>2. CASE Single
  <2>1. Written' = first /\ Line'
    BY <1>1, <1>2 DEF Single, Phase
  <2>2. TypeOK' /\ Phase'
    BY <1>2, <2>1, BoundsAssumption DEF Single, TypeOK, Phase, Off
  <2> QED
    BY <2>1, <2>2
<1>3. CASE AwaitReady
  BY <1>3 DEF AwaitReady, TypeOK, Line, Phase, Off, Written
<1>4. CASE ArmRest
  <2>1. n - 1 \in 0 .. MaxLen
    BY <1>4, BoundsAssumption DEF ArmRest, TypeOK, Phase
  <2>2. TypeOK'
    BY <1>4, <2>1, ArmedFields DEF ArmRest, TypeOK
  <2>3. Line' /\ Phase'
    BY <1>4 DEF ArmRest, TypeOK, Line, Phase, Written
  <2> QED
    BY <2>2, <2>3
<1>5. CASE Prime
  <2>1. Written' = first /\ Line'
    BY <1>1, <1>5 DEF Prime, Phase
  <2>2. TypeOK'
    BY <1>5, BoundsAssumption DEF Prime, TypeOK, Phase
  <2>3. Phase'
    BY <1>5, <2>1 DEF Prime, TypeOK, Phase, Armed, Empty
  <2> QED
    BY <2>1, <2>2, <2>3
<1>6. CASE WaitDone
  <2>1. TypeOK' /\ Line'
    BY <1>6 DEF WaitDone, DoneCleared, TypeOK, ChannelType, Line, Written
  <2>2. Phase'
    BY <1>6 DEF WaitDone, IsDone, DoneCleared, TypeOK, ChannelType, Phase, Off,
                Written
  <2> QED
    BY <2>1, <2>2
<1> QED
  BY <1>2, <1>3, <1>4, <1>5, <1>6 DEF InCall

LEMMA NextInv == Inv /\ [Next]_vars => Inv'
<1> SUFFICES ASSUME Inv, [Next]_vars PROVE Inv'
  OBVIOUS
<1>1. CASE UNCHANGED vars
  BY <1>1 DEF vars, Inv, TypeOK, Line, Phase, Off, Written
<1> QED
  BY <1>1, HandOffInv, ShiftOutInv, DmaMoveInv, CallInv, InCallInv
     DEF Next, Hardware

LEMMA AlwaysInv == Spec => []Inv
BY InitInv, NextInv, PTL DEF Spec

\* Types, and with them that no call writes past the buffer it was given.
THEOREM TypeCorrect == Spec => []TypeOK
<1>1. Inv => TypeOK
  BY DEF Inv
<1> QED
  BY <1>1, AlwaysInv, PTL

LEMMA OutOfLine ==
    ASSUME Inv
    PROVE  Len(Out) = Written /\ \A i \in 1 .. Len(Out) : Out[i] = i
<1> USE DEF Inv, TypeOK, Line, Empty
<1>1. /\ Held(shift) \in Seq(Nat) /\ Len(Held(shift)) = In(shift)
      /\ \A i \in 1 .. In(shift) : Held(shift)[i] = Len(wire) + i
  BY DEF Held, In
<1>2. /\ Held(txbuf) \in Seq(Nat) /\ Len(Held(txbuf)) = In(txbuf)
      /\ \A i \in 1 .. In(txbuf) : Held(txbuf)[i] = Len(wire) + In(shift) + i
  <2>1. CASE txbuf = Empty
    BY <2>1 DEF Held, In
  <2>2. CASE txbuf # Empty
    <3>1. In(txbuf) = 1 /\ Held(txbuf) = <<txbuf>> /\ txbuf \in Nat
      BY <2>2 DEF Held, In
    <3>2. txbuf = Len(wire) + In(shift) + 1
      BY <2>2, <3>1 DEF Written
    <3> QED
      BY <3>1, <3>2
  <2> QED
    BY <2>1, <2>2
<1>3. /\ wire \in Seq(Nat) /\ Len(wire) \in Nat /\ In(shift) \in Nat
      /\ In(txbuf) \in Nat
  BY DEF In
<1> HIDE DEF Inv, TypeOK, Line, Empty
<1> DEFINE s == wire \o Held(shift)
<1>4. /\ s \in Seq(Nat) /\ Len(s) = Len(wire) + In(shift)
      /\ \A i \in 1 .. Len(s) : s[i] = i
  BY <1>1, <1>3 DEF Inv, Line
<1> HIDE DEF s
<1> DEFINE t == Held(txbuf)
<1>5. /\ Len(s \o t) = Written
      /\ \A i \in 1 .. Written : (s \o t)[i] = i
  <2>1. Len(s \o t) = Len(s) + Len(t)
    BY <1>2, <1>4, ConcatProperties
  <2>2. \A i \in 1 .. Len(s) + Len(t) :
            (s \o t)[i] = IF i <= Len(s) THEN s[i] ELSE t[i - Len(s)]
    BY <1>2, <1>4, ConcatProperties
  <2>3. Len(s) = Len(wire) + In(shift) /\ Len(t) = In(txbuf)
    BY <1>2, <1>4
  <2> QED
    BY <2>1, <2>2, <2>3, <1>2, <1>3, <1>4 DEF Written
<1> QED
  BY <1>5 DEF Out, s

\* Bursts of every length, back to back: no byte is dropped, doubled or out
\* of place on the wire.
THEOREM OrderCorrect == Spec => []InOrder
<1>1. Inv => InOrder
  BY OutOfLine DEF InOrder
<1> QED
  BY <1>1, AlwaysInv, PTL

\* When a call returns all its bytes were accepted, and the channel is done
\* with the caller's buffer.
THEOREM AcceptedCorrect == Spec => []AcceptedWhenDone
<1>1. Inv => AcceptedWhenDone
  BY OutOfLine DEF AcceptedWhenDone, Inv, Phase, Off
<1> QED
  BY <1>1, AlwaysInv, PTL
-----------------------------------------------------------------------------
SpiTotal == Spi!Greatest(sR, sW)
SpiSent == Len(sSent)

\* The i-th byte of a call that writes m bytes.
SpiWanted(m, i) == IF i <= m THEN Spi!Out(i) ELSE Spi!Dummy

\* A pass clocks what its stretch of the call asks for.
SpiGood(p, len, m) ==
    /\ p.n \in 1 .. SpiLen /\ p.off \in 0 .. SpiLen
    /\ p.off + p.n <= Spi!Greatest(len, m)
    /\ p.src \in {"words", "mem", "dummy"} /\ p.dst \in {"mem", "scratch"}
    /\ p.src = "dummy" => m <= p.off
    /\ p.src # "dummy" => p.off + p.n <= m
    /\ p.dst = "mem" => p.off + p.n <= len
    /\ p.dst = "scratch" => len <= p.off

SpiLater == Head(Tail(sPasses))

\* What is left of the call follows on what was clocked, up to its end.
SpiPassesInv ==
    /\ sR \in 0 .. SpiLen /\ sW \in 0 .. SpiLen
    /\ sPc = "idle" => sPasses = <<>>
    /\ sPc # "idle" =>
         /\ SpiGood(Spi!Now, sR, sW)
         /\ \/ sPasses = <<Spi!Now>> /\ Spi!Now.off + Spi!Now.n = SpiTotal
            \/ /\ sPasses = <<Spi!Now, SpiLater>> /\ SpiGood(SpiLater, sR, sW)
               /\ SpiLater.off = Spi!Now.off + Spi!Now.n
               /\ SpiLater.off + SpiLater.n = SpiTotal

\* The bytes clocked so far, and the answers stored of them.
SpiAnswered == IF sRxifg THEN SpiSent - 1 ELSE SpiSent

SpiDataInv ==
    /\ sSent \in Seq(Spi!Byte) /\ SpiSent <= SpiTotal
    /\ \A i \in 1 .. SpiSent : sSent[i] = SpiWanted(sW, i)
    /\ sRxifg => SpiSent > 0
    /\ sMem \in [1 .. SpiLen -> Spi!Byte]
    /\ \A i \in 1 .. SpiLen :
         sMem[i] = IF i <= SpiAnswered /\ i <= sR THEN Spi!Answer(i) ELSE Spi!Out(i)
    /\ sRxbuf \in Spi!Byte
    /\ sRxifg => sRxbuf = Spi!Answer(SpiSent)
    /\ sPc = "idle" => SpiSent = SpiTotal

SpiTypeInv ==
    /\ sPc \in {"idle", "put", "get", "ready", "drain", "arm_receive",
                "arm_transmit", "prime", "wait_receive", "wait_transmit"}
    /\ sTxbuf \in Spi!Byte /\ sShift \in Spi!Byte
    /\ sRxifg \in BOOLEAN
    /\ sRx \in Spi!ChannelType(SpiLen) /\ sTx \in Spi!ChannelType(SpiLen)

SpiHere == SpiSent - Spi!Now.off

SpiOff(c) == ~c.en /\ ~c.edge /\ ~c.done

SpiQuiet == sTxbuf = Spi!None /\ sShift = Spi!None /\ ~sRxifg

\* A call by CPU has one byte under way at a time.
SpiPolledInv ==
    /\ sPc = "put" => SpiQuiet /\ SpiHere \in 0 .. Spi!Now.n - 1
    /\ sPc = "get" =>
         \/ /\ sTxbuf = SpiWanted(sW, SpiSent + 1) /\ sShift = Spi!None /\ ~sRxifg
            /\ SpiHere \in 0 .. Spi!Now.n - 1
         \/ /\ sTxbuf = Spi!None /\ sShift = SpiWanted(sW, SpiSent + 1) /\ ~sRxifg
            /\ SpiHere \in 0 .. Spi!Now.n - 1
         \/ sTxbuf = Spi!None /\ sShift = Spi!None /\ sRxifg /\ SpiHere \in 1 .. Spi!Now.n
    /\ sPc \in {"idle", "put", "get"} => SpiOff(sRx) /\ SpiOff(sTx)

\* A pass by DMA is armed on a quiet bus.
SpiArming == sPc \in {"ready", "drain", "arm_receive", "arm_transmit", "prime"}

SpiArmInv ==
    /\ SpiArming \/ sPc \in {"idle", "wait_transmit"} => SpiQuiet
    /\ SpiArming => SpiHere = 0
    /\ sPc \in {"ready", "drain", "arm_receive"} => SpiOff(sRx)
    /\ sPc \in {"arm_transmit", "prime"} =>
         sRx.en /\ ~sRx.edge /\ ~sRx.done /\ sRx.size = Spi!Now.n /\ sRx.left = Spi!Now.n
    /\ sPc \in {"ready", "drain", "arm_receive", "arm_transmit"} => SpiOff(sTx)
    /\ sPc = "arm_transmit" => Spi!Now.n > 1
    /\ sPc = "prime" =>
         IF Spi!Now.n = 1 THEN SpiOff(sTx)
         ELSE sTx.en /\ ~sTx.edge /\ ~sTx.done /\ sTx.size = Spi!Now.n - 1 /\ sTx.left = Spi!Now.n - 1
    /\ sPc = "wait_transmit" =>
         SpiOff(sRx) /\ SpiHere = Spi!Now.n /\ Spi!Now.n > 1 /\ ~sTx.en /\ ~sTx.edge /\ sTx.done

\* How many bytes of the pass have gone to TXBUF.
SpiFed == IF sTx.en THEN Spi!Now.n - sTx.left ELSE Spi!Now.n

SpiCount(b) == IF b = Spi!None THEN 0 ELSE 1

\* While the channels work: each has an edge exactly if there is work for it.
SpiWaitInv ==
    sPc = "wait_receive" =>
      /\ SpiHere \in 0 .. Spi!Now.n
      /\ SpiFed = SpiHere + SpiCount(sTxbuf) + SpiCount(sShift)
      /\ sTxbuf = Spi!None \/ sTxbuf = SpiWanted(sW, SpiSent + 1 + SpiCount(sShift))
      /\ sShift = Spi!None \/ sShift = SpiWanted(sW, SpiSent + 1)
      /\ IF Spi!Now.n = 1 THEN SpiOff(sTx)
         ELSE /\ sTx.size = Spi!Now.n - 1
              /\ (sTx.en <=> ~sTx.done)
              /\ sTx.en => sTx.left \in 1 .. Spi!Now.n - 1
              /\ sTx.edge <=> sTx.en /\ sTxbuf = Spi!None
      /\ sRx.edge <=> sRxifg
      /\ SpiAnswered >= Spi!Now.off
      /\ sRx.size = Spi!Now.n
      /\ (sRx.en <=> ~sRx.done)
      /\ sRx.en =>
           sRx.left = Spi!Now.n - (SpiAnswered - Spi!Now.off) /\ sRx.left > 0
      /\ ~sRx.en => SpiAnswered - Spi!Now.off = Spi!Now.n

SpiInv == SpiTypeInv /\ SpiPassesInv /\ SpiDataInv /\ SpiPolledInv /\ SpiArmInv /\ SpiWaitInv
-----------------------------------------------------------------------------
LEMMA SpiLists ==
    ASSUME NEW a, NEW b
    PROVE  /\ Head(<<a>>) = a /\ Tail(<<a>>) = <<>> /\ <<a>> # <<>>
           /\ Head(<<a, b>>) = a /\ Tail(<<a, b>>) = <<b>> /\ <<a, b>> # <<>>
           /\ <<>> \o <<a>> = <<a>> /\ <<a>> \o <<>> = <<a>>
           /\ <<a>> \o <<b>> = <<a, b>>
<1>1. Head(<<a>>) = a /\ Tail(<<a>>) = <<>> /\ <<a>> # <<>>
  OBVIOUS
<1>2. Head(<<a, b>>) = a /\ Tail(<<a, b>>) = <<b>> /\ <<a, b>> # <<>>
  OBVIOUS
<1>3. <<>> \o <<a>> = <<a>> /\ <<a>> \o <<>> = <<a>>
  OBVIOUS
<1>4. <<a>> \o <<b>> = <<a, b>>
  <2> DEFINE S == {a, b}
  <2>1. <<a>> \in Seq(S) /\ <<b>> \in Seq(S) /\ <<a, b>> \in Seq(S)
    OBVIOUS
  <2>2. Len(<<a>>) = 1 /\ Len(<<b>>) = 1 /\ Len(<<a, b>>) = 2
    OBVIOUS
  <2>3. /\ <<a>> \o <<b>> \in Seq(S) /\ Len(<<a>> \o <<b>>) = 2
        /\ \A i \in 1 .. 2 :
             (<<a>> \o <<b>>)[i] = IF i <= 1 THEN <<a>>[i] ELSE <<b>>[i - 1]
    BY <2>1, <2>2, ConcatProperties
  <2>4. \A i \in 1 .. 2 : (<<a>> \o <<b>>)[i] = <<a, b>>[i]
    BY <2>3
  <2> QED
    BY <2>1, <2>2, <2>3, <2>4, SeqEqual
<1> QED
  BY <1>1, <1>2, <1>3, <1>4

LEMMA SpiBytes ==
    /\ Spi!Dummy \in Spi!Byte /\ Spi!None \in Spi!Byte /\ Spi!Dummy # Spi!None
    /\ \A i \in 1 .. SpiLen : Spi!Out(i) \in Spi!Byte /\ Spi!Answer(i) \in Spi!Byte
    /\ \A i : Spi!Out(i) # Spi!None
  BY DEF Spi!Byte, Spi!Dummy, Spi!None, Spi!Out, Spi!Answer

LEMMA SpiWantedByte ==
    ASSUME NEW m \in 0 .. SpiLen, NEW i \in Nat \ {0}
    PROVE  SpiWanted(m, i) \in Spi!Byte /\ SpiWanted(m, i) # Spi!None
  BY SpiLenAssumption, SpiBytes DEF SpiWanted

LEMMA SpiSourceRight ==
    ASSUME SpiPassesInv, SpiDataInv, sPc # "idle", NEW i \in 1 .. Spi!Now.n,
           SpiSent < Spi!Now.off + i
    PROVE  /\ Spi!Source(i) = SpiWanted(sW, Spi!Now.off + i)
           /\ Spi!Now.off + i \in 1 .. SpiLen
<1>1. /\ Spi!Now.n \in 1 .. SpiLen /\ Spi!Now.off \in 0 .. SpiLen
      /\ Spi!Now.off + Spi!Now.n <= Spi!Greatest(sR, sW)
      /\ Spi!Now.src \in {"words", "mem", "dummy"}
      /\ Spi!Now.src = "dummy" => sW <= Spi!Now.off
      /\ Spi!Now.src # "dummy" => Spi!Now.off + Spi!Now.n <= sW
      /\ sR \in 0 .. SpiLen /\ sW \in 0 .. SpiLen
  BY DEF SpiPassesInv, SpiGood
<1>2. Spi!Now.off + i \in 1 .. SpiLen
  BY <1>1, SpiLenAssumption DEF Spi!Greatest
<1>3. sMem[Spi!Now.off + i] = Spi!Out(Spi!Now.off + i)
  <2>1. SpiSent \in Nat
    BY DEF SpiDataInv, SpiSent
  <2> QED
    BY <1>2, <2>1, SpiLenAssumption DEF SpiDataInv, SpiAnswered
<1>4. Spi!Now.src # "dummy" => Spi!Now.off + i <= sW
  BY <1>1, SpiLenAssumption
<1>5. Spi!Now.src = "dummy" => ~(Spi!Now.off + i <= sW)
  BY <1>1, SpiLenAssumption
<1> QED
  BY <1>1, <1>2, <1>3, <1>4, <1>5 DEF Spi!Source, SpiWanted

LEMMA SpiStoreRight ==
    ASSUME SpiPassesInv, SpiDataInv, sPc # "idle", sRxifg, sRxifg' = FALSE,
           SpiHere \in 1 .. Spi!Now.n,
           sMem' = Spi!Stored(SpiHere, sRxbuf), sPc' = "idle" => SpiSent = SpiTotal,
           UNCHANGED <<sR, sW, sSent, sRxbuf>>
    PROVE  SpiDataInv'
<1>1. /\ Spi!Now.n \in 1 .. SpiLen /\ Spi!Now.off \in 0 .. SpiLen
      /\ Spi!Now.off + Spi!Now.n <= Spi!Greatest(sR, sW)
      /\ Spi!Now.dst \in {"mem", "scratch"}
      /\ Spi!Now.dst = "mem" => Spi!Now.off + Spi!Now.n <= sR
      /\ Spi!Now.dst = "scratch" => sR <= Spi!Now.off
      /\ sR \in 0 .. SpiLen /\ sW \in 0 .. SpiLen
  BY DEF SpiPassesInv, SpiGood
<1>2. SpiSent \in Nat /\ Spi!Now.off + SpiHere = SpiSent
  BY <1>1, SpiLenAssumption DEF SpiDataInv, SpiSent, SpiHere
<1>3. /\ SpiSent \in 1 .. SpiLen /\ (Spi!Now.dst = "mem" => SpiSent <= sR)
      /\ (Spi!Now.dst = "scratch" => sR < SpiSent)
  BY <1>1, <1>2, SpiLenAssumption DEF Spi!Greatest
<1>4. sMem' = IF Spi!Now.dst = "mem" THEN [sMem EXCEPT ![SpiSent] = Spi!Answer(SpiSent)] ELSE sMem
  BY <1>2 DEF Spi!Stored, SpiDataInv
<1>5. SpiAnswered = SpiSent - 1 /\ SpiAnswered' = SpiSent /\ SpiSent' = SpiSent
  BY DEF SpiAnswered, SpiSent
<1>6. sMem' \in [1 .. SpiLen -> Spi!Byte]
  BY <1>3, <1>4, SpiBytes DEF SpiDataInv
<1>7. \A i \in 1 .. SpiLen :
        sMem'[i] = IF i <= SpiAnswered' /\ i <= sR THEN Spi!Answer(i) ELSE Spi!Out(i)
  <2> TAKE i \in 1 .. SpiLen
  <2>1. sMem[i] = IF i <= SpiSent - 1 /\ i <= sR THEN Spi!Answer(i) ELSE Spi!Out(i)
    BY <1>5 DEF SpiDataInv
  <2>2. sMem'[i] = IF Spi!Now.dst = "mem" /\ i = SpiSent THEN Spi!Answer(i) ELSE sMem[i]
    BY <1>3, <1>4 DEF SpiDataInv
  <2> QED
    BY <1>1, <1>2, <1>3, <1>5, <2>1, <2>2, SpiLenAssumption
<1> QED
  BY <1>5, <1>6, <1>7 DEF SpiDataInv, SpiTotal, SpiSent

LEMMA SpiClockRight ==
    ASSUME SpiPassesInv, SpiDataInv, sPc # "idle", ~sRxifg, sRxifg' = TRUE,
           sShift = SpiWanted(sW, SpiSent + 1),
           SpiHere \in 0 .. Spi!Now.n - 1,
           sSent' = Append(sSent, sShift), sRxbuf' = Spi!Answer(SpiSent + 1),
           UNCHANGED <<sPc, sR, sW, sMem>>
    PROVE  SpiDataInv' /\ SpiSent' = SpiSent + 1
<1>1. /\ Spi!Now.n \in 1 .. SpiLen /\ Spi!Now.off \in 0 .. SpiLen
      /\ Spi!Now.off + Spi!Now.n <= SpiTotal
      /\ sR \in 0 .. SpiLen /\ sW \in 0 .. SpiLen
  BY DEF SpiPassesInv, SpiGood, SpiTotal
<1>0. SpiSent \in Nat
  BY DEF SpiDataInv, SpiSent
<1>2. SpiSent \in Nat /\ SpiSent + 1 <= SpiTotal
  BY <1>0, <1>1, SpiLenAssumption DEF SpiHere, SpiTotal, Spi!Greatest
<1>3. SpiSent + 1 \in 1 .. SpiLen
  BY <1>1, <1>2, SpiLenAssumption DEF SpiTotal, Spi!Greatest
<1>4. sShift \in Spi!Byte /\ Spi!Answer(SpiSent + 1) \in Spi!Byte
  BY <1>1, <1>3, SpiWantedByte, SpiBytes
<1>5. sSent' \in Seq(Spi!Byte) /\ SpiSent' = SpiSent + 1
  BY <1>4 DEF SpiDataInv, SpiSent
<1>6. \A i \in 1 .. SpiSent' : sSent'[i] = SpiWanted(sW, i)
  BY <1>2, <1>4, <1>5 DEF SpiDataInv, SpiSent
<1>7. SpiAnswered' = SpiAnswered
  BY <1>2, <1>5 DEF SpiAnswered
<1>8. \A i \in 1 .. SpiLen :
        sMem'[i] = IF i <= SpiAnswered' /\ i <= sR THEN Spi!Answer(i) ELSE Spi!Out(i)
  BY <1>7 DEF SpiDataInv
<1>9. /\ SpiSent' <= SpiTotal' /\ sRxbuf' \in Spi!Byte
      /\ sRxbuf' = Spi!Answer(SpiSent') /\ SpiSent' > 0
  BY <1>2, <1>4, <1>5 DEF SpiTotal
<1> QED
  BY <1>5, <1>6, <1>8, <1>9 DEF SpiDataInv

LEMMA SpiMovedFields ==
    ASSUME NEW max \in Nat, NEW c \in Spi!ChannelType(max), c.left > 0
    PROVE  /\ Spi!Moved(c) \in Spi!ChannelType(max)
           /\ ~Spi!Moved(c).edge /\ Spi!Moved(c).size = c.size
           /\ c.left = 1 => ~Spi!Moved(c).en /\ Spi!Moved(c).done
           /\ c.left > 1 => /\ Spi!Moved(c).en = c.en /\ Spi!Moved(c).done = c.done
                            /\ Spi!Moved(c).left = c.left - 1
<1>1. /\ c = [en |-> c.en, size |-> c.size, left |-> c.left,
               done |-> c.done, edge |-> c.edge]
      /\ c.en \in BOOLEAN /\ c.done \in BOOLEAN /\ c.edge \in BOOLEAN
      /\ c.size \in 0 .. max /\ c.left \in 0 .. max
  BY DEF Spi!ChannelType
<1>2. CASE c.left = 1
  <2>1. Spi!Moved(c) = [en |-> FALSE, size |-> c.size, left |-> c.size,
                        done |-> TRUE, edge |-> FALSE]
    BY <1>1, <1>2 DEF Spi!Moved, Spi!ChannelType
  <2> QED
    BY <1>1, <1>2, <2>1 DEF Spi!ChannelType
<1>3. CASE c.left # 1
  <2>1. Spi!Moved(c) = [en |-> c.en, size |-> c.size, left |-> c.left - 1,
                        done |-> c.done, edge |-> FALSE]
    BY <1>1, <1>3 DEF Spi!Moved, Spi!ChannelType
  <2>2. c.left - 1 \in 0 .. max
    BY <1>1
  <2> QED
    BY <1>1, <1>3, <2>1, <2>2 DEF Spi!ChannelType
<1> QED
  BY <1>2, <1>3

LEMMA SpiChannelFields ==
    ASSUME NEW max \in Nat, NEW c \in Spi!ChannelType(max)
    PROVE  /\ c.en \in BOOLEAN /\ c.done \in BOOLEAN /\ c.edge \in BOOLEAN
           /\ c.size \in Nat /\ c.left \in Nat
           /\ Spi!Triggered(c) \in Spi!ChannelType(max)
           /\ Spi!Triggered(c).edge <=> c.en /\ c.left > 0
           /\ Spi!Triggered(c).en = c.en /\ Spi!Triggered(c).done = c.done
           /\ Spi!Triggered(c).size = c.size /\ Spi!Triggered(c).left = c.left
           /\ Spi!DoneCleared(c) \in Spi!ChannelType(max)
           /\ ~Spi!DoneCleared(c).done
           /\ Spi!DoneCleared(c).en = c.en /\ Spi!DoneCleared(c).edge = c.edge
<1>1. /\ c = [en |-> c.en, size |-> c.size, left |-> c.left,
               done |-> c.done, edge |-> c.edge]
      /\ c.en \in BOOLEAN /\ c.done \in BOOLEAN /\ c.edge \in BOOLEAN
      /\ c.size \in 0 .. max /\ c.left \in 0 .. max
  BY DEF Spi!ChannelType
<1>2. Spi!Triggered(c) = [en |-> c.en, size |-> c.size, left |-> c.left,
                          done |-> c.done, edge |-> c.en /\ c.left > 0]
  BY <1>1 DEF Spi!Triggered, Spi!ChannelType
<1>4. /\ Spi!Triggered(c) \in Spi!ChannelType(max)
      /\ Spi!Triggered(c).edge <=> c.en /\ c.left > 0
      /\ Spi!Triggered(c).en = c.en /\ Spi!Triggered(c).done = c.done
      /\ Spi!Triggered(c).size = c.size /\ Spi!Triggered(c).left = c.left
  <2> DEFINE e == c.en /\ c.left > 0
  <2>1. e \in BOOLEAN
    OBVIOUS
  <2> HIDE DEF e
  <2>2. Spi!Triggered(c) = [en |-> c.en, size |-> c.size, left |-> c.left,
                            done |-> c.done, edge |-> e]
    BY <1>2 DEF e
  <2>3. Spi!Triggered(c) \in Spi!ChannelType(max) /\ Spi!Triggered(c).edge = e
    BY <1>1, <2>1, <2>2 DEF Spi!ChannelType
  <2>4. Spi!Triggered(c).edge <=> c.en /\ c.left > 0
    BY <2>3 DEF e
  <2>5. /\ Spi!Triggered(c).en = c.en /\ Spi!Triggered(c).done = c.done
        /\ Spi!Triggered(c).size = c.size /\ Spi!Triggered(c).left = c.left
    BY <2>2
  <2> QED
    BY <2>3, <2>4, <2>5
<1>5. /\ Spi!DoneCleared(c) \in Spi!ChannelType(max)
      /\ ~Spi!DoneCleared(c).done
      /\ Spi!DoneCleared(c).en = c.en /\ Spi!DoneCleared(c).edge = c.edge
  BY DEF Spi!DoneCleared, Spi!ChannelType
<1> QED
  BY <1>1, <1>4, <1>5

LEMMA SpiArmedFields ==
    ASSUME NEW max \in Nat, NEW k \in 0 .. max
    PROVE  /\ Spi!Armed(k) \in Spi!ChannelType(max)
           /\ Spi!Armed(k).en /\ ~Spi!Armed(k).edge /\ ~Spi!Armed(k).done
           /\ Spi!Armed(k).size = k /\ Spi!Armed(k).left = k
  BY DEF Spi!Armed, Spi!ChannelType

LEMMA SpiIdleFields ==
    ASSUME NEW max \in Nat
    PROVE  Spi!IdleChannel \in Spi!ChannelType(max) /\ SpiOff(Spi!IdleChannel)
  BY DEF Spi!IdleChannel, Spi!ChannelType, SpiOff
-----------------------------------------------------------------------------
\* What a call sets out to do.
SpiPlan(list, len, m) ==
       IF list = <<>> THEN Spi!Greatest(len, m) = 0
       ELSE LET p == Head(list)  q == Head(Tail(list)) IN
              /\ SpiGood(p, len, m) /\ p.off = 0
              /\ \/ list = <<p>> /\ p.off + p.n = Spi!Greatest(len, m)
                 \/ /\ list = <<p, q>> /\ SpiGood(q, len, m)
                    /\ q.off = p.off + p.n /\ q.off + q.n = Spi!Greatest(len, m)

LEMMA SpiOnePass ==
    ASSUME NEW len \in 0 .. SpiLen, NEW m \in 0 .. SpiLen, NEW p, SpiGood(p, len,
           m),
           p.off = 0, p.n = Spi!Greatest(len, m)
    PROVE  SpiPlan(<<p>>, len, m)
  BY SpiLenAssumption, SpiLists DEF SpiPlan, SpiGood

LEMMA SpiSingleRun ==
    ASSUME NEW len \in 0 .. SpiLen
    PROVE  /\ SpiPlan(Spi!Run("words", "scratch", 0, len), 0, len)
           /\ SpiPlan(Spi!Run("dummy", "mem", 0, len), len, 0)
           /\ SpiPlan(Spi!Run("mem", "mem", 0, len), len, len)
<1>1. CASE len = 0
  BY <1>1 DEF Spi!Run, SpiPlan, Spi!Greatest
<1>2. CASE len > 0
  <2>1. /\ SpiGood(Spi!Pass("words", "scratch", 0, len), 0, len)
        /\ SpiGood(Spi!Pass("dummy", "mem", 0, len), len, 0)
        /\ SpiGood(Spi!Pass("mem", "mem", 0, len), len, len)
    BY <1>2, SpiLenAssumption DEF SpiGood, Spi!Pass, Spi!Greatest
  <2>2. /\ Spi!Greatest(0, len) = len /\ Spi!Greatest(len, 0) = len
        /\ Spi!Greatest(len, len) = len
        /\ 0 \in 0 .. SpiLen
    BY <1>2, SpiLenAssumption DEF Spi!Greatest
  <2>3. \A s, d : Spi!Pass(s, d, 0, len).off = 0 /\ Spi!Pass(s, d, 0, len).n = len
    BY DEF Spi!Pass
  <2> QED
    BY <1>2, <2>1, <2>2, <2>3, SpiOnePass DEF Spi!Run
<1> QED
  BY <1>1, <1>2, SpiLenAssumption

LEMMA SpiTransferPlan ==
    ASSUME NEW len \in 0 .. SpiLen, NEW m \in 0 .. SpiLen
    PROVE  SpiPlan(Spi!TransferRuns(len, m), len, m)
<1> DEFINE common == Spi!Least(len, m)
           both == Spi!Pass("words", "mem", 0, common)
           rest == IF m > common THEN Spi!Pass("words", "scratch", common, m - common)
                   ELSE Spi!Pass("dummy", "mem", common, len - common)
<1>1. /\ common \in 0 .. SpiLen /\ common <= len /\ common <= m
      /\ common = len \/ common = m
      /\ Spi!Greatest(len, m) >= common
      /\ m > common => Spi!Greatest(len, m) = m /\ common = len
      /\ len > common => Spi!Greatest(len, m) = len /\ common = m
      /\ ~(m > common) /\ ~(len > common) => Spi!Greatest(len, m) = common
  BY SpiLenAssumption DEF Spi!Least, Spi!Greatest
<1> HIDE DEF common
<1>2. common > 0 => SpiGood(both, len, m) /\ both.off = 0 /\ both.n = common
  BY <1>1, SpiLenAssumption DEF SpiGood, Spi!Pass
<1>3. m > common \/ len > common =>
        /\ SpiGood(rest, len, m)
        /\ rest.off = common /\ rest.off + rest.n = Spi!Greatest(len, m)
  BY <1>1, SpiLenAssumption DEF SpiGood, Spi!Pass
<1>4. Spi!TransferRuns(len, m) = (IF common > 0 THEN <<both>> ELSE <<>>) \o
                                 (IF m > common \/ len > common THEN <<rest>> ELSE <<>>)
  BY <1>1, SpiLenAssumption DEF Spi!TransferRuns, Spi!Run, common
<1> HIDE DEF both, rest
<1>5. CASE common > 0 /\ (m > common \/ len > common)
  <2>1. Spi!TransferRuns(len, m) = <<both, rest>>
    BY <1>4, <1>5, SpiLists
  <2> QED
    BY <1>1, <1>2, <1>3, <1>5, <2>1, SpiLists, SpiLenAssumption DEF SpiPlan
<1>6. CASE common > 0 /\ ~(m > common \/ len > common)
  <2>1. Spi!TransferRuns(len, m) = <<both>>
    BY <1>4, <1>6, SpiLists
  <2> QED
    BY <1>1, <1>2, <1>6, <2>1, SpiOnePass
<1>7. CASE ~(common > 0) /\ (m > common \/ len > common)
  <2>1. Spi!TransferRuns(len, m) = <<rest>> /\ common = 0
    BY <1>1, <1>4, <1>7, SpiLists, SpiLenAssumption
  <2>2. rest.n = Spi!Greatest(len, m) /\ rest.off = 0
    BY <1>3, <1>7, <2>1 DEF SpiGood
  <2> QED
    BY <1>3, <1>7, <2>1, <2>2, SpiOnePass
<1>8. CASE ~(common > 0) /\ ~(m > common \/ len > common)
  <2>1. Spi!TransferRuns(len, m) = <<>>
    BY <1>4, <1>8
  <2> QED
    BY <1>1, <1>8, <2>1, SpiLenAssumption DEF SpiPlan
<1> QED
  BY <1>5, <1>6, <1>7, <1>8
-----------------------------------------------------------------------------
LEMMA SpiSizes ==
    ASSUME SpiPassesInv, SpiDataInv
    PROVE  /\ sR \in 0 .. SpiLen /\ sW \in 0 .. SpiLen /\ SpiTotal \in Nat
           /\ SpiTotal <= SpiLen
           /\ SpiSent \in Nat
           /\ sPc # "idle" =>
                /\ Spi!Now.n \in Nat /\ Spi!Now.off \in Nat /\ Spi!Now.n > 0
                              /\ Spi!Now.off + Spi!Now.n <= SpiTotal
<1>1. /\ sR \in 0 .. SpiLen /\ sW \in 0 .. SpiLen /\ SpiTotal \in Nat
      /\ SpiTotal <= SpiLen
  BY SpiLenAssumption DEF SpiPassesInv, SpiTotal, Spi!Greatest
<1>2. SpiSent \in Nat
  BY DEF SpiDataInv, SpiSent
<1>3. sPc # "idle" => /\ Spi!Now.n \in Nat /\ Spi!Now.off \in Nat /\ Spi!Now.n > 0
                      /\ Spi!Now.off + Spi!Now.n <= SpiTotal
  BY SpiLenAssumption DEF SpiPassesInv, SpiGood, SpiTotal
<1> QED
  BY <1>1, <1>2, <1>3

LEMMA SpiPassesSame ==
    ASSUME SpiPassesInv, sPc # "idle", sPc' # "idle", UNCHANGED <<sR, sW, sPasses>>
    PROVE  /\ SpiPassesInv'
           /\ UNCHANGED <<Spi!Now.n, Spi!Now.off, Spi!Now.src, Spi!Now.dst>>
           /\ (UNCHANGED sSent => UNCHANGED SpiHere) /\ SpiTotal' = SpiTotal
<1>1. Spi!Now' = Spi!Now /\ SpiLater' = SpiLater /\ SpiTotal' = SpiTotal
  BY DEF Spi!Now, SpiLater, SpiTotal
<1> QED
  BY <1>1 DEF SpiPassesInv, SpiHere, SpiSent

LEMMA SpiDataSame ==
    ASSUME SpiDataInv, sPc' # "idle", UNCHANGED <<sR, sW, sSent, sMem, sRxbuf,
           sRxifg>>
    PROVE  SpiDataInv'
<1>1. SpiSent' = SpiSent /\ SpiTotal' = SpiTotal /\ SpiAnswered' = SpiAnswered
  BY DEF SpiSent, SpiTotal, SpiAnswered
<1> QED
  BY <1>1 DEF SpiDataInv

LEMMA SpiNextPass ==
    ASSUME SpiPassesInv, SpiDataInv, sPc # "idle", NEW stage, stage # "idle",
           Spi!Following(stage),
           SpiHere = Spi!Now.n, UNCHANGED <<sR, sW, sSent>>
    PROVE  /\ SpiPassesInv' /\ sPc' \in {"idle", stage}
           /\ sPc' = "idle" => SpiSent = SpiTotal
           /\ sPc' = stage => SpiHere' = 0
<1>1. SpiTotal' = SpiTotal /\ SpiSent' = SpiSent
  BY DEF SpiTotal, SpiSent
<1>2. SpiSent = Spi!Now.off + Spi!Now.n
  BY SpiSizes DEF SpiHere
<1>3. CASE sPasses = <<Spi!Now>> /\ Spi!Now.off + Spi!Now.n = SpiTotal
  <2>1. sPc' = "idle" /\ sPasses' = <<>> /\ Spi!Now.off + Spi!Now.n = SpiTotal
    BY <1>3, SpiLists DEF Spi!Following
  <2> QED
    BY <1>2, <2>1 DEF SpiPassesInv
<1>4. CASE /\ sPasses = <<Spi!Now, SpiLater>> /\ SpiGood(SpiLater, sR, sW)
           /\ SpiLater.off = Spi!Now.off + Spi!Now.n
           /\ SpiLater.off + SpiLater.n = SpiTotal
  <2>1. Tail(sPasses) = <<SpiLater>>
    BY <1>4, SpiLists
  <2> HIDE DEF SpiLater
  <2>3. <<SpiLater>> # <<>>
    BY SpiLists
  <2>4. sPc' = stage /\ sPasses' = <<SpiLater>>
    BY <2>1, <2>3 DEF Spi!Following
  <2>2. sPc' = stage /\ sPasses' = <<SpiLater>> /\ Spi!Now' = SpiLater
    BY <2>4, SpiLists DEF Spi!Now
  <2>5. SpiHere' = 0
    BY <1>1, <1>2, <1>4, <2>2, SpiSizes DEF SpiHere
  <2> QED
    BY <1>1, <1>4, <2>2, <2>5 DEF SpiPassesInv
<1> QED
  BY <1>3, <1>4 DEF SpiPassesInv

LEMMA SpiInitInv == Spi!Init => SpiInv
<1> SUFFICES ASSUME Spi!Init PROVE SpiInv
  OBVIOUS
<1>1. /\ Spi!IdleChannel \in Spi!ChannelType(SpiLen) /\ SpiOff(Spi!IdleChannel)
      /\ sSent = <<>> /\ SpiSent = 0 /\ SpiTotal = 0 /\ SpiAnswered = 0
  BY SpiIdleFields, SpiLenAssumption DEF Spi!Init, SpiSent, SpiTotal, Spi!Greatest,
     SpiAnswered
<1>2. SpiTypeInv
  BY <1>1, SpiBytes DEF Spi!Init, SpiTypeInv
<1>3. SpiPassesInv
  BY SpiLenAssumption DEF Spi!Init, SpiPassesInv
<1>4. SpiDataInv
  BY <1>1, SpiBytes, SpiLenAssumption DEF Spi!Init, SpiDataInv, Spi!Fresh
<1>5. SpiPolledInv /\ SpiArmInv /\ SpiWaitInv
  BY <1>1 DEF Spi!Init, SpiPolledInv, SpiArmInv, SpiWaitInv, SpiArming, SpiQuiet
<1> QED
  BY <1>2, <1>3, <1>4, <1>5 DEF SpiInv

LEMMA SpiBeginInv ==
    ASSUME SpiInv, NEW len \in 0 .. SpiLen, NEW m \in 0 .. SpiLen, NEW list,
           SpiPlan(list, len, m),
           NEW head \in {"ready", "put"}, Spi!Begin(len, m, list, head)
    PROVE  SpiInv'
<1>1. /\ sPc = "idle" /\ sR' = len /\ sW' = m /\ sPasses' = list
      /\ sPc' = IF list = <<>> THEN "idle" ELSE head
      /\ sMem' = Spi!Fresh /\ sSent' = <<>>
      /\ UNCHANGED <<sTxbuf, sShift, sRxbuf, sRxifg, sRx, sTx>>
  BY DEF Spi!Begin
<1>2. SpiQuiet /\ SpiOff(sRx) /\ SpiOff(sTx) /\ ~sRxifg
  BY <1>1 DEF SpiInv, SpiArmInv, SpiPolledInv, SpiQuiet
<1>3. SpiTypeInv'
  BY <1>1 DEF SpiInv, SpiTypeInv
<1>4. SpiPassesInv'
  BY <1>1 DEF SpiPassesInv, SpiPlan, Spi!Now, SpiLater, SpiTotal
<1>5. SpiSent' = 0 /\ SpiAnswered' = 0 /\ SpiTotal' \in Nat
  BY <1>1, <1>2, SpiLenAssumption DEF SpiSent, SpiAnswered, SpiTotal, Spi!Greatest
<1>6. SpiDataInv'
  <2>1. sSent' \in Seq(Spi!Byte) /\ (sPc' = "idle" => SpiTotal' = 0)
    BY <1>1 DEF SpiPlan, SpiTotal
  <2>2. /\ sMem' \in [1 .. SpiLen -> Spi!Byte]
        /\ \A i \in 1 .. SpiLen : sMem'[i] = Spi!Out(i)
    BY <1>1, SpiBytes DEF Spi!Fresh
  <2>3. ~sRxifg' /\ sRxbuf' \in Spi!Byte
    BY <1>1, <1>2 DEF SpiInv, SpiDataInv
  <2> QED
    BY <1>5, <2>1, <2>2, <2>3, SpiLenAssumption DEF SpiDataInv
<1>7. sPc' # "idle" => SpiHere' = 0 /\ Spi!Now'.n \in Nat /\ Spi!Now'.n > 0
  BY <1>1, <1>5, SpiLenAssumption DEF SpiPlan, SpiHere, SpiGood, Spi!Now
<1>8. SpiPolledInv' /\ SpiArmInv' /\ SpiWaitInv'
  BY <1>1, <1>2, <1>7 DEF SpiPolledInv, SpiArmInv, SpiWaitInv, SpiArming, SpiQuiet,
     SpiOff
<1> QED
  BY <1>3, <1>4, <1>6, <1>8 DEF SpiInv
-----------------------------------------------------------------------------
\* The steps of the silicon.
LEMMA SpiHandOffInv ==
    ASSUME SpiInv, Spi!HandOff
    PROVE  SpiInv'
<1>1. /\ sTxbuf # Spi!None /\ sShift = Spi!None /\ sShift' = sTxbuf
      /\ sTxbuf' = Spi!None
      /\ sTx' = Spi!Triggered(sTx)
      /\ UNCHANGED <<sPc, sR, sW, sPasses, sMem, sRxbuf, sRxifg, sSent, sRx>>
  BY DEF Spi!HandOff, Spi!call
<1>2. sPc \in {"get", "wait_receive"}
  BY <1>1 DEF SpiInv, SpiTypeInv, SpiPolledInv, SpiArmInv, SpiArming, SpiQuiet
<1>3. /\ sTx' \in Spi!ChannelType(SpiLen)
      /\ sTx'.edge <=> sTx.en /\ sTx.left > 0
      /\ sTx'.en = sTx.en /\ sTx'.done = sTx.done /\ sTx'.size = sTx.size
      /\ sTx'.left = sTx.left
      /\ sTx.en \in BOOLEAN /\ sTx.left \in Nat
  BY <1>1, SpiChannelFields, SpiLenAssumption DEF SpiInv, SpiTypeInv
<1>4. SpiTypeInv'
  BY <1>1, <1>3, SpiBytes DEF SpiInv, SpiTypeInv
<1>5. /\ SpiPassesInv' /\ SpiDataInv' /\ SpiHere' = SpiHere /\ Spi!Now' = Spi!Now
      /\ SpiSent' = SpiSent /\ SpiAnswered' = SpiAnswered
  BY <1>1, <1>2, SpiPassesSame, SpiDataSame DEF SpiInv, SpiHere, Spi!Now, SpiSent,
     SpiAnswered
<1>6. SpiPolledInv' /\ SpiArmInv'
  <2>1. CASE sPc = "get"
    BY <1>1, <1>3, <1>5, <2>1 DEF SpiInv, SpiPolledInv, SpiArmInv, SpiArming,
       SpiQuiet, SpiOff
  <2>2. CASE sPc = "wait_receive"
    BY <1>1, <2>2 DEF SpiPolledInv, SpiArmInv, SpiArming
  <2> QED
    BY <1>2, <2>1, <2>2
<1>7. SpiWaitInv'
  <2> SUFFICES ASSUME sPc = "wait_receive" PROVE SpiWaitInv'
    BY <1>1 DEF SpiWaitInv
  <2>1. /\ SpiCount(sShift) = 0 /\ SpiCount(sTxbuf) = 1 /\ SpiCount(sShift') = 1
        /\ SpiCount(sTxbuf') = 0
    BY <1>1 DEF SpiCount
  <2>2. SpiFed' = SpiFed
    BY <1>3, <1>5 DEF SpiFed
  <2>3. /\ SpiFed' = SpiHere' + SpiCount(sTxbuf') + SpiCount(sShift')
        /\ sShift' = SpiWanted(sW', SpiSent' + 1)
    BY <1>1, <1>5, <2>1, <2>2, SpiSizes DEF SpiInv, SpiWaitInv, SpiHere
  <2>4. IF Spi!Now'.n = 1 THEN SpiOff(sTx)'
        ELSE /\ sTx'.size = Spi!Now'.n - 1
             /\ (sTx'.en <=> ~sTx'.done)
             /\ sTx'.en => sTx'.left \in 1 .. Spi!Now'.n - 1
             /\ sTx'.edge <=> sTx'.en /\ sTxbuf' = Spi!None
    BY <1>1, <1>3, <1>5 DEF SpiInv, SpiWaitInv, SpiOff
  <2> QED
    BY <1>1, <1>5, <2>3, <2>4 DEF SpiInv, SpiWaitInv
<1> QED
  BY <1>4, <1>5, <1>6, <1>7 DEF SpiInv

LEMMA SpiClockInv ==
    ASSUME SpiInv, Spi!Clock
    PROVE  SpiInv'
<1>1. /\ sShift # Spi!None /\ ~sRx.edge /\ sSent' = Append(sSent, sShift)
      /\ sShift' = Spi!None
      /\ sRxbuf' = Spi!Answer(SpiSent + 1) /\ sRxifg' = TRUE
      /\ sRx' = IF sRxifg THEN sRx ELSE Spi!Triggered(sRx)
      /\ UNCHANGED <<sPc, sR, sW, sPasses, sMem, sTxbuf, sTx>>
  BY DEF Spi!Clock, Spi!call, Spi!PromptChannel, SpiSent
<1>2. sPc \in {"get", "wait_receive"}
  BY <1>1 DEF SpiInv, SpiTypeInv, SpiPolledInv, SpiArmInv, SpiArming, SpiQuiet
<1>3. ~sRxifg
  BY <1>1, <1>2 DEF SpiInv, SpiPolledInv, SpiWaitInv
<1>4. /\ sRx' \in Spi!ChannelType(SpiLen)
      /\ sRx'.edge <=> sRx.en /\ sRx.left > 0
      /\ sRx'.en = sRx.en /\ sRx'.done = sRx.done /\ sRx'.size = sRx.size
      /\ sRx'.left = sRx.left
      /\ sRx.en \in BOOLEAN /\ sRx.left \in Nat /\ sTx.left \in Nat
  BY <1>1, <1>3, SpiChannelFields, SpiLenAssumption DEF SpiInv, SpiTypeInv
<1>5. /\ Spi!Now.n \in Nat /\ Spi!Now.off \in Nat /\ Spi!Now.n > 0
      /\ SpiSent \in Nat
      /\ sR \in 0 .. SpiLen /\ sW \in 0 .. SpiLen /\ SpiTotal <= SpiLen
      /\ SpiTotal \in Nat
      /\ Spi!Now.off + Spi!Now.n <= SpiTotal
  BY <1>2, SpiSizes DEF SpiInv
<1>6. sShift = SpiWanted(sW, SpiSent + 1) /\ SpiHere \in 0 .. Spi!Now.n - 1
  <2>1. CASE sPc = "get"
    BY <1>1, <1>3, <2>1 DEF SpiInv, SpiPolledInv
  <2>2. CASE sPc = "wait_receive"
    <3>1. SpiCount(sShift) = 1 /\ SpiCount(sTxbuf) \in {0, 1}
      BY <1>1 DEF SpiCount
    <3>2. SpiFed <= Spi!Now.n /\ SpiFed \in Int
      <4>1. CASE Spi!Now.n = 1
        BY <4>1, <2>2 DEF SpiInv, SpiWaitInv, SpiFed, SpiOff
      <4>2. CASE Spi!Now.n # 1
        BY <4>2, <2>2, <1>5 DEF SpiInv, SpiWaitInv, SpiFed
      <4> QED
        BY <4>1, <4>2
    <3> QED
      BY <1>1, <2>2, <3>1, <3>2, <1>5 DEF SpiInv, SpiWaitInv
  <2> QED
    BY <1>2, <2>1, <2>2
<1>7. SpiDataInv' /\ SpiSent' = SpiSent + 1
  BY <1>1, <1>2, <1>3, <1>6, SpiClockRight DEF SpiInv
<1>8. /\ SpiPassesInv' /\ Spi!Now' = Spi!Now /\ SpiHere' = SpiHere + 1
      /\ SpiHere' \in 1 .. Spi!Now.n
  <2>1. SpiPassesInv'
    BY <1>1, <1>2, SpiPassesSame DEF SpiInv
  <2>2. Spi!Now' = Spi!Now
    BY <1>1 DEF Spi!Now
  <2>3. SpiHere' = SpiHere + 1
    BY <1>5, <1>7, <2>2 DEF SpiHere
  <2> QED
    BY <1>5, <1>6, <2>1, <2>2, <2>3
<1>9. SpiTypeInv'
  BY <1>1, <1>4, SpiBytes DEF SpiInv, SpiTypeInv
<1>10. SpiPolledInv' /\ SpiArmInv'
  <2>1. CASE sPc = "get"
    <3>1. SpiOff(sRx) /\ SpiOff(sTx) /\ sTxbuf = Spi!None
      BY <1>1, <1>3, <2>1 DEF SpiInv, SpiPolledInv
    <3>2. SpiOff(sRx)' /\ SpiOff(sTx)'
      BY <1>1, <1>4, <3>1 DEF SpiOff
    <3> QED
      BY <1>1, <1>8, <2>1, <3>1, <3>2 DEF SpiPolledInv, SpiArmInv, SpiArming
  <2>2. CASE sPc = "wait_receive"
    BY <1>1, <2>2 DEF SpiPolledInv, SpiArmInv, SpiArming
  <2> QED
    BY <1>2, <2>1, <2>2
<1>11. SpiWaitInv'
  <2> SUFFICES ASSUME sPc = "wait_receive" PROVE SpiWaitInv'
    BY <1>1 DEF SpiWaitInv
  <2>1. SpiCount(sShift) = 1 /\ SpiCount(sShift') = 0 /\ SpiCount(sTxbuf') = SpiCount(sTxbuf)
        /\ SpiCount(sTxbuf) \in {0, 1}
    BY <1>1 DEF SpiCount
  <2>2. SpiFed' = SpiFed /\ SpiAnswered' = SpiAnswered /\ SpiAnswered = SpiSent
    BY <1>1, <1>3, <1>5, <1>7, <1>8 DEF SpiFed, SpiAnswered
  <2>3. SpiFed' = SpiHere' + SpiCount(sTxbuf') + SpiCount(sShift')
    BY <1>5, <1>6, <1>8, <2>1, <2>2 DEF SpiInv, SpiWaitInv
  <2>4. sTxbuf' = Spi!None \/ sTxbuf' = SpiWanted(sW', SpiSent' + 1 + SpiCount(sShift'))
    BY <1>1, <1>5, <1>7, <2>1 DEF SpiInv, SpiWaitInv
  <2>5. sRx.en /\ sRx.left > 0
    BY <1>4, <1>5, <1>6, <2>2 DEF SpiInv, SpiWaitInv, SpiHere
  <2>6. IF Spi!Now'.n = 1 THEN SpiOff(sTx)'
        ELSE /\ sTx'.size = Spi!Now'.n - 1
             /\ (sTx'.en <=> ~sTx'.done)
             /\ sTx'.en => sTx'.left \in 1 .. Spi!Now'.n - 1
             /\ sTx'.edge <=> sTx'.en /\ sTxbuf' = Spi!None
    BY <1>1, <1>8 DEF SpiInv, SpiWaitInv, SpiOff
  <2>7. /\ sRx'.edge <=> sRxifg'
        /\ SpiAnswered' >= Spi!Now'.off /\ sRx'.size = Spi!Now'.n
        /\ (sRx'.en <=> ~sRx'.done)
        /\ sRx'.en =>
             sRx'.left = Spi!Now'.n - (SpiAnswered' - Spi!Now'.off) /\ sRx'.left > 0
        /\ ~sRx'.en => SpiAnswered' - Spi!Now'.off = Spi!Now'.n
    BY <1>1, <1>4, <1>8, <2>2, <2>5 DEF SpiInv, SpiWaitInv
  <2> QED
    BY <1>1, <1>5, <1>8, <2>3, <2>4, <2>6, <2>7 DEF SpiWaitInv
<1> QED
  BY <1>7, <1>8, <1>9, <1>10, <1>11 DEF SpiInv

LEMMA SpiMoveInInv ==
    ASSUME SpiInv, Spi!MoveIn
    PROVE  SpiInv'
<1>1. /\ sRx.edge /\ sMem' = Spi!Stored(Spi!NextItem(sRx), sRxbuf)
      /\ sRxifg' = FALSE /\ sRx' = Spi!Moved(sRx)
      /\ UNCHANGED <<sPc, sR, sW, sPasses, sTxbuf, sShift, sRxbuf, sSent, sTx>>
  BY DEF Spi!MoveIn, Spi!call
<1>2. sPc = "wait_receive"
  BY <1>1 DEF SpiInv, SpiTypeInv, SpiPolledInv, SpiArmInv, SpiArming, SpiOff
<1>3. /\ Spi!Now.n \in Nat /\ Spi!Now.off \in Nat /\ Spi!Now.n > 0
      /\ SpiSent \in Nat
      /\ sRx.left \in Nat /\ sRx.en \in BOOLEAN /\ sRx.done \in BOOLEAN
  BY <1>2, SpiSizes, SpiChannelFields, SpiLenAssumption DEF SpiInv, SpiTypeInv
<1>4. sRxifg /\ SpiAnswered = SpiSent - 1
  BY <1>1, <1>2 DEF SpiInv, SpiWaitInv, SpiAnswered
<1>5. /\ sRx.en /\ ~sRx.done /\ sRx.left = Spi!Now.n - (SpiAnswered - Spi!Now.off)
      /\ sRx.left > 0
      /\ sRx.size = Spi!Now.n /\ SpiHere \in 0 .. Spi!Now.n
  BY <1>2, <1>3, <1>4 DEF SpiInv, SpiWaitInv, SpiHere
<1>6. Spi!NextItem(sRx) = SpiHere /\ SpiHere \in 1 .. Spi!Now.n
  BY <1>2, <1>3, <1>4, <1>5 DEF SpiInv, SpiWaitInv, Spi!NextItem, SpiHere
<1>7. SpiDataInv'
  BY <1>1, <1>2, <1>4, <1>6, SpiStoreRight DEF SpiInv
<1>8. /\ SpiPassesInv' /\ Spi!Now' = Spi!Now /\ SpiHere' = SpiHere
      /\ SpiSent' = SpiSent /\ SpiAnswered' = SpiSent
  BY <1>1, <1>2, SpiPassesSame DEF SpiInv, SpiHere, Spi!Now, SpiSent, SpiAnswered
<1>9. /\ sRx' \in Spi!ChannelType(SpiLen) /\ ~sRx'.edge /\ sRx'.size = sRx.size
      /\ sRx.left = 1 => ~sRx'.en /\ sRx'.done
      /\ sRx.left > 1 => sRx'.en /\ ~sRx'.done /\ sRx'.left = sRx.left - 1
  BY <1>1, <1>5, SpiMovedFields, SpiLenAssumption DEF SpiInv, SpiTypeInv
<1>10. SpiTypeInv'
  BY <1>1, <1>9 DEF SpiInv, SpiTypeInv
<1>11. SpiPolledInv' /\ SpiArmInv'
  BY <1>1, <1>2 DEF SpiPolledInv, SpiArmInv, SpiArming
<1>12. SpiWaitInv'
  <2>1. /\ SpiFed' = SpiFed /\ SpiCount(sShift') = SpiCount(sShift)
        /\ SpiCount(sTxbuf') = SpiCount(sTxbuf)
    BY <1>1, <1>8 DEF SpiFed, SpiCount
  <2>2. /\ SpiHere' \in 0 .. Spi!Now'.n
        /\ SpiFed' = SpiHere' + SpiCount(sTxbuf') + SpiCount(sShift')
        /\ sTxbuf' = Spi!None \/ sTxbuf' = SpiWanted(sW', SpiSent' + 1 + SpiCount(sShift'))
        /\ sShift' = Spi!None \/ sShift' = SpiWanted(sW', SpiSent' + 1)
        /\ IF Spi!Now'.n = 1 THEN SpiOff(sTx)'
           ELSE /\ sTx'.size = Spi!Now'.n - 1
                /\ (sTx'.en <=> ~sTx'.done)
                /\ sTx'.en => sTx'.left \in 1 .. Spi!Now'.n - 1
                /\ sTx'.edge <=> sTx'.en /\ sTxbuf' = Spi!None
    BY <1>1, <1>2, <1>8, <2>1 DEF SpiInv, SpiWaitInv, SpiOff
  <2>3. CASE sRx.left = 1
    BY <1>1, <1>3, <1>4, <1>5, <1>6, <1>8, <1>9, <2>2, <2>3 DEF SpiWaitInv, SpiHere
  <2>4. CASE sRx.left > 1
    BY <1>1, <1>3, <1>4, <1>5, <1>6, <1>8, <1>9, <2>2, <2>4 DEF SpiWaitInv, SpiHere
  <2> QED
    BY <1>3, <1>5, <2>3, <2>4
<1> QED
  BY <1>7, <1>8, <1>10, <1>11, <1>12 DEF SpiInv

LEMMA SpiMoveOutInv ==
    ASSUME SpiInv, Spi!MoveOut
    PROVE  SpiInv'
<1>1. /\ sTx.edge /\ sTxbuf' = Spi!Source(Spi!NextItem(sTx) + 1)
      /\ sTx' = Spi!Moved(sTx)
      /\ UNCHANGED <<sPc, sR, sW, sPasses, sMem, sShift, sRxbuf, sRxifg, sSent,
                     sRx>>
  BY DEF Spi!MoveOut, Spi!call
<1>2. sPc = "wait_receive"
  BY <1>1 DEF SpiInv, SpiTypeInv, SpiPolledInv, SpiArmInv, SpiArming, SpiOff
<1>3. /\ Spi!Now.n \in Nat /\ Spi!Now.off \in Nat /\ Spi!Now.n > 0
      /\ SpiSent \in Nat
      /\ SpiSent = Spi!Now.off + SpiHere /\ sW \in 0 .. SpiLen
      /\ sTx.left \in Nat /\ sTx.en \in BOOLEAN /\ sTx.done \in BOOLEAN
  BY <1>2, SpiSizes, SpiChannelFields, SpiLenAssumption DEF SpiInv, SpiTypeInv,
     SpiHere
<1>4. /\ Spi!Now.n # 1 /\ sTx.en /\ ~sTx.done /\ sTxbuf = Spi!None
      /\ sTx.size = Spi!Now.n - 1
      /\ sTx.left \in 1 .. Spi!Now.n - 1 /\ SpiHere \in 0 .. Spi!Now.n
      /\ SpiFed = SpiHere + SpiCount(sTxbuf) + SpiCount(sShift)
  BY <1>1, <1>2, <1>3 DEF SpiInv, SpiWaitInv, SpiOff
<1>5. /\ SpiCount(sTxbuf) = 0 /\ SpiCount(sShift) \in {0, 1}
      /\ SpiFed = Spi!Now.n - sTx.left
      /\ Spi!NextItem(sTx) + 1 = SpiFed + 1 /\ SpiFed + 1 \in 1 .. Spi!Now.n
      /\ Spi!Now.off + (SpiFed + 1) = SpiSent + 1 + SpiCount(sShift)
  <2>1. /\ SpiCount(sTxbuf) = 0 /\ SpiCount(sShift) \in {0, 1}
        /\ SpiFed = Spi!Now.n - sTx.left
    BY <1>4 DEF SpiCount, SpiFed
  <2> QED
    BY <1>3, <1>4, <2>1 DEF Spi!NextItem
<1>6. sTxbuf' = SpiWanted(sW, SpiSent + 1 + SpiCount(sShift))
  <2>1. SpiSent < Spi!Now.off + (SpiFed + 1)
    BY <1>3, <1>5
  <2>2. Spi!Source(SpiFed + 1) = SpiWanted(sW, Spi!Now.off + (SpiFed + 1))
    BY <1>2, <1>5, <2>1, SpiSourceRight DEF SpiInv
  <2> QED
    BY <1>1, <1>5, <2>2
<1>7. sTxbuf' \in Spi!Byte /\ sTxbuf' # Spi!None
  BY <1>3, <1>5, <1>6, SpiWantedByte
<1>8. /\ SpiPassesInv' /\ SpiDataInv' /\ SpiHere' = SpiHere /\ Spi!Now' = Spi!Now
      /\ SpiSent' = SpiSent /\ SpiAnswered' = SpiAnswered
  BY <1>1, <1>2, SpiPassesSame, SpiDataSame DEF SpiInv, SpiHere, Spi!Now, SpiSent,
     SpiAnswered
<1>9. /\ sTx' \in Spi!ChannelType(SpiLen) /\ ~sTx'.edge /\ sTx'.size = sTx.size
      /\ sTx.left = 1 => ~sTx'.en /\ sTx'.done
      /\ sTx.left > 1 => sTx'.en /\ ~sTx'.done /\ sTx'.left = sTx.left - 1
  BY <1>1, <1>4, SpiMovedFields, SpiLenAssumption DEF SpiInv, SpiTypeInv
<1>10. SpiTypeInv'
  BY <1>1, <1>7, <1>9 DEF SpiInv, SpiTypeInv
<1>11. SpiPolledInv' /\ SpiArmInv'
  BY <1>1, <1>2 DEF SpiPolledInv, SpiArmInv, SpiArming
<1>12. SpiWaitInv'
  <2>1. SpiCount(sShift') = SpiCount(sShift) /\ SpiCount(sTxbuf') = 1
    BY <1>1, <1>7 DEF SpiCount
  <2>2. SpiFed' = SpiFed + 1
    <3>1. CASE sTx.left = 1
      BY <1>3, <1>4, <1>5, <1>8, <1>9, <3>1 DEF SpiFed
    <3>2. CASE sTx.left > 1
      BY <1>3, <1>4, <1>5, <1>8, <1>9, <3>2 DEF SpiFed
    <3> QED
      BY <1>4, <3>1, <3>2
  <2>3. SpiFed' = SpiHere' + SpiCount(sTxbuf') + SpiCount(sShift')
    BY <1>3, <1>4, <1>5, <1>8, <2>1, <2>2
  <2>4. /\ sTx'.size = Spi!Now'.n - 1
        /\ (sTx'.en <=> ~sTx'.done)
        /\ sTx'.en => sTx'.left \in 1 .. Spi!Now'.n - 1
        /\ sTx'.edge <=> sTx'.en /\ sTxbuf' = Spi!None
    <3>1. CASE sTx.left = 1
      BY <1>4, <1>7, <1>8, <1>9, <3>1
    <3>2. CASE sTx.left > 1
      BY <1>3, <1>4, <1>7, <1>8, <1>9, <3>2
    <3> QED
      BY <1>4, <3>1, <3>2
  <2>5. /\ sShift' = Spi!None \/ sShift' = SpiWanted(sW', SpiSent' + 1)
        /\ sTxbuf' = SpiWanted(sW', SpiSent' + 1 + SpiCount(sShift'))
    BY <1>1, <1>2, <1>6, <1>8, <2>1 DEF SpiInv, SpiWaitInv
  <2>6. /\ sRx'.edge <=> sRxifg'
        /\ SpiAnswered' >= Spi!Now'.off
        /\ sRx'.size = Spi!Now'.n
        /\ (sRx'.en <=> ~sRx'.done)
        /\ sRx'.en =>
             sRx'.left = Spi!Now'.n - (SpiAnswered' - Spi!Now'.off) /\ sRx'.left > 0
        /\ ~sRx'.en => SpiAnswered' - Spi!Now'.off = Spi!Now'.n
    BY <1>1, <1>2, <1>8 DEF SpiInv, SpiWaitInv
  <2> QED
    BY <1>4, <1>8, <2>3, <2>4, <2>5, <2>6 DEF SpiWaitInv
<1> QED
  BY <1>8, <1>10, <1>11, <1>12 DEF SpiInv
-----------------------------------------------------------------------------
\* The steps of a call by CPU.
LEMMA SpiPutByteInv ==
    ASSUME SpiInv, Spi!PutByte
    PROVE  SpiInv'
<1>1. /\ sPc = "put" /\ sPc' = "get" /\ sTxbuf' = Spi!Source(Spi!Place)
      /\ UNCHANGED <<sR, sW, sPasses, sMem, sShift, sRxbuf, sRxifg, sSent, sRx,
                     sTx>>
  BY DEF Spi!PutByte, Spi!call
<1>2. SpiQuiet /\ SpiHere \in 0 .. Spi!Now.n - 1 /\ SpiOff(sRx) /\ SpiOff(sTx)
  BY <1>1 DEF SpiInv, SpiPolledInv
<1>3. /\ Spi!Now.n \in Nat /\ Spi!Now.off \in Nat /\ SpiSent \in Nat
      /\ sW \in 0 .. SpiLen
      /\ Spi!Place = SpiHere + 1 /\ Spi!Place \in 1 .. Spi!Now.n
      /\ Spi!Now.off + Spi!Place = SpiSent + 1
  <2>1. /\ Spi!Now.n \in Nat /\ Spi!Now.off \in Nat /\ SpiSent \in Nat
        /\ sW \in 0 .. SpiLen
    BY <1>1, SpiSizes DEF SpiInv
  <2> QED
    BY <1>2, <2>1 DEF Spi!Place, SpiHere, SpiSent
<1>4. sTxbuf' = SpiWanted(sW, SpiSent + 1) /\ sTxbuf' \in Spi!Byte
  <2>1. SpiSent < Spi!Now.off + Spi!Place
    BY <1>3
  <2>2. Spi!Source(Spi!Place) = SpiWanted(sW, Spi!Now.off + Spi!Place)
    BY <1>1, <1>3, <2>1, SpiSourceRight DEF SpiInv
  <2> QED
    BY <1>1, <1>3, <2>2, SpiWantedByte
<1>5. /\ SpiPassesInv' /\ SpiDataInv' /\ SpiHere' = SpiHere /\ Spi!Now' = Spi!Now
      /\ SpiSent' = SpiSent
  BY <1>1, SpiPassesSame, SpiDataSame DEF SpiInv, SpiHere, Spi!Now, SpiSent
<1>6. SpiTypeInv'
  BY <1>1, <1>4 DEF SpiInv, SpiTypeInv
<1>7. SpiPolledInv' /\ SpiArmInv' /\ SpiWaitInv'
  BY <1>1, <1>2, <1>4, <1>5 DEF SpiPolledInv, SpiArmInv, SpiWaitInv, SpiArming,
     SpiQuiet, SpiOff
<1> QED
  BY <1>5, <1>6, <1>7 DEF SpiInv

LEMMA SpiGetByteInv ==
    ASSUME SpiInv, Spi!GetByte
    PROVE  SpiInv'
<1>1. /\ sPc = "get" /\ sRxifg /\ sMem' = Spi!Stored(Spi!Place - 1, sRxbuf)
      /\ sRxifg' = FALSE
      /\ UNCHANGED <<sR, sW, sTxbuf, sShift, sRxbuf, sSent, sRx, sTx>>
  BY DEF Spi!GetByte
<1>2. /\ sTxbuf = Spi!None /\ sShift = Spi!None /\ SpiHere \in 1 .. Spi!Now.n
      /\ SpiOff(sRx) /\ SpiOff(sTx)
  BY <1>1 DEF SpiInv, SpiPolledInv
<1>3. /\ Spi!Now.n \in Nat /\ Spi!Now.off \in Nat /\ SpiSent \in Nat
      /\ Spi!Place \in Int /\ Spi!Place = SpiHere + 1 /\ Spi!Place - 1 = SpiHere
      /\ SpiHere \in Int
  <2>1. /\ Spi!Now.n \in Nat /\ Spi!Now.off \in Nat /\ SpiSent \in Nat
    BY <1>1, SpiSizes DEF SpiInv
  <2> QED
    BY <2>1 DEF Spi!Place, SpiHere, SpiSent
<1>4. SpiTypeInv' /\ SpiQuiet' /\ SpiOff(sRx)' /\ SpiOff(sTx)'
  <2>1. sPc' \in {"idle", "put"}
    BY DEF Spi!GetByte, Spi!Following
  <2> QED
    BY <1>1, <1>2, <2>1 DEF SpiInv, SpiTypeInv, SpiQuiet, SpiOff
<1>5. CASE Spi!Place > Spi!Now.n
  <2>0. SpiHere = Spi!Now.n /\ ~(Spi!Place <= Spi!Now.n)
    BY <1>2, <1>3, <1>5
  <2>1. Spi!Following("put") /\ SpiHere = Spi!Now.n
    BY <2>0 DEF Spi!GetByte
  <2>2. /\ SpiPassesInv' /\ sPc' \in {"idle", "put"}
        /\ sPc' = "idle" => SpiSent = SpiTotal
        /\ sPc' = "put" => SpiHere' = 0
    BY <1>1, <2>1, SpiNextPass DEF SpiInv
  <2>3. SpiDataInv'
    BY <1>1, <1>2, <1>3, <2>2, SpiStoreRight DEF SpiInv
  <2>4. sPc' = "put" => Spi!Now'.n \in Nat /\ Spi!Now'.n > 0
    BY <2>2, SpiLenAssumption DEF SpiPassesInv, SpiGood
  <2>5. SpiPolledInv' /\ SpiArmInv' /\ SpiWaitInv'
    BY <1>4, <2>2, <2>4 DEF SpiPolledInv, SpiArmInv, SpiWaitInv, SpiArming
  <2> QED
    BY <1>4, <2>2, <2>3, <2>5 DEF SpiInv
<1>6. CASE Spi!Place <= Spi!Now.n
  <2>0. SpiHere < Spi!Now.n /\ ~(Spi!Place > Spi!Now.n)
    BY <1>2, <1>3, <1>6
  <2>1. sPc' = "put" /\ sPasses' = sPasses /\ SpiHere < Spi!Now.n
    BY <2>0 DEF Spi!GetByte
  <2>2. SpiPassesInv' /\ Spi!Now' = Spi!Now /\ SpiHere' = SpiHere
    BY <1>1, <2>1, SpiPassesSame DEF SpiInv, SpiHere, Spi!Now, SpiSent
  <2>3. SpiDataInv'
    BY <1>1, <1>2, <1>3, <2>1, SpiStoreRight DEF SpiInv
  <2>4. SpiHere' \in 0 .. Spi!Now'.n - 1
    BY <1>2, <1>3, <2>1, <2>2
  <2>5. SpiPolledInv' /\ SpiArmInv' /\ SpiWaitInv'
    BY <1>4, <2>1, <2>4 DEF SpiPolledInv, SpiArmInv, SpiWaitInv, SpiArming
  <2> QED
    BY <1>4, <2>2, <2>3, <2>5 DEF SpiInv
<1> QED
  BY <1>3, <1>5, <1>6
-----------------------------------------------------------------------------
\* The steps of a call by DMA.
LEMMA SpiAwaitReadyInv ==
    ASSUME SpiInv, Spi!AwaitReady
    PROVE  SpiInv'
<1>1. /\ sPc = "ready" /\ sPc' = "drain"
      /\ UNCHANGED <<sR, sW, sPasses, sMem, sTxbuf, sShift, sRxbuf, sRxifg, sSent,
                     sRx, sTx>>
  BY DEF Spi!AwaitReady, Spi!call, Spi!bus
<1>2. /\ SpiPassesInv' /\ SpiDataInv' /\ SpiHere' = SpiHere /\ Spi!Now' = Spi!Now
  BY <1>1, SpiPassesSame, SpiDataSame DEF SpiInv, SpiHere, Spi!Now, SpiSent
<1>3. SpiTypeInv'
  BY <1>1 DEF SpiInv, SpiTypeInv
<1>4. SpiPolledInv' /\ SpiArmInv' /\ SpiWaitInv'
  BY <1>1, <1>2 DEF SpiInv, SpiPolledInv, SpiArmInv, SpiWaitInv, SpiArming,
     SpiQuiet, SpiOff
<1> QED
  BY <1>2, <1>3, <1>4 DEF SpiInv

LEMMA SpiDrainInv ==
    ASSUME SpiInv, Spi!Drain
    PROVE  SpiInv'
<1>1. /\ sPc = "drain" /\ sPc' = "arm_receive" /\ ~sRxifg'
      /\ UNCHANGED <<sR, sW, sPasses, sMem, sTxbuf, sShift, sRxbuf, sSent, sRx,
                     sTx>>
  BY DEF Spi!Drain, Spi!call
<1>2. ~sRxifg /\ sRxifg' = sRxifg
  BY <1>1 DEF Spi!Drain, SpiInv, SpiArmInv, SpiArming, SpiQuiet, SpiTypeInv
<1>3. /\ SpiPassesInv' /\ SpiDataInv' /\ SpiHere' = SpiHere /\ Spi!Now' = Spi!Now
  BY <1>1, <1>2, SpiPassesSame, SpiDataSame DEF SpiInv, SpiHere, Spi!Now, SpiSent
<1>4. SpiTypeInv'
  BY <1>1, <1>2 DEF SpiInv, SpiTypeInv
<1>5. SpiPolledInv' /\ SpiArmInv' /\ SpiWaitInv'
  BY <1>1, <1>3 DEF SpiInv, SpiPolledInv, SpiArmInv, SpiWaitInv, SpiArming,
     SpiQuiet, SpiOff
<1> QED
  BY <1>3, <1>4, <1>5 DEF SpiInv

LEMMA SpiArmReceiveInv ==
    ASSUME SpiInv, Spi!ArmReceive
    PROVE  SpiInv'
<1>1. /\ sPc = "arm_receive" /\ sRx' = Spi!Armed(Spi!Now.n)
      /\ sPc' = IF Spi!Now.n > 1 THEN "arm_transmit" ELSE "prime"
      /\ UNCHANGED <<sR, sW, sPasses, sMem, sTxbuf, sShift, sRxbuf, sRxifg, sSent,
                     sTx>>
  BY DEF Spi!ArmReceive, Spi!call, Spi!bus
<1>2. /\ SpiPassesInv' /\ SpiDataInv' /\ SpiHere' = SpiHere /\ Spi!Now' = Spi!Now
  BY <1>1, SpiPassesSame, SpiDataSame DEF SpiInv, SpiHere, Spi!Now, SpiSent
<1>3. Spi!Now.n \in 0 .. SpiLen /\ Spi!Now.n > 0
  BY <1>1, SpiLenAssumption DEF SpiInv, SpiPassesInv, SpiGood
<1>4. /\ sRx' \in Spi!ChannelType(SpiLen) /\ sRx'.en /\ ~sRx'.edge /\ ~sRx'.done
      /\ sRx'.size = Spi!Now.n /\ sRx'.left = Spi!Now.n
  BY <1>1, <1>3, SpiArmedFields, SpiLenAssumption
<1>5. SpiTypeInv'
  BY <1>1, <1>4 DEF SpiInv, SpiTypeInv
<1>6. SpiQuiet' /\ SpiOff(sTx)' /\ SpiHere' = 0
  BY <1>1, <1>2 DEF SpiInv, SpiArmInv, SpiArming, SpiQuiet, SpiOff
<1>7. SpiPolledInv' /\ SpiArmInv' /\ SpiWaitInv'
  <2>1. CASE Spi!Now.n > 1
    BY <1>1, <1>2, <1>4, <1>6, <2>1 DEF SpiPolledInv, SpiArmInv, SpiWaitInv,
       SpiArming
  <2>2. CASE ~(Spi!Now.n > 1)
    BY <1>1, <1>2, <1>3, <1>4, <1>6, <2>2, SpiLenAssumption
       DEF SpiPolledInv, SpiArmInv, SpiWaitInv, SpiArming
  <2> QED
    BY <2>1, <2>2
<1> QED
  BY <1>2, <1>5, <1>7 DEF SpiInv

LEMMA SpiArmTransmitInv ==
    ASSUME SpiInv, Spi!ArmTransmit
    PROVE  SpiInv'
<1>1. /\ sPc = "arm_transmit" /\ sTx' = Spi!Armed(Spi!Now.n - 1) /\ sPc' = "prime"
      /\ UNCHANGED <<sR, sW, sPasses, sMem, sTxbuf, sShift, sRxbuf, sRxifg, sSent,
                     sRx>>
  BY DEF Spi!ArmTransmit, Spi!call, Spi!bus
<1>2. /\ SpiPassesInv' /\ SpiDataInv' /\ SpiHere' = SpiHere /\ Spi!Now' = Spi!Now
  BY <1>1, SpiPassesSame, SpiDataSame DEF SpiInv, SpiHere, Spi!Now, SpiSent
<1>3. Spi!Now.n > 1 /\ Spi!Now.n - 1 \in 0 .. SpiLen
  BY <1>1, SpiLenAssumption DEF SpiInv, SpiPassesInv, SpiGood, SpiArmInv
<1>4. /\ sTx' \in Spi!ChannelType(SpiLen) /\ sTx'.en /\ ~sTx'.edge /\ ~sTx'.done
      /\ sTx'.size = Spi!Now.n - 1 /\ sTx'.left = Spi!Now.n - 1
  BY <1>1, <1>3, SpiArmedFields, SpiLenAssumption
<1>5. SpiTypeInv'
  BY <1>1, <1>4 DEF SpiInv, SpiTypeInv
<1>6. SpiPolledInv' /\ SpiArmInv' /\ SpiWaitInv'
  BY <1>1, <1>2, <1>3, <1>4 DEF SpiInv, SpiPolledInv, SpiArmInv, SpiWaitInv,
     SpiArming, SpiQuiet
<1> QED
  BY <1>2, <1>5, <1>6 DEF SpiInv

LEMMA SpiPrimeInv ==
    ASSUME SpiInv, Spi!Prime
    PROVE  SpiInv'
<1>1. /\ sPc = "prime" /\ sPc' = "wait_receive" /\ sTxbuf' = Spi!Source(1)
      /\ UNCHANGED <<sR, sW, sPasses, sMem, sShift, sRxbuf, sRxifg, sSent, sRx,
                     sTx>>
  BY DEF Spi!Prime, Spi!call
<1>2. /\ SpiQuiet /\ SpiHere = 0
      /\ sRx.en /\ ~sRx.edge /\ ~sRx.done /\ sRx.size = Spi!Now.n
      /\ sRx.left = Spi!Now.n
      /\ IF Spi!Now.n = 1 THEN SpiOff(sTx)
         ELSE sTx.en /\ ~sTx.edge /\ ~sTx.done /\ sTx.size = Spi!Now.n - 1 /\ sTx.left = Spi!Now.n - 1
  BY <1>1 DEF SpiInv, SpiArmInv, SpiArming
<1>3. /\ Spi!Now.n \in Nat /\ Spi!Now.off \in Nat /\ Spi!Now.n > 0
      /\ SpiSent \in Nat /\ sW \in 0 .. SpiLen
      /\ SpiSent = Spi!Now.off /\ SpiAnswered = SpiSent
  <2>1. /\ Spi!Now.n \in Nat /\ Spi!Now.off \in Nat /\ Spi!Now.n > 0
        /\ SpiSent \in Nat /\ sW \in 0 .. SpiLen
    BY <1>1, SpiSizes DEF SpiInv
  <2> QED
    BY <1>2, <2>1 DEF SpiQuiet, SpiHere, SpiAnswered
<1>4. /\ sTxbuf' = SpiWanted(sW, SpiSent + 1) /\ sTxbuf' \in Spi!Byte
      /\ sTxbuf' # Spi!None
  <2>1. SpiSent < Spi!Now.off + 1 /\ 1 \in 1 .. Spi!Now.n
    BY <1>3
  <2>2. Spi!Source(1) = SpiWanted(sW, Spi!Now.off + 1)
    BY <1>1, <2>1, SpiSourceRight DEF SpiInv
  <2> QED
    BY <1>1, <1>3, <2>2, SpiWantedByte
<1>5. /\ SpiPassesInv' /\ SpiDataInv' /\ SpiHere' = 0 /\ Spi!Now' = Spi!Now
      /\ SpiSent' = SpiSent /\ SpiAnswered' = SpiSent
  BY <1>1, <1>2, <1>3, SpiPassesSame, SpiDataSame DEF SpiInv, SpiHere, Spi!Now,
     SpiSent, SpiAnswered
<1>6. SpiTypeInv'
  BY <1>1, <1>4 DEF SpiInv, SpiTypeInv
<1>7. SpiPolledInv' /\ SpiArmInv'
  BY <1>1 DEF SpiPolledInv, SpiArmInv, SpiArming
<1>8. SpiWaitInv'
  <2>1. SpiCount(sTxbuf') = 1 /\ SpiCount(sShift') = 0 /\ sShift' = Spi!None
    BY <1>1, <1>2, <1>4 DEF SpiCount, SpiQuiet
  <2>2. SpiFed' = 1
    <3>1. CASE Spi!Now.n = 1
      BY <1>1, <1>2, <1>5, <3>1 DEF SpiFed, SpiOff
    <3>2. CASE Spi!Now.n # 1
      BY <1>1, <1>2, <1>3, <1>5, <3>2 DEF SpiFed
    <3> QED
      BY <3>1, <3>2
  <2>3. IF Spi!Now'.n = 1 THEN SpiOff(sTx)'
        ELSE /\ sTx'.size = Spi!Now'.n - 1
             /\ (sTx'.en <=> ~sTx'.done)
             /\ sTx'.en => sTx'.left \in 1 .. Spi!Now'.n - 1
             /\ sTx'.edge <=> sTx'.en /\ sTxbuf' = Spi!None
    BY <1>1, <1>2, <1>3, <1>4, <1>5 DEF SpiOff
  <2>4. /\ sRx'.edge <=> sRxifg'
        /\ SpiAnswered' >= Spi!Now'.off /\ sRx'.size = Spi!Now'.n
        /\ (sRx'.en <=> ~sRx'.done)
        /\ sRx'.en =>
             sRx'.left = Spi!Now'.n - (SpiAnswered' - Spi!Now'.off) /\ sRx'.left > 0
        /\ ~sRx'.en => SpiAnswered' - Spi!Now'.off = Spi!Now'.n
    BY <1>1, <1>2, <1>3, <1>5 DEF SpiQuiet
  <2>5. sTxbuf' = SpiWanted(sW', SpiSent' + 1 + SpiCount(sShift')) /\ SpiHere' \in 0 .. Spi!Now'.n
        /\ SpiFed' = SpiHere' + SpiCount(sTxbuf') + SpiCount(sShift')
    BY <1>1, <1>3, <1>4, <1>5, <2>1, <2>2
  <2> QED
    BY <2>1, <2>3, <2>4, <2>5 DEF SpiWaitInv
<1> QED
  BY <1>5, <1>6, <1>7, <1>8 DEF SpiInv

\* What the end of reception says of the rest.
LEMMA SpiReceptionEnd ==
    ASSUME SpiInv, sPc = "wait_receive", sRx.done
    PROVE  /\ SpiQuiet /\ SpiHere = Spi!Now.n /\ ~sRx.en /\ ~sRx.edge
           /\ IF Spi!Now.n = 1 THEN SpiOff(sTx) ELSE ~sTx.en /\ ~sTx.edge /\ sTx.done
<1>1. /\ Spi!Now.n \in Nat /\ Spi!Now.off \in Nat /\ Spi!Now.n > 0
      /\ SpiSent \in Nat
      /\ sTx.left \in Nat
  BY SpiSizes, SpiChannelFields, SpiLenAssumption DEF SpiInv, SpiTypeInv
<1>2. /\ ~sRx.en /\ SpiAnswered - Spi!Now.off = Spi!Now.n
      /\ SpiHere \in 0 .. Spi!Now.n
      /\ SpiFed = SpiHere + SpiCount(sTxbuf) + SpiCount(sShift)
      /\ (sRx.edge <=> sRxifg)
  BY DEF SpiInv, SpiWaitInv
<1>3. ~sRxifg /\ SpiHere = Spi!Now.n
  BY <1>1, <1>2 DEF SpiAnswered, SpiHere, SpiInv, SpiTypeInv
<1>4. SpiCount(sTxbuf) \in {0, 1} /\ SpiCount(sShift) \in {0, 1}
      /\ (SpiCount(sTxbuf) = 0 => sTxbuf = Spi!None)
      /\ (SpiCount(sShift) = 0 => sShift = Spi!None)
  BY DEF SpiCount
<1>5. CASE Spi!Now.n = 1
  <2>1. SpiOff(sTx) /\ SpiFed = Spi!Now.n
    BY <1>5 DEF SpiInv, SpiWaitInv, SpiFed, SpiOff
  <2> QED
    BY <1>1, <1>2, <1>3, <1>4, <1>5, <2>1 DEF SpiQuiet
<1>6. CASE Spi!Now.n # 1
  <2>1. /\ sTx.en <=> ~sTx.done
        /\ sTx.en => sTx.left \in 1 .. Spi!Now.n - 1
        /\ sTx.edge <=> sTx.en /\ sTxbuf = Spi!None
    BY <1>6 DEF SpiInv, SpiWaitInv
  <2>2. ~sTx.en /\ SpiFed = Spi!Now.n
    BY <1>1, <1>2, <1>3, <1>4, <2>1 DEF SpiFed
  <2> QED
    BY <1>1, <1>2, <1>3, <1>4, <1>6, <2>1, <2>2 DEF SpiQuiet
<1> QED
  BY <1>5, <1>6

\* The state a call by DMA is in when it turns to its next pass.
LEMMA SpiTurn ==
    ASSUME SpiInv, sPc # "idle", Spi!Following("ready"), SpiHere = Spi!Now.n,
           SpiQuiet,
           sRx' \in Spi!ChannelType(SpiLen), sTx' \in Spi!ChannelType(SpiLen), SpiOff(sRx)', SpiOff(sTx)',
           UNCHANGED <<sR, sW, sMem, sTxbuf, sShift, sRxbuf, sRxifg, sSent>>
    PROVE  SpiInv'
<1>1. /\ SpiPassesInv' /\ sPc' \in {"idle", "ready"}
      /\ sPc' = "idle" => SpiSent = SpiTotal
      /\ sPc' = "ready" => SpiHere' = 0
  BY SpiNextPass DEF SpiInv
<1>2. SpiDataInv'
  <2>1. SpiSent' = SpiSent /\ SpiTotal' = SpiTotal /\ SpiAnswered' = SpiAnswered
    BY DEF SpiSent, SpiTotal, SpiAnswered
  <2> QED
    BY <1>1, <2>1 DEF SpiInv, SpiDataInv
<1>3. SpiTypeInv'
  BY <1>1 DEF SpiInv, SpiTypeInv
<1>4. SpiQuiet'
  BY DEF SpiQuiet
<1>5. SpiPolledInv' /\ SpiArmInv' /\ SpiWaitInv'
  BY <1>1, <1>4 DEF SpiPolledInv, SpiArmInv, SpiWaitInv, SpiArming
<1> QED
  BY <1>1, <1>2, <1>3, <1>5 DEF SpiInv

LEMMA SpiWaitReceiveInv ==
    ASSUME SpiInv, Spi!WaitReceive
    PROVE  SpiInv'
<1>1. /\ sPc = "wait_receive" /\ sRx.done /\ sRx' = Spi!DoneCleared(sRx)
      /\ UNCHANGED <<sR, sW, sMem, sTxbuf, sShift, sRxbuf, sRxifg, sSent, sTx>>
  BY DEF Spi!WaitReceive, Spi!IsDone, Spi!bus
<1>2. /\ SpiQuiet /\ SpiHere = Spi!Now.n /\ ~sRx.en /\ ~sRx.edge
      /\ IF Spi!Now.n = 1 THEN SpiOff(sTx) ELSE ~sTx.en /\ ~sTx.edge /\ sTx.done
  BY <1>1, SpiReceptionEnd
<1>3. sRx' \in Spi!ChannelType(SpiLen) /\ SpiOff(sRx)'
  <2>1. /\ sRx' \in Spi!ChannelType(SpiLen) /\ ~sRx'.done
        /\ sRx'.en = sRx.en /\ sRx'.edge = sRx.edge
    BY <1>1, SpiChannelFields, SpiLenAssumption DEF SpiInv, SpiTypeInv
  <2> QED
    BY <1>2, <2>1 DEF SpiOff
<1>4. CASE Spi!Now.n > 1 /\ sPc' = "wait_transmit" /\ UNCHANGED sPasses
  <2>1. /\ SpiPassesInv' /\ SpiDataInv' /\ SpiHere' = SpiHere /\ Spi!Now' = Spi!Now
    BY <1>1, <1>4, SpiPassesSame, SpiDataSame DEF SpiInv, SpiHere, Spi!Now, SpiSent
  <2>2. SpiTypeInv'
    BY <1>1, <1>3, <1>4 DEF SpiInv, SpiTypeInv
  <2>3. Spi!Now.n # 1
    BY <1>4
  <2>4. SpiPolledInv' /\ SpiArmInv' /\ SpiWaitInv'
    BY <1>1, <1>2, <1>3, <1>4, <2>1, <2>3 DEF SpiPolledInv, SpiArmInv, SpiWaitInv,
       SpiArming, SpiQuiet
  <2> QED
    BY <2>1, <2>2, <2>4 DEF SpiInv
<1>5. CASE Spi!Now.n = 1 /\ Spi!Following("ready")
  <2>1. SpiOff(sTx)' /\ sTx' \in Spi!ChannelType(SpiLen)
    BY <1>1, <1>2, <1>5 DEF SpiOff, SpiInv, SpiTypeInv
  <2> QED
    BY <1>1, <1>2, <1>3, <1>5, <2>1, SpiTurn
<1> QED
  BY <1>4, <1>5 DEF Spi!WaitReceive

LEMMA SpiWaitTransmitInv ==
    ASSUME SpiInv, Spi!WaitTransmit
    PROVE  SpiInv'
<1>1. /\ sPc = "wait_transmit" /\ sTx' = Spi!DoneCleared(sTx)
      /\ Spi!Following("ready")
      /\ UNCHANGED <<sR, sW, sMem, sTxbuf, sShift, sRxbuf, sRxifg, sSent, sRx>>
  BY DEF Spi!WaitTransmit, Spi!bus
<1>2. SpiQuiet /\ SpiOff(sRx) /\ SpiHere = Spi!Now.n /\ ~sTx.en /\ ~sTx.edge
  BY <1>1 DEF SpiInv, SpiArmInv
<1>3. sTx' \in Spi!ChannelType(SpiLen) /\ SpiOff(sTx)'
  <2>1. /\ sTx' \in Spi!ChannelType(SpiLen) /\ ~sTx'.done
        /\ sTx'.en = sTx.en /\ sTx'.edge = sTx.edge
    BY <1>1, SpiChannelFields, SpiLenAssumption DEF SpiInv, SpiTypeInv
  <2> QED
    BY <1>2, <2>1 DEF SpiOff
<1>4. SpiOff(sRx)' /\ sRx' \in Spi!ChannelType(SpiLen)
  BY <1>1, <1>2 DEF SpiOff, SpiInv, SpiTypeInv
<1> QED
  BY <1>1, <1>2, <1>3, <1>4, SpiTurn
-----------------------------------------------------------------------------
LEMMA SpiCallInv ==
    ASSUME SpiInv, Spi!Call
    PROVE  SpiInv'
<1>1. PICK len \in 0 .. SpiLen :
        \/ Spi!WriteDma(len) \/ Spi!ReadDma(len) \/ Spi!TransferInPlaceDma(len)
        \/ Spi!TransferInPlacePolled(len)
        \/ \E m \in 0 .. SpiLen :
             Spi!TransferDma(len, m) \/ Spi!TransferPolled(len, m)
  BY DEF Spi!Call
<1>2. 0 \in 0 .. SpiLen
  BY SpiLenAssumption
<1>3. CASE Spi!WriteDma(len)
  BY <1>2, <1>3, SpiSingleRun, SpiBeginInv DEF Spi!WriteDma
<1>4. CASE Spi!ReadDma(len)
  BY <1>2, <1>4, SpiSingleRun, SpiBeginInv DEF Spi!ReadDma
<1>5. CASE Spi!TransferInPlaceDma(len)
  BY <1>5, SpiSingleRun, SpiBeginInv DEF Spi!TransferInPlaceDma
<1>6. CASE Spi!TransferInPlacePolled(len)
  BY <1>6, SpiSingleRun, SpiBeginInv DEF Spi!TransferInPlacePolled
<1>7. ASSUME NEW m \in 0 .. SpiLen, Spi!TransferDma(len,
             m) \/ Spi!TransferPolled(len, m)
      PROVE  SpiInv'
  BY <1>7, SpiTransferPlan, SpiBeginInv DEF Spi!TransferDma, Spi!TransferPolled
<1> QED
  BY <1>1, <1>3, <1>4, <1>5, <1>6, <1>7

LEMMA SpiStutterInv ==
    ASSUME SpiInv, UNCHANGED Spi!vars
    PROVE  SpiInv'
<1>1. UNCHANGED <<sPc, sR, sW, sPasses, sMem, sTxbuf, sShift, sRxbuf, sRxifg,
                  sSent, sRx, sTx>>
  BY DEF Spi!vars
<1>2. /\ Spi!Now' = Spi!Now /\ SpiLater' = SpiLater /\ SpiTotal' = SpiTotal
      /\ SpiSent' = SpiSent /\ SpiAnswered' = SpiAnswered
      /\ SpiHere' = SpiHere /\ SpiFed' = SpiFed
  BY <1>1 DEF Spi!Now, SpiLater, SpiTotal, SpiSent, SpiAnswered, SpiHere, SpiFed
<1>3. SpiTypeInv' /\ SpiPassesInv'
  BY <1>1, <1>2 DEF SpiInv, SpiTypeInv, SpiPassesInv
<1>4. SpiDataInv'
  BY <1>1, <1>2 DEF SpiInv, SpiDataInv
<1>5. SpiPolledInv' /\ SpiArmInv'
  BY <1>1, <1>2 DEF SpiInv, SpiPolledInv, SpiArmInv, SpiArming, SpiQuiet, SpiOff
<1>6. SpiWaitInv'
  BY <1>1, <1>2 DEF SpiInv, SpiWaitInv, SpiOff, SpiCount
<1> QED
  BY <1>3, <1>4, <1>5, <1>6 DEF SpiInv

\* The plan, the bytes and the channels agree in every behaviour (spi.rs, the
\* polled loops and dma_clock_bytes).
THEOREM SpiInvariant == Spi!Spec => []SpiInv
<1>1. Spi!Init => SpiInv
  BY SpiInitInv
<1>2. SpiInv /\ [Spi!Next]_(Spi!vars) => SpiInv'
  <2> SUFFICES ASSUME SpiInv, [Spi!Next]_(Spi!vars) PROVE SpiInv'
    OBVIOUS
  <2>1. CASE Spi!Hardware
    BY <2>1, SpiHandOffInv, SpiClockInv, SpiMoveInInv, SpiMoveOutInv
       DEF Spi!Hardware
  <2>2. CASE Spi!InCall
    BY <2>2, SpiPutByteInv, SpiGetByteInv, SpiAwaitReadyInv, SpiDrainInv,
       SpiArmReceiveInv, SpiArmTransmitInv, SpiPrimeInv, SpiWaitReceiveInv,
       SpiWaitTransmitInv DEF Spi!InCall
  <2>3. CASE Spi!Call
    BY <2>3, SpiCallInv
  <2>4. CASE UNCHANGED Spi!vars
    BY <2>4, SpiStutterInv
  <2> QED
    BY <2>1, <2>2, <2>3, <2>4 DEF Spi!Next
<1> QED
  BY <1>1, <1>2, PTL DEF Spi!Spec

LEMMA SpiInvExchanged == SpiInv => Spi!Exchanged
<1> SUFFICES ASSUME SpiInv, sPc = "idle" PROVE
        /\ sSent = [i \in 1 .. Spi!Greatest(sR, sW) |-> IF i <= sW THEN Spi!Out(i) ELSE Spi!Dummy]
        /\ sMem = [i \in 1 .. SpiLen |-> IF i <= sR THEN Spi!Answer(i) ELSE Spi!Out(i)]
  BY DEF Spi!Exchanged
<1>1. /\ SpiSent = Spi!Greatest(sR, sW) /\ SpiSent \in Nat /\ sR \in 0 .. SpiLen
      /\ sW \in 0 .. SpiLen
      /\ ~sRxifg /\ SpiAnswered = SpiSent
  <2>1. SpiSent = Spi!Greatest(sR, sW) /\ ~sRxifg
    BY DEF SpiInv, SpiDataInv, SpiArmInv, SpiQuiet, SpiTotal
  <2> QED
    BY <2>1, SpiSizes DEF SpiInv, SpiAnswered
<1>2. sSent = [i \in 1 .. SpiSent |-> sSent[i]]
  BY DEF SpiInv, SpiDataInv, SpiSent
<1>3. \A i \in 1 .. SpiSent : sSent[i] = IF i <= sW THEN Spi!Out(i) ELSE Spi!Dummy
  BY DEF SpiInv, SpiDataInv, SpiWanted
<1>4. sSent = [i \in 1 .. SpiSent |-> IF i <= sW THEN Spi!Out(i) ELSE Spi!Dummy]
  BY <1>2, <1>3, Zenon
<1>5. sMem = [i \in 1 .. SpiLen |-> sMem[i]]
  BY DEF SpiInv, SpiDataInv
<1>6. \A i \in 1 .. SpiLen : sMem[i] = IF i <= sR THEN Spi!Answer(i) ELSE Spi!Out(i)
  BY <1>1, SpiLenAssumption DEF SpiInv, SpiDataInv, Spi!Greatest
<1>7. sMem = [i \in 1 .. SpiLen |-> IF i <= sR THEN Spi!Answer(i) ELSE Spi!Out(i)]
  BY <1>5, <1>6, Zenon
<1> QED
  BY <1>1, <1>4, <1>7

\* For slices of any length: a call returns when it has clocked exactly the
\* bytes of its slice, and stored exactly the answers to them (spi.rs,
\* transfer, read, write and transfer_in_place, polled or by DMA).
THEOREM SpiExchangedCorrect == Spi!Spec => []Spi!Exchanged
<1> QED
  BY SpiInvariant, SpiInvExchanged, PTL

LEMMA SpiInvQuiet == SpiInv => Spi!QuietAtReturn
  BY DEF SpiInv, Spi!QuietAtReturn, SpiArmInv, SpiPolledInv, SpiQuiet, SpiOff

\* And no byte is under way or waiting then, and both channels are out of the
\* caller's memory (spi.rs, dma_clock_bytes and flush).
THEOREM SpiQuietCorrect == Spi!Spec => []Spi!QuietAtReturn
<1> QED
  BY SpiInvariant, SpiInvQuiet, PTL

LEMMA SpiInvType == SpiInv => Spi!TypeOK
<1> SUFFICES ASSUME SpiInv PROVE Spi!TypeOK
  OBVIOUS
<1>1. Len(sSent) <= SpiLen
  BY SpiSizes, SpiLenAssumption DEF SpiInv, SpiSent, SpiDataInv
<1>2. \A i \in 1 .. Len(sPasses) : sPasses[i].n \in 1 .. SpiLen
  <2>1. CASE sPasses = <<>>
    BY <2>1
  <2>2. CASE sPasses # <<>>
    <3>1. sPc # "idle"
      BY <2>2 DEF SpiInv, SpiPassesInv
    <3>2. Spi!Now.n \in 1 .. SpiLen
      BY <3>1 DEF SpiInv, SpiPassesInv, SpiGood
    <3>3. sPasses = <<Spi!Now>> \/ (sPasses = <<Spi!Now, SpiLater>> /\ SpiGood(SpiLater, sR, sW))
      BY <3>1 DEF SpiInv, SpiPassesInv
    <3>4. SpiGood(SpiLater, sR, sW) => SpiLater.n \in 1 .. SpiLen
      BY DEF SpiGood
    <3> QED
      BY <3>2, <3>3, <3>4
  <2> QED
    BY <2>1, <2>2
<1>3. /\ sMem \in [1 .. SpiLen -> Spi!Byte]
      /\ {sTxbuf, sShift, sRxbuf} \subseteq Spi!Byte
  BY DEF SpiInv, SpiDataInv, SpiTypeInv
<1> QED
  BY <1>1, <1>2, <1>3, SpiSizes DEF SpiInv, SpiTypeInv, Spi!TypeOK

\* Every variable of the SPI model keeps its type, the counts of both channels
\* (dma.rs, DMAxSZ) included.
THEOREM SpiTypeCorrect == Spi!Spec => []Spi!TypeOK
<1> QED
  BY SpiInvariant, SpiInvType, PTL
-----------------------------------------------------------------------------
AdcResult == Nat \X Nat

AdcCollected == Len(aGot)

\* The stages of a call: before the converter is started, and from then on
\* until the call is over, which a conversion left to itself never is.
AdcBefore == aPc \in {"scrub", "drain", "arm", "go"}
AdcResting == aPc = "idle" /\ aKind # "started"
AdcRunning == ~AdcBefore /\ ~AdcResting

AdcByDma == aKind \in {"repeated", "sequence_dma"}
AdcSequenced == aKind \in {"sequence", "sequence_dma"}

\* The channel is armed, or has completed and not been looked at.
AdcWorking == AdcByDma /\ aPc \in {"go", "wait_done", "poll", "give_up", "disarm"}

AdcEnding == aPc \in {"stop", "halt"} \/ (AdcResting /\ aId > 0)

AdcControlInv ==
    /\ aPc \in {"idle", "scrub", "drain", "arm", "go", "wait", "last_flag",
                "wait_done", "poll", "give_up", "disarm", "recheck", "clear",
                "stop", "halt"}
    /\ aKind \in {"single", "started", "repeated", "sequence", "sequence_dma"}
    /\ aAnswer \in {"ok", "incomplete"}
    /\ aPc \in {"scrub", "arm"} => aKind \in {"repeated", "sequence_dma"}
    /\ aPc = "drain" => aKind \in {"sequence", "sequence_dma"}
    /\ aPc = "wait" => aKind = "single"
    /\ aPc = "last_flag" => aKind = "sequence"
    /\ aPc = "wait_done" => aKind = "repeated"
    /\ aPc \in {"poll", "give_up", "disarm", "recheck", "clear"} =>
         aKind = "sequence_dma"
    /\ aPc \in {"stop", "halt"} =>
         aKind \in {"repeated", "sequence", "sequence_dma"}
    /\ aAnswer = "incomplete" =>
         aKind = "sequence_dma" /\ aPc \in {"stop", "halt", "idle"}

AdcNumberInv ==
    /\ aN \in Adc!Slot /\ aSlot \in Adc!Slot /\ aCount \in 0 .. AdcLen + 1
    /\ aId \in 0 .. AdcCalls /\ aOwner \in 0 .. aId
    /\ aKind \in {"single", "started"} => aN = 1
    /\ aKind # "single" => aId > 0

AdcFlagInv ==
    /\ aEnc \in BOOLEAN /\ aBusy \in BOOLEAN /\ aLatch \in BOOLEAN
    /\ aSeen \in BOOLEAN /\ aTorn \in BOOLEAN

AdcStoreInv ==
    /\ aMem \in [Adc!Slot -> AdcResult] /\ aIfg \subseteq Adc!Slot
    /\ aCh \in Adc!ChannelType(AdcLen)

AdcGotInv ==
    /\ aGot \in Seq(AdcResult) /\ AdcCollected <= aN
    /\ \A i \in 1 .. AdcCollected : aGot[i] = <<aId, i>>

AdcBeforeInv ==
    AdcBefore => /\ ~aBusy /\ ~aTorn /\ aSlot = 1 /\ aGot = <<>>
                 /\ aIfg \subseteq {1}
                 /\ aKind = "started" => aIfg = {}
                 /\ aPc \in {"arm", "go"} /\ AdcSequenced => aIfg = {}
                 /\ aPc \in {"drain", "arm", "go"} /\ AdcByDma => ~aLatch

AdcRunInv ==
    AdcRunning => /\ aOwner = aId
                  /\ aKind = "repeated" =>
                       /\ aSlot = 1 /\ aIfg \subseteq {1}
                       /\ aCount \in 1 .. AdcLen => aMem[1] = <<aId, aCount>>
                  /\ aKind # "repeated" =>
                       /\ AdcCollected <= aCount /\ aCount <= aN
                       /\ aBusy => aSlot = aCount + 1 /\ aCount < aN
                       /\ ~aBusy => aCount = aN
                       /\ \A x \in 1 .. aCount : aMem[x] = <<aId, x>>
                  /\ aKind \notin {"repeated", "single"} =>
                       aIfg = AdcCollected + 1 .. aCount
                  /\ aKind = "single" => aIfg \subseteq {1}
                  /\ aPc \in {"wait", "last_flag"} => aGot = <<>>

AdcChannelInv ==
    /\ ~AdcWorking => ~aCh.en /\ ~aCh.edge
    /\ AdcWorking =>
         /\ aCh.size = aN /\ (aCh.en <=> ~aCh.done)
         /\ aCh.en => /\ aCh.left = aN - AdcCollected /\ aCh.left > 0
                      /\ aLatch <=> aCh.edge
                      /\ AdcRunning /\ aCh.edge => aCount = AdcCollected + 1
                      /\ AdcRunning /\ ~aCh.edge => aCount = AdcCollected
         /\ ~aCh.en => ~aCh.edge /\ AdcCollected = aN

AdcEndInv ==
    /\ aPc \in {"wait_done", "poll", "give_up"} => ~aTorn
    /\ aPc = "disarm" =>
         IF aSeen THEN AdcCollected = aN /\ ~aCh.en ELSE (aTorn <=> AdcCollected = aN)
    /\ aPc = "recheck" =>
         IF aCh.done THEN AdcCollected = aN ELSE (aTorn <=> AdcCollected = aN)
    /\ aPc = "clear" => AdcCollected = aN
    /\ AdcEnding =>
         IF aAnswer = "ok" THEN AdcCollected = aN ELSE (aTorn <=> AdcCollected = aN)
    /\ AdcResting => aIfg = {} /\ ~aBusy

AdcInv ==
       AdcControlInv /\ AdcNumberInv /\ AdcFlagInv /\ AdcStoreInv /\ AdcGotInv /\ AdcBeforeInv /\ AdcRunInv
    /\ AdcChannelInv /\ AdcEndInv
-----------------------------------------------------------------------------
LEMMA AdcMovedFields ==
    ASSUME NEW max \in Nat, NEW c \in Adc!ChannelType(max), c.left > 0
    PROVE  /\ Adc!Moved(c) \in Adc!ChannelType(max)
           /\ ~Adc!Moved(c).edge /\ Adc!Moved(c).size = c.size
           /\ c.left = 1 => ~Adc!Moved(c).en /\ Adc!Moved(c).done
           /\ c.left > 1 => /\ Adc!Moved(c).en = c.en /\ Adc!Moved(c).done = c.done
                            /\ Adc!Moved(c).left = c.left - 1
<1>1. /\ c = [en |-> c.en, size |-> c.size, left |-> c.left,
               done |-> c.done, edge |-> c.edge]
      /\ c.en \in BOOLEAN /\ c.done \in BOOLEAN /\ c.edge \in BOOLEAN
      /\ c.size \in 0 .. max /\ c.left \in 0 .. max
  BY DEF Adc!ChannelType
<1>2. CASE c.left = 1
  <2>1. Adc!Moved(c) = [en |-> FALSE, size |-> c.size, left |-> c.size,
                        done |-> TRUE, edge |-> FALSE]
    BY <1>1, <1>2 DEF Adc!Moved, Adc!ChannelType
  <2> QED
    BY <1>1, <1>2, <2>1 DEF Adc!ChannelType
<1>3. CASE c.left # 1
  <2>1. Adc!Moved(c) = [en |-> c.en, size |-> c.size, left |-> c.left - 1,
                        done |-> c.done, edge |-> FALSE]
    BY <1>1, <1>3 DEF Adc!Moved, Adc!ChannelType
  <2>2. c.left - 1 \in 0 .. max
    BY <1>1
  <2> QED
    BY <1>1, <1>3, <2>1, <2>2 DEF Adc!ChannelType
<1> QED
  BY <1>2, <1>3

LEMMA AdcChannelFields ==
    ASSUME NEW max \in Nat, NEW c \in Adc!ChannelType(max)
    PROVE  /\ c.en \in BOOLEAN /\ c.done \in BOOLEAN /\ c.edge \in BOOLEAN
           /\ c.size \in Nat /\ c.left \in Nat
           /\ Adc!Triggered(c) \in Adc!ChannelType(max)
           /\ Adc!Triggered(c).edge <=> c.en /\ c.left > 0
           /\ Adc!Triggered(c).en = c.en /\ Adc!Triggered(c).done = c.done
           /\ Adc!Triggered(c).size = c.size /\ Adc!Triggered(c).left = c.left
           /\ Adc!DoneCleared(c) \in Adc!ChannelType(max)
           /\ ~Adc!DoneCleared(c).done
           /\ Adc!DoneCleared(c).en = c.en /\ Adc!DoneCleared(c).edge = c.edge
<1>1. /\ c = [en |-> c.en, size |-> c.size, left |-> c.left,
               done |-> c.done, edge |-> c.edge]
      /\ c.en \in BOOLEAN /\ c.done \in BOOLEAN /\ c.edge \in BOOLEAN
      /\ c.size \in 0 .. max /\ c.left \in 0 .. max
  BY DEF Adc!ChannelType
<1>2. Adc!Triggered(c) = [en |-> c.en, size |-> c.size, left |-> c.left,
                          done |-> c.done, edge |-> c.en /\ c.left > 0]
  BY <1>1 DEF Adc!Triggered, Adc!ChannelType
<1>4. /\ Adc!Triggered(c) \in Adc!ChannelType(max)
      /\ Adc!Triggered(c).edge <=> c.en /\ c.left > 0
      /\ Adc!Triggered(c).en = c.en /\ Adc!Triggered(c).done = c.done
      /\ Adc!Triggered(c).size = c.size /\ Adc!Triggered(c).left = c.left
  <2> DEFINE e == c.en /\ c.left > 0
  <2>1. e \in BOOLEAN
    OBVIOUS
  <2> HIDE DEF e
  <2>2. Adc!Triggered(c) = [en |-> c.en, size |-> c.size, left |-> c.left,
                            done |-> c.done, edge |-> e]
    BY <1>2 DEF e
  <2>3. Adc!Triggered(c) \in Adc!ChannelType(max) /\ Adc!Triggered(c).edge = e
    BY <1>1, <2>1, <2>2 DEF Adc!ChannelType
  <2>4. Adc!Triggered(c).edge <=> c.en /\ c.left > 0
    BY <2>3 DEF e
  <2>5. /\ Adc!Triggered(c).en = c.en /\ Adc!Triggered(c).done = c.done
        /\ Adc!Triggered(c).size = c.size /\ Adc!Triggered(c).left = c.left
    BY <2>2
  <2> QED
    BY <2>3, <2>4, <2>5
<1>5. /\ Adc!DoneCleared(c) \in Adc!ChannelType(max)
      /\ ~Adc!DoneCleared(c).done
      /\ Adc!DoneCleared(c).en = c.en /\ Adc!DoneCleared(c).edge = c.edge
  BY DEF Adc!DoneCleared, Adc!ChannelType
<1> QED
  BY <1>1, <1>4, <1>5

LEMMA AdcArmedFields ==
    ASSUME NEW max \in Nat, NEW k \in 0 .. max
    PROVE  /\ Adc!Armed(k) \in Adc!ChannelType(max)
           /\ Adc!Armed(k).en /\ ~Adc!Armed(k).edge /\ ~Adc!Armed(k).done
           /\ Adc!Armed(k).size = k /\ Adc!Armed(k).left = k
  BY DEF Adc!Armed, Adc!ChannelType


LEMMA AdcOtherFields ==
    ASSUME NEW max \in Nat
    PROVE  /\ Adc!IdleChannel \in Adc!ChannelType(max) /\ ~Adc!IdleChannel.en
           /\ ~Adc!IdleChannel.edge
           /\ \A c \in Adc!ChannelType(max), b \in BOOLEAN :
                LET d == [Adc!Disarmed(c) EXCEPT !.done = b]
                IN  d \in Adc!ChannelType(max) /\ ~d.en /\ ~d.edge /\ d.done = b
<1>1. /\ Adc!IdleChannel \in Adc!ChannelType(max) /\ ~Adc!IdleChannel.en
      /\ ~Adc!IdleChannel.edge
  BY DEF Adc!IdleChannel, Adc!ChannelType
<1>2. ASSUME NEW c \in Adc!ChannelType(max), NEW b \in BOOLEAN
      PROVE  LET d == [Adc!Disarmed(c) EXCEPT !.done = b]
             IN  d \in Adc!ChannelType(max) /\ ~d.en /\ ~d.edge /\ d.done = b
  BY DEF Adc!Disarmed, Adc!ChannelType
<1> QED
  BY <1>1, <1>2
-----------------------------------------------------------------------------
LEMMA AdcControlStep == AdcControlInv /\ [Adc!Next]_(Adc!vars) => AdcControlInv'
<1> SUFFICES ASSUME AdcControlInv, [Adc!Next]_(Adc!vars) PROVE AdcControlInv'
  OBVIOUS
<1>1. CASE Adc!Call
  BY <1>1 DEF AdcControlInv, Adc!Call, Adc!Single, Adc!Repeated, Adc!Sequence,
     Adc!SequenceDma, Adc!Program
<1>2. CASE Adc!InCall
  <2>1. CASE Adc!Scrub \/ Adc!DrainMems \/ Adc!Arm \/ Adc!Go \/ Adc!ReadSingle \/ Adc!ReadSequence
    BY <2>1 DEF AdcControlInv, Adc!Scrub, Adc!DrainMems, Adc!Arm, Adc!Go,
       Adc!ReadSingle, Adc!ReadSequence, Adc!Step
  <2>2. CASE Adc!WaitDone \/ Adc!Poll \/ Adc!DisarmRead \/ Adc!DisarmWrite
    BY <2>2 DEF AdcControlInv, Adc!WaitDone, Adc!Poll, Adc!DisarmRead,
       Adc!DisarmWrite, Adc!Step
  <2>3. CASE Adc!Recheck \/ Adc!ClearDone \/ Adc!Stop \/ Adc!Halt
    BY <2>3 DEF AdcControlInv, Adc!Recheck, Adc!ClearDone, Adc!Stop, Adc!Halt,
       Adc!Step
  <2> QED
    BY <1>2, <2>1, <2>2, <2>3 DEF Adc!InCall
<1>3. CASE Adc!ReadStarted
  BY <1>3 DEF AdcControlInv, Adc!ReadStarted, Adc!Step
<1>4. CASE Adc!Convert \/ Adc!Collect
  BY <1>4 DEF AdcControlInv, Adc!Convert, Adc!Collect, Adc!cpu
<1>5. CASE UNCHANGED Adc!vars
  BY <1>5 DEF AdcControlInv, Adc!vars
<1> QED
  BY <1>1, <1>2, <1>3, <1>4, <1>5 DEF Adc!Next, Adc!Hardware

LEMMA AdcNumberStep == AdcNumberInv /\ [Adc!Next]_(Adc!vars) => AdcNumberInv'
<1> SUFFICES ASSUME AdcNumberInv, [Adc!Next]_(Adc!vars) PROVE AdcNumberInv'
  OBVIOUS
<1> USE AdcLenAssumption, AdcCallsAssumption
<1>1. CASE Adc!Call
  BY <1>1 DEF AdcNumberInv, Adc!Slot, Adc!Call, Adc!Single, Adc!Repeated,
     Adc!Sequence, Adc!SequenceDma, Adc!Program
<1>2. CASE Adc!Go
  BY <1>2 DEF AdcNumberInv, Adc!Slot, Adc!Go, Adc!Step
<1>3. CASE Adc!Convert
  <2>1. UNCHANGED <<aN, aId, aOwner, aKind>>
    BY <1>3 DEF Adc!Convert, Adc!cpu
  <2>2. aSlot' = aSlot \/ (aSlot < aN /\ aSlot' = aSlot + 1)
    BY <1>3 DEF Adc!Convert
  <2>3. aCount' = IF aCount < AdcLen + 1 THEN aCount + 1 ELSE aCount
    BY <1>3 DEF Adc!Convert
  <2>4. aCount' \in 0 .. AdcLen + 1 /\ aSlot' \in Adc!Slot
    BY <2>2, <2>3 DEF AdcNumberInv, Adc!Slot
  <2> QED
    BY <2>1, <2>4 DEF AdcNumberInv
<1>4. CASE UNCHANGED <<aN, aId, aOwner, aKind, aSlot, aCount>>
  BY <1>4 DEF AdcNumberInv
<1>5. Adc!InCall \/ Adc!ReadStarted \/ Adc!Collect \/ UNCHANGED Adc!vars =>
        Adc!Go \/ UNCHANGED <<aN, aId, aOwner, aKind, aSlot, aCount>>
  BY DEF Adc!vars, Adc!InCall, Adc!ReadStarted, Adc!Collect, Adc!Scrub,
     Adc!DrainMems, Adc!Arm, Adc!ReadSingle, Adc!ReadSequence, Adc!WaitDone,
     Adc!Poll, Adc!DisarmRead, Adc!DisarmWrite, Adc!Recheck, Adc!ClearDone,
     Adc!Stop, Adc!Halt, Adc!Step, Adc!converter
<1> QED
  BY <1>1, <1>2, <1>3, <1>4, <1>5 DEF Adc!Next, Adc!Hardware

LEMMA AdcFlagStep ==
    AdcFlagInv /\ AdcStoreInv /\ [Adc!Next]_(Adc!vars) => AdcFlagInv'
<1> SUFFICES ASSUME AdcFlagInv, AdcStoreInv, [Adc!Next]_(Adc!vars) PROVE AdcFlagInv'
  OBVIOUS
<1>1. CASE Adc!Call
  BY <1>1 DEF AdcFlagInv, Adc!Call, Adc!Single, Adc!Repeated, Adc!Sequence,
     Adc!SequenceDma, Adc!Program, Adc!dma
<1>2. CASE Adc!DisarmRead
  BY <1>2, AdcChannelFields, AdcLenAssumption DEF AdcFlagInv, AdcStoreInv,
     Adc!DisarmRead, Adc!IsDone, Adc!Step, Adc!converter, Adc!dma
<1>3. CASE Adc!InCall /\ ~Adc!DisarmRead
  BY <1>3 DEF AdcFlagInv, Adc!InCall, Adc!Scrub, Adc!DrainMems, Adc!Arm, Adc!Go,
     Adc!ReadSingle, Adc!ReadSequence, Adc!WaitDone, Adc!Poll, Adc!DisarmWrite,
     Adc!Recheck, Adc!ClearDone, Adc!Stop, Adc!Halt, Adc!Step, Adc!converter,
     Adc!dma, Adc!rewrite
<1>4. CASE Adc!ReadStarted
  BY <1>4 DEF AdcFlagInv, Adc!ReadStarted, Adc!Step, Adc!dma, Adc!rewrite
<1>5. CASE Adc!Convert
  <2>1. UNCHANGED <<aEnc, aSeen, aTorn>> /\ aLatch' \in BOOLEAN
    BY <1>5 DEF Adc!Convert, Adc!rewrite
  <2>2. aBusy' \in BOOLEAN
    BY <1>5 DEF Adc!Convert, AdcFlagInv
  <2> QED
    BY <2>1, <2>2 DEF AdcFlagInv
<1>6. CASE Adc!Collect
  BY <1>6 DEF AdcFlagInv, Adc!Collect
<1>7. CASE UNCHANGED Adc!vars
  BY <1>7 DEF AdcFlagInv, Adc!vars
<1> QED
  BY <1>1, <1>2, <1>3, <1>4, <1>5, <1>6, <1>7 DEF Adc!Next, Adc!Hardware

LEMMA AdcStoreStep ==
    AdcNumberInv /\ AdcFlagInv /\ AdcStoreInv /\ AdcChannelInv /\ [Adc!Next]_(Adc!vars)
      => AdcStoreInv'
<1> SUFFICES ASSUME AdcNumberInv, AdcFlagInv, AdcStoreInv, AdcChannelInv,
                    [Adc!Next]_(Adc!vars)
             PROVE  AdcStoreInv'
  OBVIOUS
<1> USE AdcLenAssumption
<1>1. CASE Adc!Call
  BY <1>1 DEF AdcStoreInv, Adc!Call, Adc!Single, Adc!Repeated, Adc!Sequence,
     Adc!SequenceDma, Adc!Program, Adc!dma
<1>2. CASE Adc!InCall
  <2>1. aMem' = aMem
    BY <1>2 DEF Adc!InCall, Adc!Scrub, Adc!DrainMems, Adc!Arm, Adc!Go,
       Adc!ReadSingle, Adc!ReadSequence, Adc!WaitDone, Adc!Poll, Adc!DisarmRead,
       Adc!DisarmWrite, Adc!Recheck, Adc!ClearDone, Adc!Stop, Adc!Halt,
       Adc!converter
  <2>2. aIfg' \subseteq aIfg
    BY <1>2 DEF Adc!InCall, Adc!Scrub, Adc!DrainMems, Adc!Arm, Adc!Go,
       Adc!ReadSingle, Adc!ReadSequence, Adc!WaitDone, Adc!Poll, Adc!DisarmRead,
       Adc!DisarmWrite, Adc!Recheck, Adc!ClearDone, Adc!Stop, Adc!Halt,
       Adc!converter
  <2>3. aCh' \in Adc!ChannelType(AdcLen)
    <3>1. CASE Adc!Scrub
      BY <3>1, AdcOtherFields DEF Adc!Scrub
    <3>2. CASE Adc!Arm
      BY <3>2, AdcArmedFields DEF Adc!Arm, AdcNumberInv, Adc!Slot
    <3>3. CASE Adc!DisarmWrite
      BY <3>3, AdcOtherFields DEF Adc!DisarmWrite, AdcStoreInv, AdcFlagInv
    <3>4. CASE Adc!WaitDone \/ Adc!ClearDone
      BY <3>4, AdcChannelFields DEF Adc!WaitDone, Adc!ClearDone, AdcStoreInv
    <3>5. CASE UNCHANGED aCh
      BY <3>5 DEF AdcStoreInv
    <3> QED
      BY <1>2, <3>1, <3>2, <3>3, <3>4, <3>5 DEF Adc!InCall, Adc!DrainMems, Adc!Go,
         Adc!ReadSingle, Adc!ReadSequence, Adc!Poll, Adc!DisarmRead, Adc!Recheck,
         Adc!Stop, Adc!Halt, Adc!dma
  <2> QED
    BY <2>1, <2>2, <2>3 DEF AdcStoreInv
<1>3. CASE Adc!ReadStarted
  BY <1>3 DEF AdcStoreInv, Adc!ReadStarted, Adc!dma
<1>4. CASE Adc!Convert
  <2>1. aMem' \in [Adc!Slot -> AdcResult]
    BY <1>4 DEF Adc!Convert, AdcStoreInv, AdcNumberInv, AdcResult
  <2>2. aIfg' \subseteq Adc!Slot
    BY <1>4 DEF Adc!Convert, AdcStoreInv, AdcNumberInv
  <2>3. aCh' \in Adc!ChannelType(AdcLen)
    BY <1>4, AdcChannelFields DEF Adc!Convert, AdcStoreInv
  <2> QED
    BY <2>1, <2>2, <2>3 DEF AdcStoreInv
<1>5. CASE Adc!Collect
  <2>1. aCh.left > 0
    BY <1>5, AdcChannelFields DEF Adc!Collect, AdcChannelInv, AdcStoreInv
  <2>2. aCh' \in Adc!ChannelType(AdcLen)
    BY <1>5, <2>1, AdcMovedFields DEF Adc!Collect, AdcStoreInv
  <2> QED
    BY <1>5, <2>2 DEF Adc!Collect, AdcStoreInv
<1>6. CASE UNCHANGED Adc!vars
  BY <1>6 DEF AdcStoreInv, Adc!vars
<1> QED
  BY <1>1, <1>2, <1>3, <1>4, <1>5, <1>6 DEF Adc!Next, Adc!Hardware
-----------------------------------------------------------------------------
\* The two steps of the silicon that count.
LEMMA AdcConvertFacts ==
    ASSUME AdcInv, Adc!Convert
    PROVE  /\ aBusy /\ AdcRunning /\ ~aCh.edge /\ aSlot \in Adc!Slot
           /\ aLatch' = TRUE
           /\ UNCHANGED <<aPc, aKind, aN, aId, aGot, aAnswer, aOwner, aSeen, aTorn>>
           /\ aMem' = [aMem EXCEPT ![aSlot] = <<aId, aCount + 1>>]
           /\ aIfg' = aIfg \cup {aSlot}
           /\ aCh' \in Adc!ChannelType(AdcLen)
           /\ aCh'.edge <=> aCh.en /\ aCh.left > 0 /\ ~aLatch
           /\ aCh'.en = aCh.en /\ aCh'.done = aCh.done /\ aCh'.size = aCh.size
           /\ aCh'.left = aCh.left
           /\ aKind # "repeated" =>
                /\ aSlot = aCount + 1 /\ aCount < aN /\ aCount' = aCount + 1
                /\ aBusy' => aSlot' = aCount' + 1 /\ aCount' < aN
                /\ ~aBusy' => aCount' = aN
           /\ aKind = "repeated" =>
                /\ aSlot = 1 /\ aSlot' = 1
                /\ aCount' = IF aCount < AdcLen + 1 THEN aCount + 1 ELSE aCount
<1> USE AdcLenAssumption
<1>1. /\ aBusy /\ ~aCh.edge
      /\ UNCHANGED <<aPc, aKind, aN, aId, aGot, aAnswer, aOwner, aSeen, aTorn>>
      /\ aMem' = [aMem EXCEPT ![aSlot] = <<aOwner, aCount + 1>>]
      /\ aIfg' = aIfg \cup {aSlot}
      /\ aCount' = IF aCount < AdcLen + 1 THEN aCount + 1 ELSE aCount
      /\ aCh' = IF aLatch THEN aCh ELSE Adc!Triggered(aCh)
      /\ aLatch' = TRUE
  BY DEF Adc!Convert, Adc!cpu, Adc!rewrite, Adc!PromptChannel
<1>2. AdcRunning /\ aOwner = aId
  BY <1>1 DEF AdcInv, AdcBeforeInv, AdcEndInv, AdcRunInv, AdcRunning
<1>3. /\ aCh \in Adc!ChannelType(AdcLen) /\ aSlot \in Adc!Slot /\ aN \in Adc!Slot
      /\ aCount \in Nat
      /\ aLatch \in BOOLEAN /\ aBusy \in BOOLEAN
  BY DEF AdcInv, AdcStoreInv, AdcNumberInv, AdcFlagInv
<1>4. /\ aCh' \in Adc!ChannelType(AdcLen)
      /\ aCh'.edge <=> aCh.en /\ aCh.left > 0 /\ ~aLatch
      /\ aCh'.en = aCh.en /\ aCh'.done = aCh.done /\ aCh'.size = aCh.size
      /\ aCh'.left = aCh.left
  BY <1>1, <1>3, AdcChannelFields
<1>5. ASSUME aKind = "repeated"
      PROVE  aSlot = 1 /\ aSlot' = 1
  BY <1>2, <1>5 DEF Adc!Convert, AdcInv, AdcRunInv
<1>6. ASSUME aKind # "repeated"
      PROVE  /\ aSlot = aCount + 1 /\ aCount < aN /\ aCount' = aCount + 1
             /\ aBusy' => aSlot' = aCount' + 1 /\ aCount' < aN
             /\ ~aBusy' => aCount' = aN
  <2>1. aSlot = aCount + 1 /\ aCount < aN /\ aCount' = aCount + 1
    BY <1>1, <1>2, <1>3, <1>6 DEF AdcInv, AdcRunInv, Adc!Slot
  <2>2. CASE aKind \in {"sequence", "sequence_dma"}
    <3>1. CASE aSlot < aN
      <4>1. aSlot' = aSlot + 1 /\ aBusy' = aBusy
        BY <2>2, <3>1 DEF Adc!Convert
      <4> QED
        BY <1>1, <1>3, <2>1, <3>1, <4>1 DEF Adc!Slot
    <3>2. CASE ~(aSlot < aN)
      <4>1. ~aBusy'
        BY <1>6, <3>2 DEF Adc!Convert
      <4> QED
        BY <1>3, <2>1, <3>2, <4>1 DEF Adc!Slot
    <3> QED
      BY <3>1, <3>2
  <2>3. CASE aKind \notin {"sequence", "sequence_dma"}
    <3>1. ~aBusy'
      BY <1>6, <2>3 DEF Adc!Convert
    <3>2. aN = 1
      BY <1>6, <2>3 DEF AdcInv, AdcNumberInv, AdcControlInv
    <3> QED
      BY <1>3, <2>1, <3>1, <3>2
  <2> QED
    BY <2>1, <2>2, <2>3
<1> QED
  BY <1>1, <1>2, <1>3, <1>4, <1>5, <1>6

LEMMA AdcCollectFacts ==
    ASSUME AdcInv, Adc!Collect
    PROVE  /\ AdcWorking /\ AdcRunning /\ aCh.en /\ aCh.edge /\ ~aLatch'
           /\ UNCHANGED <<aPc, aKind, aN, aId, aAnswer, aBusy, aSlot, aOwner,
                          aCount, aMem, aSeen>>
           /\ aGot' = Append(aGot, <<aId, AdcCollected + 1>>)
           /\ <<aId, AdcCollected + 1>> \in AdcResult
           /\ AdcCollected \in Nat /\ AdcCollected' = AdcCollected + 1
           /\ AdcCollected' <= aN
           /\ aCount = AdcCollected'
           /\ aKind = "repeated" => aIfg' = aIfg \ {1}
           /\ aKind # "repeated" => aIfg' = aIfg \ {AdcCollected'}
           /\ aCh' \in Adc!ChannelType(AdcLen) /\ ~aCh'.edge /\ aCh'.size = aN
           /\ IF AdcCollected' = aN THEN ~aCh'.en /\ aCh'.done
              ELSE aCh'.en /\ ~aCh'.done /\ aCh'.left = aN - AdcCollected' /\ aCh'.left > 0
           /\ aTorn' <=> aTorn \/ (aPc = "disarm" /\ AdcCollected' = aN)
<1> USE AdcLenAssumption
<1>1. /\ aCh.edge /\ aGot' = Append(aGot, aMem[Adc!From])
      /\ aIfg' = aIfg \ {Adc!From} /\ ~aLatch'
      /\ aCh' = Adc!Moved(aCh)
      /\ aTorn' = (aTorn \/ (aPc = "disarm" /\ aCh.left = 1))
      /\ UNCHANGED <<aPc, aKind, aN, aId, aAnswer, aBusy, aSlot, aOwner, aCount,
                     aMem, aSeen>>
  BY DEF Adc!Collect
<1>2. /\ aN \in Nat /\ aN <= AdcLen /\ aCount \in Nat /\ aId \in Nat
      /\ AdcCollected \in Nat
      /\ aGot \in Seq(AdcResult) /\ aCh \in Adc!ChannelType(AdcLen)
      /\ aCh.left \in Nat /\ aCh.size \in Nat
  BY AdcChannelFields DEF AdcInv, AdcNumberInv, Adc!Slot, AdcGotInv, AdcCollected,
     AdcStoreInv
<1>3. /\ AdcWorking /\ aCh.en /\ aCh.left = aN - AdcCollected /\ aCh.left > 0
      /\ aCh.size = aN /\ ~aCh.done
  BY <1>1 DEF AdcInv, AdcChannelInv
<1>4. AdcRunning
  <2>1. aLatch
    BY <1>1, <1>3 DEF AdcInv, AdcChannelInv
  <2>2. aPc # "go"
    BY <1>3, <2>1 DEF AdcInv, AdcBeforeInv, AdcBefore, AdcWorking
  <2> QED
    BY <1>3, <2>2 DEF AdcWorking, AdcRunning, AdcBefore, AdcResting
<1>5. aCount = AdcCollected + 1 /\ AdcCollected + 1 <= aN
  BY <1>1, <1>2, <1>3, <1>4 DEF AdcInv, AdcChannelInv
<1>6. /\ aMem[Adc!From] = <<aId, AdcCollected + 1>>
      /\ aKind = "repeated" => Adc!From = 1
      /\ aKind # "repeated" => Adc!From = AdcCollected + 1
  <2>1. CASE aKind = "repeated"
    <3>1. Adc!From = 1
      BY <2>1 DEF Adc!From
    <3>2. aMem[1] = <<aId, AdcCollected + 1>>
      BY <1>2, <1>4, <1>5, <2>1 DEF AdcInv, AdcRunInv
    <3> QED
      BY <2>1, <3>1, <3>2
  <2>2. CASE aKind # "repeated"
    <3>1. Adc!From = AdcCollected + 1
      BY <1>2, <1>3, <2>2 DEF Adc!From, Adc!NextItem
    <3>2. AdcCollected + 1 \in 1 .. aCount
      BY <1>2, <1>5
    <3>3. aMem[AdcCollected + 1] = <<aId, AdcCollected + 1>>
      BY <1>4, <2>2, <3>2 DEF AdcInv, AdcRunInv
    <3> QED
      BY <2>2, <3>1, <3>3
  <2> QED
    BY <2>1, <2>2
<1>7. <<aId, AdcCollected + 1>> \in AdcResult
  BY <1>2 DEF AdcResult
<1>8. AdcCollected' = AdcCollected + 1
  BY <1>1, <1>2, <1>6, <1>7 DEF AdcCollected
<1>9. /\ aCh' \in Adc!ChannelType(AdcLen) /\ ~aCh'.edge /\ aCh'.size = aN
      /\ IF AdcCollected' = aN THEN ~aCh'.en /\ aCh'.done
         ELSE aCh'.en /\ ~aCh'.done /\ aCh'.left = aN - AdcCollected' /\ aCh'.left > 0
  <2>1. /\ aCh' \in Adc!ChannelType(AdcLen) /\ ~aCh'.edge /\ aCh'.size = aCh.size
        /\ aCh.left = 1 => ~aCh'.en /\ aCh'.done
        /\ aCh.left > 1 =>
             aCh'.en = aCh.en /\ aCh'.done = aCh.done /\ aCh'.left = aCh.left - 1
    BY <1>1, <1>2, <1>3, AdcMovedFields
  <2>2. CASE aCh.left = 1
    <3>1. AdcCollected' = aN
      BY <1>2, <1>3, <1>8, <2>2
    <3> QED
      BY <1>3, <2>1, <2>2, <3>1
  <2>3. CASE aCh.left > 1
    <3>1. /\ AdcCollected' # aN /\ aCh.left - 1 = aN - AdcCollected'
          /\ aCh.left - 1 > 0
      BY <1>2, <1>3, <1>8, <2>3
    <3> QED
      BY <1>3, <2>1, <2>3, <3>1
  <2> QED
    BY <1>2, <1>3, <2>2, <2>3
<1>10. aTorn' <=> aTorn \/ (aPc = "disarm" /\ AdcCollected' = aN)
  <2>1. aCh.left = 1 <=> AdcCollected' = aN
    BY <1>2, <1>3, <1>8
  <2> QED
    BY <1>1, <2>1
<1> QED
  BY <1>1, <1>2, <1>3, <1>4, <1>5, <1>6, <1>7, <1>8, <1>9, <1>10
-----------------------------------------------------------------------------
LEMMA AdcReadFacts ==
    ASSUME AdcInv
    PROVE  /\ Adc!ReadSingle \/ Adc!ReadStarted =>
             aGot' = <<<<aId, 1>>>> /\ aN = 1 /\ aIfg \subseteq {1}
           /\ Adc!ReadStarted => ~aBusy
           /\ Adc!ReadSequence => /\ aGot' \in Seq(AdcResult) /\ Len(aGot') = aN
                                  /\ \A i \in 1 .. aN : aGot'[i] = <<aId, i>>
                                  /\ ~aBusy /\ aCount = aN /\ AdcCollected = 0
<1> USE AdcLenAssumption
<1>1. /\ aN \in 1 .. AdcLen /\ aCount \in Nat /\ aId \in Nat /\ aBusy \in BOOLEAN
      /\ aGot \in Seq(AdcResult)
  BY DEF AdcInv, AdcNumberInv, Adc!Slot, AdcFlagInv, AdcGotInv
<1>2. ASSUME Adc!ReadSingle
      PROVE  aGot' = <<<<aId, 1>>>> /\ aN = 1 /\ aIfg \subseteq {1}
  <2>1. aPc = "wait" /\ ~aBusy /\ aGot' = <<aMem[1]>>
    BY <1>2 DEF Adc!ReadSingle, Adc!Step
  <2>2. aKind = "single" /\ AdcRunning
    BY <2>1 DEF AdcInv, AdcControlInv, AdcRunning, AdcBefore, AdcResting
  <2>3. aN = 1 /\ aCount = aN /\ aIfg \subseteq {1} /\ \A x \in 1 .. aCount : aMem[x] = <<aId, x>>
    BY <2>1, <2>2 DEF AdcInv, AdcNumberInv, AdcRunInv
  <2> QED
    BY <2>1, <2>3
<1>3. ASSUME Adc!ReadStarted
      PROVE  aGot' = <<<<aId, 1>>>> /\ aN = 1 /\ aIfg \subseteq {1} /\ ~aBusy
  <2>1. /\ aKind = "started" /\ aGot = <<>> /\ 1 \in aIfg /\ aGot' = <<aMem[1]>>
        /\ aPc = "idle"
    BY <1>3 DEF Adc!ReadStarted, Adc!Step
  <2>2. AdcRunning /\ AdcCollected = 0
    BY <2>1 DEF AdcRunning, AdcBefore, AdcResting, AdcCollected
  <2>3. /\ aN = 1 /\ aCount <= aN /\ aIfg = AdcCollected + 1 .. aCount
        /\ aBusy => aCount < aN
        /\ \A x \in 1 .. aCount : aMem[x] = <<aId, x>>
    BY <2>1, <2>2 DEF AdcInv, AdcNumberInv, AdcRunInv
  <2>4. aCount = 1
    BY <1>1, <2>1, <2>2, <2>3
  <2> QED
    BY <2>1, <2>2, <2>3, <2>4
<1>4. ASSUME Adc!ReadSequence
      PROVE  /\ aGot' \in Seq(AdcResult) /\ Len(aGot') = aN
             /\ \A i \in 1 .. aN : aGot'[i] = <<aId, i>>
             /\ ~aBusy /\ aCount = aN /\ AdcCollected = 0
  <2>1. aPc = "last_flag" /\ aN \in aIfg /\ aGot' = SubSeq(aMem, 1, aN)
    BY <1>4 DEF Adc!ReadSequence, Adc!Step
  <2>2. aKind = "sequence" /\ AdcRunning
    BY <2>1 DEF AdcInv, AdcControlInv, AdcRunning, AdcBefore, AdcResting
  <2>3. /\ aCount <= aN /\ aIfg = AdcCollected + 1 .. aCount /\ aGot = <<>>
        /\ aBusy => aCount < aN
        /\ \A x \in 1 .. aCount : aMem[x] = <<aId, x>>
    BY <2>1, <2>2 DEF AdcInv, AdcRunInv
  <2>4. AdcCollected = 0
    BY <2>3 DEF AdcCollected
  <2>5. aCount = aN /\ ~aBusy
    BY <1>1, <2>1, <2>3, <2>4
  <2>6. aMem \in Seq(AdcResult) /\ Len(aMem) = AdcLen
    BY DEF AdcInv, AdcStoreInv, Adc!Slot
  <2>7. /\ SubSeq(aMem, 1, aN) \in Seq(AdcResult) /\ Len(SubSeq(aMem, 1, aN)) = aN
        /\ \A i \in 1 .. aN : SubSeq(aMem, 1, aN)[i] = aMem[i]
    BY <1>1, <2>6, SubSeqProperties
  <2> QED
    BY <2>1, <2>3, <2>4, <2>5, <2>7
<1> QED
  BY <1>2, <1>3, <1>4

\* The first result of a call, and the next one.
LEMMA AdcOneResult ==
    ASSUME NEW b
    PROVE  Len(<<b>>) = 1 /\ <<b>>[1] = b /\ Len(<<>>) = 0
  OBVIOUS

LEMMA AdcGotStep == AdcInv /\ [Adc!Next]_(Adc!vars) => AdcGotInv'
<1> SUFFICES ASSUME AdcInv, [Adc!Next]_(Adc!vars) PROVE AdcGotInv'
  OBVIOUS
<1> USE AdcLenAssumption
<1>1. /\ aN \in 1 .. AdcLen /\ aId \in Nat /\ AdcCollected \in Nat
      /\ aGot \in Seq(AdcResult)
      /\ AdcCollected <= aN /\ \A i \in 1 .. AdcCollected : aGot[i] = <<aId, i>>
  BY DEF AdcInv, AdcNumberInv, Adc!Slot, AdcGotInv, AdcCollected
<1>2. CASE Adc!Call
  <2>1. aGot' = <<>> /\ aN' \in 1 .. AdcLen
    BY <1>2 DEF Adc!Call, Adc!Single, Adc!Repeated, Adc!Sequence, Adc!SequenceDma,
       Adc!Program
  <2>2. AdcCollected' = 0 /\ aGot' \in Seq(AdcResult)
    BY <2>1 DEF AdcCollected
  <2> QED
    BY <2>1, <2>2 DEF AdcGotInv
<1>3. CASE Adc!ReadSingle \/ Adc!ReadStarted
  <2>1. aGot' = <<<<aId, 1>>>> /\ aN = 1 /\ aN' = aN /\ aId' = aId
    BY <1>3, AdcReadFacts DEF Adc!ReadSingle, Adc!ReadStarted, Adc!Step
  <2>2. AdcCollected' = 1 /\ aGot'[1] = <<aId, 1>>
    BY <2>1, AdcOneResult DEF AdcCollected
  <2>3. aGot' \in Seq(AdcResult)
    BY <1>1, <2>1 DEF AdcResult
  <2> QED
    BY <2>1, <2>2, <2>3 DEF AdcGotInv
<1>4. CASE Adc!ReadSequence
  <2>1. aN' = aN /\ aId' = aId
    BY <1>4 DEF Adc!ReadSequence, Adc!Step
  <2> QED
    BY <1>1, <1>4, <2>1, AdcReadFacts DEF AdcGotInv, AdcCollected
<1>5. CASE Adc!Collect
  <2>1. /\ aN' = aN /\ aId' = aId /\ aGot' = Append(aGot, <<aId, AdcCollected + 1>>)
        /\ <<aId, AdcCollected + 1>> \in AdcResult
        /\ AdcCollected' = AdcCollected + 1 /\ AdcCollected' <= aN
    BY <1>5, AdcCollectFacts
  <2>2. aGot' \in Seq(AdcResult)
    BY <1>1, <2>1
  <2>3. \A i \in 1 .. AdcCollected' : aGot'[i] = <<aId, i>>
    BY <1>1, <2>1 DEF AdcCollected
  <2> QED
    BY <2>1, <2>2, <2>3 DEF AdcGotInv
<1>6. CASE UNCHANGED <<aN, aId, aGot>>
  <2>1. AdcCollected' = AdcCollected
    BY <1>6 DEF AdcCollected
  <2> QED
    BY <1>1, <1>6, <2>1 DEF AdcGotInv
<1>7. Adc!InCall => Adc!ReadSingle \/ Adc!ReadSequence \/ UNCHANGED <<aN, aId,
                                                                      aGot>>
  BY DEF Adc!InCall, Adc!Scrub, Adc!DrainMems, Adc!Arm, Adc!Go, Adc!WaitDone,
     Adc!Poll, Adc!DisarmRead, Adc!DisarmWrite, Adc!Recheck, Adc!ClearDone,
     Adc!Stop, Adc!Halt, Adc!Step
<1>8. Adc!Convert \/ UNCHANGED Adc!vars => UNCHANGED <<aN, aId, aGot>>
  BY DEF Adc!Convert, Adc!cpu, Adc!vars
<1> QED
  BY <1>2, <1>3, <1>4, <1>5, <1>6, <1>7, <1>8 DEF Adc!Next, Adc!Hardware
-----------------------------------------------------------------------------
\* What the call before has left for the next one.
LEMMA AdcProgramFacts ==
    ASSUME AdcInv, NEW k, NEW len, NEW next, Adc!Program(k, len, next)
    PROVE  /\ ~aBusy /\ aIfg \subseteq {1} /\ (k = "started" => aIfg = {})
           /\ ~aCh.en /\ ~aCh.edge
<1>1. aPc = "idle" /\ Adc!Settled(k)
  BY DEF Adc!Program
<1>2. ~aCh.en /\ ~aCh.edge
  BY <1>1 DEF AdcInv, AdcChannelInv, AdcWorking
<1>3. CASE aKind # "started"
  BY <1>1, <1>2, <1>3 DEF AdcInv, AdcEndInv, AdcResting
<1>4. CASE aKind = "started"
  <2>1. AdcRunning /\ ~aBusy /\ (k = "started" => aGot # <<>>)
    BY <1>1, <1>4 DEF AdcRunning, AdcBefore, AdcResting, Adc!Settled
  <2>2. aN = 1 /\ aCount = aN /\ aIfg = AdcCollected + 1 .. aCount
    BY <1>4, <2>1 DEF AdcInv, AdcNumberInv, AdcRunInv
  <2>3. AdcCollected \in Nat /\ (aGot # <<>> => AdcCollected > 0)
    BY EmptySeq DEF AdcInv, AdcGotInv, AdcCollected
  <2> QED
    BY <1>2, <2>1, <2>2, <2>3
<1> QED
  BY <1>3, <1>4

LEMMA AdcBeforeStep == AdcInv /\ [Adc!Next]_(Adc!vars) => AdcBeforeInv'
<1> SUFFICES ASSUME AdcInv, [Adc!Next]_(Adc!vars), AdcBefore' PROVE AdcBeforeInv'
  BY DEF AdcBeforeInv
<1>1. ASSUME NEW k, NEW len, NEW next, Adc!Program(k, len, next),
             next \in {"go", "scrub", "drain"},
             next = "go" => k \in {"single", "started"},
             next = "drain" => k = "sequence"
      PROVE  AdcBeforeInv'
  <2>1. ~aBusy /\ aIfg \subseteq {1} /\ (k = "started" => aIfg = {})
    BY <1>1, AdcProgramFacts
  <2>2. /\ aPc' = next /\ aKind' = k /\ aGot' = <<>> /\ aSlot' = 1 /\ aTorn' = FALSE
        /\ aBusy' = aBusy /\ aIfg' = aIfg
    BY <1>1 DEF Adc!Program
  <2> QED
    BY <1>1, <2>1, <2>2 DEF AdcBeforeInv, AdcSequenced, AdcByDma
<1>2. CASE Adc!Call
  BY <1>1, <1>2 DEF Adc!Call, Adc!Single, Adc!Repeated, Adc!Sequence,
     Adc!SequenceDma
<1>3. CASE Adc!Scrub
  <2>1. /\ aPc = "scrub" /\ aPc' = (IF aKind = "repeated" THEN "arm" ELSE "drain")
        /\ UNCHANGED <<aKind, aGot, aBusy, aSlot, aTorn>>
        /\ aIfg' \subseteq aIfg /\ ~aLatch'
    BY <1>3 DEF Adc!Scrub, Adc!Step, Adc!rewrite
  <2>2. /\ ~aBusy /\ ~aTorn /\ aSlot = 1 /\ aGot = <<>> /\ aIfg \subseteq {1}
        /\ aKind = "started" => aIfg = {}
    BY <2>1 DEF AdcInv, AdcBeforeInv, AdcBefore
  <2>3. aPc' = "arm" => aKind = "repeated"
    BY <2>1
  <2>4. aPc' # "go"
    BY <2>1
  <2> QED
    BY <2>1, <2>2, <2>3, <2>4 DEF AdcBeforeInv, AdcSequenced
<1>4. CASE Adc!DrainMems
  <2>1. /\ aPc = "drain" /\ aPc' = (IF aKind = "sequence" THEN "go" ELSE "arm")
        /\ UNCHANGED <<aKind, aGot, aBusy, aSlot, aTorn, aLatch>>
        /\ aIfg' = aIfg \ (1 .. aN)
    BY <1>4 DEF Adc!DrainMems, Adc!Step, Adc!rewrite, Adc!dma
  <2>2. /\ ~aBusy /\ ~aTorn /\ aSlot = 1 /\ aGot = <<>> /\ aIfg \subseteq {1}
        /\ aN >= 1 /\ aN \in Nat
    BY <2>1, AdcLenAssumption DEF AdcInv, AdcBeforeInv, AdcBefore, AdcNumberInv,
       Adc!Slot
  <2>3. aIfg' = {}
    BY <2>1, <2>2
  <2>4. AdcByDma => ~aLatch
    BY <2>1 DEF AdcInv, AdcBeforeInv, AdcBefore
  <2> QED
    BY <2>1, <2>2, <2>3, <2>4 DEF AdcBeforeInv, AdcByDma
<1>5. CASE Adc!Arm
  <2>1. /\ aPc = "arm" /\ aPc' = "go"
        /\ UNCHANGED <<aKind, aGot, aBusy, aSlot, aTorn, aLatch, aIfg>>
    BY <1>5 DEF Adc!Arm, Adc!Step, Adc!rewrite, Adc!converter
  <2> QED
    BY <2>1 DEF AdcInv, AdcBeforeInv, AdcBefore, AdcSequenced, AdcByDma
<1>6. CASE UNCHANGED <<aPc, aKind, aGot, aBusy, aSlot, aTorn, aLatch, aIfg>>
  BY <1>6 DEF AdcInv, AdcBeforeInv, AdcBefore, AdcSequenced, AdcByDma
<1>7. ~(Adc!Convert \/ Adc!Collect)
  <2>1. Adc!Convert => AdcRunning /\ aPc' = aPc
    BY AdcConvertFacts
  <2>2. Adc!Collect => AdcRunning /\ aPc' = aPc
    BY AdcCollectFacts
  <2> QED
    BY <2>1, <2>2 DEF AdcRunning, AdcBefore
<1>8. ~(Adc!InCall /\ ~Adc!Scrub /\ ~Adc!DrainMems /\ ~Adc!Arm)
  BY DEF AdcBefore, AdcInv, AdcControlInv, Adc!InCall, Adc!Go, Adc!ReadSingle,
     Adc!ReadSequence, Adc!WaitDone, Adc!Poll, Adc!DisarmRead, Adc!DisarmWrite,
     Adc!Recheck, Adc!ClearDone, Adc!Stop, Adc!Halt, Adc!Step
<1>9. ~Adc!ReadStarted
  BY DEF AdcBefore, Adc!ReadStarted, Adc!Step
<1> QED
  BY <1>2, <1>3, <1>4, <1>5, <1>6, <1>7, <1>8, <1>9 DEF Adc!Next, Adc!Hardware,
     Adc!InCall, Adc!vars
-----------------------------------------------------------------------------
LEMMA AdcRunStep == AdcInv /\ [Adc!Next]_(Adc!vars) => AdcRunInv'
<1> SUFFICES ASSUME AdcInv, [Adc!Next]_(Adc!vars), AdcRunning' PROVE AdcRunInv'
  BY DEF AdcRunInv
<1> USE AdcLenAssumption
<1>0. /\ aN \in 1 .. AdcLen /\ aId \in Nat /\ AdcCollected \in Nat /\ aCount \in Nat
      /\ AdcCollected <= aN
  BY DEF AdcInv, AdcNumberInv, Adc!Slot, AdcGotInv, AdcCollected
<1>1. CASE Adc!Convert
  <2>1. /\ UNCHANGED <<aPc, aKind, aN, aId, aGot, aOwner>> /\ aOwner = aId
        /\ aMem' = [aMem EXCEPT ![aSlot] = <<aId, aCount + 1>>]
        /\ aSlot \in Adc!Slot
        /\ aIfg' = aIfg \cup {aSlot} /\ AdcRunning /\ aBusy
        /\ AdcCollected' = AdcCollected
    BY <1>1, AdcConvertFacts DEF AdcInv, AdcRunInv, AdcCollected
  <2>2. ASSUME aKind = "repeated"
        PROVE  /\ aSlot' = 1 /\ aIfg' \subseteq {1}
               /\ (aCount' \in 1 .. AdcLen => aMem'[1] = <<aId, aCount'>>)
    <3>1. aSlot = 1 /\ aSlot' = 1 /\ aCount' = IF aCount < AdcLen + 1 THEN aCount + 1 ELSE aCount
      BY <1>1, <2>2, AdcConvertFacts
    <3>2. aIfg \subseteq {1} /\ aMem'[1] = <<aId, aCount + 1>>
      BY <2>1, <2>2, <3>1 DEF AdcInv, AdcRunInv, AdcStoreInv
    <3> QED
      BY <1>0, <2>1, <3>1, <3>2
  <2>3. ASSUME aKind # "repeated"
        PROVE  /\ AdcCollected' <= aCount' /\ aCount' <= aN
               /\ aBusy' => aSlot' = aCount' + 1 /\ aCount' < aN
               /\ ~aBusy' => aCount' = aN
               /\ \A x \in 1 .. aCount' : aMem'[x] = <<aId, x>>
               /\ aKind # "single" => aIfg' = AdcCollected' + 1 .. aCount'
               /\ aKind = "single" => aIfg' \subseteq {1}
    <3>1. /\ aSlot = aCount + 1 /\ aCount < aN /\ aCount' = aCount + 1
          /\ aBusy' => aSlot' = aCount' + 1 /\ aCount' < aN
          /\ ~aBusy' => aCount' = aN
      BY <1>1, <2>3, AdcConvertFacts
    <3>2. /\ AdcCollected <= aCount
          /\ \A x \in 1 .. aCount : aMem[x] = <<aId, x>>
          /\ aKind # "single" => aIfg = AdcCollected + 1 .. aCount
          /\ aKind = "single" => aIfg \subseteq {1}
      BY <2>1, <2>3 DEF AdcInv, AdcRunInv
    <3>3. \A x \in 1 .. aCount' : aMem'[x] = <<aId, x>>
      <4> TAKE x \in 1 .. aCount'
      <4>1. x \in Adc!Slot
        BY <1>0, <3>1 DEF Adc!Slot
      <4>2. aMem'[x] = IF x = aSlot THEN <<aId, aCount + 1>> ELSE aMem[x]
        BY <2>1, <4>1 DEF AdcInv, AdcStoreInv
      <4> QED
        BY <1>0, <3>1, <3>2, <4>2
    <3>4. aKind # "single" => aIfg' = AdcCollected' + 1 .. aCount'
      BY <1>0, <2>1, <3>1, <3>2
    <3>5. aKind = "single" => aIfg' \subseteq {1}
      <4>1. aKind = "single" => aN = 1
        BY DEF AdcInv, AdcNumberInv
      <4> QED
        BY <1>0, <2>1, <3>1, <3>2, <4>1
    <3> QED
      BY <1>0, <2>1, <3>1, <3>2, <3>3, <3>4, <3>5
  <2>4. aPc' \in {"wait", "last_flag"} => aGot' = <<>>
    BY <2>1 DEF AdcInv, AdcRunInv
  <2> QED
    BY <2>1, <2>2, <2>3, <2>4 DEF AdcRunInv
<1>2. CASE Adc!Collect
  <2>1. /\ AdcWorking /\ AdcRunning
        /\ UNCHANGED <<aPc, aKind, aN, aId, aOwner, aBusy, aSlot, aCount, aMem>>
        /\ AdcCollected' = AdcCollected + 1 /\ AdcCollected' <= aN
        /\ aCount = AdcCollected'
        /\ aKind = "repeated" => aIfg' = aIfg \ {1}
        /\ aKind # "repeated" => aIfg' = aIfg \ {AdcCollected'}
    BY <1>2, AdcCollectFacts
  <2>2. aKind \in {"repeated", "sequence_dma"} /\ aPc \notin {"wait", "last_flag"}
    BY <2>1 DEF AdcWorking, AdcByDma
  <2>3. CASE aKind = "repeated"
    BY <2>1, <2>2, <2>3 DEF AdcInv, AdcRunInv
  <2>4. CASE aKind = "sequence_dma"
    <3>1. aIfg' = AdcCollected' + 1 .. aCount
      <4>1. aIfg = AdcCollected + 1 .. aCount /\ aIfg' = aIfg \ {AdcCollected + 1}
        BY <2>1, <2>4 DEF AdcInv, AdcRunInv
      <4> QED
        BY <1>0, <2>1, <4>1
    <3> QED
      BY <1>0, <2>1, <2>2, <2>4, <3>1 DEF AdcInv, AdcRunInv
  <2> QED
    BY <2>2, <2>3, <2>4
<1>3. CASE Adc!Go
  <2>1. /\ aPc = "go" /\ ~aBusy /\ aBusy' /\ aOwner' = aId /\ aCount' = 0
        /\ UNCHANGED <<aKind, aN, aId, aGot, aSlot, aMem, aIfg>>
    BY <1>3 DEF Adc!Go, Adc!Step, AdcInv, AdcBeforeInv, AdcBefore
  <2>2. /\ aSlot = 1 /\ aGot = <<>> /\ aIfg \subseteq {1} /\ AdcCollected = 0
        /\ aKind = "started" => aIfg = {}
        /\ AdcSequenced => aIfg = {}
    BY <2>1 DEF AdcInv, AdcBeforeInv, AdcBefore, AdcCollected
  <2>3. AdcCollected' = 0
    BY <2>1, <2>2 DEF AdcCollected
  <2>4. aKind \notin {"repeated", "single"} => aIfg = {}
    BY <2>2 DEF AdcSequenced, AdcInv, AdcControlInv
  <2> QED
    BY <1>0, <2>1, <2>2, <2>3, <2>4 DEF AdcRunInv
<1>4. CASE Adc!ReadStarted
  <2>1. /\ ~aBusy /\ aN = 1 /\ aGot' = <<<<aId, 1>>>> /\ aIfg \subseteq {1}
    BY <1>4, AdcReadFacts
  <2>2. /\ aPc = "idle" /\ aPc' = "idle" /\ aKind = "started" /\ aIfg' = aIfg \ {1}
        /\ UNCHANGED <<aKind, aN, aId, aOwner, aBusy, aSlot, aCount, aMem>>
    BY <1>4 DEF Adc!ReadStarted, Adc!Step
  <2>3. AdcRunning /\ AdcCollected' = 1
    BY <2>1, <2>2, AdcOneResult DEF AdcRunning, AdcBefore, AdcResting, AdcCollected
  <2>4. aCount = 1 /\ aOwner = aId /\ \A x \in 1 .. aCount : aMem[x] = <<aId, x>>
    BY <2>1, <2>2, <2>3 DEF AdcInv, AdcRunInv
  <2>5. aIfg' = {} /\ AdcCollected' + 1 .. aCount = {}
    BY <2>1, <2>2, <2>3, <2>4
  <2> QED
    BY <2>1, <2>2, <2>3, <2>4, <2>5 DEF AdcRunInv
<1>5. CASE Adc!ReadSequence
  <2>1. /\ aPc = "last_flag" /\ aPc' = "stop" /\ aIfg' = aIfg \ (1 .. aN)
        /\ UNCHANGED <<aKind, aN, aId, aOwner, aBusy, aSlot, aCount, aMem>>
    BY <1>5 DEF Adc!ReadSequence, Adc!Step
  <2>2. aKind = "sequence" /\ AdcRunning
    BY <2>1 DEF AdcInv, AdcControlInv, AdcRunning, AdcBefore, AdcResting
  <2>3. ~aBusy /\ aCount = aN /\ AdcCollected = 0 /\ AdcCollected' = aN
    BY <1>5, AdcReadFacts DEF AdcCollected
  <2>4. aOwner = aId /\ aIfg = AdcCollected + 1 .. aCount /\ \A x \in 1 .. aCount : aMem[x] = <<aId, x>>
    BY <2>2 DEF AdcInv, AdcRunInv
  <2>5. aIfg' = AdcCollected' + 1 .. aCount
    BY <1>0, <2>1, <2>3, <2>4
  <2> QED
    BY <1>0, <2>1, <2>2, <2>3, <2>4, <2>5 DEF AdcRunInv
<1>6. ~Adc!Call
  BY DEF Adc!Call, Adc!Single, Adc!Repeated, Adc!Sequence, Adc!SequenceDma,
     Adc!Program, AdcRunning, AdcBefore, AdcResting
<1>7. ~(Adc!Scrub \/ Adc!DrainMems \/ Adc!Arm)
  BY DEF Adc!Scrub, Adc!DrainMems, Adc!Arm, Adc!Step, AdcRunning, AdcBefore
<1>8. ~(Adc!ReadSingle \/ Adc!Halt)
  BY DEF Adc!ReadSingle, Adc!Halt, Adc!Step, AdcRunning, AdcResting, AdcInv,
     AdcControlInv
<1>9. CASE /\ UNCHANGED <<aKind, aN, aId, aGot, aOwner, aBusy, aSlot, aCount, aMem,
                          aIfg>>
           /\ AdcRunning /\ (aPc' = aPc \/ aPc' \notin {"wait", "last_flag"})
  <2>1. AdcCollected' = AdcCollected
    BY <1>9 DEF AdcCollected
  <2> QED
    BY <1>9, <2>1 DEF AdcInv, AdcRunInv
<1>10. ASSUME Adc!InCall \/ UNCHANGED Adc!vars,
              ~(Adc!Scrub \/ Adc!DrainMems \/ Adc!Arm \/ Adc!Go \/ Adc!ReadSingle \/ Adc!ReadSequence \/ Adc!Halt)
       PROVE  /\ UNCHANGED <<aKind, aN, aId, aGot, aOwner, aBusy, aSlot, aCount,
                             aMem, aIfg>>
              /\ AdcRunning /\ (aPc' = aPc \/ aPc' \notin {"wait", "last_flag"})
  <2>1. CASE UNCHANGED Adc!vars
    BY <2>1 DEF Adc!vars, AdcRunning, AdcBefore, AdcResting
  <2>2. CASE Adc!WaitDone \/ Adc!Poll \/ Adc!DisarmRead \/ Adc!DisarmWrite \/ Adc!Recheck \/ Adc!ClearDone \/ Adc!Stop
    BY <2>2 DEF Adc!WaitDone, Adc!Poll, Adc!DisarmRead, Adc!DisarmWrite,
       Adc!Recheck, Adc!ClearDone, Adc!Stop, Adc!Step, Adc!converter, AdcRunning,
       AdcBefore, AdcResting
  <2> QED
    BY <1>10, <2>1, <2>2 DEF Adc!InCall
<1> QED
  BY <1>1, <1>2, <1>3, <1>4, <1>5, <1>6, <1>7, <1>8, <1>9, <1>10 DEF Adc!Next,
     Adc!Hardware, Adc!InCall
-----------------------------------------------------------------------------
LEMMA AdcChannelStep == AdcInv /\ [Adc!Next]_(Adc!vars) => AdcChannelInv'
<1> SUFFICES ASSUME AdcInv, [Adc!Next]_(Adc!vars) PROVE AdcChannelInv'
  OBVIOUS
<1> USE AdcLenAssumption
<1>0. /\ aN \in 1 .. AdcLen /\ AdcCollected \in Nat /\ aCount \in Nat
      /\ AdcCollected <= aN /\ aCh \in Adc!ChannelType(AdcLen) /\ aSeen \in BOOLEAN
  BY DEF AdcInv, AdcNumberInv, Adc!Slot, AdcGotInv, AdcCollected, AdcStoreInv,
     AdcFlagInv
<1>1. CASE Adc!Call
  <2>1. ASSUME NEW k, NEW len, NEW next, Adc!Program(k, len, next),
               next \in {"go", "scrub", "drain"},
               next = "go" => k \in {"single", "started"}
        PROVE  AdcChannelInv'
    <3>1. ~aCh.en /\ ~aCh.edge
      BY <2>1, AdcProgramFacts
    <3>2. aCh' = aCh /\ aPc' = next /\ aKind' = k
      BY <2>1 DEF Adc!Program, Adc!dma
    <3> QED
      BY <2>1, <3>1, <3>2 DEF AdcChannelInv, AdcWorking, AdcByDma
  <2> QED
    BY <1>1, <2>1 DEF Adc!Call, Adc!Single, Adc!Repeated, Adc!Sequence,
       Adc!SequenceDma
<1>2. CASE Adc!Scrub
  <2>1. aCh' = Adc!IdleChannel /\ aPc' \in {"arm", "drain"}
    BY <1>2 DEF Adc!Scrub, Adc!Step
  <2> QED
    BY <2>1, AdcOtherFields DEF AdcChannelInv, AdcWorking
<1>3. CASE Adc!Arm
  <2>1. /\ aPc = "arm" /\ aPc' = "go" /\ aCh' = Adc!Armed(aN)
        /\ UNCHANGED <<aKind, aN, aGot, aLatch>>
    BY <1>3 DEF Adc!Arm, Adc!Step, Adc!converter
  <2>2. aGot = <<>> /\ AdcByDma /\ ~aLatch
    BY <2>1 DEF AdcInv, AdcBeforeInv, AdcBefore, AdcControlInv, AdcByDma
  <2>3. /\ aCh'.en /\ ~aCh'.edge /\ ~aCh'.done /\ aCh'.size = aN /\ aCh'.left = aN
    BY <1>0, <2>1, AdcArmedFields
  <2>4. AdcCollected' = 0 /\ aN - 0 = aN /\ aN > 0 /\ ~AdcRunning'
    BY <1>0, <2>1, <2>2 DEF AdcCollected, AdcRunning, AdcBefore
  <2> QED
    BY <1>0, <2>1, <2>2, <2>3, <2>4 DEF AdcChannelInv, AdcWorking, AdcByDma
<1>4. CASE Adc!Go
  <2>1. /\ aPc = "go" /\ UNCHANGED <<aKind, aN, aGot, aLatch, aCh>> /\ aCount' = 0
        /\ aPc' \in {"wait", "idle", "last_flag", "wait_done", "poll"}
        /\ aPc' \in {"wait_done", "poll"} <=> AdcByDma
    BY <1>4 DEF Adc!Go, Adc!Step, Adc!dma, AdcInv, AdcBeforeInv, AdcBefore,
       AdcControlInv, AdcByDma
  <2>2. AdcCollected = 0 /\ AdcCollected' = AdcCollected /\ (AdcByDma => ~aLatch)
    BY <2>1 DEF AdcInv, AdcBeforeInv, AdcBefore, AdcCollected
  <2>3. AdcWorking <=> AdcByDma
    BY <2>1 DEF AdcWorking
  <2>4. AdcWorking' <=> AdcByDma
    BY <2>1 DEF AdcWorking, AdcByDma
  <2> QED
    BY <1>0, <2>1, <2>2, <2>3, <2>4 DEF AdcInv, AdcChannelInv
<1>5. CASE Adc!DisarmWrite
  <2>1. aPc' = "recheck" /\ aCh' = [Adc!Disarmed(aCh) EXCEPT !.done = aSeen]
    BY <1>5 DEF Adc!DisarmWrite, Adc!Step
  <2> QED
    BY <1>0, <2>1, AdcOtherFields DEF AdcChannelInv, AdcWorking
<1>6. CASE Adc!WaitDone \/ Adc!ClearDone
  <2>1. aPc' = "stop" /\ aCh' = Adc!DoneCleared(aCh) /\ (Adc!WaitDone => aPc = "wait_done" /\ aCh.done)
        /\ (Adc!ClearDone => aPc = "clear")
    BY <1>6 DEF Adc!WaitDone, Adc!ClearDone, Adc!Step, Adc!IsDone
  <2>2. ~aCh.en /\ ~aCh.edge
    <3>1. CASE Adc!WaitDone
      <4>1. AdcWorking
        BY <2>1, <3>1 DEF AdcInv, AdcControlInv, AdcWorking, AdcByDma
      <4> QED
        BY <2>1, <3>1, <4>1 DEF AdcInv, AdcChannelInv
    <3>2. CASE Adc!ClearDone
      BY <2>1, <3>2 DEF AdcInv, AdcChannelInv, AdcWorking
    <3> QED
      BY <1>6, <3>1, <3>2
  <2>3. aCh'.en = aCh.en /\ aCh'.edge = aCh.edge
    BY <1>0, <2>1, AdcChannelFields
  <2> QED
    BY <2>1, <2>2, <2>3 DEF AdcChannelInv, AdcWorking
<1>7. CASE Adc!Poll
  <2>1. /\ UNCHANGED <<aKind, aN, aGot, aLatch, aCh, aCount>>
        /\ aPc = "poll" /\ aPc' = (IF aCh.done THEN "clear" ELSE "give_up")
    BY <1>7 DEF Adc!Poll, Adc!Step, Adc!IsDone, Adc!dma, Adc!converter
  <2>2. AdcWorking /\ AdcCollected' = AdcCollected /\ AdcRunning
    BY <2>1 DEF AdcInv, AdcControlInv, AdcWorking, AdcByDma, AdcCollected,
       AdcRunning, AdcBefore, AdcResting
  <2>3. CASE aCh.done
    BY <1>0, <2>1, <2>2, <2>3, AdcChannelFields DEF AdcInv, AdcChannelInv,
       AdcWorking
  <2>4. CASE ~aCh.done
    BY <1>0, <2>1, <2>2, <2>4, AdcChannelFields DEF AdcInv, AdcChannelInv,
       AdcWorking, AdcByDma
  <2> QED
    BY <2>3, <2>4
<1>8. CASE Adc!DisarmRead
  <2>1. /\ UNCHANGED <<aKind, aN, aGot, aLatch, aCh, aCount>>
        /\ aPc = "give_up" /\ aPc' = "disarm"
    BY <1>8 DEF Adc!DisarmRead, Adc!Step, Adc!dma, Adc!converter
  <2>2. AdcWorking /\ AdcWorking' /\ AdcCollected' = AdcCollected /\ AdcRunning
    BY <2>1 DEF AdcInv, AdcControlInv, AdcWorking, AdcByDma, AdcCollected,
       AdcRunning, AdcBefore, AdcResting
  <2> QED
    BY <2>1, <2>2 DEF AdcInv, AdcChannelInv
<1>9. CASE Adc!Convert
  <2>1. /\ UNCHANGED <<aPc, aKind, aN, aGot>> /\ AdcRunning /\ ~aCh.edge /\ aLatch'
        /\ aCh'.edge <=> aCh.en /\ aCh.left > 0 /\ ~aLatch
        /\ aCh'.en = aCh.en /\ aCh'.done = aCh.done /\ aCh'.size = aCh.size
        /\ aCh'.left = aCh.left
        /\ aKind # "repeated" => aCount' = aCount + 1
        /\ aKind = "repeated" =>
             aCount' = IF aCount < AdcLen + 1 THEN aCount + 1 ELSE aCount
    BY <1>9, AdcConvertFacts
  <2>2. AdcCollected' = AdcCollected /\ (AdcWorking' <=> AdcWorking)
    BY <2>1 DEF AdcCollected, AdcWorking, AdcByDma
  <2>3. CASE ~AdcWorking
    BY <2>1, <2>2, <2>3 DEF AdcInv, AdcChannelInv
  <2>4. CASE AdcWorking /\ ~aCh.en
    BY <2>1, <2>2, <2>4 DEF AdcInv, AdcChannelInv
  <2>5. CASE AdcWorking /\ aCh.en
    <3>1. /\ aCh.size = aN /\ ~aCh.done /\ aCh.left = aN - AdcCollected
          /\ aCh.left > 0
          /\ ~aLatch /\ aCount = AdcCollected
      BY <1>0, <2>1, <2>5 DEF AdcInv, AdcChannelInv
    <3>2. aCh'.edge /\ aCount' = AdcCollected' + 1
      BY <1>0, <2>1, <2>2, <2>5, <3>1
    <3> QED
      BY <2>1, <2>2, <2>5, <3>1, <3>2 DEF AdcChannelInv
  <2> QED
    BY <2>3, <2>4, <2>5
<1>10. CASE Adc!Collect
  <2>1. /\ AdcWorking /\ ~aLatch' /\ UNCHANGED <<aPc, aKind, aN, aCount>>
        /\ AdcCollected' \in Nat /\ AdcCollected' <= aN /\ aCount = AdcCollected'
        /\ ~aCh'.edge /\ aCh'.size = aN
        /\ IF AdcCollected' = aN THEN ~aCh'.en /\ aCh'.done
           ELSE aCh'.en /\ ~aCh'.done /\ aCh'.left = aN - AdcCollected' /\ aCh'.left > 0
    BY <1>0, <1>10, AdcCollectFacts
  <2>2. AdcWorking'
    BY <2>1 DEF AdcWorking, AdcByDma
  <2>3. CASE AdcCollected' = aN
    <3>1. ~aCh'.en /\ aCh'.done
      BY <2>1, <2>3
    <3> QED
      BY <2>1, <2>2, <2>3, <3>1 DEF AdcChannelInv
  <2>4. CASE AdcCollected' # aN
    <3>1. aCh'.en /\ ~aCh'.done /\ aCh'.left = aN - AdcCollected' /\ aCh'.left > 0
      BY <2>1, <2>4
    <3>2. aCount' = AdcCollected'
      BY <2>1
    <3> QED
      BY <2>1, <2>2, <2>4, <3>1, <3>2 DEF AdcChannelInv
  <2> QED
    BY <2>3, <2>4
<1>11. CASE /\ UNCHANGED aCh
            /\ ~AdcWorking
            /\ aPc' \notin {"go", "wait_done", "poll", "give_up", "disarm"}
  BY <1>11 DEF AdcInv, AdcChannelInv, AdcWorking
<1>12. CASE UNCHANGED <<aPc, aKind, aN, aGot, aLatch, aCh, aCount>>
  BY <1>12 DEF AdcInv, AdcChannelInv, AdcWorking, AdcByDma, AdcCollected,
     AdcRunning, AdcBefore, AdcResting
<1>13. Adc!ReadSingle \/ Adc!ReadStarted \/ Adc!ReadSequence \/ Adc!Recheck \/ Adc!Stop \/ Adc!Halt =>
         /\ UNCHANGED aCh
         /\ ~AdcWorking
         /\ aPc' \notin {"go", "wait_done", "poll", "give_up", "disarm"}
  BY DEF Adc!ReadSingle, Adc!ReadStarted, Adc!ReadSequence, Adc!Recheck, Adc!Stop,
     Adc!Halt, Adc!Step, AdcWorking, Adc!dma
<1>14. Adc!DrainMems =>
         UNCHANGED aCh /\ ~AdcWorking /\ aPc' \in {"go", "arm"} /\ (aPc' = "go" => ~AdcByDma')
  BY DEF Adc!DrainMems, Adc!Step, AdcWorking, Adc!dma, AdcByDma
<1>15. CASE Adc!DrainMems
  BY <1>14, <1>15 DEF AdcInv, AdcChannelInv, AdcWorking
<1>16. UNCHANGED Adc!vars => UNCHANGED <<aPc, aKind, aN, aGot, aLatch, aCh, aCount>>
  BY DEF Adc!vars
<1> QED
  BY <1>1, <1>2, <1>3, <1>4, <1>5, <1>6, <1>7, <1>8, <1>9, <1>10, <1>11, <1>12,
     <1>13,
     <1>15, <1>16 DEF Adc!Next, Adc!Hardware, Adc!InCall
-----------------------------------------------------------------------------
LEMMA AdcEndStep == AdcInv /\ [Adc!Next]_(Adc!vars) => AdcEndInv'
<1> SUFFICES ASSUME AdcInv, [Adc!Next]_(Adc!vars) PROVE AdcEndInv'
  OBVIOUS
<1> USE AdcLenAssumption
<1>0. /\ aN \in 1 .. AdcLen /\ AdcCollected \in Nat /\ aCount \in Nat /\ aId \in Nat
      /\ AdcCollected <= aN /\ aCh \in Adc!ChannelType(AdcLen) /\ aSeen \in BOOLEAN
      /\ aCh.done \in BOOLEAN /\ aTorn \in BOOLEAN
  <2>1. /\ aN \in 1 .. AdcLen /\ AdcCollected \in Nat /\ aCount \in Nat
        /\ aId \in Nat
        /\ AdcCollected <= aN
    BY DEF AdcInv, AdcNumberInv, Adc!Slot, AdcGotInv, AdcCollected
  <2>2. aCh \in Adc!ChannelType(AdcLen) /\ aSeen \in BOOLEAN /\ aTorn \in BOOLEAN
    BY DEF AdcInv, AdcStoreInv, AdcFlagInv
  <2> QED
    BY <2>1, <2>2, AdcChannelFields
<1>1. CASE Adc!Call
  <2>1. ASSUME NEW k, NEW len, NEW next, Adc!Program(k, len, next), next \in {"go",
               "scrub", "drain"}
        PROVE  AdcEndInv'
    <3>1. aPc' = next
      BY <2>1 DEF Adc!Program
    <3> QED
      BY <2>1, <3>1 DEF AdcEndInv, AdcEnding, AdcResting
  <2> QED
    BY <1>1, <2>1 DEF Adc!Call, Adc!Single, Adc!Repeated, Adc!Sequence,
       Adc!SequenceDma
<1>2. CASE Adc!Scrub \/ Adc!DrainMems \/ Adc!Arm
  <2>1. aPc' \in {"arm", "drain", "go"}
    BY <1>2 DEF Adc!Scrub, Adc!DrainMems, Adc!Arm, Adc!Step
  <2> QED
    BY <2>1 DEF AdcEndInv, AdcEnding, AdcResting
<1>3. CASE Adc!Go
  <2>1. /\ aPc = "go" /\ aPc' \in {"wait", "idle", "last_flag", "wait_done", "poll"}
        /\ aPc' = "idle" <=> aKind = "started"
        /\ UNCHANGED <<aTorn, aKind>>
    BY <1>3 DEF Adc!Go, Adc!Step, Adc!rewrite, AdcInv, AdcControlInv
  <2>2. ~aTorn
    BY <2>1 DEF AdcInv, AdcBeforeInv, AdcBefore
  <2> QED
    BY <2>1, <2>2 DEF AdcEndInv, AdcEnding, AdcResting
<1>4. CASE Adc!ReadSingle
  <2>1. /\ aN = 1 /\ aIfg \subseteq {1} /\ aGot' = <<<<aId, 1>>>>
    BY <1>4, AdcReadFacts
  <2>2. /\ aPc = "wait" /\ aPc' = "idle" /\ ~aBusy' /\ aIfg' = aIfg \ {1}
        /\ aN' = aN
        /\ UNCHANGED <<aAnswer, aKind>>
    BY <1>4 DEF Adc!ReadSingle, Adc!Step
  <2>3. aAnswer = "ok"
    BY <2>2 DEF AdcInv, AdcControlInv
  <2>4. AdcCollected' = aN' /\ aIfg' = {}
    BY <2>1, <2>2, AdcOneResult DEF AdcCollected
  <2> QED
    BY <2>2, <2>3, <2>4 DEF AdcEndInv
<1>5. CASE Adc!ReadStarted
  <2>1. aPc' = "idle" /\ aKind' = "started"
    BY <1>5 DEF Adc!ReadStarted, Adc!Step
  <2> QED
    BY <2>1 DEF AdcEndInv, AdcEnding, AdcResting
<1>6. CASE Adc!ReadSequence
  <2>1. /\ aPc = "last_flag" /\ aPc' = "stop" /\ UNCHANGED <<aAnswer, aN>>
        /\ AdcCollected' = aN
    BY <1>6, AdcReadFacts DEF Adc!ReadSequence, Adc!Step, AdcCollected
  <2>2. aAnswer = "ok"
    BY <2>1 DEF AdcInv, AdcControlInv
  <2> QED
    BY <2>1, <2>2 DEF AdcEndInv, AdcResting
<1>7. CASE Adc!WaitDone
  <2>1. /\ aPc = "wait_done" /\ aCh.done /\ aPc' = "stop"
        /\ UNCHANGED <<aAnswer, aN, aGot, aKind>>
    BY <1>7 DEF Adc!WaitDone, Adc!Step, Adc!IsDone
  <2>2. AdcWorking /\ aAnswer = "ok"
    BY <2>1 DEF AdcInv, AdcControlInv, AdcWorking, AdcByDma
  <2>3. AdcCollected = aN /\ AdcCollected' = AdcCollected
    BY <2>1, <2>2 DEF AdcInv, AdcChannelInv, AdcCollected
  <2> QED
    BY <2>1, <2>2, <2>3 DEF AdcEndInv, AdcResting
<1>8. CASE Adc!Poll
  <2>1. /\ aPc = "poll" /\ aPc' = (IF aCh.done THEN "clear" ELSE "give_up")
        /\ UNCHANGED <<aN, aGot, aTorn, aCh>>
    BY <1>8 DEF Adc!Poll, Adc!Step, Adc!IsDone, Adc!rewrite, Adc!dma
  <2>2. AdcWorking /\ ~aTorn
    BY <2>1 DEF AdcInv, AdcControlInv, AdcEndInv, AdcWorking, AdcByDma
  <2>3. aCh.done => AdcCollected = aN
    BY <2>2 DEF AdcInv, AdcChannelInv
  <2>4. AdcCollected' = AdcCollected
    BY <2>1 DEF AdcCollected
  <2>5. aPc' \in {"clear", "give_up"} /\ (aPc' = "clear" => aCh.done)
    BY <2>1
  <2> QED
    BY <2>1, <2>2, <2>3, <2>4, <2>5 DEF AdcEndInv, AdcEnding, AdcResting
<1>9. CASE Adc!DisarmRead
  <2>1. /\ aPc = "give_up" /\ aPc' = "disarm" /\ aSeen' = aCh.done
        /\ UNCHANGED <<aN, aGot, aTorn, aCh>>
    BY <1>9 DEF Adc!DisarmRead, Adc!Step, Adc!IsDone, Adc!dma
  <2>2. AdcWorking /\ ~aTorn
    BY <2>1 DEF AdcInv, AdcControlInv, AdcEndInv, AdcWorking, AdcByDma
  <2>3. /\ aCh.done => AdcCollected = aN /\ ~aCh.en
        /\ ~aCh.done => AdcCollected # aN
    BY <1>0, <2>2, AdcChannelFields DEF AdcInv, AdcChannelInv
  <2>4. AdcCollected' = AdcCollected
    BY <2>1 DEF AdcCollected
  <2> QED
    BY <2>1, <2>2, <2>3, <2>4 DEF AdcEndInv, AdcEnding, AdcResting
<1>10. CASE Adc!DisarmWrite
  <2>1. /\ aPc = "disarm" /\ aPc' = "recheck"
        /\ aCh' = [Adc!Disarmed(aCh) EXCEPT !.done = aSeen]
        /\ UNCHANGED <<aN, aGot, aTorn, aSeen>>
    BY <1>10 DEF Adc!DisarmWrite, Adc!Step, Adc!rewrite
  <2>2. aCh'.done = aSeen
    BY <1>0, <2>1, AdcOtherFields
  <2>3. AdcCollected' = AdcCollected /\ IF aSeen THEN AdcCollected = aN ELSE (aTorn <=> AdcCollected = aN)
    BY <2>1 DEF AdcInv, AdcEndInv, AdcCollected
  <2> QED
    BY <2>1, <2>2, <2>3 DEF AdcEndInv, AdcEnding, AdcResting
<1>11. CASE Adc!Recheck
  <2>1. /\ aPc = "recheck" /\ aPc' = (IF aCh.done THEN "clear" ELSE "stop")
        /\ aAnswer' = (IF aCh.done THEN "ok" ELSE "incomplete")
        /\ UNCHANGED <<aN, aGot, aTorn>>
    BY <1>11 DEF Adc!Recheck, Adc!Step, Adc!IsDone, Adc!rewrite
  <2>2. AdcCollected' = AdcCollected /\ IF aCh.done THEN AdcCollected = aN ELSE (aTorn <=> AdcCollected = aN)
    BY <2>1 DEF AdcInv, AdcEndInv, AdcCollected
  <2>3. CASE aCh.done
    BY <2>1, <2>2, <2>3 DEF AdcEndInv, AdcEnding, AdcResting
  <2>4. CASE ~aCh.done
    BY <2>1, <2>2, <2>4 DEF AdcEndInv, AdcResting
  <2> QED
    BY <2>3, <2>4
<1>12. CASE Adc!ClearDone
  <2>1. aPc = "clear" /\ aPc' = "stop" /\ UNCHANGED <<aN, aGot, aAnswer>>
    BY <1>12 DEF Adc!ClearDone, Adc!Step
  <2>2. AdcCollected' = AdcCollected /\ AdcCollected = aN /\ aAnswer = "ok"
    BY <2>1 DEF AdcInv, AdcEndInv, AdcControlInv, AdcCollected
  <2> QED
    BY <2>1, <2>2 DEF AdcEndInv, AdcResting
<1>13. CASE Adc!Stop
  <2>1. aPc = "stop" /\ aPc' = "halt" /\ UNCHANGED <<aN, aGot, aAnswer, aTorn>>
    BY <1>13 DEF Adc!Stop, Adc!Step, Adc!rewrite
  <2>2. AdcCollected' = AdcCollected /\ IF aAnswer = "ok" THEN AdcCollected = aN ELSE (aTorn <=> AdcCollected = aN)
    BY <2>1 DEF AdcInv, AdcEndInv, AdcEnding, AdcCollected
  <2> QED
    BY <2>1, <2>2 DEF AdcEndInv, AdcResting
<1>14. CASE Adc!Halt
  <2>1. /\ aPc = "halt" /\ aPc' = "idle" /\ ~aBusy /\ aIfg' = aIfg \ Adc!Leftover
        /\ UNCHANGED <<aKind, aN, aGot, aAnswer, aTorn, aBusy>>
    BY <1>14 DEF Adc!Halt, Adc!Step, Adc!rewrite
  <2>2. AdcCollected' = AdcCollected /\ IF aAnswer = "ok" THEN AdcCollected = aN ELSE (aTorn <=> AdcCollected = aN)
    BY <2>1 DEF AdcInv, AdcEndInv, AdcEnding, AdcCollected
  <2>3. aKind \in {"repeated", "sequence", "sequence_dma"} /\ AdcRunning
        /\ aAnswer \in {"ok", "incomplete"}
        /\ (aAnswer = "incomplete" => aKind = "sequence_dma")
    BY <2>1 DEF AdcInv, AdcControlInv, AdcRunning, AdcBefore, AdcResting
  <2>4. aIfg' = {}
    <3>1. CASE aKind = "repeated"
      BY <2>1, <2>3, <3>1 DEF AdcInv, AdcRunInv, Adc!Leftover
    <3>2. CASE aKind # "repeated"
      <4>1. aIfg = AdcCollected + 1 .. aCount /\ aCount <= aN
        BY <2>3, <3>2 DEF AdcInv, AdcRunInv
      <4>2. aAnswer = "ok" => aIfg = {}
        BY <1>0, <2>2, <4>1
      <4>3. aAnswer = "incomplete" => Adc!Leftover = 1 .. aN
        BY <2>3 DEF Adc!Leftover
      <4>4. aIfg \subseteq 1 .. aN
        BY <1>0, <4>1
      <4> QED
        BY <2>1, <2>3, <4>2, <4>3, <4>4
    <3> QED
      BY <3>1, <3>2
  <2> QED
    BY <2>1, <2>2, <2>4 DEF AdcEndInv
<1>15. CASE Adc!Convert
  <2>1. /\ AdcRunning
        /\ UNCHANGED <<aPc, aKind, aN, aId, aGot, aAnswer, aTorn, aSeen>>
        /\ aCh'.en = aCh.en /\ aCh'.done = aCh.done
    BY <1>15, AdcConvertFacts
  <2>2. AdcCollected' = AdcCollected /\ ~AdcResting'
    BY <2>1 DEF AdcCollected, AdcRunning, AdcResting
  <2>3. AdcEnding => aPc \in {"stop", "halt"}
    BY <2>1 DEF AdcEnding, AdcRunning
  <2> QED
    BY <2>1, <2>2, <2>3 DEF AdcInv, AdcEndInv, AdcEnding
<1>16. CASE Adc!Collect
  <2>1. /\ AdcWorking /\ AdcRunning /\ aCh.en
        /\ UNCHANGED <<aPc, aKind, aN, aId, aAnswer, aSeen>>
        /\ AdcCollected' = AdcCollected + 1 /\ AdcCollected' <= aN
        /\ aTorn' <=> aTorn \/ (aPc = "disarm" /\ AdcCollected' = aN)
    BY <1>16, AdcCollectFacts
  <2>2. /\ aPc \in {"go", "wait_done", "poll", "give_up", "disarm"}
        /\ AdcCollected # aN
    BY <1>0, <2>1 DEF AdcWorking
  <2>3. aPc = "disarm" => ~aSeen /\ ~aTorn
    BY <2>1, <2>2 DEF AdcInv, AdcEndInv
  <2> QED
    BY <2>1, <2>2, <2>3 DEF AdcInv, AdcEndInv, AdcEnding, AdcResting
<1>17. CASE UNCHANGED Adc!vars
  BY <1>17 DEF Adc!vars, AdcInv, AdcEndInv, AdcEnding, AdcResting, AdcCollected
<1> QED
  BY <1>1, <1>2, <1>3, <1>4, <1>5, <1>6, <1>7, <1>8, <1>9, <1>10, <1>11, <1>12,
     <1>13,
     <1>14, <1>15, <1>16, <1>17 DEF Adc!Next, Adc!Hardware, Adc!InCall

LEMMA AdcInitInv == Adc!Init => AdcInv
<1> SUFFICES ASSUME Adc!Init PROVE AdcInv
  OBVIOUS
<1> USE AdcLenAssumption, AdcCallsAssumption
<1>1. /\ Adc!IdleChannel \in Adc!ChannelType(AdcLen) /\ ~Adc!IdleChannel.en
      /\ ~Adc!IdleChannel.edge
  BY AdcOtherFields
<1>2. /\ aGot = <<>> /\ aGot \in Seq(AdcResult) /\ AdcCollected = 0
  BY DEF Adc!Init, AdcCollected
<1>3. AdcResting /\ ~AdcBefore /\ ~AdcRunning /\ ~AdcWorking /\ ~AdcEnding
  BY DEF Adc!Init, AdcResting, AdcBefore, AdcRunning, AdcWorking, AdcEnding
<1>4. AdcControlInv /\ AdcFlagInv
  BY DEF Adc!Init, AdcControlInv, AdcFlagInv
<1>8. AdcNumberInv
  BY DEF Adc!Init, AdcNumberInv, Adc!Slot
<1>5. AdcStoreInv
  BY <1>1 DEF Adc!Init, AdcStoreInv, AdcResult, Adc!Nothing
<1>6. AdcGotInv /\ AdcBeforeInv /\ AdcRunInv
  BY <1>2, <1>3 DEF Adc!Init, AdcGotInv, AdcBeforeInv, AdcRunInv
<1>7. AdcChannelInv /\ AdcEndInv
  BY <1>1, <1>3 DEF Adc!Init, AdcChannelInv, AdcEndInv
<1> QED
  BY <1>4, <1>5, <1>6, <1>7, <1>8 DEF AdcInv

\* What the converter, the channel and the call have of each other's progress
\* holds of every behaviour (adc.rs, the single reads and the sequences).
THEOREM AdcInvariant == Adc!Spec => []AdcInv
<1>1. AdcInv /\ [Adc!Next]_(Adc!vars) => AdcInv'
  BY AdcControlStep, AdcNumberStep, AdcFlagStep, AdcStoreStep, AdcGotStep,
     AdcBeforeStep, AdcRunStep, AdcChannelStep, AdcEndStep DEF AdcInv
<1> QED
  BY AdcInitInv, <1>1, PTL DEF Adc!Spec

\* For buffers of any length and any number of calls: one that reports success
\* returns the results of its own conversions, in order, and leaves neither
\* flag nor conversion nor armed channel behind (adc.rs, read_repeated_dma,
\* read_sequence and read_sequence_dma).
THEOREM AdcOwnResultsCorrect == Adc!Spec => []Adc!OwnResults
<1>1. AdcInv => Adc!OwnResults
  <2> SUFFICES ASSUME AdcInv, aPc = "idle", aId > 0, aAnswer = "ok" PROVE
        \/ aKind = "started" /\ aGot \in {<<>>, <<<<aId, 1>>>>}
        \/ /\ aGot = [i \in 1 .. aN |-> <<aId, i>>]
           /\ aIfg = {} /\ ~aBusy /\ ~aCh.en
    BY DEF Adc!OwnResults
  <2>1. aGot = [i \in 1 .. AdcCollected |-> <<aId, i>>]
    <3>1. aGot = [i \in 1 .. AdcCollected |-> aGot[i]]
      BY DEF AdcInv, AdcGotInv, AdcCollected
    <3>2. \A i \in 1 .. AdcCollected : aGot[i] = <<aId, i>>
      BY DEF AdcInv, AdcGotInv
    <3> QED
      BY <3>1, <3>2, Zenon
  <2>2. CASE aKind = "started"
    <3>1. AdcCollected \in Nat /\ AdcCollected <= 1
      BY <2>2 DEF AdcInv, AdcGotInv, AdcNumberInv, AdcCollected
    <3>2. CASE AdcCollected = 0
      <4>1. aGot = <<>>
        BY <3>2, EmptySeq DEF AdcInv, AdcGotInv, AdcCollected
      <4> QED
        BY <2>2, <4>1
    <3>3. CASE AdcCollected = 1
      <4>1. aGot = <<<<aId, 1>>>>
        BY <2>1, <3>3
      <4> QED
        BY <2>2, <4>1
    <3> QED
      BY <3>1, <3>2, <3>3
  <2>3. CASE aKind # "started"
    <3>1. AdcResting /\ AdcEnding
      BY <2>3 DEF AdcResting, AdcEnding
    <3>2. AdcCollected = aN /\ aIfg = {} /\ ~aBusy
      BY <3>1 DEF AdcInv, AdcEndInv
    <3>3. ~aCh.en
      BY DEF AdcInv, AdcChannelInv, AdcWorking
    <3> QED
      BY <2>1, <3>2, <3>3
  <2> QED
    BY <2>2, <2>3
<1> QED
  BY <1>1, AdcInvariant, PTL

\* The bounded wait calls a transfer incomplete only if it is, but for a last
\* transfer inside its rewrite of DMAxCTL (dma.rs, wait_done_bounded).
THEOREM AdcHonestCorrect == Adc!Spec => []Adc!HonestReport
<1>1. AdcInv => Adc!HonestReport
  <2> SUFFICES ASSUME AdcInv, aPc = "idle", aAnswer = "incomplete"
               PROVE  Len(aGot) = aN <=> aTorn
    BY DEF Adc!HonestReport
  <2>1. aKind # "started"
    BY DEF AdcInv, AdcControlInv
  <2>2. AdcResting
    BY <2>1 DEF AdcResting
  <2>3. aId > 0
    BY DEF AdcInv, AdcControlInv, AdcNumberInv
  <2> QED
    BY <2>2, <2>3 DEF AdcInv, AdcEndInv, AdcEnding, AdcCollected
<1> QED
  BY <1>1, AdcInvariant, PTL

\* Every variable of the ADC model keeps its type, the count of the channel
\* (dma.rs, DMAxSZ) included.
THEOREM AdcTypeCorrect == Adc!Spec => []Adc!TypeOK
<1>1. AdcInv => Adc!TypeOK
  <2> SUFFICES ASSUME AdcInv PROVE Adc!TypeOK
    OBVIOUS
  <2>1. /\ aN \in 1 .. AdcLen /\ aId \in 0 .. AdcCalls /\ aOwner \in 0 .. aId
        /\ aSlot \in Adc!Slot /\ aIfg \subseteq Adc!Slot
        /\ aCh \in Adc!ChannelType(AdcLen)
        /\ Len(aGot) <= aN
    BY DEF AdcInv, AdcNumberInv, AdcStoreInv, AdcGotInv, AdcCollected, Adc!Slot
  <2>2. {aEnc, aBusy, aLatch, aSeen, aTorn} \subseteq BOOLEAN
    BY DEF AdcInv, AdcFlagInv
  <2> QED
    BY <2>1, <2>2 DEF AdcInv, AdcControlInv, Adc!TypeOK
<1> QED
  BY <1>1, AdcInvariant, PTL
-----------------------------------------------------------------------------
\* The run has the three beside each other: each of its steps is one of the
\* driver's, or leaves the driver alone.
LEMMA UartRefined == MCSpec => Spec
<1>1. MCInit => Init
  BY DEF MCInit
<1>2. [MCNext]_allVars => [Next]_vars
  BY DEF MCNext, allVars, OnUart, OnSpi, OnAdc, vars
<1> QED
  BY <1>1, <1>2, PTL DEF MCSpec, Spec

LEMMA SpiRefined == MCSpec => Spi!Spec
<1>1. MCInit => Spi!Init
  BY DEF MCInit
<1>2. [MCNext]_allVars => [Spi!Next]_(Spi!vars)
  BY DEF MCNext, allVars, OnUart, OnSpi, OnAdc, spi, Spi!vars
<1> QED
  BY <1>1, <1>2, PTL DEF MCSpec, Spi!Spec

LEMMA AdcRefined == MCSpec => Adc!Spec
<1>1. MCInit => Adc!Init
  BY DEF MCInit
<1>2. [MCNext]_allVars => [Adc!Next]_(Adc!vars)
  BY DEF MCNext, allVars, OnUart, OnSpi, OnAdc, adc, Adc!vars
<1> QED
  BY <1>1, <1>2, PTL DEF MCSpec, Adc!Spec

\* The three drivers keep their types in the run, the channels they were lent
\* (dma.rs) included.
THEOREM TypesCorrect == MCSpec => []TypesOK
<1>1. TypesOK <=> TypeOK /\ Spi!TypeOK /\ Adc!TypeOK
  BY DEF TypesOK
<1> QED
  BY <1>1, UartRefined, SpiRefined, AdcRefined, TypeCorrect, SpiTypeCorrect,
     AdcTypeCorrect, PTL

\* In the run, an SPI call returns when it has exchanged exactly its slices,
\* and leaves the bus quiet and its channels disarmed (spi.rs:399-440).
THEOREM ExchangedHolds == MCSpec => []Exchanged
<1>1. Exchanged <=> Spi!Exchanged /\ Spi!QuietAtReturn
  BY DEF Exchanged
<1> QED
  BY <1>1, SpiRefined, SpiExchangedCorrect, SpiQuietCorrect, PTL

\* In the run, a converter call that reports success returns the results of
\* its own conversions, and leaves nothing behind for the next one (adc.rs).
THEOREM OwnResultsHold == MCSpec => []OwnResults
<1>1. OwnResults <=> Adc!OwnResults
  BY DEF OwnResults
<1> QED
  BY <1>1, AdcRefined, AdcOwnResultsCorrect, PTL

\* In the run, the bounded wait calls a transfer incomplete only if it is, but
\* for a last transfer inside its rewrite of DMAxCTL (dma.rs:682-700).
THEOREM HonestReportHolds == MCSpec => []HonestReport
<1>1. HonestReport <=> Adc!HonestReport
  BY DEF HonestReport
<1> QED
  BY <1>1, AdcRefined, AdcHonestCorrect, PTL
=============================================================================
