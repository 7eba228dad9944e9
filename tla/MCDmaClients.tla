---------------------------- MODULE MCDmaClients ----------------------------
(***************************************************************************)
(* The three drivers that wait for a DMA channel: the UART transmitter,    *)
(* the SPI master and the converter.  Each owns its peripheral and the     *)
(* channels lent to it, and shares no state with the others, so that a     *)
(* behaviour of all three is a merge of one behaviour of each: the run     *)
(* chooses one at the start.                                               *)
(*                                                                         *)
(* Bursts of up to four bytes, eight in all: every burst length after      *)
(* every other, with the earlier one anywhere in the transmitter.  SPI     *)
(* slices of up to four, each length with each other.  Three calls to the  *)
(* converter, with three members at most: each kind of call after each     *)
(* pair of others.                                                         *)
(***************************************************************************)
EXTENDS SerialDmaTx

CONSTANTS SpiLen, AdcLen, AdcCalls

ASSUME SpiLenAssumption == SpiLen \in Nat
ASSUME AdcLenAssumption == AdcLen \in Nat \ {0}
ASSUME AdcCallsAssumption == AdcCalls \in Nat

VARIABLES
    unit,
    sPc, sR, sW, sPasses, sMem, sTxbuf, sShift, sRxbuf, sRxifg, sSent, sRx, sTx,
    aPc, aKind, aN, aId, aGot, aAnswer, aEnc, aBusy, aSlot, aOwner, aCount,
    aMem, aIfg, aLatch, aCh, aSeen, aTorn

Spi == INSTANCE SpiDma WITH
    MaxLen <- SpiLen,
    pc <- sPc, r <- sR, w <- sW, passes <- sPasses, mem <- sMem,
    txbuf <- sTxbuf, shift <- sShift, rxbuf <- sRxbuf, rxifg <- sRxifg,
    sent <- sSent, rx <- sRx, tx <- sTx

Adc == INSTANCE AdcDma WITH
    MaxLen <- AdcLen, MaxCalls <- AdcCalls,
    pc <- aPc, kind <- aKind, n <- aN, id <- aId, got <- aGot, answer <- aAnswer,
    enc <- aEnc, busy <- aBusy, slot <- aSlot, owner <- aOwner, count <- aCount,
    mem <- aMem, ifg <- aIfg, latch <- aLatch, ch <- aCh, seen <- aSeen, torn <- aTorn

spi == <<sPc, sR, sW, sPasses, sMem, sTxbuf, sShift, sRxbuf, sRxifg, sSent, sRx, sTx>>
adc == <<aPc, aKind, aN, aId, aGot, aAnswer, aEnc, aBusy, aSlot, aOwner, aCount,
         aMem, aIfg, aLatch, aCh, aSeen, aTorn>>
allVars == <<unit, vars, spi, adc>>

OnUart == unit = "uart" /\ UNCHANGED <<unit, spi, adc>>
OnSpi  == unit = "spi"  /\ UNCHANGED <<unit, vars, adc>>
OnAdc  == unit = "adc"  /\ UNCHANGED <<unit, vars, spi>>

MCInit ==
    /\ unit \in {"uart", "spi", "adc"}
    /\ Init /\ Spi!Init /\ Adc!Init

MCNext ==
    \/ OnUart /\ Next
    \/ OnSpi  /\ Spi!Next
    \/ OnAdc  /\ Adc!Next

\* Each peripheral and each channel works, and a call once made runs.
MCFairness ==
    /\ WF_allVars(OnUart /\ InCall)    /\ WF_allVars(OnUart /\ HandOff)
    /\ WF_allVars(OnUart /\ ShiftOut)  /\ WF_allVars(OnUart /\ DmaMove)
    /\ WF_allVars(OnSpi /\ Spi!InCall) /\ WF_allVars(OnSpi /\ Spi!HandOff)
    /\ WF_allVars(OnSpi /\ Spi!Clock)  /\ WF_allVars(OnSpi /\ Spi!MoveIn)
    /\ WF_allVars(OnSpi /\ Spi!MoveOut)
    /\ WF_allVars(OnAdc /\ Adc!InCall) /\ WF_allVars(OnAdc /\ Adc!Convert)
    /\ WF_allVars(OnAdc /\ Adc!Collect)

MCSpec == MCInit /\ [][MCNext]_allVars /\ MCFairness

\* All three are well typed.
TypesOK == TypeOK /\ Spi!TypeOK /\ Adc!TypeOK

\* spi.rs:399-440: an SPI call, polled or by DMA, in one pass or in two,
\* exchanges exactly its slices, and leaves the bus quiet and both channels
\* disarmed.
Exchanged == Spi!Exchanged /\ Spi!QuietAtReturn

\* adc.rs: a converter call that reports success returns the results of its
\* own conversions, in order, and leaves nothing behind for the next one.
OwnResults == Adc!OwnResults

\* dma.rs:696-697: the bounded wait calls a transfer incomplete only if it is.
HonestReport == Adc!HonestReport

\* Every call of every driver returns.
EveryCallReturns == CallsReturn /\ Spi!CallsReturn /\ Adc!CallsReturn
=============================================================================
