-------------------------- MODULE Reception_proofs ---------------------------
(***************************************************************************)
(* The run of the three receptions implements the DMA call with a peer     *)
(* that sends no more than the buffer holds, and the rig: each of its      *)
(* steps is one of theirs, or leaves them alone.  What SerialDmaRx_proofs  *)
(* proves of the call for buffers of every length, and TwoBoard_proofs of  *)
(* the rig for bursts of every length, holds in the run too.               *)
(***************************************************************************)
EXTENDS MCReception, TLAPS

RxCall == INSTANCE SerialDmaRx_proofs WITH buf <- dmaBuf, Surplus <- 0

TheRig == INSTANCE TwoBoard_proofs

\* Dma and RxCall instantiate the same module, one of them with its proofs.
LEMMA SameCall == Dma!Next => RxCall!Next
<1> USE DEF Dma!cpu, RxCall!cpu, Dma!uart, RxCall!uart, Dma!At, RxCall!At
<1>1. Dma!Land => RxCall!Land
  BY DEF Dma!Land, RxCall!Land, Dma!Total, RxCall!Total, Dma!Triggered,
     RxCall!Triggered
<1>2. Dma!DmaMove => RxCall!DmaMove
  BY DEF Dma!DmaMove, RxCall!DmaMove, Dma!ReadRxbuf, RxCall!ReadRxbuf,
     Dma!Destination, RxCall!Destination, Dma!NextItem, RxCall!NextItem,
     Dma!Moved, RxCall!Moved
<1>3. Dma!Drain \/ Dma!ReadStatus => RxCall!Drain \/ RxCall!ReadStatus
  BY DEF Dma!Drain, RxCall!Drain, Dma!ReadStatus, RxCall!ReadStatus
<1>4. Dma!ReadByte => RxCall!ReadByte
  BY DEF Dma!ReadByte, RxCall!ReadByte, Dma!ReadRxbuf, RxCall!ReadRxbuf
<1>5. Dma!Arm \/ Dma!Disarm => RxCall!Arm \/ RxCall!Disarm
  BY DEF Dma!Arm, RxCall!Arm, Dma!Armed, RxCall!Armed, Dma!Disarm,
     RxCall!Disarm, Dma!Disarmed, RxCall!Disarmed
<1>6. Dma!CheckReady \/ Dma!CheckRemaining =>
        RxCall!CheckReady \/ RxCall!CheckRemaining
  BY DEF Dma!CheckReady, RxCall!CheckReady, Dma!CheckRemaining,
     RxCall!CheckRemaining, Dma!Remaining, RxCall!Remaining
<1>7. Dma!WaitDone \/ Dma!Return => RxCall!WaitDone \/ RxCall!Return
  BY DEF Dma!WaitDone, RxCall!WaitDone, Dma!IsDone, RxCall!IsDone,
     Dma!DoneCleared, RxCall!DoneCleared, Dma!Return, RxCall!Return
<1> QED
  BY <1>1, <1>2, <1>3, <1>4, <1>5, <1>6, <1>7
  DEF Dma!Next, RxCall!Next, Dma!Cpu, RxCall!Cpu

LEMMA CallRefined == MCSpec => RxCall!Spec
<1>1. MCInit => RxCall!Init
  BY DEF MCInit, Dma!Init, RxCall!Init, Dma!IdleChannel, RxCall!IdleChannel,
     Dma!None, RxCall!None
<1>2. [MCNext]_allVars => Dma!Next \/ UNCHANGED dma
  BY DEF MCNext, allVars, OnQueue, OnDma, OnRig
<1>3. [MCNext]_allVars => [RxCall!Next]_(RxCall!vars)
  BY <1>2, SameCall DEF dma, RxCall!vars
<1> QED
  BY <1>1, <1>3, PTL DEF MCSpec, RxCall!Spec

\* In the run, Ok means that the peer's stream is in the buffer, for buffers of
\* every length (serial.rs:535-538).
THEOREM StreamHolds == MCSpec => []OkMeansTheStream
<1>1. OkMeansTheStream <=> RxCall!OkMeansTheStream
  BY DEF OkMeansTheStream, Dma!OkMeansTheStream, RxCall!OkMeansTheStream
<1>2. RxCall!Spec => []RxCall!OkMeansTheStream
  BY BoundsAssumption, RxCall!StreamCorrect
<1> QED
  BY <1>1, <1>2, CallRefined, PTL

\* In the run, the channel is out of the buffer on every way out of the call, for
\* buffers of every length and a peer that sends what they hold
\* (serial.rs:582-587).
THEOREM OutOfBufferHolds == MCSpec => []ChannelOutOfBuffer
<1>1. ChannelOutOfBuffer <=> RxCall!ChannelOutOfBuffer
  BY DEF ChannelOutOfBuffer, Dma!ChannelOutOfBuffer, RxCall!ChannelOutOfBuffer
<1>2. RxCall!Spec => []RxCall!ChannelOutOfBuffer
  BY BoundsAssumption, RxCall!OutOfBufferCorrect
<1> QED
  BY <1>1, <1>2, CallRefined, PTL
-----------------------------------------------------------------------------
\* Rig and TheRig instantiate the same module too: the steps of the boards,
LEMMA SameBoard ==
    ASSUME NEW b
    PROVE  (Rig!Arrive(b) => TheRig!Arrive(b)) /\ (Rig!Executes(b) => TheRig!Executes(b))
           /\ (Rig!Announce(b) => TheRig!Announce(b))
<1>1. Rig!Arrive(b) => TheRig!Arrive(b)
  BY DEF Rig!loop, TheRig!loop, Rig!block, TheRig!block, Rig!host, TheRig!host, Rig!Arrive, TheRig!Arrive
<1>2. Rig!Announce(b) => TheRig!Announce(b)
  BY DEF Rig!board, TheRig!board, Rig!block, TheRig!block, Rig!host, TheRig!host, Rig!Say, TheRig!Say, Rig!Announce,
     TheRig!Announce
<1>3. /\ Rig!Boot(b) => TheRig!Boot(b)
      /\ Rig!Discard(b) => TheRig!Discard(b)
      /\ Rig!FallAsleep(b) => TheRig!FallAsleep(b)
      /\ Rig!Wake(b) => TheRig!Wake(b)
      /\ Rig!Finish(b) => TheRig!Finish(b)
  BY DEF Rig!loop, TheRig!loop, Rig!block, TheRig!block, Rig!line, TheRig!line, Rig!host, TheRig!host, Rig!SubMode,
     TheRig!SubMode, Rig!Polling, TheRig!Polling, Rig!Busy, TheRig!Busy, Rig!Say, TheRig!Say,
     Rig!Becomes, TheRig!Becomes, Rig!Boot, TheRig!Boot, Rig!Discard, TheRig!Discard, Rig!Result,
     TheRig!Result, Rig!Finish, TheRig!Finish, Rig!FallAsleep, TheRig!FallAsleep, Rig!Wake,
     TheRig!Wake
<1>4. Rig!Reply(b) => TheRig!Reply(b)
  BY DEF Rig!loop, TheRig!loop, Rig!block, TheRig!block, Rig!host, TheRig!host, Rig!Say, TheRig!Say, Rig!Take, TheRig!Take,
     Rig!Answer, TheRig!Answer, Rig!Reply, TheRig!Reply
<1>5. /\ Rig!ServeI2c(b) => TheRig!ServeI2c(b)
      /\ Rig!TestI2c(b) => TheRig!TestI2c(b)
  BY DEF Rig!host, TheRig!host, Rig!block, TheRig!block, Rig!Say, TheRig!Say, Rig!Becomes, TheRig!Becomes, Rig!Take,
     TheRig!Take, Rig!ServeI2c, TheRig!ServeI2c, Rig!Burn, TheRig!Burn, Rig!TestI2c,
     TheRig!TestI2c
<1>6. /\ Rig!ServeEcho(b) => TheRig!ServeEcho(b)
      /\ Rig!Initiate(b) => TheRig!Initiate(b)
      /\ Rig!Capture(b) => TheRig!Capture(b)
  BY DEF Rig!host, TheRig!host, Rig!block, TheRig!block, Rig!Say, TheRig!Say, Rig!Becomes, TheRig!Becomes, Rig!Take,
     TheRig!Take, Rig!Burn, TheRig!Burn, Rig!Initiate, TheRig!Initiate, Rig!Capture,
     TheRig!Capture, Rig!ServeEcho, TheRig!ServeEcho
<1>7. /\ Rig!Count(b) => TheRig!Count(b)
      /\ Rig!Pulse(b) => TheRig!Pulse(b)
  BY DEF Rig!host, TheRig!host, Rig!block, TheRig!block, Rig!Say, TheRig!Say, Rig!Becomes, TheRig!Becomes, Rig!Take,
     TheRig!Take, Rig!Burn, TheRig!Burn, Rig!Pulse, TheRig!Pulse, Rig!Count, TheRig!Count
<1>8. /\ Rig!Leave(b) => TheRig!Leave(b)
      /\ Rig!Doze(b) => TheRig!Doze(b)
  BY DEF Rig!host, TheRig!host, Rig!block, TheRig!block, Rig!SubMode, TheRig!SubMode, Rig!Say, TheRig!Say, Rig!Becomes,
     TheRig!Becomes, Rig!Take, TheRig!Take, Rig!Stats, TheRig!Stats, Rig!Leave, TheRig!Leave,
     Rig!Doze, TheRig!Doze
<1>9. /\ Rig!Exchange(b) => TheRig!Exchange(b)
      /\ Rig!Edge(b) => TheRig!Edge(b)
  BY DEF Rig!line, TheRig!line, Rig!block, TheRig!block, Rig!host, TheRig!host, Rig!Peer, TheRig!Peer, Rig!Server,
     TheRig!Server, Rig!Fares, TheRig!Fares, Rig!Exchange, TheRig!Exchange, Rig!Edge, TheRig!Edge
<1> QED
  BY <1>1, <1>2, <1>3, <1>4, <1>5, <1>6, <1>7, <1>8, <1>9 DEF Rig!Executes, TheRig!Executes

\* the suites,
LEMMA SameSuites == Rig!Suites = TheRig!Suites
  BY DEF Rig!Peer, TheRig!Peer, Rig!SendStep, TheRig!SendStep, Rig!Expect, TheRig!Expect, Rig!Nap,
     TheRig!Nap, Rig!CmdExpect, TheRig!CmdExpect, Rig!BothWays, TheRig!BothWays, Rig!Identity,
     TheRig!Identity, Rig!I2cBridge, TheRig!I2cBridge, Rig!UartLink, TheRig!UartLink,
     Rig!GpioEdge, TheRig!GpioEdge, Rig!Lpm4Wake, TheRig!Lpm4Wake, Rig!PwmCross, TheRig!PwmCross,
     Rig!AdcDac, TheRig!AdcDac, Rig!Suites, TheRig!Suites

\* and those of the host.
LEMMA SameHost == Rig!HostRuns \/ Rig!Abort => TheRig!HostRuns \/ TheRig!Abort
<1>1. /\ Rig!OpenPort => TheRig!OpenPort
      /\ Rig!Pop => TheRig!Pop
      /\ Rig!Ask => TheRig!Ask
  BY DEF Rig!board, TheRig!board, Rig!block, TheRig!block, Rig!plan, TheRig!plan, Rig!SubMode, TheRig!SubMode, Rig!Polling,
     TheRig!Polling, Rig!Drained, TheRig!Drained, Rig!Go, TheRig!Go, Rig!Send, TheRig!Send,
     Rig!OpenPort, TheRig!OpenPort, Rig!Pop, TheRig!Pop, Rig!Ask, TheRig!Ask
<1>2. /\ Rig!Identified => TheRig!Identified
      /\ Rig!SkipLine => TheRig!SkipLine
  BY DEF Rig!board, TheRig!board, Rig!block, TheRig!block, Rig!plan, TheRig!plan, Rig!Go, TheRig!Go, Rig!Identifies,
     TheRig!Identifies, Rig!Identified, TheRig!Identified, Rig!SkipLine, TheRig!SkipLine
<1>3. /\ Rig!Retry => TheRig!Retry
      /\ Rig!Reopen => TheRig!Reopen
      /\ Rig!Settle => TheRig!Settle
  BY DEF Rig!board, TheRig!board, Rig!block, TheRig!block, Rig!line, TheRig!line, Rig!plan, TheRig!plan, Rig!Peer,
     TheRig!Peer, Rig!SubMode, TheRig!SubMode, Rig!Polling, TheRig!Polling, Rig!Drained,
     TheRig!Drained, Rig!Go, TheRig!Go, Rig!Retry, TheRig!Retry, Rig!Reopen, TheRig!Reopen,
     Rig!Settle, TheRig!Settle
<1>4. /\ Rig!SendCommand => TheRig!SendCommand
      /\ Rig!Sleep500 => TheRig!Sleep500
      /\ Rig!GiveUp => TheRig!GiveUp
  BY DEF Rig!board, TheRig!board, Rig!block, TheRig!block, Rig!line, TheRig!line, Rig!Send, TheRig!Send, Rig!Doing,
     TheRig!Doing, Rig!SendCommand, TheRig!SendCommand, Rig!Sleep500, TheRig!Sleep500,
     Rig!GiveUp, TheRig!GiveUp
<1>5. /\ Rig!Passed => TheRig!Passed
      /\ Rig!Failed => TheRig!Failed
      /\ Rig!Abort => TheRig!Abort
  BY DEF Rig!board, TheRig!board, Rig!block, TheRig!block, Rig!Board, TheRig!Board, Rig!OnAll, TheRig!OnAll, Rig!Stop,
     TheRig!Stop, Rig!Passed, TheRig!Passed, Rig!Failed, TheRig!Failed, Rig!Abort, TheRig!Abort
<1>6. Rig!Suites = TheRig!Suites
  BY SameSuites
<1>7. (\E s \in DOMAIN Rig!Suites : Rig!BeginSuite(s))
        => \E s \in DOMAIN TheRig!Suites : TheRig!BeginSuite(s)
  BY <1>6 DEF Rig!board, TheRig!board, Rig!block, TheRig!block, Rig!line, TheRig!line, Rig!BeginSuite, TheRig!BeginSuite
<1>8. Rig!PostMortem = TheRig!PostMortem
  BY DEF Rig!SendStep, TheRig!SendStep, Rig!Expect, TheRig!Expect, Rig!Look, TheRig!Look,
     Rig!GivenUp, TheRig!GivenUp, Rig!CmdExpect, TheRig!CmdExpect, Rig!PostMortem, TheRig!PostMortem
<1>9. Rig!ReadLine => TheRig!ReadLine
  BY <1>8 DEF Rig!board, TheRig!board, Rig!block, TheRig!block, Rig!ReadLine, TheRig!ReadLine
<1> QED
  BY <1>1, <1>2, <1>3, <1>4, <1>5, <1>6, <1>7, <1>9 DEF Rig!HostRuns, TheRig!HostRuns

LEMMA SameRig == Rig!Next => TheRig!Next
<1>1. Rig!Board = TheRig!Board
  BY DEF Rig!Board, TheRig!Board
<1>2. ASSUME NEW b  PROVE Rig!RunSuites(b) => TheRig!RunSuites(b)
  BY DEF Rig!board, TheRig!board, Rig!block, TheRig!block, Rig!line, TheRig!line, Rig!plan, TheRig!plan, Rig!Board,
     TheRig!Board, Rig!OnAll, TheRig!OnAll, Rig!SubMode, TheRig!SubMode, Rig!Polling,
     TheRig!Polling, Rig!Drained, TheRig!Drained, Rig!StartsSlowly, TheRig!StartsSlowly,
     Rig!Start, TheRig!Start, Rig!Flash, TheRig!Flash, Rig!RunSuites, TheRig!RunSuites
<1> QED
  BY <1>1, <1>2, SameBoard, SameHost DEF Rig!Next, TheRig!Next

LEMMA RigRefined == MCSpec => TheRig!Spec
<1>1. MCInit => TheRig!Init
  BY DEF MCInit, Rig!Board, TheRig!Board, Rig!OnAll, TheRig!OnAll, Rig!PoweredUp, TheRig!PoweredUp,
     Rig!Init, TheRig!Init
<1>2. [MCNext]_allVars => Rig!Next \/ UNCHANGED rig
  BY DEF MCNext, allVars, OnQueue, OnDma, OnRig
<1>3. [MCNext]_allVars => [TheRig!Next]_(TheRig!vars)
  BY <1>2, SameRig DEF rig, TheRig!vars
<1> QED
  BY <1>1, <1>3, PTL DEF MCSpec, TheRig!Spec

\* In the run, whatever the host before left behind, a suite sends each command
\* to a board that is ready for it and waits only for an answer that is coming,
\* for bursts of every length (boards.rs:103-107, 163-165).
THEOREM HeardHolds == MCSpec => []CommandsHeard
<1>1. CommandsHeard <=> TheRig!CommandsHeard
  BY DEF CommandsHeard, Rig!SubMode, TheRig!SubMode, Rig!Busy, TheRig!Busy, Rig!Stats,
     TheRig!Stats, Rig!Result, TheRig!Result, Rig!Receives, TheRig!Receives, Rig!Clean, TheRig!Clean, Rig!Coming,
     TheRig!Coming, Rig!CommandsHeard, TheRig!CommandsHeard
<1>2. TheRig!Spec => []TheRig!CommandsHeard
  BY BoundsAssumption, TheRig!RigHeard
<1> QED
  BY <1>1, <1>2, RigRefined, PTL

\* In the run, of all suites only the I2C bridge can fail for what an aborted host
\* left behind, and only if the child's slave was taken up with something latched,
\* for bursts of every length (suites.rs, two_board_fixture.rs:306).
THEOREM HonestHolds == MCSpec => []VerdictsHonest
<1>1. VerdictsHonest <=> TheRig!VerdictsHonest
  BY DEF VerdictsHonest, Rig!GivenUp, TheRig!GivenUp, Rig!Expect, TheRig!Expect,
     Rig!VerdictsHonest, TheRig!VerdictsHonest
<1>2. TheRig!Spec => []TheRig!VerdictsHonest
  BY BoundsAssumption, TheRig!RigHonest
<1> QED
  BY <1>1, <1>2, RigRefined, PTL

\* In the run, the variables of the DMA call and of the rig keep their types, no
\* more than two bytes or lines of the rig are under way, and no tally outgrows
\* the burst by more than the STOP a slave found latched when it was taken up.
THEOREM TypesHold == MCSpec => []TypesOK
<1>1. Dma!TypeOK <=> RxCall!TypeOK
  BY DEF Dma!TypeOK, RxCall!TypeOK, Dma!Total, RxCall!Total, Dma!ChannelType,
     RxCall!ChannelType
<1>2. Rig!TypeOK <=> TheRig!TypeOK
  BY SameSuites DEF Rig!Board, TheRig!Board, Rig!SubMode, TheRig!SubMode, Rig!Polling, TheRig!Polling,
     Rig!Busy, TheRig!Busy, Rig!Asleep, TheRig!Asleep, Rig!Command, TheRig!Command, Rig!TypeOK,
     TheRig!TypeOK
<1>3. RxCall!Spec => []RxCall!TypeOK
  <2>1. RxCall!TypeInv => RxCall!TypeOK
    BY DEF RxCall!TypeInv
  <2>2. RxCall!Spec => []RxCall!TypeInv
    BY BoundsAssumption, RxCall!TypeInvHolds
  <2> QED
    BY <2>1, <2>2, PTL
<1>4. TheRig!Spec => []TheRig!TypeOK
  BY BoundsAssumption, TheRig!RigTypesCorrect
<1>5. RxCall!TypeOK /\ TheRig!TypeOK => TypesOK
  BY <1>1, <1>2 DEF TypesOK
<1> QED
  BY <1>3, <1>4, <1>5, CallRefined, RigRefined, PTL
=============================================================================
