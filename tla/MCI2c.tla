------------------------------- MODULE MCI2c --------------------------------
(***************************************************************************)
(* Both ends of the I2C driver, each against everything the other end of a *)
(* bus may do: the master with a slave that NACKs or holds SCL, and the    *)
(* slave with a master that keeps driving.  A driver is one or the other,  *)
(* and the run chooses at the start.                                       *)
(*                                                                         *)
(* Three calls of the master: one, one with what it leaves behind, and one *)
(* after that.  Segments of up to two bytes at the slave, enough of them   *)
(* for a transaction, one with a repeated START and the next after it.     *)
(***************************************************************************)
EXTENDS MCI2cMaster

CONSTANTS MaxSegments, MaxBytes

ASSUME SegmentsAssumption == MaxSegments \in Nat /\ MaxBytes \in Nat \ {0}

VARIABLES
    unit,
    sSeg, segNo, moved, nacked, sStt, sStp, uctr, attached, sRx, sTx, sShift,
    sPc, transmitting, appSeg, sBus, seen, sStale

Slave == INSTANCE I2cSlave WITH
    PromptPolling <- TRUE, RestartAfterRead <- FALSE,
    seg <- sSeg, stt <- sStt, stp <- sStp, rx <- sRx, tx <- sTx, shift <- sShift,
    pc <- sPc, bus <- sBus, stale <- sStale

polled == <<sSeg, segNo, moved, nacked, sStt, sStp, uctr, attached, sRx, sTx, sShift,
            sPc, transmitting, appSeg, sBus, seen, sStale>>
allVars == <<unit, vars, polled>>

OnMaster == unit = "master" /\ UNCHANGED <<unit, polled>>
OnSlave  == unit = "slave"  /\ UNCHANGED <<unit, vars>>

MCInit == unit \in {"master", "slave"} /\ Init /\ Slave!Init

MCNext == (OnMaster /\ Next) \/ (OnSlave /\ Slave!Next)

\* As the two FairSpecs: the master's CPU runs, and nothing obliges the slave
\* at the other end; the slave is polled, and a master that began a
\* transaction goes on with it.
MCFairness ==
    /\ WF_allVars(OnMaster /\ Cpu)
    /\ WF_allVars(OnSlave /\ Slave!Slave)
    /\ WF_allVars(OnSlave /\ Slave!Transfer)
    /\ WF_allVars(OnSlave /\ Slave!MasterStop)

MCSpec == MCInit /\ [][MCNext]_allVars /\ MCFairness

\* The slave is well typed (TypeOK is the master's).
SlaveTypeOK == Slave!TypeOK

\* i2c.rs:656-661: the events are delivered in the order of the bus, and none
\* twice.
EventsInOrder == Slave!EventsInOrder

\* i2c.rs:868-873: no byte loaded for one transaction is sent in another.
NoStaleByte == Slave!NoStaleByte

\* i2c.rs:346-357, 684-686: no call of the master waits for ever, the slave
\* holds no transaction for ever, and delivers all of it.
NothingHangs == CallsReturn /\ Slave!TransactionsEnd /\ Slave!AllDelivered
=============================================================================
