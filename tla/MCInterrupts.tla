---------------------------- MODULE MCInterrupts -----------------------------
(***************************************************************************)
(* What interrupts a program and ends its sleeps.  Of what keeps time: the *)
(* timestamp and the one-shot wake on one counter, the capture channel and *)
(* the calendar.  Of what moves: the wake program with its buttons, and    *)
(* the flags of one port.  The five share no state, so that the run        *)
(* chooses one at the start.                                               *)
(*                                                                         *)
(* A counter of six values, sleeps of two and three ticks: a call can      *)
(* begin anywhere in the period and last for more than one of them, a      *)
(* sleep crosses the wrap, a target comes round again, and the tally of    *)
(* three wraps itself.  Captures: two calls of three stamps at most, and   *)
(* edges enough to miss some of them.  A calendar of three fields of two   *)
(* values each: every carry there is; two alarms, which differ in two      *)
(* registers.  The two buttons of the LaunchPad, pressed at any moment and *)
(* any number of times.  Three pins: the one a call is for, the one a      *)
(* handler serves, and a bystander.                                        *)
(***************************************************************************)
EXTENDS TimerWake

CONSTANTS MaxEdges, MaxCalls, MaxPeriods, Base, Fields, Button, Pins

ASSUME MeasuringAssumption == MaxPeriods \in Nat
ASSUME CalendarAssumption == Base \in Nat \ {0} /\ Fields \in Nat \ {0}

VARIABLES
    unit,
    cEdges, cIfg, cCov, cCcr, cEnabled, cFirst, cPc, cOp, cGoal, cTs, cStamps,
    cRetried, cFreshArm, cAnswer, cCalls, cSince, cMissed,
    rCal, rRdy, rAdvanced, rCtl, rAlarm, rPc, rK, rArg, rImage, rSnapshot,
    rStart, rSlipped, rDue, rPhantom, rRaced,
    bIfg, bIe, bGie, bAsleep, bPressed, bPc, bTaken, bDue,
    fIfg, fIe, fPc, fOp, fPin, fIsr, fImage, fDue, fRaced

Cap == INSTANCE Capture WITH
    edges <- cEdges, ifg <- cIfg, cov <- cCov, ccr <- cCcr, enabled <- cEnabled,
    first <- cFirst, pc <- cPc, op <- cOp, goal <- cGoal, ts <- cTs,
    stamps <- cStamps, retried <- cRetried, freshArm <- cFreshArm,
    answer <- cAnswer, calls <- cCalls, since <- cSince, missed <- cMissed

\* Hourly, and daily.
Off == Base
Alarms == {<<Off, 1, Off>>, <<Off, 0, 1>>}

Cal == INSTANCE Rtc WITH
    cal <- rCal, rdy <- rRdy, advanced <- rAdvanced, ctl <- rCtl, alarm <- rAlarm,
    pc <- rPc, k <- rK, arg <- rArg, image <- rImage, snapshot <- rSnapshot,
    start <- rStart, slipped <- rSlipped, due <- rDue, phantom <- rPhantom,
    raced <- rRaced

Buttons == INSTANCE ButtonWake WITH
    ifg <- bIfg, ie <- bIe, gie <- bGie, asleep <- bAsleep, pressed <- bPressed,
    pc <- bPc, taken <- bTaken, due <- bDue

Port == INSTANCE PortFlags WITH
    ifg <- fIfg, ie <- fIe, pc <- fPc, op <- fOp, pin <- fPin, isr <- fIsr,
    image <- fImage, due <- fDue, raced <- fRaced

capture == <<cEdges, cIfg, cCov, cCcr, cEnabled, cFirst, cPc, cOp, cGoal, cTs, cStamps,
             cRetried, cFreshArm, cAnswer, cCalls, cSince, cMissed>>
calendar == <<rCal, rRdy, rAdvanced, rCtl, rAlarm, rPc, rK, rArg, rImage, rSnapshot,
              rStart, rSlipped, rDue, rPhantom, rRaced>>
buttons == <<bIfg, bIe, bGie, bAsleep, bPressed, bPc, bTaken, bDue>>
port == <<fIfg, fIe, fPc, fOp, fPin, fIsr, fImage, fDue, fRaced>>
clocks == <<allTimer, capture, calendar>>
ports == <<buttons, port>>
allVars == <<unit, clocks, ports>>

OnTimer    == unit = "timer"    /\ UNCHANGED <<unit, capture, calendar, ports>>
OnCapture  == unit = "capture"  /\ UNCHANGED <<unit, allTimer, calendar, ports>>
OnCalendar == unit = "calendar" /\ UNCHANGED <<unit, allTimer, capture, ports>>
OnButtons  == unit = "buttons"  /\ UNCHANGED <<unit, clocks, port>>
OnPort     == unit = "port"     /\ UNCHANGED <<unit, clocks, buttons>>

MCInit ==
    /\ unit \in {"timer", "capture", "calendar", "buttons", "port"}
    /\ WakeInit /\ Cap!Init /\ Cal!Init /\ Buttons!Init /\ Port!Init
    /\ unit # "timer" => tar = 0 /\ ~taifg /\ interval = 2
    /\ unit # "capture" => cEdges = 0
    /\ unit # "calendar" => rCal = Cal!Midnight
    /\ unit # "buttons" => bIfg = {}
    /\ unit # "port" => fIfg = {}

MCNext ==
    \/ OnTimer /\ WakeNext
    \/ OnCapture /\ Cap!Next
    \/ OnCalendar /\ Cal!Next
    \/ OnButtons /\ Buttons!Next
    \/ OnPort /\ Port!Next

\* The counter counts, and the CPU runs: what is scheduled, the handlers, and
\* a timestamp once begun; the wake program as in its FairSpec.
MCFairness ==
    /\ WF_allVars(OnTimer /\ WakeCount)
    /\ WF_allVars(OnTimer /\ Overflow)
    /\ WF_allVars(OnTimer /\ Scheduling)
    /\ WF_allVars(OnTimer /\ WakeIsr)
    /\ WF_allVars(OnTimer /\ Masked /\ Timestamp)
    /\ WF_allVars(OnButtons /\ Buttons!Main)
    /\ \A b \in Button : WF_allVars(OnButtons /\ Buttons!PortIrq(b))

MCSpec == MCInit /\ [][MCNext]_allVars /\ MCFairness

\* A measurement that succeeds measured what it says.
MeasuredHonestly == Cap!MeasuredHonestly

\* rtc.rs:30-37: what now returns is a time that was, and what set sets is the
\* time it was given; a reader held up over the whole update is excepted.
NeverTorn == Cal!NeverTorn

\* rtc.rs:277-284: the alarm's flag is up exactly if the alarm matched since it
\* was set and nobody has taken it.
AlarmHonest == Cal!AlarmHonest

\* The wake program is well typed (TypeOK is the counter's), and never stops
\* the CPU with its interrupts off.
ButtonTypeOK == Buttons!TypeOK

\* button_wake.rs:106-111: a press is in the latch, the mask or main's copy
\* until main has acted on it.
NoPressForgotten == Buttons!NoPressForgotten

\* gpio.rs:389-394: main acts on no press there was not.
NoPhantomPress == Buttons!NoPhantomPress

\* gpio.rs:372-377, 447-452: an edge of a pin is lost only between the read and
\* the write of PxIFG on behalf of another one, and none is invented.
LostOnlyInRewrite == Port!LostOnlyInRewrite

\* power.rs:104-112: a press that is latched while the CPU sleeps ends the sleep.
PressWakes == Buttons!PressWakes
=============================================================================
