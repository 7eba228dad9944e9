-------------------------------- MODULE Rtc ----------------------------------
(***************************************************************************)
(* The calendar and the alarm of src/hal/src/rtc.rs: now, set, set_alarm,  *)
(* disable_alarm, enable_alarm_interrupt, clear_alarm_irq and attach, each *)
(* register access a step, while the clock goes on and the RTC handler     *)
(* takes the alarm.                                                        *)
(*                                                                         *)
(* The calendar has Fields fields, the lowest first, of Base values each.  *)
(* Around an update RTCRDY is low and a read returns anything.  RTCCTL01   *)
(* holds controls and flags alike: the driver rewrites it as a whole, from *)
(* an image that it read before.                                           *)
(*                                                                         *)
(* History variables: start is the calendar when now first found it ready; *)
(* slipped, that RTCRDY went low and came back since; due, that the alarm  *)
(* set has matched and nobody has taken it; phantom, that the handler took *)
(* one that was not due; raced, that a flag rose or was taken between a    *)
(* read of RTCCTL01 and the write, since an alarm was set.                 *)
(***************************************************************************)
EXTENDS Integers, FiniteSets

CONSTANTS Base, Fields,
          Alarms   \* the alarms the program sets

VARIABLES
    cal, rdy, advanced,   \* the calendar, RTCRDY, this update took place
    ctl,                  \* RTCCTL01: the bits that are set
    alarm,                \* RTCAMIN ...
    pc, k, arg,           \* the driver, the next field, what it is to write
    image,                \* RTCCTL01 as it was read
    snapshot,
    start, slipped, due, phantom, raced

clock == <<cal, rdy, advanced>>
driver == <<pc, k, arg>>
marks == <<start, slipped>>
alarmMarks == <<due, phantom, raced>>
vars == <<cal, rdy, advanced, ctl, alarm, pc, k, arg, image, snapshot, start,
          slipped, due, phantom, raced>>

Field == 1 .. Fields
Digit == 0 .. Base - 1
Calendar == [Field -> Digit]
Midnight == [f \in Field |-> 0]

\* A field of the alarm is compared only if its AE bit is set.  Seconds are
\* never.
Off == Base
NoAlarm == [f \in Field |-> Off]

Matches(c, a) == a # NoAlarm /\ \A f \in Field : a[f] \in {Off, c[f]}

Init ==
    /\ cal \in Calendar /\ rdy = TRUE /\ advanced = FALSE
    /\ ctl = {} /\ alarm = NoAlarm
    /\ pc = "idle" /\ k = 1 /\ arg = Midnight
    /\ image = {} /\ snapshot = Midnight
    /\ start = Midnight /\ slipped = FALSE
    /\ due = FALSE /\ phantom = FALSE /\ raced = FALSE
-----------------------------------------------------------------------------
Programming == pc \in {"write_alarm", "read_flag", "write_flag"}
Rewriting == pc \in {"write_hold", "write_release", "write_aie", "write_enable",
                     "write_flag", "write_clear"}

\* Silicon: RTCRDY goes low, the fields move together, RTCRDY comes back.
Dip ==
    /\ rdy /\ "hold" \notin ctl
    /\ rdy' = FALSE /\ advanced' = FALSE
    /\ UNCHANGED <<cal, ctl, alarm, driver, image, snapshot, marks, alarmMarks>>

Following(c) ==
    [f \in Field |-> IF \A g \in 1 .. f - 1 : c[g] = Base - 1
                     THEN (c[f] + 1) % Base ELSE c[f]]

MinuteIncrement == cal'[1] = 0

\* The alarm is compared at every minute increment.
Advance ==
    /\ ~rdy /\ ~advanced /\ "hold" \notin ctl
    /\ cal' = Following(cal)
    /\ advanced' = TRUE
    /\ LET match == MinuteIncrement /\ Matches(cal', alarm) IN
         /\ ctl' = IF match THEN ctl \cup {"aifg"} ELSE ctl
         /\ due' = (due \/ (match /\ ~Programming))
         /\ raced' = (raced \/ (match /\ Rewriting))
    /\ UNCHANGED <<rdy, alarm, driver, image, snapshot, marks, phantom>>

Recover ==
    /\ ~rdy /\ (advanced \/ "hold" \in ctl)
    /\ rdy' = TRUE
    /\ slipped' = (slipped \/ pc \in {"read", "confirm"})
    /\ UNCHANGED <<cal, advanced, ctl, alarm, driver, image, snapshot, start, alarmMarks>>

\* The RTC vector: read_iv reports the alarm and clears its flag.
RtcIrq ==
    /\ {"aie", "aifg"} \subseteq ctl
    /\ ctl' = ctl \ {"aifg"}
    /\ due' = FALSE
    /\ phantom' = (phantom \/ (~due /\ ~raced))
    /\ raced' = (raced \/ Rewriting)
    /\ UNCHANGED <<clock, alarm, driver, image, snapshot, marks>>
-----------------------------------------------------------------------------
Go(from, to) == pc = from /\ pc' = to

\* now: both looks at RTCRDY, and the fields one by one in between.
Now ==
    /\ Go("idle", "ready")
    /\ UNCHANGED <<clock, ctl, alarm, k, arg, image, snapshot, marks, alarmMarks>>

Ready ==
    /\ rdy
    /\ Go("ready", "read")
    /\ start' = cal /\ slipped' = FALSE
    /\ UNCHANGED <<clock, ctl, alarm, k, arg, image, snapshot, alarmMarks>>

ReadCalendar ==
    /\ \/ k < Fields /\ Go("read", "read") /\ k' = k + 1
       \/ k = Fields /\ Go("read", "confirm") /\ k' = 1
    /\ \E d \in Digit :
         /\ rdy => d = cal[k]
         /\ snapshot' = [snapshot EXCEPT ![k] = d]
    /\ UNCHANGED <<clock, ctl, alarm, arg, image, marks, alarmMarks>>

\* (mutation: no second look)
ConfirmNothing ==
    /\ Go("confirm", "return")
    /\ UNCHANGED <<clock, ctl, alarm, k, arg, image, snapshot, marks, alarmMarks>>

Confirm ==
    /\ \/ rdy /\ Go("confirm", "return")
       \/ ~rdy /\ Go("confirm", "ready")
    /\ UNCHANGED <<clock, ctl, alarm, k, arg, image, snapshot, marks, alarmMarks>>

Return ==
    /\ Go("return", "idle")
    /\ snapshot' = Midnight /\ start' = Midnight /\ slipped' = FALSE
    /\ UNCHANGED <<clock, ctl, alarm, k, arg, image, alarmMarks>>
-----------------------------------------------------------------------------
\* RTCCTL01 is read, and later written with some bits of the image set and
\* others clear.
ReadCtl(from, to) ==
    /\ Go(from, to)
    /\ image' = ctl
    /\ UNCHANGED <<clock, ctl, alarm, k, arg, snapshot, marks, alarmMarks>>

WriteCtl(from, to, set, clear) ==
    /\ Go(from, to)
    /\ ctl' = (image \cup set) \ clear
    /\ image' = {}
    /\ UNCHANGED <<clock, alarm, k, arg, snapshot, marks>>

\* set: hold the counter, write the fields, release it.
Set(dt) ==
    /\ Go("idle", "read_hold")
    /\ arg' = dt
    /\ UNCHANGED <<clock, ctl, alarm, k, image, snapshot, marks, alarmMarks>>

\* (mutation: the fields written under a clock that goes on)
HoldNothing ==
    \/ ReadCtl("read_hold", "write_hold")
    \/ WriteCtl("write_hold", "write_calendar", {}, {}) /\ UNCHANGED alarmMarks

Hold ==
    \/ ReadCtl("read_hold", "write_hold")
    \/ WriteCtl("write_hold", "write_calendar", {"hold"}, {}) /\ UNCHANGED alarmMarks

WriteCalendar ==
    /\ \/ k < Fields /\ Go("write_calendar", "write_calendar") /\ k' = k + 1
       \/ k = Fields /\ Go("write_calendar", "read_release") /\ k' = 1
    /\ cal' = [cal EXCEPT ![k] = arg[k]]
    /\ UNCHANGED <<rdy, advanced, ctl, alarm, arg, image, snapshot, marks, alarmMarks>>

Release ==
    \/ ReadCtl("read_release", "write_release")
    \/ /\ Go("write_release", "idle")
       /\ ctl' = image \ {"hold"}
       /\ image' = {} /\ arg' = Midnight
       /\ UNCHANGED <<clock, alarm, k, snapshot, marks, alarmMarks>>

\* LPM3.5 ends in a reset: the calendar stands held, the flag is kept, the
\* enables are gone; attach lets it go on.
WakeAttach ==
    /\ Go("idle", "read_release")
    /\ ctl' = (ctl \cup {"hold"}) \ {"aie"}
    /\ UNCHANGED <<clock, alarm, k, arg, image, snapshot, marks, alarmMarks>>

\* set_alarm, and disable_alarm, which writes an alarm with nothing enabled.
SetAlarm(a) ==
    /\ Go("idle", "read_aie")
    /\ arg' = a
    /\ UNCHANGED <<clock, ctl, alarm, k, image, snapshot, marks, alarmMarks>>

\* (mutation: the alarm reprogrammed with its interrupt on)
DisableNothing ==
    \/ ReadCtl("read_aie", "write_aie")
    \/ WriteCtl("write_aie", "write_alarm", {}, {}) /\ UNCHANGED alarmMarks

DisableAie ==
    \/ ReadCtl("read_aie", "write_aie")
    \/ WriteCtl("write_aie", "write_alarm", {}, {"aie"}) /\ UNCHANGED alarmMarks

WriteAlarm ==
    /\ \/ k < Fields /\ Go("write_alarm", "write_alarm") /\ k' = k + 1
       \/ k = Fields /\ Go("write_alarm", "read_flag") /\ k' = 1
    /\ alarm' = [alarm EXCEPT ![k] = arg[k]]
    /\ UNCHANGED <<clock, ctl, arg, image, snapshot, marks, alarmMarks>>

\* (mutation: the latch of a half-written alarm is kept)
ScrubNothing ==
    /\ Go("read_flag", "idle")
    /\ arg' = Midnight
    /\ due' = FALSE /\ phantom' = FALSE /\ raced' = FALSE
    /\ UNCHANGED <<clock, ctl, alarm, k, image, snapshot, marks>>

\* The flag is cleared last: whatever matched before does not count.
ScrubFlag ==
    \/ ReadCtl("read_flag", "write_flag")
    \/ /\ Go("write_flag", "idle")
       /\ ctl' = image \ {"aifg"}
       /\ image' = {} /\ arg' = Midnight
       /\ due' = FALSE /\ raced' = FALSE
       /\ UNCHANGED <<clock, alarm, k, snapshot, marks, phantom>>

EnableAlarmInterrupt ==
    \/ ReadCtl("idle", "write_enable")
    \/ WriteCtl("write_enable", "idle", {"aie"}, {}) /\ UNCHANGED alarmMarks

\* clear_alarm_irq, by a program that polls the flag and has seen it.
ClearAlarmIrq ==
    \/ {"aie", "aifg"} \cap ctl = {"aifg"} /\ ReadCtl("idle", "write_clear")
    \/ /\ WriteCtl("write_clear", "idle", {}, {"aifg"})
       /\ due' = FALSE
       /\ UNCHANGED <<phantom, raced>>

Call ==
    \/ Now
    \/ \E dt \in Calendar : Set(dt)
    \/ \E a \in Alarms \cup {NoAlarm} : SetAlarm(a)
    \/ WakeAttach

Next ==
    \/ Dip \/ Advance \/ Recover \/ RtcIrq
    \/ Call
    \/ Ready \/ ReadCalendar \/ Confirm \/ Return
    \/ Hold \/ WriteCalendar \/ Release
    \/ DisableAie \/ WriteAlarm \/ ScrubFlag
    \/ EnableAlarmInterrupt \/ ClearAlarmIrq

Spec == Init /\ [][Next]_vars
-----------------------------------------------------------------------------
\* rtc.rs:30-37: what now returns is a time that was; it is the time now found
\* when it first looked, and no field of it is of another second.  And set
\* sets the time it was given (the arg of an attach is midnight).  Excepted is
\* a reader held up over the whole time RTCRDY is low (slipped), whose two
\* looks cannot tell.
NeverTorn ==
    /\ pc = "return" /\ ~slipped => snapshot = start
    /\ pc = "write_release" /\ arg # Midnight => cal = arg

\* rtc.rs:277-284: once an alarm is set, its flag is up exactly if the alarm
\* matched since and nobody has taken it; no handler is called for an alarm
\* half written.
AlarmHonest ==
    /\ ~phantom
    /\ ~Rewriting /\ ~Programming /\ ~raced => ("aifg" \in ctl <=> due)
=============================================================================
