------------------------------ MODULE TimerWake ------------------------------
(***************************************************************************)
(* The one-shot wake of src/hal/src/timer.rs, CCR0 in compare mode, beside *)
(* the timestamp on the same counter: a program that takes timestamps, and *)
(* now and then reads the counter, schedules a wake, sleeps in LPM3 and    *)
(* measures the sleep, as deep_sleep_test_firmware.rs does, or thinks      *)
(* better of it and cancels.                                               *)
(*                                                                         *)
(* CCIFG rises whenever the counter reaches CCR0, also with CCIE clear:    *)
(* the target of an earlier wake comes round again once a period.          *)
(*                                                                         *)
(* age is a history variable, the ticks since the program read t0.  Two    *)
(* assumptions about the application: it is asleep within Delay ticks of   *)
(* reading t0 (GIE is set throughout, so a wake that came sooner would be  *)
(* over before the sleep), and a wake that is due is served and measured   *)
(* within Slack.                                                           *)
(***************************************************************************)
EXTENDS Counter32

CONSTANTS Interval,   \* the intervals the program sleeps for, in ticks
          Delay, Slack

ASSUME DelayAssumption ==
    /\ Delay \in Nat /\ Slack \in Nat
    /\ Interval \subseteq Nat
    /\ \A k \in Interval : Delay < k /\ Delay + k + Slack < W

VARIABLES ccr0, ccie, ccifg,    \* the compare channel
          wakeIsr,              \* TIMER0_A0
          at,                   \* where the program is
          t0, interval, target, elapsed,
          age

compare == <<ccr0, ccie, ccifg>>
program == <<t0, interval, target, elapsed>>
wakeVars == <<ccr0, ccie, ccifg, wakeIsr, at, t0, interval, target, elapsed, age>>

Plus(a, b) == IF a + b < W THEN a + b ELSE a + b - W
Minus(a, b) == IF b <= a THEN a - b ELSE a - b + W

WakeInit ==
    /\ Init
    /\ ccr0 = 0 /\ ccie = FALSE /\ ccifg = FALSE
    /\ wakeIsr = "idle"
    /\ at = "up"
    /\ t0 = 0 /\ interval \in Interval /\ target = 0 /\ elapsed = 0
    /\ age = 0
-----------------------------------------------------------------------------
Arming == at \in {"snapshot", "compare", "control", "armed"}
Due == at = "woken" \/ (at = "asleep" /\ (ccifg \/ wakeIsr # "idle"))

\* A tick of the clock, as far as the assumptions allow it.
WakeCount ==
    /\ Count
    /\ Arming => age < Delay
    /\ Due => age < Delay + interval + Slack
    /\ ccifg' = (ccifg \/ tar' = ccr0)
    /\ age' = IF at \notin {"up", "measured"} /\ age < W THEN age + 1 ELSE age
    /\ UNCHANGED <<ccr0, ccie, wakeIsr, at, program>>

\* Handlers do not nest.
Overflow ==
    /\ wakeIsr = "idle"
    /\ TallyOverflow \/ ClearOverflowIrq
    /\ UNCHANGED wakeVars

\* The program takes a timestamp.
Timestamp ==
    /\ wakeIsr = "idle"
    /\ at = "up"
    /\ Now32
    /\ UNCHANGED wakeVars

\* A step of the program: no handler runs.
Main(from, to) ==
    /\ isr = "idle" /\ wakeIsr = "idle" /\ pc = "outside"
    /\ at = from
    /\ at' = to
    /\ UNCHANGED <<vars, wakeIsr>>

ReadT0(k) ==
    /\ Main("up", "snapshot")
    /\ t0' = tar
    /\ interval' = k
    /\ age' = 0
    /\ UNCHANGED <<compare, target, elapsed>>

\* schedule_wake_in: the target, CCR0, and CCTL0 as a whole.
Target ==
    /\ Main("snapshot", "compare")
    /\ target' = Plus(tar, interval)
    /\ UNCHANGED <<compare, t0, interval, elapsed, age>>

WriteCompare ==
    /\ Main("compare", "control")
    /\ ccr0' = target
    /\ UNCHANGED <<ccie, ccifg, program, age>>

\* (mutation: the enable bit set by read-modify-write, a stale flag kept)
WriteControlModify ==
    /\ Main("control", "armed")
    /\ ccie' = TRUE
    /\ UNCHANGED <<ccr0, ccifg, program, age>>

WriteControl ==
    /\ Main("control", "armed")
    /\ ccie' = TRUE /\ ccifg' = FALSE
    /\ UNCHANGED <<ccr0, program, age>>

\* The locals of the round are gone.
Forget == t0' = 0 /\ target' = 0 /\ elapsed' = 0 /\ age' = 0 /\ UNCHANGED interval

CancelWake ==
    /\ Main("armed", "up")
    /\ ccie' = FALSE /\ ccifg' = FALSE
    /\ Forget
    /\ UNCHANGED ccr0

EnterLpm3 ==
    /\ Main("armed", "asleep")
    /\ UNCHANGED <<compare, program, age>>

\* The vector of CCR0 clears CCIFG by itself.
EnterWakeIsr ==
    /\ ccie /\ ccifg
    /\ isr = "idle" /\ wakeIsr = "idle" /\ ~Masked
    /\ wakeIsr' = "entered"
    /\ ccifg' = FALSE
    /\ UNCHANGED <<vars, ccr0, ccie, at, program, age>>

\* clear_wake_irq: the one-shot is disarmed.
ClearWakeIrq ==
    /\ wakeIsr = "entered"
    /\ wakeIsr' = "disarmed"
    /\ ccie' = FALSE
    /\ UNCHANGED <<vars, ccr0, ccifg, at, program, age>>

\* (mutation: a handler that does not end the sleep)
LeaveWakeIsrAsleep ==
    /\ wakeIsr = "disarmed"
    /\ wakeIsr' = "idle"
    /\ UNCHANGED <<vars, compare, at, program, age>>

\* wake_cpu: the low-power bits are cleared in the stacked SR.
LeaveWakeIsr ==
    /\ wakeIsr = "disarmed"
    /\ wakeIsr' = "idle"
    /\ at' = IF at = "asleep" THEN "woken" ELSE at
    /\ UNCHANGED <<vars, compare, program, age>>

Measure ==
    /\ Main("woken", "measured")
    /\ elapsed' = Minus(tar, t0)
    /\ UNCHANGED <<compare, t0, interval, target, age>>

Judge ==
    /\ Main("measured", "up")
    /\ Forget
    /\ UNCHANGED compare

Scheduling ==
    \/ Target \/ WriteCompare \/ WriteControl
    \/ CancelWake \/ EnterLpm3 \/ Measure \/ Judge

WakeIsr == EnterWakeIsr \/ ClearWakeIrq \/ LeaveWakeIsr

WakeNext ==
    \/ WakeCount \/ Overflow \/ Timestamp
    \/ (\E k \in Interval : ReadT0(k)) \/ Scheduling
    \/ WakeIsr

allTimer == <<vars, wakeVars>>

WakeSpec == WakeInit /\ [][WakeNext]_allTimer
-----------------------------------------------------------------------------
WakeTypeOK ==
    /\ ccr0 \in Tick /\ ccie \in BOOLEAN /\ ccifg \in BOOLEAN
    /\ wakeIsr \in {"idle", "entered", "disarmed"}
    /\ at \in {"up", "snapshot", "compare", "control", "armed", "asleep",
               "woken", "measured"}
    /\ t0 \in Tick /\ interval \in Interval /\ target \in Tick
    /\ elapsed \in Tick /\ age \in 0 .. W

\* timer.rs:325-338: the wake comes when its interval has passed, never on the
\* flag an earlier target left behind, and never to a program that did not ask
\* for it or has cancelled; and what the program measures is the time that
\* really passed, across a wrap of the counter too.
WakesOnTime ==
    /\ wakeIsr # "idle" => at = "asleep" /\ interval <= age
    /\ at = "measured" => elapsed = age /\ interval <= age

\* power.rs:73-82: a program that went to sleep on a scheduled wake is woken.
SleepEnds == at = "asleep" ~> at = "woken"
=============================================================================
