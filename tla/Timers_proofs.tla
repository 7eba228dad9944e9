---------------------------- MODULE Timers_proofs ----------------------------
(***************************************************************************)
(* What keeps time.                                                        *)
(*                                                                         *)
(* The timestamp, for every width of the counter and of the tally.         *)
(* Linearizable is not inductive: what makes the result right is where the *)
(* snapshots stand while the call is still reading.  Inv says it: the tally*)
(* snapshot is the tally (the handler is masked), a count read before the  *)
(* flag is a time of the window as long as no wrap is pending, and once    *)
(* the flag has been seen it stays set until the call returns.             *)
(*                                                                         *)
(* The wake on CCR0 leaves the timestamp alone, and comes on time, for     *)
(* every width of the counter and every interval that fits in it.          *)
(*                                                                         *)
(* The capture channel (Cap), for any number of edges and of calls.  What  *)
(* a successful call returns is tied to what the channel saw: ChannelInv   *)
(* says what CCR, CCIFG and COV tell of the edges since the clear, FirstInv*)
(* and SumInv that the stamps and the missed edges add up, PulseInv that a *)
(* duty cycle starts on the edge it should.                                *)
(*                                                                         *)
(* The calendar and the alarm (Cal), for any number of fields and any      *)
(* base, and any set of alarms.                                            *)
(***************************************************************************)
EXTENDS MCInterrupts, SequenceTheorems, TLAPS

\* Where the reads of a call in progress stand.
Reading ==
    /\ pc # "outside" => isr = "idle" /\ <<laps, tar>> \in window
    /\ pc \in {"count", "flag"} => ovf = overflows
    /\ pc = "flag" /\ ~taifg => <<ovf, cnt>> \in window
    /\ pc = "recount" => taifg /\ ovf = NextLap(overflows)
    /\ pc = "assemble" => <<ovf, cnt>> \in window

Handling == isr = "tallied" => taifg

Inv == TypeOK /\ TallyFollows /\ Reading /\ Handling /\ Linearizable

LEMMA NextLapType == ASSUME NEW h \in Lap PROVE NextLap(h) \in Lap
  BY WidthAssumption DEF Lap, NextLap

LEMMA ZeroTypes == 0 \in Lap /\ 0 \in Tick
  BY WidthAssumption DEF Lap, Tick

LEMMA InitInv == Init => Inv
  BY ZeroTypes, NextLapType
  DEF Init, Inv, TypeOK, TallyFollows, Reading, Handling, Linearizable

\* A tick keeps the invariant: the time it makes joins the window of a call
\* in progress, and a wrap raises the flag the call has yet to look at.
LEMMA CountInv == Inv /\ Count => Inv'
<1> SUFFICES ASSUME Inv, Count PROVE Inv'
  OBVIOUS
<1> USE DEF Inv, TypeOK, hardware, handler, caller
<1>1. tar' \in Tick /\ laps' \in Lap /\ taifg' \in BOOLEAN
  <2>1. tar' \in Tick
    BY WidthAssumption DEF Count, Tick
  <2>2. laps' \in Lap
    <3>1. NextLap(laps) \in Lap
      BY NextLapType
    <3> QED BY <3>1 DEF Count
  <2>3. taifg' \in BOOLEAN
    BY Zenon DEF Count
  <2> QED BY <2>1, <2>2, <2>3
<1>2. window' \subseteq Lap \X Tick
  BY <1>1 DEF Count
<1>3. TypeOK'
  BY <1>1, <1>2 DEF Count
<1>4. TallyFollows'
  BY DEF Count, TallyFollows, Handling
<1>5. Masked => window' = window \cup {<<laps', tar'>>}
  BY DEF Count
<1>6. taifg => taifg'
  BY DEF Count
<1>7. Reading'
  BY <1>5, <1>6 DEF Count, Reading, Masked
<1>8. Handling'
  BY <1>6 DEF Count, Handling
<1>9. Linearizable'
  BY <1>5 DEF Count, Linearizable, Masked
<1> QED BY <1>3, <1>4, <1>7, <1>8, <1>9

\* The handler keeps it: it runs outside the critical section only, and
\* moves the wrap from the flag to the tally.
LEMMA HandlerInv == Inv /\ (TallyOverflow \/ ClearOverflowIrq) => Inv'
<1> SUFFICES ASSUME Inv, TallyOverflow \/ ClearOverflowIrq PROVE Inv'
  OBVIOUS
<1> USE DEF Inv, TypeOK, hardware, handler, caller
<1>1. CASE TallyOverflow
  <2>1. overflows' \in Lap
    BY <1>1, NextLapType DEF TallyOverflow
  <2>2. pc = "outside" /\ pc' = "outside"
    BY <1>1 DEF TallyOverflow, Masked
  <2>3. TallyFollows'
    BY <1>1 DEF TallyOverflow, TallyFollows
  <2> QED
    BY <1>1, <2>1, <2>2, <2>3
    DEF TallyOverflow, Reading, Handling, Linearizable
<1>2. CASE ClearOverflowIrq
  <2>1. pc = "outside" /\ pc' = "outside"
    BY <1>2 DEF ClearOverflowIrq, Reading
  <2>2. TallyFollows'
    BY <1>2 DEF ClearOverflowIrq, TallyFollows
  <2> QED
    BY <1>2, <2>1, <2>2 DEF ClearOverflowIrq, Reading, Handling, Linearizable
<1> QED BY <1>1, <1>2

\* Each read of the call keeps it.
LEMMA CallInv == Inv /\ Now32 => Inv'
<1> SUFFICES ASSUME Inv, Now32 PROVE Inv'
  OBVIOUS
<1> USE DEF Inv, TypeOK, Handling, hardware, handler, caller
<1>1. CASE Enter
  BY <1>1 DEF Enter, TallyFollows, Reading, Linearizable
<1>2. CASE ReadCount
  <2>1. ~taifg => <<ovf, tar>> \in window
    BY <1>2 DEF ReadCount, TallyFollows, Reading
  <2> QED
    BY <1>2, <2>1 DEF ReadCount, TallyFollows, Reading, Linearizable
<1>3. CASE ReadFlag
  <2>1. ovf' \in Lap
    BY <1>3, NextLapType DEF ReadFlag
  <2> QED
    BY <1>3, <2>1 DEF ReadFlag, TallyFollows, Reading, Linearizable
<1>4. CASE Recount
  <2>1. <<ovf, tar>> \in window
    BY <1>4 DEF Recount, TallyFollows, Reading
  <2> QED
    BY <1>4, <2>1 DEF Recount, TallyFollows, Reading, Linearizable
<1>5. CASE Assemble
  BY <1>5 DEF Assemble, TallyFollows, Reading, Linearizable
<1>6. CASE Leave
  <2>1. <<0, 0>> \in Lap \X Tick /\ 0 \in Lap /\ 0 \in Tick
    BY ZeroTypes
  <2>2. TypeOK'
    BY <1>6, <2>1 DEF Leave
  <2> QED
    BY <1>6, <2>2 DEF Leave, TallyFollows, Reading, Linearizable
<1> QED BY <1>1, <1>2, <1>3, <1>4, <1>5, <1>6 DEF Now32

LEMMA StutterInv == Inv /\ UNCHANGED vars => Inv'
  BY DEF vars, Inv, TypeOK, TallyFollows, Reading, Handling, Linearizable,
         NextLap

\* The invariant holds of every behaviour.
THEOREM InvHolds == Spec => []Inv
<1>1. Inv /\ [Next]_vars => Inv'
  BY CountInv, HandlerInv, CallInv, StutterInv DEF Next
<1> QED BY InitInv, <1>1, PTL DEF Spec

\* Every variable keeps its type for every width (timer.rs, Counter).
THEOREM TypeCorrect == Spec => []TypeOK
  BY InvHolds, PTL DEF Inv

\* No wrap is counted twice or forgotten (the TIMER0_A1 handler).
THEOREM TallyCorrect == Spec => []TallyFollows
  BY InvHolds, PTL DEF Inv

\* now32 returns a time between its call and its return, for every width of
\* the counter and every interleaving of ticks, wraps and reads.
THEOREM Now32Correct == Spec => []Linearizable
  BY InvHolds, PTL DEF Inv
-----------------------------------------------------------------------------
\* The wake beside it.
LEMMA StepImplements == WakeNext => [Next]_vars
<1> SUFFICES ASSUME WakeNext PROVE [Next]_vars
  OBVIOUS
<1>1. CASE WakeCount
  BY <1>1 DEF WakeCount, Next
<1>2. CASE Overflow
  BY <1>2 DEF Overflow, Next
<1>3. CASE Timestamp
  BY <1>3 DEF Timestamp, Next
<1>4. CASE \E k \in Interval : ReadT0(k)
  BY <1>4 DEF ReadT0, Main
<1>5. CASE Scheduling
  BY <1>5
  DEF Scheduling, Target, WriteCompare, WriteControl, CancelWake, EnterLpm3,
      Measure, Judge, Main
<1>6. CASE WakeIsr
  BY <1>6 DEF WakeIsr, EnterWakeIsr, ClearWakeIrq, LeaveWakeIsr
<1> QED BY <1>1, <1>2, <1>3, <1>4, <1>5, <1>6 DEF WakeNext

\* With wakes scheduled, taken and cancelled beside it, the timestamp behaves
\* as if they were not there: a program with wakes implements the one without.
THEOREM WakeImplementsCounter == WakeSpec => Spec
<1>1. WakeInit => Init
  BY DEF WakeInit
<1>2. [WakeNext]_allTimer => [Next]_vars
  BY StepImplements DEF allTimer
<1> QED BY <1>1, <1>2, PTL DEF WakeSpec, Spec
-----------------------------------------------------------------------------
\* The arithmetic of the counter, which wraps at most once during a sleep.
LEMMA PlusType == ASSUME NEW a \in Tick, NEW b \in Tick PROVE Plus(a, b) \in Tick
  BY WidthAssumption DEF Plus, Tick

LEMMA MinusType == ASSUME NEW a \in Tick, NEW b \in Tick PROVE Minus(a, b) \in Tick
  BY WidthAssumption DEF Minus, Tick

LEMMA PlusInjective ==
    ASSUME NEW a \in Tick, NEW b \in Tick, NEW c \in Tick, Plus(a, b) = Plus(a, c)
    PROVE  b = c
  BY WidthAssumption DEF Plus, Tick

LEMMA MinusPlus ==
    ASSUME NEW a \in Tick, NEW b \in Tick PROVE Minus(Plus(a, b), a) = b
  BY WidthAssumption DEF Plus, Minus, Tick

LEMMA PlusPlus ==
    ASSUME NEW a \in Tick, NEW b \in Tick, NEW c \in Tick, b + c \in Tick
    PROVE  Plus(Plus(a, b), c) = Plus(a, b + c)
  BY WidthAssumption DEF Plus, Tick

LEMMA CountPlus ==
    ASSUME Count, tar \in Tick, NEW a \in Tick, NEW b \in Tick,
           tar = Plus(a, b), b + 1 \in Tick
    PROVE  tar' = Plus(a, b + 1)
  BY WidthAssumption DEF Count, Plus, Tick

\* The age at which the counter reaches the target.
Aim == Minus(target, t0)

Latest == Delay + interval + Slack

LEMMA LatestFits == interval \in Interval => Latest \in Tick /\ Delay < interval
                                             /\ interval \in Nat
  BY WidthAssumption, DelayAssumption DEF Latest, Tick

\* Nothing is armed, and no handler runs, but for a program about to sleep.
Quiet ==
    /\ at \notin {"armed", "asleep"} => ~ccie
    /\ wakeIsr # "idle" => at = "asleep"
    /\ wakeIsr = "disarmed" => ~ccie

\* Between reading t0 and measuring, age is the way the counter has come.
Aged ==
    /\ at \notin {"up", "measured"} => age <= Latest /\ tar = Plus(t0, age)
    /\ Arming => age <= Delay
    /\ at = "measured" => elapsed = age

\* The target is interval to interval + Delay away from t0.
Aimed ==
    /\ at \in {"compare", "control", "armed", "asleep"} =>
          /\ target = Plus(t0, Aim)
          /\ interval <= Aim /\ Aim <= interval + Delay
    /\ at \in {"control", "armed", "asleep"} => ccr0 = target

\* The flag of an armed channel is that of its own target.
Flagged ==
    /\ at = "armed" => ccie /\ ~ccifg
    /\ at = "asleep" =>
          /\ wakeIsr = "idle" => ccie
          /\ ccifg \/ wakeIsr # "idle" => Aim <= age
          /\ ~ccifg /\ wakeIsr = "idle" => age < Aim
    /\ at \in {"woken", "measured"} => interval <= age

WakeInv == WakeTypeOK /\ Quiet /\ Aged /\ Aimed /\ Flagged

LEMMA WakeInitInv == WakeInit => WakeInv
<1> SUFFICES ASSUME WakeInit PROVE WakeInv
  OBVIOUS
<1>1. WakeTypeOK
  <2>1. ccie \in BOOLEAN /\ ccifg \in BOOLEAN
    BY Zenon DEF WakeInit
  <2>2. age \in 0 .. W
    BY WidthAssumption DEF WakeInit
  <2> QED BY <2>1, <2>2, ZeroTypes DEF WakeInit, WakeTypeOK
<1>2. Quiet /\ Aged /\ Aimed /\ Flagged
  BY DEF WakeInit, Quiet, Aged, Aimed, Flagged, Arming
<1> QED BY <1>1, <1>2 DEF WakeInv

LEMMA WakeCountInv == TypeOK /\ WakeInv /\ WakeCount => WakeInv'
<1> SUFFICES ASSUME TypeOK, WakeInv, WakeCount PROVE WakeInv'
  OBVIOUS
<1> USE DEF WakeInv
<1>1. /\ tar \in Tick /\ t0 \in Tick /\ target \in Tick /\ interval \in Interval
      /\ age \in 0 .. W
  BY DEF TypeOK, WakeTypeOK
<1>2. /\ at' = at /\ wakeIsr' = wakeIsr /\ ccr0' = ccr0 /\ ccie' = ccie
      /\ t0' = t0 /\ interval' = interval /\ target' = target /\ elapsed' = elapsed
  BY DEF WakeCount, program
<1>3. ccifg' <=> ccifg \/ tar' = ccr0
  BY DEF WakeCount
<1>4. Latest \in Tick /\ Delay < interval /\ interval \in Nat
  BY <1>1, LatestFits
<1>5. ccifg' \in BOOLEAN
  BY DEF WakeCount
<1>6. age' \in 0 .. W
  BY <1>1, WidthAssumption DEF WakeCount
<1>7. WakeTypeOK'
  BY <1>2, <1>5, <1>6 DEF WakeTypeOK
<1>8. Quiet'
  BY <1>2 DEF Quiet
<1>9. CASE at \in {"up", "measured"}
  <2>1. age' = age
    BY <1>9 DEF WakeCount
  <2> QED
    BY <1>2, <1>7, <1>8, <1>9, <2>1 DEF Aged, Aimed, Flagged, Arming
<1>10. CASE at \notin {"up", "measured"}
  <2>1. age <= Latest /\ tar = Plus(t0, age)
    BY <1>10 DEF Aged
  <2>2. age < W /\ age' = age + 1
    BY <1>1, <1>4, <1>10, <2>1, WidthAssumption DEF WakeCount, Tick
  <2>3. Aim \in Tick /\ Aim' = Aim
    BY <1>1, <1>2, MinusType DEF Aim
  <2>4. at = "asleep" /\ ~Due => age < Aim /\ Aim <= Latest
    BY <1>1, <1>4, <2>3, DelayAssumption DEF Aimed, Flagged, Due, Latest, Tick
  <2>5. age' <= Latest
    <3>1. CASE Arming
      BY <1>1, <1>4, <2>2, <3>1, DelayAssumption DEF WakeCount, Latest
    <3>2. CASE Due
      BY <1>1, <1>4, <2>2, <3>2, DelayAssumption DEF WakeCount, Latest
    <3>3. CASE ~Arming /\ ~Due
      <4>1. at = "asleep"
        BY <1>10, <3>3 DEF Arming, Due, WakeTypeOK
      <4>2. Latest \in Nat /\ Aim \in Nat
        BY <1>4, <2>3 DEF Tick
      <4> QED BY <1>1, <2>2, <2>4, <3>3, <4>1, <4>2
    <3> QED BY <3>1, <3>2, <3>3
  <2>6. age \in Tick /\ age + 1 \in Tick
    BY <1>1, <1>4, <2>2, <2>5, WidthAssumption DEF Tick
  <2>7. tar' = Plus(t0, age')
    BY <1>1, <2>1, <2>2, <2>6, CountPlus DEF WakeCount
  <2>8. Arming' => age' <= Delay
    BY <1>1, <1>2, <2>2, DelayAssumption DEF WakeCount, Arming
  <2>9. Latest' = Latest
    BY <1>2 DEF Latest
  <2>10. Aged'
    BY <1>2, <1>10, <2>5, <2>7, <2>8, <2>9 DEF Aged
  <2>11. Aimed'
    BY <1>2, <2>3 DEF Aimed
  <2>12. at \in {"control", "armed", "asleep"} => (tar' = ccr0 <=> age' = Aim)
    BY <1>1, <2>2, <2>3, <2>6, <2>7, PlusInjective DEF Aimed
  <2>13. at = "armed" => age' < Aim
    BY <1>1, <1>2, <1>4, <2>2, <2>3, <2>8, DelayAssumption DEF Aimed, Arming, Tick
  <2>14. Flagged'
    BY <1>1, <1>2, <1>3, <1>4, <1>10, <2>2, <2>3, <2>12, <2>13
    DEF Flagged, Tick
  <2> QED BY <1>7, <1>8, <2>10, <2>11, <2>14
<1> QED BY <1>9, <1>10

\* Steps of the timestamp leave the wake alone.
LEMMA BesideInv == WakeInv /\ (Overflow \/ Timestamp) => WakeInv'
<1> SUFFICES ASSUME WakeInv, Overflow \/ Timestamp PROVE WakeInv'
  OBVIOUS
<1>1. UNCHANGED wakeVars
  BY DEF Overflow, Timestamp
<1>2. tar' = tar
  BY DEF Overflow, Timestamp, TallyOverflow, ClearOverflowIrq, Now32, Enter,
         ReadCount, ReadFlag, Recount, Assemble, Leave, hardware, handler
<1> QED
  BY <1>1, <1>2
  DEF wakeVars, WakeInv, WakeTypeOK, Quiet, Aged, Aimed, Flagged, Arming, Aim,
      Latest, Minus, Plus

\* The program reads t0: the age is nothing.
LEMMA ReadT0Inv ==
    ASSUME TypeOK, WakeInv, NEW k \in Interval, ReadT0(k) PROVE WakeInv'
<1> USE DEF WakeInv
<1>1. /\ at = "up" /\ at' = "snapshot" /\ wakeIsr = "idle" /\ wakeIsr' = "idle"
      /\ t0' = tar /\ interval' = k /\ age' = 0 /\ tar' = tar
      /\ ccr0' = ccr0 /\ ccie' = ccie /\ ccifg' = ccifg
      /\ target' = target /\ elapsed' = elapsed
  BY DEF ReadT0, Main, compare, vars
<1>2. tar \in Tick /\ 0 \in 0 .. W
  BY WidthAssumption DEF TypeOK
<1>3. WakeTypeOK'
  BY <1>1, <1>2 DEF WakeTypeOK
<1>4. Quiet'
  BY <1>1 DEF Quiet
<1>5. Latest' \in Nat
  BY <1>1, DelayAssumption DEF Latest
<1>6. Plus(tar, 0) = tar
  BY <1>2, WidthAssumption DEF Plus, Tick
<1>7. Aged'
  BY <1>1, <1>5, <1>6, DelayAssumption DEF Aged, Arming
<1>8. Aimed' /\ Flagged'
  BY <1>1 DEF Aimed, Flagged
<1> QED BY <1>3, <1>4, <1>7, <1>8

\* schedule_wake_in aims at a tick that is still to come when it is done.
LEMMA ScheduleInv ==
    TypeOK /\ WakeInv /\ (Target \/ WriteCompare \/ WriteControl) => WakeInv'
<1> SUFFICES ASSUME TypeOK, WakeInv, Target \/ WriteCompare \/ WriteControl
             PROVE  WakeInv'
  OBVIOUS
<1> USE DEF WakeInv
<1>1. /\ at' # "up" /\ wakeIsr = "idle" /\ wakeIsr' = "idle" /\ tar' = tar
      /\ t0' = t0 /\ interval' = interval /\ age' = age /\ elapsed' = elapsed
      /\ at \in {"snapshot", "compare", "control"}
  BY DEF Target, WriteCompare, WriteControl, Main, vars, program
<1>2. /\ tar \in Tick /\ t0 \in Tick /\ target \in Tick /\ interval \in Interval
      /\ age \in 0 .. W
  BY DEF TypeOK, WakeTypeOK
<1>3. Latest \in Tick /\ Latest' = Latest /\ Delay < interval /\ interval \in Nat
  BY <1>1, <1>2, LatestFits DEF Latest
<1>4. tar = Plus(t0, age) /\ age <= Delay
  BY <1>1 DEF Aged, Arming
<1>5. CASE Target
  <2>1. /\ at' = "compare" /\ target' = Plus(tar, interval)
        /\ ccr0' = ccr0 /\ ccie' = ccie /\ ccifg' = ccifg
    BY <1>5 DEF Target, Main, compare
  <2>2. age \in Tick /\ interval \in Tick /\ age + interval \in Tick
    BY <1>2, <1>3, <1>4, DelayAssumption, WidthAssumption DEF Latest, Tick
  <2>3. target' = Plus(t0, age + interval)
    BY <1>2, <1>4, <2>1, <2>2, PlusPlus
  <2>4. Aim' = age + interval
    BY <1>1, <1>2, <2>2, <2>3, MinusPlus DEF Aim
  <2>5. target' \in Tick
    BY <1>2, <2>2, <2>3, PlusType
  <2>6. WakeTypeOK'
    BY <1>1, <2>1, <2>5 DEF WakeTypeOK
  <2>7. Aimed'
    BY <1>1, <1>2, <1>3, <1>4, <2>1, <2>3, <2>4, DelayAssumption DEF Aimed
  <2>8. Quiet' /\ Aged' /\ Flagged'
    BY <1>1, <1>3, <2>1 DEF Quiet, Aged, Flagged, Arming
  <2> QED BY <2>6, <2>7, <2>8
<1>6. CASE WriteCompare
  <2>1. /\ at = "compare" /\ at' = "control" /\ target' = target
        /\ ccr0' = target /\ ccie' = ccie /\ ccifg' = ccifg
    BY <1>6 DEF WriteCompare, Main, program
  <2>2. WakeTypeOK'
    BY <1>1, <1>2, <2>1 DEF WakeTypeOK
  <2>3. Aim' = Aim
    BY <1>1, <2>1 DEF Aim
  <2> QED
    BY <1>1, <1>3, <2>1, <2>2, <2>3 DEF Quiet, Aged, Aimed, Flagged, Arming
<1>7. CASE WriteControl
  <2>1. /\ at = "control" /\ at' = "armed" /\ target' = target
        /\ ccr0' = ccr0 /\ ccie' = TRUE /\ ccifg' = FALSE
    BY <1>7 DEF WriteControl, Main, program
  <2>2. ccie' \in BOOLEAN /\ ccifg' \in BOOLEAN /\ ccie' /\ ~ccifg'
    BY Zenon, <2>1
  <2>3. WakeTypeOK'
    BY <1>1, <2>1, <2>2 DEF WakeTypeOK
  <2>4. Aim' = Aim
    BY <1>1, <2>1 DEF Aim
  <2> QED
    BY <1>1, <1>3, <2>1, <2>2, <2>3, <2>4 DEF Quiet, Aged, Aimed, Flagged, Arming
<1> QED BY <1>5, <1>6, <1>7

\* From the sleep on, and when the program thinks better of it.
LEMMA SleepInv ==
    TypeOK /\ WakeInv /\ (CancelWake \/ EnterLpm3 \/ Measure \/ Judge) => WakeInv'
<1> SUFFICES ASSUME TypeOK, WakeInv, CancelWake \/ EnterLpm3 \/ Measure \/ Judge
             PROVE  WakeInv'
  OBVIOUS
<1> USE DEF WakeInv
<1>1. /\ wakeIsr = "idle" /\ wakeIsr' = "idle" /\ tar' = tar
      /\ interval' = interval /\ ccr0' = ccr0
  BY DEF CancelWake, EnterLpm3, Measure, Judge, Forget, Main, vars, program, compare
<1>2. /\ tar \in Tick /\ t0 \in Tick /\ target \in Tick /\ interval \in Interval
      /\ age \in 0 .. W
  BY DEF TypeOK, WakeTypeOK
<1>3. Latest \in Tick /\ Latest' = Latest /\ Delay < interval /\ interval \in Nat
  BY <1>1, <1>2, LatestFits DEF Latest
<1>4. 0 \in 0 .. W /\ 0 \in Tick
  BY ZeroTypes, WidthAssumption
<1>5. CASE CancelWake
  <2>1. /\ at' = "up" /\ ccie' = FALSE /\ ccifg' = FALSE
        /\ t0' = 0 /\ target' = 0 /\ elapsed' = 0 /\ age' = 0
    BY <1>5 DEF CancelWake, Forget, Main
  <2>2. ccie' \in BOOLEAN /\ ccifg' \in BOOLEAN /\ ~ccie'
    BY Zenon, <2>1
  <2>3. WakeTypeOK'
    BY <1>1, <1>4, <2>1, <2>2 DEF WakeTypeOK
  <2> QED
    BY <1>1, <2>1, <2>2, <2>3 DEF Quiet, Aged, Aimed, Flagged, Arming
<1>6. CASE EnterLpm3
  <2>1. /\ at = "armed" /\ at' = "asleep" /\ ccie' = ccie /\ ccifg' = ccifg
        /\ t0' = t0 /\ target' = target /\ elapsed' = elapsed /\ age' = age
    BY <1>6 DEF EnterLpm3, Main, program, compare
  <2>2. WakeTypeOK'
    BY <1>1, <2>1 DEF WakeTypeOK
  <2>3. Aim' = Aim /\ Aim \in Tick
    BY <1>2, <2>1, MinusType DEF Aim
  <2>4. age < Aim
    BY <1>2, <1>3, <2>1, <2>3, DelayAssumption DEF Aged, Arming, Aimed, Tick
  <2> QED
    BY <1>1, <1>3, <2>1, <2>2, <2>3, <2>4
    DEF Quiet, Aged, Aimed, Flagged, Arming
<1>7. CASE Measure
  <2>1. /\ at = "woken" /\ at' = "measured" /\ ccie' = ccie /\ ccifg' = ccifg
        /\ t0' = t0 /\ target' = target /\ age' = age /\ elapsed' = Minus(tar, t0)
    BY <1>7 DEF Measure, Main, compare
  <2>2. age \in Tick /\ tar = Plus(t0, age)
    BY <1>2, <1>3, <2>1, WidthAssumption DEF Aged, Tick
  <2>3. elapsed' = age
    BY <1>2, <2>1, <2>2, MinusPlus
  <2>4. WakeTypeOK'
    BY <1>1, <2>1, <2>2, <2>3 DEF WakeTypeOK
  <2> QED
    BY <1>1, <2>1, <2>3, <2>4 DEF Quiet, Aged, Aimed, Flagged, Arming
<1>8. CASE Judge
  <2>1. /\ at = "measured" /\ at' = "up" /\ ccie' = ccie /\ ccifg' = ccifg
        /\ t0' = 0 /\ target' = 0 /\ elapsed' = 0 /\ age' = 0
    BY <1>8 DEF Judge, Forget, Main, compare
  <2>2. WakeTypeOK'
    BY <1>1, <1>4, <2>1 DEF WakeTypeOK
  <2> QED
    BY <1>1, <2>1, <2>2 DEF Quiet, Aged, Aimed, Flagged, Arming
<1> QED BY <1>5, <1>6, <1>7, <1>8

\* The handler runs on the flag of the target the program sleeps for.
LEMMA WakeIsrInv == TypeOK /\ WakeInv /\ WakeIsr => WakeInv'
<1> SUFFICES ASSUME TypeOK, WakeInv, WakeIsr PROVE WakeInv'
  OBVIOUS
<1> USE DEF WakeInv
<1>1. /\ tar' = tar /\ ccr0' = ccr0 /\ t0' = t0 /\ interval' = interval
      /\ target' = target /\ elapsed' = elapsed /\ age' = age
  BY DEF WakeIsr, EnterWakeIsr, ClearWakeIrq, LeaveWakeIsr, vars, program, compare
<1>2. at = "asleep" /\ Aim <= age
  BY DEF WakeIsr, EnterWakeIsr, ClearWakeIrq, LeaveWakeIsr, Quiet, Flagged
<1>3. Aim' = Aim /\ Latest' = Latest
  BY <1>1 DEF Aim, Latest
<1>4. interval <= age
  <2>1. age \in 0 .. W /\ interval \in Nat /\ Aim \in Tick
    BY MinusType, LatestFits DEF TypeOK, WakeTypeOK, Aim
  <2> QED BY <1>2, <2>1 DEF Aimed, Tick
<1>5. CASE EnterWakeIsr
  <2>1. at' = at /\ wakeIsr' = "entered" /\ ccie' = ccie /\ ccifg' = FALSE
    BY <1>5 DEF EnterWakeIsr
  <2>2. ccifg' \in BOOLEAN /\ ~ccifg'
    BY Zenon, <2>1
  <2>3. WakeTypeOK'
    BY <1>1, <2>1, <2>2 DEF WakeTypeOK
  <2> QED
    BY <1>1, <1>2, <1>3, <2>1, <2>2, <2>3
    DEF Quiet, Aged, Aimed, Flagged, Arming
<1>6. CASE ClearWakeIrq
  <2>1. at' = at /\ wakeIsr' = "disarmed" /\ ccie' = FALSE /\ ccifg' = ccifg
    BY <1>6 DEF ClearWakeIrq
  <2>2. ccie' \in BOOLEAN /\ ~ccie'
    BY Zenon, <2>1
  <2>3. WakeTypeOK'
    BY <1>1, <2>1, <2>2 DEF WakeTypeOK
  <2> QED
    BY <1>1, <1>2, <1>3, <2>1, <2>2, <2>3
    DEF Quiet, Aged, Aimed, Flagged, Arming
<1>7. CASE LeaveWakeIsr
  <2>1. /\ at' = "woken" /\ wakeIsr = "disarmed" /\ wakeIsr' = "idle"
        /\ ccie' = ccie /\ ccifg' = ccifg
    BY <1>2, <1>7 DEF LeaveWakeIsr, compare
  <2>2. WakeTypeOK'
    BY <1>1, <2>1 DEF WakeTypeOK
  <2> QED
    BY <1>1, <1>2, <1>3, <1>4, <2>1, <2>2
    DEF Quiet, Aged, Aimed, Flagged, Arming
<1> QED BY <1>5, <1>6, <1>7 DEF WakeIsr

LEMMA WakeStutterInv == WakeInv /\ UNCHANGED allTimer => WakeInv'
  BY DEF allTimer, vars, wakeVars, WakeInv, WakeTypeOK, Quiet, Aged, Aimed,
         Flagged, Arming, Aim, Latest, Minus, Plus

\* The invariant holds of every behaviour.
THEOREM WakeInvHolds == WakeSpec => []WakeInv
<1>1. TypeOK /\ WakeInv /\ [WakeNext]_allTimer => WakeInv'
  BY WakeCountInv, BesideInv, ReadT0Inv, ScheduleInv, SleepInv, WakeIsrInv,
     WakeStutterInv
  DEF WakeNext, Scheduling
<1>2. WakeSpec => []TypeOK
  BY WakeImplementsCounter, TypeCorrect, PTL
<1> QED BY WakeInitInv, <1>1, <1>2, PTL DEF WakeSpec

\* For every width, interval, delay and slack that fit together, a wake comes
\* when its interval has passed, only to a program that sleeps for it, and the
\* program measures the time that passed (schedule_wake_in, clear_wake_irq,
\* elapsed_since).
THEOREM WakeCorrect == WakeSpec => []WakesOnTime
<1>1. WakeInv => WakesOnTime
  <2> SUFFICES ASSUME WakeInv PROVE WakesOnTime
    OBVIOUS
  <2> USE DEF WakeInv
  <2>1. wakeIsr # "idle" => at = "asleep" /\ interval <= age
    <3> SUFFICES ASSUME wakeIsr # "idle" PROVE at = "asleep" /\ interval <= age
      OBVIOUS
    <3>1. at = "asleep" /\ Aim <= age /\ interval <= Aim
      BY DEF Quiet, Flagged, Aimed
    <3>2. age \in 0 .. W /\ interval \in Nat /\ Aim \in Tick
      BY MinusType, LatestFits DEF WakeTypeOK, Aim
    <3> QED BY <3>1, <3>2 DEF Tick
  <2> QED BY <2>1 DEF WakesOnTime, Aged, Flagged
<1> QED BY WakeInvHolds, <1>1, PTL

\* And the timestamp is as good with wakes beside it as without them.
THEOREM TimestampBesideWakes == WakeSpec => []Linearizable
  BY WakeImplementsCounter, Now32Correct, PTL
-----------------------------------------------------------------------------
CapControl ==
    /\ cPc \in {"idle", "rearm", "clear", "poll", "read", "check", "collect",
                "collect_both", "overcaptured", "level"}
    /\ cOp \in {"period", "span", "duty"}
    /\ cAnswer \in {"ok", "timeout", "overcapture", "level_sync"}

CapNumbers ==
    /\ cGoal \in Nat \ {0} /\ cEdges \in Nat /\ cCcr \in Nat /\ cTs \in Nat
    /\ cSince \in Nat /\ cMissed \in Nat

CapFlags ==
    /\ cIfg \in BOOLEAN /\ cCov \in BOOLEAN /\ cEnabled \in BOOLEAN
    /\ cFirst \in BOOLEAN /\ cFreshArm \in BOOLEAN

CapStamps == cStamps \in Seq(Nat)

CapTypeInv == CapControl /\ CapNumbers /\ CapFlags /\ CapStamps

\* What the channel holds since the clear: the stamp of the last edge, and of
\* the only one if COV is clear.
CapWaiting == cPc \in {"poll", "read", "check"}

CapChannelInv ==
    /\ cPc # "rearm" => cEnabled
    /\ CapWaiting => /\ cSince <= cEdges
                     /\ cSince < cEdges => cIfg
                     /\ cIfg => cSince < cEdges /\ cCcr = cEdges
                     /\ cIfg /\ ~cCov => cEdges = cSince + 1
    /\ cPc \in {"read", "check"} => cIfg
    /\ cPc = "check" => cSince < cTs /\ (~cCov => cTs = cEdges)
    /\ cPc = "collect" => cTs = cSince + 1
    /\ cPc = "collect_both" => cSince < cTs

\* How far a call has come.
CapTaken == Len(cStamps)
CapMeasuring == cPc \notin {"idle", "rearm", "overcaptured"}
CapTracked == cOp # "span" /\ CapTaken > 0

CapCallInv ==
    /\ cOp = "duty" => cGoal = 3
    /\ CapMeasuring => CapTaken < cGoal
    /\ cPc = "rearm" => cAnswer # "ok"
    /\ cPc = "level" => cOp = "duty" /\ CapTaken \in {1, 2}
    /\ cPc = "collect_both" => cOp = "span" \/ CapTaken = 0
    /\ CapMeasuring /\ CapTracked => ~cFreshArm
    /\ cPc \in {"check", "collect"} => cOp # "span"

\* The edges since the first stamp: one for each stamp, and those missed.
CapFirstInv ==
    CapTaken = 0 /\ cOp # "span" =>
      /\ cPc \in {"poll", "read"} => cMissed = 0
      /\ cPc = "check" /\ ~cFreshArm => cMissed = 0
      /\ cPc \in {"check", "collect", "collect_both"} =>
           IF cGoal = 1 THEN cMissed = 0
           ELSE (cPc = "check" /\ ~cFreshArm) \/ cEdges = cTs + cMissed

CapSumInv ==
    CapTracked =>
      /\ cPc \in {"clear", "level"} => cEdges - cStamps[1] = CapTaken - 1 + cMissed
      /\ CapWaiting => cSince - cStamps[1] = CapTaken - 1 + cMissed
      /\ cPc = "collect" =>
           /\ (IF CapTaken + 1 < cGoal THEN cEdges ELSE cTs) - cStamps[1] = CapTaken + cMissed
           /\ cMissed = 0 => cTs - cStamps[1] = CapTaken
      /\ cPc = "idle" /\ cAnswer = "ok" =>
           CapTaken = cGoal /\ cStamps[cGoal] - cStamps[1] = cGoal - 1 + cMissed

CapPulseInv ==
    cOp = "duty" /\ cMissed = 0 =>
      /\ CapMeasuring /\ (cPc = "level" => CapTaken = 2) /\ CapTaken > 0 =>
           cStamps[1] % 2 = 1
      /\ CapMeasuring /\ CapTaken = 2 => cStamps[2] = cStamps[1] + 1
      /\ cPc = "idle" /\ cAnswer = "ok" =>
           /\ cStamps[1] % 2 = 1
           /\ cStamps[2] = cStamps[1] + 1 /\ cStamps[3] = cStamps[1] + 2

CapDoneInv == cPc = "idle" /\ cAnswer = "ok" => CapTaken = cGoal

CapInv == CapTypeInv /\ CapChannelInv /\ CapCallInv /\ CapFirstInv /\ CapSumInv /\ CapPulseInv /\ CapDoneInv

LEMMA CapAppendFacts ==
    ASSUME NEW s \in Seq(Nat), NEW t \in Nat
    PROVE  /\ Append(s, t) \in Seq(Nat) /\ Len(Append(s, t)) = Len(s) + 1
           /\ Append(s, t)[Len(s) + 1] = t
           /\ Len(s) \in Nat /\ \A i \in 1 .. Len(s) : Append(s, t)[i] = s[i] /\ s[i] \in Nat
  OBVIOUS

LEMMA CapInit == Cap!Init => CapInv
<1> SUFFICES ASSUME Cap!Init PROVE CapInv
  OBVIOUS
<1>1. cStamps = <<>> /\ Len(cStamps) = 0 /\ cStamps \in Seq(Nat)
  BY DEF Cap!Init
<1>2. CapControl /\ CapFlags
  BY DEF Cap!Init, CapControl, CapFlags
<1>3. CapNumbers
  BY DEF Cap!Init, CapNumbers
<1>4. CapChannelInv /\ CapCallInv
  BY <1>1 DEF Cap!Init, CapChannelInv, CapCallInv, CapWaiting, CapMeasuring,
     CapTracked, CapTaken
<1>5. CapFirstInv /\ CapSumInv /\ CapPulseInv /\ CapDoneInv
  BY <1>1 DEF Cap!Init, CapFirstInv, CapSumInv, CapPulseInv, CapDoneInv,
     CapWaiting, CapMeasuring, CapTracked, CapTaken
<1> QED
  BY <1>1, <1>2, <1>3, <1>4, <1>5 DEF CapInv, CapTypeInv, CapStamps

LEMMA CapEmptyFacts == <<>> \in Seq(Nat) /\ Len(<<>>) = 0
  OBVIOUS

LEMMA CapTypeStep ==
    ASSUME MaxPeriods \in Nat, CapTypeInv, [Cap!Next]_(Cap!vars)
    PROVE  CapTypeInv'
<1>1. CapControl'
  BY DEF CapTypeInv, CapControl, Cap!Next, Cap!vars, Cap!Edge, Cap!driver,
     Cap!Measure, Cap!MeasurePeriod, Cap!MeasureSpan, Cap!MeasureDuty, Cap!Call,
     Cap!DisableCapture, Cap!Rearm, Cap!Clear, Cap!Poll, Cap!ReadStamp, Cap!Fail,
     Cap!Check, Cap!Overcapture, Cap!Collect, Cap!SyncLevel, Cap!FallLevel
<1>2. CapFlags'
  BY DEF CapTypeInv, CapFlags, Cap!Next, Cap!vars, Cap!Edge, Cap!channel,
     Cap!driver, Cap!Measure, Cap!MeasurePeriod, Cap!MeasureSpan, Cap!MeasureDuty,
     Cap!Call, Cap!DisableCapture, Cap!Rearm, Cap!Clear, Cap!Poll, Cap!ReadStamp,
     Cap!Fail, Cap!Check, Cap!Overcapture, Cap!Collect, Cap!SyncLevel, Cap!FallLevel
<1>3. CapNumbers'
  <2> USE DEF CapNumbers, Cap!channel, Cap!driver, Cap!Fail
  <2>1. CASE Cap!Edge \/ Cap!Clear
    BY <2>1 DEF CapTypeInv, Cap!Edge, Cap!Clear
  <2>2. CASE Cap!Measure \/ Cap!DisableCapture \/ Cap!Rearm
    BY <2>2 DEF CapTypeInv, Cap!Measure, Cap!MeasurePeriod, Cap!MeasureSpan,
       Cap!MeasureDuty, Cap!Call, Cap!DisableCapture, Cap!Rearm
  <2>3. CASE Cap!Poll \/ Cap!ReadStamp \/ Cap!Check \/ Cap!Overcapture
    BY <2>3 DEF CapTypeInv, Cap!Poll, Cap!ReadStamp, Cap!Check, Cap!Overcapture
  <2>4. CASE Cap!Collect \/ Cap!SyncLevel \/ Cap!FallLevel \/ UNCHANGED Cap!vars
    BY <2>4 DEF CapTypeInv, Cap!Collect, Cap!SyncLevel, Cap!FallLevel, Cap!vars
  <2> QED
    BY <2>1, <2>2, <2>3, <2>4 DEF Cap!Next
<1>4. CapStamps'
  <2>1. CASE Cap!Measure \/ Cap!SyncLevel
    BY <2>1, CapEmptyFacts DEF CapTypeInv, CapStamps, Cap!Measure,
       Cap!MeasurePeriod, Cap!MeasureSpan, Cap!MeasureDuty, Cap!Call, Cap!SyncLevel
  <2>2. CASE Cap!Collect
    BY <2>2, CapAppendFacts DEF CapTypeInv, CapStamps, CapNumbers, Cap!Collect
  <2>3. CASE ~(Cap!Measure \/ Cap!SyncLevel \/ Cap!Collect)
    BY <2>3 DEF CapTypeInv, CapStamps, Cap!Next, Cap!vars, Cap!Edge, Cap!driver,
       Cap!DisableCapture, Cap!Rearm, Cap!Clear, Cap!Poll, Cap!ReadStamp,
       Cap!Check, Cap!Overcapture, Cap!FallLevel
  <2> QED
    BY <2>1, <2>2, <2>3
<1> QED
  BY <1>1, <1>2, <1>3, <1>4 DEF CapTypeInv

\* What a step does to the call, the sequence of stamps taken apart.
LEMMA CapEdgeFacts ==
    ASSUME Cap!Edge, CapFlags
    PROVE  /\ cEdges' = cEdges + 1
           /\ Cap!LookingAway => cMissed' = cMissed + 1
           /\ ~Cap!LookingAway => cMissed' = cMissed
           /\ UNCHANGED <<cPc, cOp, cGoal, cTs, cStamps, cFreshArm, cAnswer,
                          cSince, cEnabled>>
           /\ cEnabled => cIfg' /\ cCcr' = cEdges + 1
           /\ cEnabled /\ cIfg => cCov'
<1>1. cEnabled =>
        /\ cIfg' /\ cCcr' = cEdges + 1 /\ cEnabled' = cEnabled
        /\ cCov' \in {cCov \/ cIfg, cCov \/ cIfg \/ cFirst}
  BY DEF Cap!Edge
<1>2. ~cEnabled => cEnabled' = cEnabled
  BY DEF Cap!Edge, Cap!channel
<1>3. cEnabled /\ cIfg => cCov'
  BY <1>1
<1> QED
  BY <1>1, <1>2, <1>3 DEF Cap!Edge, Cap!driver, CapFlags

LEMMA CapMeasureFacts ==
    ASSUME Cap!Measure, MaxPeriods \in Nat
    PROVE  /\ cPc = "idle" /\ cPc' = "clear" /\ Len(cStamps') = 0
           /\ cGoal' \in Nat \ {0} /\ (cOp' = "duty" => cGoal' = 3)
           /\ UNCHANGED <<cEdges, cMissed, cSince, cTs, cFreshArm, cAnswer>>
  BY CapEmptyFacts DEF Cap!Measure, Cap!MeasurePeriod, Cap!MeasureSpan,
     Cap!MeasureDuty, Cap!Call, Cap!channel

LEMMA CapCheckFacts ==
    ASSUME Cap!Check, CapFlags
    PROVE  /\ cPc = "check"
           /\ cPc' = "collect" => ~cCov
           /\ cPc' = "collect_both" => cFreshArm /\ cCov
           /\ cPc' \in {"collect", "collect_both", "overcaptured"}
           /\ UNCHANGED <<cEdges, cMissed, cSince, cTs, cOp, cGoal, cFreshArm,
                          cAnswer, cStamps>>
  BY DEF Cap!Check, CapFlags, Cap!driver

LEMMA CapCollectFacts ==
    ASSUME Cap!Collect, cStamps \in Seq(Nat), cTs \in Nat, CapFlags
    PROVE  /\ cPc \in {"collect", "collect_both"}
           /\ Len(cStamps') = Len(cStamps) + 1 /\ cStamps'[Len(cStamps) + 1] = cTs
           /\ \A i \in 1 .. Len(cStamps) : cStamps'[i] = cStamps[i]
           /\ Len(cStamps) + 1 = cGoal => cPc' = "idle" /\ cAnswer' = "ok"
           /\ Len(cStamps) + 1 # cGoal =>
                cPc' \in {"level", "clear"} /\ (cPc' = "level" <=> cOp = "duty")
           /\ cOp # "span" => ~cFreshArm'
           /\ UNCHANGED <<cEdges, cMissed, cSince, cTs, cOp, cGoal>>
<1>1. /\ Len(cStamps') = Len(cStamps) + 1 /\ cStamps'[Len(cStamps) + 1] = cTs
      /\ \A i \in 1 .. Len(cStamps) : cStamps'[i] = cStamps[i]
  BY CapAppendFacts DEF Cap!Collect
<1> QED
  BY <1>1 DEF Cap!Collect, Cap!Complete, CapFlags

LEMMA CapLevelFacts ==
    ASSUME Cap!SyncLevel \/ Cap!FallLevel
    PROVE  /\ cPc = "level" /\ cPc' \in {"clear", "idle"}
           /\ cPc' = "idle" => cAnswer' = "level_sync"
           /\ Len(cStamps') = 0 \/ cStamps' = cStamps
           /\ cPc' = "clear" /\ Len(cStamps) = 1 /\ Len(cStamps') # 0 =>
                cEdges % 2 = 1
           /\ UNCHANGED <<cEdges, cMissed, cSince, cTs, cOp, cGoal, cFreshArm>>
<1>1. CASE Cap!SyncLevel
  BY <1>1, CapEmptyFacts DEF Cap!SyncLevel, Cap!Fail, Cap!InputLevel
<1>2. CASE Cap!FallLevel
  BY <1>2 DEF Cap!FallLevel, Cap!Fail
<1> QED
  BY <1>1, <1>2

LEMMA CapChannelStep ==
    MaxPeriods \in Nat /\ CapTypeInv /\ CapChannelInv /\ [Cap!Next]_(Cap!vars)
      => CapChannelInv'
<1> SUFFICES ASSUME MaxPeriods \in Nat, CapTypeInv, CapChannelInv,
                    [Cap!Next]_(Cap!vars)
             PROVE  CapChannelInv'
  OBVIOUS
<1>0. CapNumbers /\ CapFlags
  BY DEF CapTypeInv
<1> USE <1>0 DEF CapNumbers, CapFlags, CapChannelInv, CapWaiting
<1>1. CASE Cap!Edge
  <2>1. /\ cEdges' = cEdges + 1 /\ cPc' = cPc /\ cTs' = cTs /\ cSince' = cSince
        /\ cEnabled' = cEnabled
        /\ cEnabled => cIfg' /\ cCcr' = cEdges + 1
        /\ cEnabled /\ cIfg => cCov'
    BY <1>1, CapEdgeFacts
  <2>2. cPc # "rearm" => cCcr' = cEdges' /\ cIfg'
    BY <2>1
  <2>3. CapWaiting /\ ~cCov' => cEdges = cSince
    BY <2>1
  <2> QED
    BY <2>1, <2>2, <2>3
<1>2. CASE Cap!Measure
  BY <1>2 DEF Cap!Measure, Cap!MeasurePeriod, Cap!MeasureSpan, Cap!MeasureDuty,
     Cap!Call, Cap!channel
<1>3. CASE Cap!DisableCapture \/ Cap!Rearm
  BY <1>3 DEF Cap!DisableCapture, Cap!Rearm
<1>4. CASE Cap!Clear
  BY <1>4 DEF Cap!Clear, Cap!driver
<1>5. CASE Cap!Poll \/ Cap!ReadStamp
  BY <1>5 DEF Cap!Poll, Cap!ReadStamp, Cap!Fail, Cap!channel
<1>6. CASE Cap!Check \/ Cap!Overcapture
  BY <1>6 DEF Cap!Check, Cap!Overcapture, Cap!Fail, Cap!channel, Cap!driver
<1>7. CASE Cap!Collect
  BY <1>7 DEF Cap!Collect
<1>8. CASE Cap!SyncLevel \/ Cap!FallLevel
  BY <1>8 DEF Cap!SyncLevel, Cap!FallLevel, Cap!Fail, Cap!channel
<1>9. CASE UNCHANGED Cap!vars
  BY <1>9 DEF Cap!vars
<1> QED
  BY <1>1, <1>2, <1>3, <1>4, <1>5, <1>6, <1>7, <1>8, <1>9 DEF Cap!Next

LEMMA CapCallStep ==
    MaxPeriods \in Nat /\ CapTypeInv /\ CapCallInv /\ [Cap!Next]_(Cap!vars) => CapCallInv' /\ (CapDoneInv
      => CapDoneInv')
<1> SUFFICES ASSUME MaxPeriods \in Nat, CapTypeInv, CapCallInv,
                    [Cap!Next]_(Cap!vars)
             PROVE  CapCallInv' /\ (CapDoneInv => CapDoneInv')
  OBVIOUS
<1>0. CapNumbers /\ CapFlags /\ cStamps \in Seq(Nat) /\ Len(cStamps) \in Nat
  BY CapAppendFacts DEF CapTypeInv, CapStamps, CapNumbers
<1> USE <1>0 DEF CapNumbers, CapFlags, CapCallInv, CapMeasuring, CapTracked,
       CapTaken, CapDoneInv
<1>1. CASE Cap!Edge
  BY <1>1 DEF Cap!Edge, Cap!channel, Cap!driver
<1>2. CASE Cap!Measure
  BY <1>2, CapMeasureFacts
<1>3. CASE Cap!DisableCapture \/ Cap!Rearm
  BY <1>3 DEF Cap!DisableCapture, Cap!Rearm
<1>4. CASE Cap!Clear
  BY <1>4 DEF Cap!Clear, Cap!driver
<1>5. CASE Cap!Poll \/ Cap!ReadStamp
  BY <1>5 DEF Cap!Poll, Cap!ReadStamp, Cap!Fail, Cap!channel
<1>6. CASE Cap!Check \/ Cap!Overcapture
  <2>1. CASE Cap!Check
    BY <2>1, CapCheckFacts
  <2>2. CASE Cap!Overcapture
    BY <2>2 DEF Cap!Overcapture, Cap!Fail
  <2> QED
    BY <1>6, <2>1, <2>2
<1>7. CASE Cap!Collect
  <2>1. /\ cPc \in {"collect", "collect_both"}
        /\ Len(cStamps') = Len(cStamps) + 1
        /\ Len(cStamps) + 1 = cGoal => cPc' = "idle" /\ cAnswer' = "ok"
        /\ Len(cStamps) + 1 # cGoal =>
             cPc' \in {"level", "clear"} /\ (cPc' = "level" <=> cOp = "duty")
        /\ cOp # "span" => ~cFreshArm'
        /\ cOp' = cOp /\ cGoal' = cGoal
    BY <1>7, CapCollectFacts
  <2> QED
    BY <2>1
<1>8. CASE Cap!SyncLevel \/ Cap!FallLevel
  <2>1. /\ cPc = "level" /\ cPc' \in {"clear", "idle"}
        /\ cPc' = "idle" => cAnswer' = "level_sync"
        /\ Len(cStamps') = 0 \/ cStamps' = cStamps
        /\ cOp' = cOp /\ cGoal' = cGoal /\ cFreshArm' = cFreshArm
    BY <1>8, CapLevelFacts
  <2> QED
    BY <2>1
<1>9. CASE UNCHANGED Cap!vars
  BY <1>9 DEF Cap!vars
<1> QED
  BY <1>1, <1>2, <1>3, <1>4, <1>5, <1>6, <1>7, <1>8, <1>9 DEF Cap!Next

LEMMA CapFirstStep ==
    ASSUME MaxPeriods \in Nat, CapTypeInv, CapCallInv, CapChannelInv, CapFirstInv,
           [Cap!Next]_(Cap!vars)
    PROVE  CapFirstInv'
<1>0. CapNumbers /\ CapFlags /\ cStamps \in Seq(Nat) /\ Len(cStamps) \in Nat
  BY CapAppendFacts DEF CapTypeInv, CapStamps, CapNumbers
<1> USE <1>0 DEF CapNumbers, CapFlags, CapCallInv, CapFirstInv, CapWaiting,
       CapMeasuring, CapTracked, CapTaken
<1>1. CASE Cap!Edge
  BY <1>1, CapEdgeFacts DEF Cap!LookingAway, CapChannelInv
<1>2. CASE Cap!Measure
  BY <1>2, CapMeasureFacts
<1>3. CASE Cap!DisableCapture \/ Cap!Rearm
  BY <1>3 DEF Cap!DisableCapture, Cap!Rearm
<1>4. CASE Cap!Clear
  BY <1>4 DEF Cap!Clear, Cap!driver
<1>5. CASE Cap!Poll \/ Cap!ReadStamp
  <2>1. CASE Cap!Poll
    BY <2>1 DEF Cap!Poll, Cap!Fail
  <2>2. CASE Cap!ReadStamp
    BY <2>2 DEF Cap!ReadStamp, Cap!channel, CapChannelInv
  <2> QED
    BY <1>5, <2>1, <2>2
<1>6. CASE Cap!Check \/ Cap!Overcapture
  <2>1. CASE Cap!Check
    BY <2>1, CapCheckFacts DEF CapChannelInv
  <2>2. CASE Cap!Overcapture
    BY <2>2 DEF Cap!Overcapture, Cap!Fail
  <2> QED
    BY <1>6, <2>1, <2>2
<1>7. CASE Cap!Collect
  BY <1>7, CapCollectFacts
<1>8. CASE Cap!SyncLevel \/ Cap!FallLevel
  BY <1>8, CapLevelFacts
<1>9. CASE UNCHANGED Cap!vars
  BY <1>9 DEF Cap!vars
<1> QED
  BY <1>1, <1>2, <1>3, <1>4, <1>5, <1>6, <1>7, <1>8, <1>9 DEF Cap!Next

LEMMA CapSumStep ==
    ASSUME MaxPeriods \in Nat, CapTypeInv, CapCallInv, CapChannelInv, CapFirstInv,
           CapSumInv, [Cap!Next]_(Cap!vars)
    PROVE  CapSumInv'
<1>0. /\ CapNumbers /\ CapFlags /\ cStamps \in Seq(Nat) /\ Len(cStamps) \in Nat
      /\ Len(cStamps) > 0 => cStamps[1] \in Nat
  BY CapAppendFacts DEF CapTypeInv, CapStamps, CapNumbers
<1> USE <1>0 DEF CapNumbers, CapFlags, CapCallInv, CapSumInv, CapWaiting,
       CapMeasuring, CapTracked, CapTaken
<1>1. CASE Cap!Edge
  <2>1. /\ cEdges' = cEdges + 1 /\ cMissed' \in {cMissed, cMissed + 1}
        /\ Cap!LookingAway => cMissed' = cMissed + 1
        /\ ~Cap!LookingAway => cMissed' = cMissed
        /\ UNCHANGED <<cPc, cOp, cGoal, cTs, cStamps, cAnswer, cSince>>
    BY <1>1, CapEdgeFacts
  <2>2. CapTracked /\ cPc \in {"clear", "level"} => Cap!LookingAway
    BY DEF Cap!LookingAway
  <2>3. CapTracked /\ cPc \in {"idle", "poll", "read", "check"} => ~Cap!LookingAway
    BY DEF Cap!LookingAway
  <2>4. CapTracked /\ cPc = "collect" => (Cap!LookingAway <=> CapTaken + 1 < cGoal)
    BY DEF Cap!LookingAway
  <2> HIDE DEF CapCallInv, CapWaiting
  <2>5. CapTracked /\ cPc = "collect" =>
          /\ (IF CapTaken + 1 < cGoal THEN cEdges' ELSE cTs) - cStamps[1] = CapTaken + cMissed'
          /\ cMissed' = 0 => cTs - cStamps[1] = CapTaken
    BY <2>1, <2>4
  <2>6. CapTracked /\ cPc \in {"clear", "level"} =>
          cEdges' - cStamps[1] = CapTaken - 1 + cMissed'
    BY <2>1, <2>2
  <2> QED
    BY <2>1, <2>3, <2>5, <2>6 DEF CapWaiting
<1>2. CASE Cap!Measure
  BY <1>2, CapMeasureFacts
<1>3. CASE Cap!DisableCapture \/ Cap!Rearm
  BY <1>3 DEF Cap!DisableCapture, Cap!Rearm
<1>4. CASE Cap!Clear
  BY <1>4 DEF Cap!Clear, Cap!driver
<1>5. CASE Cap!Poll \/ Cap!ReadStamp
  <2>1. CASE Cap!Poll
    BY <2>1 DEF Cap!Poll, Cap!Fail
  <2>2. CASE Cap!ReadStamp
    BY <2>2 DEF Cap!ReadStamp, Cap!channel
  <2> QED
    BY <1>5, <2>1, <2>2
<1>6. CASE Cap!Check \/ Cap!Overcapture
  <2>1. CASE Cap!Check
    BY <2>1, CapCheckFacts DEF CapChannelInv
  <2>2. CASE Cap!Overcapture
    BY <2>2 DEF Cap!Overcapture, Cap!Fail
  <2> QED
    BY <1>6, <2>1, <2>2
<1>7. CASE Cap!Collect
  <2>1. CASE CapTaken = 0
    <3>1. Len(cStamps') = 1 /\ cStamps'[1] = cTs
      BY <1>7, <2>1, CapCollectFacts
    <3>2. cOp # "span" => IF cGoal = 1 THEN cMissed = 0 ELSE cEdges = cTs + cMissed
      BY <1>7, <2>1, CapCollectFacts DEF CapFirstInv
    <3>3. /\ cGoal = 1 => cPc' = "idle" /\ cAnswer' = "ok"
          /\ cGoal # 1 => cPc' \in {"level", "clear"}
          /\ UNCHANGED <<cEdges, cMissed, cTs, cOp, cGoal>>
      BY <1>7, <2>1, CapCollectFacts
    <3> QED
      BY <3>1, <3>2, <3>3
  <2>2. CASE CapTaken > 0
    <3>1. cStamps'[1] = cStamps[1]
      BY <1>7, <2>2, CapCollectFacts
    <3>2. /\ Len(cStamps') = Len(cStamps) + 1 /\ cStamps'[Len(cStamps) + 1] = cTs
          /\ cPc \in {"collect", "collect_both"}
          /\ Len(cStamps) + 1 = cGoal => cPc' = "idle" /\ cAnswer' = "ok"
          /\ Len(cStamps) + 1 # cGoal => cPc' \in {"level", "clear"}
          /\ UNCHANGED <<cEdges, cMissed, cTs, cOp, cGoal>>
      BY <1>7, <2>2, CapCollectFacts
    <3>3. cOp # "span" =>
            (IF CapTaken + 1 < cGoal THEN cEdges ELSE cTs) - cStamps[1] = CapTaken + cMissed
      BY <2>2, <3>2
    <3>4. CASE Len(cStamps) + 1 = cGoal
      BY <3>1, <3>2, <3>3, <3>4
    <3>5. CASE Len(cStamps) + 1 # cGoal
      BY <3>1, <3>2, <3>3, <3>5
    <3> QED
      BY <3>4, <3>5
  <2> QED
    BY <2>1, <2>2
<1>8. CASE Cap!SyncLevel \/ Cap!FallLevel
  <2> HIDE DEF CapCallInv, CapSumInv, CapWaiting, CapMeasuring, CapTracked, CapTaken
  <2>1. /\ cPc = "level" /\ cPc' \in {"clear", "idle"}
        /\ cPc' = "idle" => cAnswer' = "level_sync"
        /\ Len(cStamps') = 0 \/ cStamps' = cStamps
        /\ cPc' = "clear" /\ Len(cStamps) = 1 /\ Len(cStamps') # 0 => cEdges % 2 = 1
        /\ UNCHANGED <<cEdges, cMissed, cTs, cOp, cGoal>>
    BY <1>8, CapLevelFacts
  <2>2. CASE cPc' = "idle"
    BY <2>1, <2>2 DEF CapSumInv, CapCallInv, CapWaiting, CapMeasuring, CapTracked,
       CapTaken
  <2>3. CASE cPc' = "clear" /\ Len(cStamps') = 0
    BY <2>1, <2>3 DEF CapSumInv, CapCallInv, CapWaiting, CapMeasuring, CapTracked,
       CapTaken
  <2>4. CASE cPc' = "clear" /\ cStamps' = cStamps
    BY <2>1, <2>4 DEF CapSumInv, CapCallInv, CapWaiting, CapMeasuring, CapTracked,
       CapTaken
  <2> QED
    BY <2>1, <2>2, <2>3, <2>4
<1>9. CASE UNCHANGED Cap!vars
  BY <1>9 DEF Cap!vars
<1> QED
  BY <1>1, <1>2, <1>3, <1>4, <1>5, <1>6, <1>7, <1>8, <1>9 DEF Cap!Next

LEMMA CapPulseStep ==
    ASSUME MaxPeriods \in Nat, CapTypeInv, CapCallInv, CapChannelInv, CapSumInv,
           CapPulseInv, [Cap!Next]_(Cap!vars)
    PROVE  CapPulseInv'
<1>0. /\ CapNumbers /\ CapFlags /\ cStamps \in Seq(Nat) /\ Len(cStamps) \in Nat
      /\ Len(cStamps) > 0 => cStamps[1] \in Nat
  BY CapAppendFacts DEF CapTypeInv, CapStamps, CapNumbers
<1> USE <1>0 DEF CapNumbers, CapFlags, CapCallInv, CapPulseInv, CapMeasuring,
       CapTracked, CapTaken
<1>1. CASE Cap!Edge
  BY <1>1, CapEdgeFacts DEF Cap!LookingAway
<1>2. CASE Cap!Measure
  BY <1>2, CapMeasureFacts
<1>3. CASE Cap!DisableCapture \/ Cap!Rearm
  BY <1>3 DEF Cap!DisableCapture, Cap!Rearm
<1>4. CASE Cap!Clear
  BY <1>4 DEF Cap!Clear, Cap!driver
<1>5. CASE Cap!Poll \/ Cap!ReadStamp
  BY <1>5 DEF Cap!Poll, Cap!ReadStamp, Cap!Fail, Cap!channel
<1>6. CASE Cap!Check \/ Cap!Overcapture
  BY <1>6 DEF Cap!Check, Cap!Overcapture, Cap!Fail, Cap!channel, Cap!driver
<1>7. CASE Cap!Collect
  <2>1. /\ Len(cStamps') = Len(cStamps) + 1 /\ cStamps'[Len(cStamps) + 1] = cTs
        /\ \A i \in 1 .. Len(cStamps) : cStamps'[i] = cStamps[i]
        /\ cPc \in {"collect", "collect_both"}
        /\ Len(cStamps) + 1 = cGoal => cPc' = "idle"
        /\ Len(cStamps) + 1 # cGoal =>
             (cPc' = "level" <=> cOp = "duty") /\ cPc' # "idle"
        /\ UNCHANGED <<cMissed, cTs, cOp, cGoal>>
    BY <1>7, CapCollectFacts
  <2> SUFFICES ASSUME cOp = "duty", cMissed = 0 PROVE CapPulseInv'
    BY <2>1
  <2>2. CASE CapTaken = 0
    BY <2>1, <2>2
  <2>3. CASE CapTaken = 1
    <3>1. cStamps'[1] = cStamps[1] /\ cStamps'[2] = cTs /\ Len(cStamps') = 2
      BY <2>1, <2>3
    <3>2. cStamps[1] % 2 = 1 /\ cTs = cStamps[1] + 1
      BY <2>1, <2>3 DEF CapSumInv
    <3> QED
      BY <2>1, <2>3, <3>1, <3>2
  <2>4. CASE CapTaken = 2
    <3>1. /\ cStamps'[1] = cStamps[1] /\ cStamps'[2] = cStamps[2]
          /\ cStamps'[3] = cTs /\ cPc' = "idle"
      BY <2>1, <2>4
    <3>2. cStamps[1] % 2 = 1 /\ cStamps[2] = cStamps[1] + 1 /\ cTs = cStamps[1] + 2
      BY <2>1, <2>4 DEF CapSumInv
    <3> QED
      BY <2>1, <3>1, <3>2
  <2>5. CapTaken \in {0, 1, 2}
    <3> HIDE DEF CapPulseInv
    <3>1. cGoal = 3 /\ Len(cStamps) < cGoal
      BY <2>1
    <3>2. \A n \in Nat : n < 3 => n \in {0, 1, 2}
      OBVIOUS
    <3> QED
      BY <3>1, <3>2, Zenon
  <2> QED
    BY <2>2, <2>3, <2>4, <2>5
<1>8. CASE Cap!SyncLevel \/ Cap!FallLevel
  <2>1. /\ cPc = "level" /\ cPc' \in {"clear", "idle"}
        /\ cPc' = "idle" => cAnswer' = "level_sync"
        /\ Len(cStamps') = 0 \/ cStamps' = cStamps
        /\ cPc' = "clear" /\ Len(cStamps) = 1 /\ Len(cStamps') # 0 => cEdges % 2 = 1
        /\ UNCHANGED <<cMissed, cOp>>
    BY <1>8, CapLevelFacts
  <2>2. cOp = "duty" /\ cMissed = 0 /\ Len(cStamps) = 1 => cEdges = cStamps[1]
    BY <2>1 DEF CapSumInv
  <2> QED
    BY <2>1, <2>2
<1>9. CASE UNCHANGED Cap!vars
  BY <1>9 DEF Cap!vars
<1> QED
  BY <1>1, <1>2, <1>3, <1>4, <1>5, <1>6, <1>7, <1>8, <1>9 DEF Cap!Next

\* What the channel and the stamps tell of the edges holds of every behaviour
\* (capture.rs, the measurement loops).
THEOREM CaptureHolds ==
    ASSUME MaxPeriods \in Nat
    PROVE  Cap!Spec => []CapInv
<1>1. CapInv /\ [Cap!Next]_(Cap!vars) => CapInv'
  BY CapTypeStep, CapChannelStep, CapCallStep, CapFirstStep, CapSumStep,
     CapPulseStep DEF CapInv
<1> QED
  BY CapInit, <1>1, PTL DEF Cap!Spec

\* Whatever edges come between any two steps of a call: a measurement that
\* succeeds took a fresh edge, missed no period and spans one pulse
\* (capture.rs, measure_period_ticks and its siblings).
THEOREM CapMeasuredCorrect ==
    ASSUME MaxPeriods \in Nat
    PROVE  Cap!Spec => []Cap!MeasuredHonestly
<1>1. CapInv => Cap!MeasuredHonestly
  <2> SUFFICES ASSUME CapInv PROVE Cap!MeasuredHonestly
    OBVIOUS
  <2>1. Cap!FreshEdge
    BY DEF CapInv, CapTypeInv, CapNumbers, CapChannelInv, Cap!FreshEdge
  <2>2. Len(cStamps) \in Nat
    BY CapAppendFacts DEF CapInv, CapTypeInv, CapStamps, CapNumbers
  <2>3. Cap!PeriodsExact
    BY <2>2 DEF CapInv, CapTypeInv, CapNumbers, CapSumInv, CapDoneInv, CapTracked,
       CapTaken, Cap!PeriodsExact
  <2>4. Cap!DutyOfOnePulse
    BY DEF CapInv, CapPulseInv, Cap!DutyOfOnePulse
  <2> QED
    BY <2>1, <2>3, <2>4 DEF Cap!MeasuredHonestly
<1> QED
  BY <1>1, CaptureHolds, PTL
-----------------------------------------------------------------------------
\* The calendar: what now has read so far is the time it found, unless RTCRDY
\* is low or was; a held clock keeps the fields set has written.
CalendarInv ==
    /\ rCal \in Cal!Calendar /\ rStart \in Cal!Calendar
    /\ rSnapshot \in Cal!Calendar
    /\ rK \in Cal!Field
    /\ rPc \notin {"read", "write_calendar", "write_alarm"} => rK = 1
    /\ rPc \in {"idle", "ready", "read", "confirm", "return", "write_enable",
                "write_clear"} => rArg = Cal!Midnight
    /\ rPc \in {"read", "confirm"} /\ rRdy /\ ~rSlipped =>
         /\ rCal = rStart
         /\ \A f \in Cal!Field : (rPc = "confirm" \/ f < rK) =>
              rSnapshot[f] = rStart[f]
    /\ rPc = "return" /\ ~rSlipped => rSnapshot = rStart
    /\ rPc \in {"read_hold", "write_hold", "write_calendar"} =>
         rArg \in Cal!Calendar
    /\ rPc \in {"write_calendar", "read_release", "write_release"} =>
         "hold" \in rCtl
    /\ rPc = "write_calendar" => \A f \in Cal!Field : f < rK => rCal[f] = rArg[f]
    /\ rPc \in {"read_release", "write_release"} /\ rArg # Cal!Midnight =>
         rCal = rArg

\* The alarm: nothing but a race parts the flag from what is due, neither in
\* RTCCTL01 nor in the image of it, and the interrupt is off while the alarm
\* is being written.
CalAlarmInv ==
    /\ ~rPhantom
    /\ ~Cal!Programming /\ ~rRaced => ("aifg" \in rCtl <=> rDue)
    /\ Cal!Rewriting /\ ~rRaced => ("aifg" \in rImage <=> "aifg" \in rCtl)
    /\ Cal!Programming => "aie" \notin rCtl

\* Where RTCCTL01 is read, and where it is written after that.
CalRewrites ==
    {<<"read_hold", "write_hold">>, <<"read_release", "write_release">>,
     <<"read_aie", "write_aie">>, <<"read_flag", "write_flag">>,
     <<"idle", "write_enable">>, <<"idle", "write_clear">>}

LEMMA CalAlarmInit == Cal!Init => CalAlarmInv
  BY DEF Cal!Init, CalAlarmInv, Cal!Programming, Cal!Rewriting

LEMMA CalAlarmStep == CalAlarmInv /\ [Cal!Next]_(Cal!vars) => CalAlarmInv'
<1> SUFFICES ASSUME CalAlarmInv, [Cal!Next]_(Cal!vars)
             PROVE  CalAlarmInv'
  OBVIOUS
<1> USE DEF CalAlarmInv, Cal!Programming, Cal!Rewriting, Cal!Go
<1>1. CASE Cal!Dip
  BY <1>1 DEF Cal!Dip, Cal!driver, Cal!alarmMarks
<1>2. CASE Cal!Advance
  BY <1>2 DEF Cal!Advance, Cal!driver
<1>3. CASE Cal!Recover
  BY <1>3 DEF Cal!Recover, Cal!driver, Cal!alarmMarks
<1>4. CASE Cal!RtcIrq
  BY <1>4 DEF Cal!RtcIrq, Cal!driver
<1>5. CASE Cal!Call
  <2>1. CASE Cal!Now
    BY <2>1 DEF Cal!Now, Cal!alarmMarks
  <2>2. ASSUME NEW dt \in Cal!Calendar, Cal!Set(dt)
        PROVE  CalAlarmInv'
    BY <2>2 DEF Cal!Set, Cal!alarmMarks
  <2>3. ASSUME NEW a \in Alarms \cup {Cal!NoAlarm}, Cal!SetAlarm(a)
        PROVE  CalAlarmInv'
    BY <2>3 DEF Cal!SetAlarm, Cal!alarmMarks
  <2>4. CASE Cal!WakeAttach
    BY <2>4 DEF Cal!WakeAttach, Cal!alarmMarks
  <2> QED
    BY <1>5, <2>1, <2>2, <2>3, <2>4 DEF Cal!Call
<1>6. CASE Cal!Ready
  BY <1>6 DEF Cal!Ready, Cal!alarmMarks
<1>7. CASE Cal!ReadCalendar
  BY <1>7 DEF Cal!ReadCalendar, Cal!alarmMarks
<1>8. CASE Cal!Confirm
  BY <1>8 DEF Cal!Confirm, Cal!alarmMarks
<1>18. CASE Cal!Return
  BY <1>18 DEF Cal!Return, Cal!alarmMarks
<1>19. ASSUME NEW from, NEW to, Cal!ReadCtl(from, to), <<from, to>> \in CalRewrites
       PROVE  CalAlarmInv'
  BY <1>19 DEF Cal!ReadCtl, CalRewrites, Cal!alarmMarks
<1>9. CASE Cal!Hold
  <2>1. CASE Cal!ReadCtl("read_hold", "write_hold")
    BY <2>1, <1>19 DEF CalRewrites
  <2>2. CASE Cal!WriteCtl("write_hold", "write_calendar", {"hold"}, {}) /\ UNCHANGED Cal!alarmMarks
    BY <2>2 DEF Cal!WriteCtl, Cal!alarmMarks
  <2> QED
    BY <1>9, <2>1, <2>2 DEF Cal!Hold
<1>11. CASE Cal!WriteCalendar
  BY <1>11 DEF Cal!WriteCalendar, Cal!alarmMarks
<1>12. CASE Cal!Release
  <2>1. CASE Cal!ReadCtl("read_release", "write_release")
    BY <2>1, <1>19 DEF CalRewrites
  <2>2. CASE ~Cal!ReadCtl("read_release", "write_release")
    <3>1. /\ rPc = "write_release" /\ rPc' = "idle" /\ rCtl' = rImage \ {"hold"}
          /\ UNCHANGED Cal!alarmMarks
      BY <1>12, <2>2 DEF Cal!Release
    <3>2. "aifg" \in rCtl' <=> "aifg" \in rImage
      BY <3>1
    <3> QED
      BY <3>1, <3>2 DEF Cal!alarmMarks
  <2> QED
    BY <2>1, <2>2
<1>13. CASE Cal!DisableAie
  <2>1. CASE Cal!ReadCtl("read_aie", "write_aie")
    BY <2>1, <1>19 DEF CalRewrites
  <2>2. CASE Cal!WriteCtl("write_aie", "write_alarm", {}, {"aie"}) /\ UNCHANGED Cal!alarmMarks
    BY <2>2 DEF Cal!WriteCtl, Cal!alarmMarks
  <2> QED
    BY <1>13, <2>1, <2>2 DEF Cal!DisableAie
<1>14. CASE Cal!WriteAlarm
  BY <1>14 DEF Cal!WriteAlarm, Cal!alarmMarks
<1>15. CASE Cal!ScrubFlag
  <2>1. CASE Cal!ReadCtl("read_flag", "write_flag")
    BY <2>1, <1>19 DEF CalRewrites
  <2>2. CASE ~Cal!ReadCtl("read_flag", "write_flag")
    <3>1. /\ rPc' = "idle" /\ rCtl' = rImage \ {"aifg"}
          /\ rDue' = FALSE /\ rRaced' = FALSE /\ rPhantom' = rPhantom
      BY <1>15, <2>2 DEF Cal!ScrubFlag
    <3> QED
      BY <3>1
  <2> QED
    BY <2>1, <2>2
<1>16. CASE Cal!EnableAlarmInterrupt
  <2>1. CASE Cal!ReadCtl("idle", "write_enable")
    BY <2>1, <1>19 DEF CalRewrites
  <2>2. CASE Cal!WriteCtl("write_enable", "idle", {"aie"}, {}) /\ UNCHANGED Cal!alarmMarks
    BY <2>2 DEF Cal!WriteCtl, Cal!alarmMarks
  <2> QED
    BY <1>16, <2>1, <2>2 DEF Cal!EnableAlarmInterrupt
<1>17. CASE Cal!ClearAlarmIrq
  <2>1. CASE Cal!ReadCtl("idle", "write_clear")
    BY <2>1, <1>19 DEF CalRewrites
  <2>2. CASE ~Cal!ReadCtl("idle", "write_clear")
    <3>1. /\ rPc' = "idle" /\ rCtl' = (rImage \cup {}) \ {"aifg"}
          /\ rDue' = FALSE /\ rRaced' = rRaced /\ rPhantom' = rPhantom
      BY <1>17, <2>2 DEF Cal!ClearAlarmIrq, Cal!WriteCtl
    <3> QED
      BY <3>1
  <2> QED
    BY <2>1, <2>2
<1>10. CASE UNCHANGED Cal!vars
  BY <1>10 DEF Cal!vars
<1> QED
  BY <1>1, <1>2, <1>3, <1>4, <1>5, <1>6, <1>7, <1>8, <1>9, <1>10, <1>11,
     <1>12, <1>13, <1>14, <1>15, <1>16, <1>17, <1>18 DEF Cal!Next

LEMMA CalendarInit ==
    ASSUME Base \in Nat \ {0}, Fields \in Nat \ {0}
    PROVE  Cal!Init => CalendarInv
  BY DEF Cal!Init, CalendarInv, Cal!Calendar, Cal!Midnight, Cal!Field, Cal!Digit

LEMMA CalFollowingType ==
    ASSUME Base \in Nat \ {0}, NEW c \in Cal!Calendar
    PROVE  Cal!Following(c) \in Cal!Calendar
<1>1. \A f \in Cal!Field : c[f] \in 0 .. Base - 1
  BY DEF Cal!Calendar, Cal!Digit
<1>2. \A d \in 0 .. Base - 1 : (d + 1) % Base \in 0 .. Base - 1
  BY SMTT(20)
<1> QED
  BY <1>1, <1>2 DEF Cal!Following, Cal!Calendar, Cal!Digit

\* A walk over the fields, from the first to the last.
LEMMA CalFieldFacts ==
    ASSUME Fields \in Nat \ {0}
    PROVE  /\ 1 \in Cal!Field
           /\ \A f \in Cal!Field : ~(f < 1)
           /\ \A f \in Cal!Field : f < Fields => f + 1 \in Cal!Field
           /\ \A f, g \in Cal!Field : g < f + 1 => g < f \/ g = f
           /\ \A g \in Cal!Field : g < Fields \/ g = Fields
  BY DEF Cal!Field

LEMMA CalendarStep ==
    ASSUME Base \in Nat \ {0}, Fields \in Nat \ {0}, CalendarInv,
           [Cal!Next]_(Cal!vars)
    PROVE  CalendarInv'
<1>0. Cal!Midnight \in Cal!Calendar /\ 1 \in Cal!Field
  <2>1. 1 \in Cal!Field /\ 0 \in Cal!Digit
    BY SMT DEF Cal!Field, Cal!Digit
  <2> QED
    BY <2>1 DEF Cal!Midnight, Cal!Calendar
<1> USE DEF CalendarInv, Cal!Go
<1>1. CASE Cal!Dip
  BY <1>1 DEF Cal!Dip, Cal!driver, Cal!marks
<1>2. CASE Cal!Advance
  BY <1>2, CalFollowingType DEF Cal!Advance, Cal!driver, Cal!marks
<1>3. CASE Cal!Recover
  BY <1>3 DEF Cal!Recover, Cal!driver
<1>4. CASE Cal!RtcIrq
  BY <1>4 DEF Cal!RtcIrq, Cal!driver, Cal!clock, Cal!marks
<1>5. CASE Cal!Call
  BY <1>5, <1>0 DEF Cal!Call, Cal!Now, Cal!Set, Cal!SetAlarm, Cal!WakeAttach,
     Cal!clock, Cal!marks
<1>6. CASE Cal!Ready
  BY <1>6, <1>0 DEF Cal!Ready, Cal!clock, Cal!Field
<1>7. CASE Cal!ReadCalendar
  <2>1. /\ rPc = "read" /\ rPc' \in {"read", "confirm"}
        /\ rPc' = "confirm" => rK = Fields /\ rK' = 1
        /\ rPc' = "read" => rK < Fields /\ rK' = rK + 1
    BY <1>7 DEF Cal!ReadCalendar
  <2>2. PICK d \in Cal!Digit :
               (rRdy => d = rCal[rK]) /\ rSnapshot' = [rSnapshot EXCEPT ![rK] = d]
    BY <1>7 DEF Cal!ReadCalendar
  <2>3. UNCHANGED <<rCal, rRdy, rCtl, rArg, rStart, rSlipped>>
    BY <1>7 DEF Cal!ReadCalendar, Cal!clock, Cal!marks
  <2>4. rK' \in Cal!Field /\ \A f \in Cal!Field : (rPc' = "confirm" \/ f < rK') =>
          f < rK \/ f = rK
    BY <2>1 DEF Cal!Field
  <2>5. /\ rSnapshot' \in Cal!Calendar
        /\ rSnapshot'[rK] = d
        /\ \A f \in Cal!Field : f # rK => rSnapshot'[f] = rSnapshot[f]
    BY <2>2 DEF Cal!Calendar
  <2>6. rRdy /\ ~rSlipped =>
          \A f \in Cal!Field : (rPc' = "confirm" \/ f < rK') =>
            rSnapshot'[f] = rStart[f]
    BY <2>1, <2>2, <2>4, <2>5 DEF Cal!Field
  <2> QED
    BY <2>1, <2>3, <2>4, <2>5, <2>6
<1>8. CASE Cal!Confirm
  <2>1. /\ rPc = "confirm" /\ rPc' \in {"return", "ready"}
        /\ (rPc' = "return" => rRdy)
        /\ UNCHANGED <<rCal, rRdy, rCtl, rK, rArg, rSnapshot, rStart, rSlipped>>
    BY <1>8 DEF Cal!Confirm, Cal!clock, Cal!marks
  <2>2. rRdy /\ ~rSlipped => rSnapshot = rStart
    BY <2>1 DEF Cal!Calendar
  <2> QED
    BY <2>1, <2>2
<1>9. CASE Cal!Return
  BY <1>9, <1>0 DEF Cal!Return, Cal!clock
<1>10. CASE Cal!Hold
  <2>1. CASE Cal!ReadCtl("read_hold", "write_hold")
    BY <2>1 DEF Cal!ReadCtl, Cal!clock, Cal!marks
  <2>2. CASE Cal!WriteCtl("write_hold", "write_calendar", {"hold"}, {})
    <3>1. /\ rPc = "write_hold" /\ rPc' = "write_calendar" /\ "hold" \in rCtl'
          /\ UNCHANGED <<rCal, rRdy, rK, rArg, rSnapshot, rStart, rSlipped>>
      BY <2>2 DEF Cal!WriteCtl, Cal!clock, Cal!marks
    <3>2. rK = 1 /\ \A f \in Cal!Field : ~(f < rK)
      BY <3>1, CalFieldFacts
    <3> QED
      BY <3>1, <3>2
  <2> QED
    BY <1>10, <2>1, <2>2 DEF Cal!Hold
<1>11. CASE Cal!WriteCalendar
  <2>1. /\ rPc = "write_calendar" /\ rPc' \in {"write_calendar", "read_release"}
        /\ rPc' = "read_release" => rK = Fields /\ rK' = 1
        /\ rPc' = "write_calendar" => rK < Fields /\ rK' = rK + 1
    BY <1>11 DEF Cal!WriteCalendar
  <2>2. /\ rCal' = [rCal EXCEPT ![rK] = rArg[rK]]
        /\ UNCHANGED <<rRdy, rCtl, rArg, rSnapshot, rStart, rSlipped>>
    BY <1>11 DEF Cal!WriteCalendar, Cal!marks
  <2>3. rK' \in Cal!Field /\ \A f \in Cal!Field : (rPc' = "read_release" \/ f < rK') => f < rK \/ f = rK
    BY <2>1, CalFieldFacts
  <2>4. /\ rCal' \in Cal!Calendar
        /\ \A f \in Cal!Field : rCal'[f] = IF f = rK THEN rArg[f] ELSE rCal[f]
    BY <2>1, <2>2 DEF Cal!Calendar
  <2>5. \A f \in Cal!Field : (rPc' = "read_release" \/ f < rK') =>
          rCal'[f] = rArg[f]
    BY <2>1, <2>3, <2>4
  <2>6. rPc' = "read_release" => rCal' = rArg
    <3> HIDE DEF CalendarInv
    <3>1. rArg \in Cal!Calendar
      BY <2>1 DEF CalendarInv
    <3> SUFFICES ASSUME rPc' = "read_release" PROVE rCal' = rArg
      OBVIOUS
    <3>2. \A f \in Cal!Field : rCal'[f] = rArg[f]
      BY <2>5
    <3>3. rCal' \in [Cal!Field -> Cal!Digit] /\ rArg \in [Cal!Field -> Cal!Digit]
      BY <2>4, <3>1 DEF Cal!Calendar
    <3>4. /\ rCal' = [f \in Cal!Field |-> rCal'[f]]
          /\ rArg = [f \in Cal!Field |-> rArg[f]]
      BY <3>3, Zenon
    <3> QED
      BY <3>2, <3>4, Zenon
  <2> QED
    BY <2>1, <2>2, <2>3, <2>4, <2>5, <2>6
<1>12. CASE Cal!Release
  BY <1>12, <1>0 DEF Cal!Release, Cal!ReadCtl, Cal!WriteCtl, Cal!clock, Cal!marks
<1>13. CASE Cal!DisableAie
  BY <1>13 DEF Cal!DisableAie, Cal!ReadCtl, Cal!WriteCtl, Cal!clock, Cal!marks
<1>14. CASE Cal!WriteAlarm
  <2>1. /\ rPc = "write_alarm" /\ rPc' \in {"write_alarm", "read_flag"}
        /\ rPc' = "read_flag" => rK' = 1
        /\ rPc' = "write_alarm" => rK < Fields /\ rK' = rK + 1
        /\ UNCHANGED <<rCal, rRdy, rCtl, rArg, rSnapshot, rStart, rSlipped>>
    BY <1>14 DEF Cal!WriteAlarm, Cal!clock, Cal!marks
  <2>2. rK' \in Cal!Field
    BY <2>1, CalFieldFacts
  <2> QED
    BY <2>1, <2>2
<1>15. CASE Cal!ScrubFlag
  BY <1>15, <1>0 DEF Cal!ScrubFlag, Cal!ReadCtl, Cal!clock, Cal!marks
<1>16. CASE Cal!EnableAlarmInterrupt \/ Cal!ClearAlarmIrq
  BY <1>16 DEF Cal!EnableAlarmInterrupt, Cal!ClearAlarmIrq, Cal!ReadCtl,
     Cal!WriteCtl, Cal!clock, Cal!marks
<1>17. CASE UNCHANGED Cal!vars
  BY <1>17 DEF Cal!vars
<1> QED
  BY <1>1, <1>2, <1>3, <1>4, <1>5, <1>6, <1>7, <1>8, <1>9, <1>10, <1>11, <1>12,
     <1>13, <1>14, <1>15, <1>16, <1>17 DEF Cal!Next

\* For any number of fields and any base: now returns a time that was, unless
\* RTCRDY went low and came back meanwhile, and set leaves the time it was
\* given (rtc.rs, now and set).
THEOREM CalNeverTornCorrect ==
    ASSUME Base \in Nat \ {0}, Fields \in Nat \ {0}
    PROVE  Cal!Spec => []Cal!NeverTorn
<1>1. CalendarInv => Cal!NeverTorn
  BY DEF CalendarInv, Cal!NeverTorn
<1> QED
  BY <1>1, CalendarInit, CalendarStep, PTL DEF Cal!Spec

\* For any set of alarms: RTCAIFG is up exactly if an alarm set has matched and
\* nobody has taken it, unless a flag changed inside a rewrite of RTCCTL01, and
\* no handler runs for an alarm half written (rtc.rs, set_alarm).
THEOREM CalAlarmCorrect == Cal!Spec => []Cal!AlarmHonest
<1>1. CalAlarmInv => Cal!AlarmHonest
  BY DEF CalAlarmInv, Cal!AlarmHonest
<1> QED
  BY <1>1, CalAlarmInit, CalAlarmStep, PTL DEF Cal!Spec
-----------------------------------------------------------------------------
\* The run has them beside each other, and the ports: each of its steps is one of
\* the component's, or leaves the component alone.
LEMMA CaptureRefined == MCSpec => Cap!Spec
<1>1. MCInit => Cap!Init
  BY DEF MCInit
<1>2. [MCNext]_allVars => [Cap!Next]_(Cap!vars)
  BY DEF MCNext, allVars, OnTimer, OnCapture, OnCalendar,
     OnButtons, OnPort, clocks, capture, Cap!vars
<1> QED
  BY <1>1, <1>2, PTL DEF MCSpec, Cap!Spec

LEMMA CalendarRefined == MCSpec => Cal!Spec
<1>1. MCInit => Cal!Init
  BY DEF MCInit
<1>2. [MCNext]_allVars => [Cal!Next]_(Cal!vars)
  BY DEF MCNext, allVars, OnTimer, OnCapture, OnCalendar,
     OnButtons, OnPort, clocks, calendar, Cal!vars
<1> QED
  BY <1>1, <1>2, PTL DEF MCSpec, Cal!Spec

\* A capture measurement that succeeds measured what it says, in the run.
THEOREM MeasuredHolds == MCSpec => []MeasuredHonestly
<1>1. MeasuredHonestly <=> Cap!MeasuredHonestly
  BY DEF MeasuredHonestly
<1>2. Cap!Spec => []Cap!MeasuredHonestly
  BY CapMeasuredCorrect, MeasuringAssumption
<1> QED
  BY <1>1, <1>2, CaptureRefined, PTL

\* No call of now or set is torn by an update of the clock, in the run.
THEOREM NeverTornHolds == MCSpec => []NeverTorn
<1>1. NeverTorn <=> Cal!NeverTorn
  BY DEF NeverTorn
<1>2. Cal!Spec => []Cal!NeverTorn
  BY CalNeverTornCorrect, CalendarAssumption
<1> QED
  BY <1>1, <1>2, CalendarRefined, PTL

\* The alarm's flag is up exactly if an alarm is due, in the run.
THEOREM AlarmHolds == MCSpec => []AlarmHonest
<1>1. AlarmHonest <=> Cal!AlarmHonest
  BY DEF AlarmHonest
<1> QED
  BY <1>1, CalendarRefined, CalAlarmCorrect, PTL
=============================================================================
