----------------------------- MODULE Counter32 ------------------------------
(***************************************************************************)
(* The 32-bit timestamp of src/hal/src/timer.rs: a free-running hardware   *)
(* counter of W values, an overflow interrupt that tallies its wraps in H  *)
(* values, and now32, which puts the two together although neither the     *)
(* tally nor the counter stands still while it reads them.                 *)
(*                                                                         *)
(* The true time is <<laps, tar>>: laps is a history variable, the wraps   *)
(* there really were.  window collects the times that passed since the     *)
(* call in progress began.                                                 *)
(*                                                                         *)
(* Assumption about the application, as clear_overflow_irq states it: the  *)
(* interrupt is served within one period of the counter, so the hardware   *)
(* never wraps while an earlier wrap is still flagged.                     *)
(***************************************************************************)
EXTENDS Integers

CONSTANTS W,   \* the values of TAxR: 2^16
          H    \* the values of the tally: 2^16

ASSUME WidthAssumption == W \in Nat \ {0} /\ H \in Nat \ {0}

VARIABLES laps, tar, taifg,       \* the hardware
          overflows, isr,         \* the tally, and how far its handler has got
          pc, ovf, cnt, result,   \* the caller of now32
          window

hardware == <<laps, tar, taifg>>
handler == <<overflows, isr>>
caller == <<pc, ovf, cnt, result>>
vars == <<laps, tar, taifg, overflows, isr, pc, ovf, cnt, result, window>>

Lap == 0 .. H - 1
Tick == 0 .. W - 1

\* wrapping_add(1) on the tally (mutation: one that does not wrap)
NextLapUnwrapped(h) == h + 1

NextLap(h) == IF h + 1 = H THEN 0 ELSE h + 1

\* The caller is inside its critical section.
Masked == pc # "outside"

\* The interrupt was enabled with the counter at any value, and at most one
\* wrap pending.
Init ==
    /\ tar \in Tick
    /\ taifg \in BOOLEAN
    /\ overflows = 0
    /\ laps = IF taifg THEN NextLap(0) ELSE 0
    /\ isr = "idle"
    /\ pc = "outside"
    /\ ovf = 0
    /\ cnt = 0
    /\ result = <<0, 0>>
    /\ window = {}

\* One tick of the clock.
Count ==
    /\ \/ /\ tar + 1 < W
          /\ tar' = tar + 1
          /\ UNCHANGED <<laps, taifg>>
       \/ /\ tar + 1 = W
          /\ ~taifg
          /\ tar' = 0
          /\ laps' = NextLap(laps)
          /\ taifg' = TRUE
    /\ window' = IF Masked THEN window \cup {<<laps', tar'>>} ELSE window
    /\ UNCHANGED <<handler, caller>>

\* (mutation: a handler that leaves the flag set)
ClearForgotten ==
    /\ isr = "tallied"
    /\ isr' = "idle"
    /\ UNCHANGED <<hardware, overflows, caller, window>>

\* TIMER0_A1: tally the wrap, then clear the flag.  The caller does not run
\* until it returns.
TallyOverflow ==
    /\ isr = "idle"
    /\ taifg
    /\ ~Masked
    /\ overflows' = NextLap(overflows)
    /\ isr' = "tallied"
    /\ UNCHANGED <<hardware, caller, window>>

ClearOverflowIrq ==
    /\ isr = "tallied"
    /\ taifg' = FALSE
    /\ isr' = "idle"
    /\ UNCHANGED <<laps, tar, overflows, caller, window>>

\* The caller masks interrupts and reads the tally.
Enter ==
    /\ isr = "idle"
    /\ pc = "outside"
    /\ pc' = "count"
    /\ ovf' = overflows
    /\ window' = {<<laps, tar>>}
    /\ UNCHANGED <<hardware, handler, cnt, result>>

ReadCount ==
    /\ pc = "count"
    /\ pc' = "flag"
    /\ cnt' = tar
    /\ UNCHANGED <<hardware, handler, ovf, result, window>>

\* A pending wrap is added to the tally, and the counter read once more.
ReadFlag ==
    /\ pc = "flag"
    /\ \/ taifg /\ pc' = "recount" /\ ovf' = NextLap(ovf)
       \/ ~taifg /\ pc' = "assemble" /\ UNCHANGED ovf
    /\ UNCHANGED <<hardware, handler, cnt, result, window>>

\* (mutation: the count of before the wrap is kept)
RecountKeepsOld ==
    /\ pc = "recount"
    /\ pc' = "assemble"
    /\ UNCHANGED <<hardware, handler, ovf, cnt, result, window>>

Recount ==
    /\ pc = "recount"
    /\ pc' = "assemble"
    /\ cnt' = tar
    /\ UNCHANGED <<hardware, handler, ovf, result, window>>

Assemble ==
    /\ pc = "assemble"
    /\ pc' = "return"
    /\ result' = <<ovf, cnt>>
    /\ UNCHANGED <<hardware, handler, ovf, cnt, window>>

\* The critical section ends, and the locals are gone.
Leave ==
    /\ pc = "return"
    /\ pc' = "outside"
    /\ ovf' = 0 /\ cnt' = 0 /\ result' = <<0, 0>>
    /\ window' = {}
    /\ UNCHANGED <<hardware, handler>>

Now32 == Enter \/ ReadCount \/ ReadFlag \/ Recount \/ Assemble \/ Leave

Next == Count \/ TallyOverflow \/ ClearOverflowIrq \/ Now32

Spec == Init /\ [][Next]_vars
-----------------------------------------------------------------------------
\* The variables have their types: the tally and the snapshots stay in a
\* u16.
TypeOK ==
    /\ laps \in Lap /\ tar \in Tick /\ taifg \in BOOLEAN
    /\ overflows \in Lap /\ isr \in {"idle", "tallied"}
    /\ pc \in {"outside", "count", "flag", "recount", "assemble", "return"}
    /\ ovf \in Lap /\ cnt \in Tick
    /\ result \in Lap \X Tick
    /\ window \subseteq Lap \X Tick

\* The tally lags the true number of wraps by the one that is flagged and
\* not tallied, and by no more: no wrap is counted twice or forgotten.
TallyFollows ==
    laps = IF taifg /\ isr = "idle" THEN NextLap(overflows) ELSE overflows

\* Whatever wraps and ticks fall between its reads, now32 returns a time
\* that really was between its call and its return; it never pairs the tally
\* of before a wrap with the count of after it, or the other way round.
Linearizable == pc = "return" => result \in window
=============================================================================
