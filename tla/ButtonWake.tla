----------------------------- MODULE ButtonWake -----------------------------
(***************************************************************************)
(* Sleeping until a pin moves: the port interrupts of src/hal/src/gpio.rs, *)
(* enter_lpm4 of src/hal/src/power.rs, and the program that puts the two   *)
(* together, src/hal/examples/button_wake.rs (its twin is a firmware of    *)
(* src/single_board_test_firmwares).                                       *)
(*                                                                         *)
(* Each button has a port of its own, hence a vector and a handler of its  *)
(* own.  A handler runs to its end before anything else executes (GIE is   *)
(* off in it), so it is one action; an edge may be latched at any moment,  *)
(* also while the CPU is stopped.                                          *)
(*                                                                         *)
(* due is a history variable: the buttons pressed since they were armed    *)
(* whose press main has not acted on.                                      *)
(***************************************************************************)
EXTENDS FiniteSets

CONSTANT Button

VARIABLES ifg, ie,      \* PxIFG and PxIE: the buttons whose bit is set
          gie, asleep,  \* of the status register
          pressed,      \* PRESSED, the mask shared with the handlers
          pc, taken,    \* main, and its copy of the mask
          due

pins == <<ifg, ie>>
status == <<gie, asleep>>
main == <<pc, taken>>
vars == <<ifg, ie, gie, asleep, pressed, pc, taken, due>>

Init ==
    /\ ifg \in SUBSET Button
    /\ ie = {}
    /\ gie = FALSE
    /\ asleep = FALSE
    /\ pressed = {}
    /\ pc = "arm"
    /\ taken = {}
    /\ due = {}

\* A falling edge is latched, clock or no clock.
Press(b) ==
    /\ ifg' = ifg \cup {b}
    /\ due' = IF b \in ie THEN due \cup {b} ELSE due
    /\ UNCHANGED <<ie, status, pressed, main>>

\* (mutation: a handler without wake_cpu)
PortIrqStaysAsleep(b) ==
    /\ gie
    /\ b \in ifg \cap ie
    /\ ifg' = ifg \ {b}
    /\ pressed' = pressed \cup {b}
    /\ UNCHANGED <<ie, status, main, due>>

\* PORT1 and PORT4: reading PxIV clears the flag it reports; the mask
\* remembers it; wake_cpu clears the low-power bits of the stacked status
\* register and leaves its GIE as it was, set.
PortIrq(b) ==
    /\ gie
    /\ b \in ifg \cap ie
    /\ ifg' = ifg \ {b}
    /\ pressed' = pressed \cup {b}
    /\ asleep' = FALSE
    /\ UNCHANGED <<ie, gie, main, due>>

\* (mutation: PxIE set before the flag is looked after, and never cleared)
EnableKeepsFlag(b) ==
    /\ ie' = ie \cup {b}
    /\ UNCHANGED <<ifg, status, pressed, taken, due>>

\* enable_interrupt, in a critical section: the flag of before is cleared.
EnableInterrupt(b) ==
    /\ ifg' = ifg \ {b}
    /\ ie' = ie \cup {b}
    /\ UNCHANGED <<status, pressed, taken, due>>

Arm ==
    /\ pc = "arm"
    /\ \E b \in Button \ ie : EnableInterrupt(b)
    /\ pc' = IF ie' = Button THEN "flush" ELSE "arm"

\* The loop: flush the UART, sleep, take the mask, act on it.
Running(label) == pc = label /\ ~asleep

Flush ==
    /\ Running("flush")
    /\ pc' = "sleep"
    /\ UNCHANGED <<pins, status, pressed, taken, due>>

\* (mutation: the CPU stopped by an instruction that leaves GIE alone)
EnterLpm4WithoutGie ==
    /\ Running("sleep")
    /\ asleep' = TRUE
    /\ pc' = "read"
    /\ UNCHANGED <<pins, gie, pressed, taken, due>>

\* enter_lpm4: one instruction sets GIE and stops the CPU.
EnterLpm4 ==
    /\ Running("sleep")
    /\ gie' = TRUE
    /\ asleep' = TRUE
    /\ pc' = "read"
    /\ UNCHANGED <<pins, pressed, taken, due>>

\* (mutation: the mask copied outside the critical section)
ReadMaskUnmasked ==
    /\ Running("read")
    /\ taken' = pressed
    /\ pc' = "clear"
    /\ UNCHANGED <<pins, status, pressed, due>>

\* The mask is copied and cleared in one critical section.
ReadMask ==
    /\ Running("read")
    /\ gie' = FALSE
    /\ taken' = pressed
    /\ pc' = "clear"
    /\ UNCHANGED <<pins, asleep, pressed, due>>

ClearMask ==
    /\ Running("clear")
    /\ gie' = TRUE
    /\ pressed' = {}
    /\ pc' = "act"
    /\ UNCHANGED <<pins, asleep, taken, due>>

\* The LEDs of the buttons taken are toggled.
Act ==
    /\ Running("act")
    /\ taken' = {}
    /\ due' = due \ (taken \ (pressed \cup (ifg \cap ie)))
    /\ pc' = "flush"
    /\ UNCHANGED <<pins, status, pressed>>

Main == Arm \/ Flush \/ EnterLpm4 \/ ReadMask \/ ClearMask \/ Act

Next == Main \/ (\E b \in Button : Press(b) \/ PortIrq(b))

Spec == Init /\ [][Next]_vars

\* The CPU executes, and takes the interrupts that are due; nobody has to
\* press a button.
FairSpec == Spec /\ WF_vars(Main) /\ \A b \in Button : WF_vars(PortIrq(b))
-----------------------------------------------------------------------------
\* The variables have their types, and the CPU never stops with its
\* interrupts off.
TypeOK ==
    /\ ifg \subseteq Button /\ ie \subseteq Button
    /\ gie \in BOOLEAN /\ asleep \in BOOLEAN
    /\ pressed \subseteq Button /\ taken \subseteq Button
    /\ due \subseteq Button
    /\ pc \in {"arm", "flush", "sleep", "read", "clear", "act"}
    /\ asleep => gie

\* A press is never forgotten: until main has acted on it, it is in the
\* latch, in the mask or in main's copy, whatever the handlers interrupt.
NoPressForgotten == due \subseteq (ifg \cap ie) \cup pressed \cup taken

\* And nothing else is: main acts on no press there was not.
NoPhantomPress == pressed \cup taken \subseteq due

\* A press that is latched while the CPU sleeps ends the sleep.
PressWakes == \A b \in Button : asleep /\ b \in ifg ~> ~asleep

\* button_wake.rs:100-102: "enter_lpm4 sets GIE atomically with sleeping, so a
\* press latched in the gap fires immediately and we fall straight through":
\* the CPU does not sleep on a press already taken from the latch.
NoSleepOnPress == asleep => pressed = {}
=============================================================================
