------------------------------ MODULE PortFlags ------------------------------
(***************************************************************************)
(* The interrupt flags of one port of src/hal/src/gpio.rs, shared by its   *)
(* pins: the calls that rewrite PxIFG as a whole for the sake of one bit,  *)
(* and the two ways a handler consumes a flag, PxIV and clear_irq.  The    *)
(* calls run in critical sections; the silicon does not stop for those.    *)
(*                                                                         *)
(* History variables: due, the pins with an edge, real or by software,     *)
(* that nobody has consumed; raced, those whose edge came between a read   *)
(* of PxIFG that did not show it and the write, and not again since.       *)
(***************************************************************************)
EXTENDS Integers, FiniteSets

CONSTANT Pins   \* how many pins the port has

VARIABLES ifg, ie,         \* PxIFG and PxIE: the pins whose bit is set
          pc, op, pin,     \* main: a call, and the pin it is for
          isr,             \* the handler: "idle", "drain", "clear" or "write"
          image,           \* PxIFG as it was read
          due, raced

call == <<pc, op, pin>>
history == <<due, raced>>
vars == <<ifg, ie, pc, op, pin, isr, image, due, raced>>

Pin == 0 .. Pins - 1

Init ==
    /\ ifg \in SUBSET Pin
    /\ ie = {}
    /\ pc = "idle" /\ op = "enable" /\ pin = 0
    /\ isr = "idle"
    /\ image = {}
    /\ due = ifg /\ raced = {}
-----------------------------------------------------------------------------
Rewriting == pc = "write_flags" \/ isr = "write"

\* Silicon: an edge is latched at any moment.
Edge(p) ==
    /\ ifg' = ifg \cup {p}
    /\ due' = due \cup {p}
    /\ raced' = IF Rewriting /\ p \notin image THEN raced \cup {p} ELSE raced \ {p}
    /\ UNCHANGED <<ie, call, isr, image>>

\* Main: the handler is not running.
Step(from, to) == isr = "idle" /\ pc = from /\ pc' = to

Begin(o, p, first) ==
    /\ Step("idle", first)
    /\ op' = o /\ pin' = p
    /\ UNCHANGED <<ifg, ie, isr, image, history>>

EnableInterrupt(p) == Begin("enable", p, "select_edge")
ClearInterruptPending(p) == Begin("clear", p, "read_flags")
SetInterruptPending(p) == Begin("set", p, "read_flags")

\* The write of PxIES may latch the flag of the pin.
SelectEdge ==
    /\ Step("select_edge", "read_flags")
    /\ ifg' \in {ifg, ifg \cup {pin}}
    /\ UNCHANGED <<ie, op, pin, isr, image, history>>

ReadFlags ==
    /\ Step("read_flags", "write_flags")
    /\ image' = ifg
    /\ UNCHANGED <<ifg, ie, op, pin, isr, history>>

\* (mutation: the flag that the write of PxIES latched is kept)
WriteFlagsKept ==
    /\ Step("write_flags", IF op = "enable" THEN "enable" ELSE "idle")
    /\ ifg' = (IF op = "clear" THEN image \ {pin} ELSE image)
                  \cup (IF op = "set" THEN {pin} ELSE {})
    /\ due' = IF op = "set" THEN due \cup {pin} ELSE due \ {pin}
    /\ raced' = raced \ {pin}
    /\ image' = {}
    /\ UNCHANGED <<ie, op, pin, isr>>

WriteFlags ==
    /\ Step("write_flags", IF op = "enable" THEN "enable" ELSE "idle")
    /\ ifg' = IF op = "set" THEN image \cup {pin} ELSE image \ {pin}
    /\ due' = IF op = "set" THEN due \cup {pin} ELSE due \ {pin}
    /\ raced' = raced \ {pin}
    /\ image' = {}
    /\ UNCHANGED <<ie, op, pin, isr>>

SetEnable ==
    /\ Step("enable", "idle")
    /\ ie' = ie \cup {pin}
    /\ UNCHANGED <<ifg, op, pin, isr, image, history>>

DisableInterrupt(p) ==
    /\ Step("idle", "idle")
    /\ ie' = ie \ {p}
    /\ UNCHANGED <<ifg, op, pin, isr, image, history>>
-----------------------------------------------------------------------------
\* (mutation: the calls without their critical section)
EnterIsrAnytime(style) ==
    /\ isr = "idle"
    /\ ifg \cap ie # {}
    /\ isr' = style
    /\ UNCHANGED <<ifg, ie, call, image, history>>

\* The port's vector, outside the critical sections of main.
EnterIsr(style) ==
    /\ isr = "idle" /\ pc = "idle"
    /\ ifg \cap ie # {}
    /\ isr' = style
    /\ UNCHANGED <<ifg, ie, call, image, history>>

\* read_iv, until it reads 0: it reports the first pin that is pending and
\* enabled, and clears its flag.
ReadIv ==
    /\ isr = "drain"
    /\ \/ \E p \in ifg \cap ie :
            /\ \A q \in ifg \cap ie : p <= q
            /\ ifg' = ifg \ {p}
            /\ due' = due \ {p} /\ raced' = raced \ {p}
            /\ UNCHANGED isr
       \/ /\ ifg \cap ie = {}
          /\ isr' = "idle"
          /\ UNCHANGED <<ifg, history>>
    /\ UNCHANGED <<ie, call, image>>

\* clear_irq, by a handler that knows its source.
ReadIrqFlags ==
    /\ isr = "clear"
    /\ isr' = "write"
    /\ image' = ifg
    /\ UNCHANGED <<ifg, ie, call, history>>

ClearIrq(p) ==
    /\ isr = "write"
    /\ p \in image \cap ie
    /\ isr' = "idle"
    /\ ifg' = image \ {p}
    /\ due' = due \ {p} /\ raced' = raced \ {p}
    /\ image' = {}
    /\ UNCHANGED <<ie, call>>

Next ==
    \/ SelectEdge \/ ReadFlags \/ WriteFlags \/ SetEnable
    \/ ReadIv \/ ReadIrqFlags
    \/ \E style \in {"drain", "clear"} : EnterIsr(style)
    \/ \E p \in Pin :
         \/ Edge(p) \/ ClearIrq(p)
         \/ EnableInterrupt(p) \/ DisableInterrupt(p)
         \/ ClearInterruptPending(p) \/ SetInterruptPending(p)

Spec == Init /\ [][Next]_vars
-----------------------------------------------------------------------------
\* The flag of a pin whose edge is being selected says nothing yet.
Unsettled == IF op = "enable" /\ pc \in {"read_flags", "write_flags"} THEN {pin} ELSE {}

\* gpio.rs:372-377, 447-452: an edge stays latched until it is consumed, and
\* is lost only if it came between the read and the write of a call or handler
\* that clears another pin's flag; and a flag that is up was raised by an edge.
LostOnlyInRewrite ==
    /\ due \subseteq ifg \cup raced
    /\ ifg \ Unsettled \subseteq due
=============================================================================
