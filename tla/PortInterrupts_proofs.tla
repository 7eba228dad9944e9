------------------------ MODULE PortInterrupts_proofs ------------------------
(***************************************************************************)
(* Port interrupts, for every set of buttons and every number of pins.     *)
(*                                                                         *)
(* The wake program.  NoPressForgotten is not inductive: ClearMask empties *)
(* the mask, and only the critical section makes that safe.  Handover says *)
(* what the section is for: while main stands between its two steps GIE is *)
(* off and its copy is the mask.                                           *)
(*                                                                         *)
(* The flags of a port.  While a rewrite of PxIFG is in progress its image *)
(* holds only flags that are up, and what came up since is in raced; the   *)
(* critical sections keep main's rewrite and the handler's apart.          *)
(***************************************************************************)
EXTENDS MCInterrupts, TLAPS

LatchedIsDue == bIfg \cap bIe \subseteq bDue

Handover ==
    /\ bPc \notin {"clear", "act"} => bTaken = {}
    /\ bPc = "clear" => ~bGie /\ bTaken = bPressed

Inv ==
    /\ Buttons!TypeOK
    /\ Buttons!NoPressForgotten
    /\ Buttons!NoPhantomPress
    /\ LatchedIsDue
    /\ Handover

LEMMA InitInv == Buttons!Init => Inv
  BY DEF Buttons!Init, Inv, Buttons!TypeOK, Buttons!NoPressForgotten,
     Buttons!NoPhantomPress, LatchedIsDue, Handover

\* An edge only adds to the latch.
LEMMA PressInv == ASSUME NEW b \in Button, Inv, Buttons!Press(b) PROVE Inv'
<1> USE DEF Inv, Buttons!Press, Buttons!status, Buttons!main
<1>1. Buttons!TypeOK'
  BY DEF Buttons!TypeOK
<1>2. Buttons!NoPressForgotten'
  BY DEF Buttons!NoPressForgotten
<1>3. Buttons!NoPhantomPress' /\ LatchedIsDue'
  BY DEF Buttons!NoPhantomPress, LatchedIsDue
<1>4. Handover'
  BY DEF Handover
<1> QED BY <1>1, <1>2, <1>3, <1>4

\* A handler moves a press from the latch to the mask, and cannot run while
\* main is about to clear the mask.
LEMMA PortIrqInv == ASSUME NEW b \in Button, Inv, Buttons!PortIrq(b) PROVE Inv'
<1> USE DEF Inv, Buttons!PortIrq, Buttons!main
<1>1. Buttons!TypeOK'
  BY DEF Buttons!TypeOK
<1>2. Buttons!NoPressForgotten'
  BY DEF Buttons!NoPressForgotten
<1>3. Buttons!NoPhantomPress' /\ LatchedIsDue'
  BY DEF Buttons!NoPhantomPress, LatchedIsDue
<1>4. bPc # "clear"
  BY DEF Handover
<1>5. Handover'
  BY <1>4 DEF Handover
<1> QED BY <1>1, <1>2, <1>3, <1>5

\* Main keeps it: arming drops only an edge nobody waits for, and the mask
\* is handed over whole.
LEMMA MainInv == Inv /\ Buttons!Main => Inv'
<1> SUFFICES ASSUME Inv, Buttons!Main PROVE Inv'
  OBVIOUS
<1> USE DEF Inv, Buttons!pins, Buttons!status, Buttons!Running
<1>1. CASE Buttons!Arm
  <2>1. PICK b \in Button \ bIe : Buttons!EnableInterrupt(b)
    BY <1>1 DEF Buttons!Arm
  <2>2. bPc = "arm" /\ bPc' \in {"arm", "flush"}
    BY <1>1 DEF Buttons!Arm
  <2>3. Buttons!TypeOK'
    BY <2>1, <2>2 DEF Buttons!EnableInterrupt, Buttons!TypeOK
  <2>4. Buttons!NoPressForgotten'
    BY <2>1 DEF Buttons!EnableInterrupt, Buttons!NoPressForgotten
  <2>5. Buttons!NoPhantomPress' /\ LatchedIsDue'
    BY <2>1 DEF Buttons!EnableInterrupt, Buttons!NoPhantomPress, LatchedIsDue
  <2>6. Handover'
    BY <2>1, <2>2 DEF Buttons!EnableInterrupt, Handover
  <2> QED BY <2>3, <2>4, <2>5, <2>6
<1>2. CASE Buttons!Flush
  BY <1>2 DEF Buttons!Flush, Buttons!TypeOK, Buttons!NoPressForgotten,
     Buttons!NoPhantomPress, LatchedIsDue, Handover
<1>3. CASE Buttons!EnterLpm4
  BY <1>3 DEF Buttons!EnterLpm4, Buttons!TypeOK, Buttons!NoPressForgotten,
     Buttons!NoPhantomPress, LatchedIsDue, Handover
<1>4. CASE Buttons!ReadMask
  <2>1. bTaken = {}
    BY <1>4 DEF Buttons!ReadMask, Handover
  <2> QED
    BY <1>4, <2>1 DEF Buttons!ReadMask, Buttons!TypeOK,
       Buttons!NoPressForgotten, Buttons!NoPhantomPress, LatchedIsDue,
       Handover
<1>5. CASE Buttons!ClearMask
  <2>1. bTaken = bPressed
    BY <1>5 DEF Buttons!ClearMask, Handover
  <2> QED
    BY <1>5, <2>1 DEF Buttons!ClearMask, Buttons!TypeOK,
       Buttons!NoPressForgotten, Buttons!NoPhantomPress, LatchedIsDue,
       Handover
<1>6. CASE Buttons!Act
  <2>1. Buttons!NoPressForgotten'
    BY <1>6 DEF Buttons!Act, Buttons!NoPressForgotten
  <2>2. Buttons!NoPhantomPress' /\ LatchedIsDue'
    BY <1>6 DEF Buttons!Act, Buttons!NoPhantomPress, LatchedIsDue
  <2> QED BY <1>6, <2>1, <2>2 DEF Buttons!Act, Buttons!TypeOK, Handover
<1> QED BY <1>1, <1>2, <1>3, <1>4, <1>5, <1>6 DEF Buttons!Main

LEMMA StutterInv == Inv /\ UNCHANGED Buttons!vars => Inv'
  BY DEF Buttons!vars, Inv, Buttons!TypeOK, Buttons!NoPressForgotten,
     Buttons!NoPhantomPress, LatchedIsDue, Handover

\* The invariant holds of every behaviour.
THEOREM InvHolds == Buttons!Spec => []Inv
<1>1. Inv /\ [Buttons!Next]_(Buttons!vars) => Inv'
  BY PressInv, PortIrqInv, MainInv, StutterInv DEF Buttons!Next
<1> QED BY InitInv, <1>1, PTL DEF Buttons!Spec

\* In the run that has the wake program beside the rest, its steps are its own,
\* or leave it alone.
LEMMA ButtonsRefined == MCSpec => Buttons!Spec
<1>1. MCInit => Buttons!Init
  BY DEF MCInit
<1>2. [MCNext]_allVars => [Buttons!Next]_(Buttons!vars)
  BY DEF MCNext, allVars, OnTimer, OnCapture, OnCalendar, OnButtons, OnPort,
     ports, buttons, Buttons!vars
<1> QED
  BY <1>1, <1>2, PTL DEF MCSpec, Buttons!Spec

\* Every variable keeps its type and the CPU never stops with GIE off
\* (power.rs, enter_lpm4).
THEOREM TypeCorrect == MCSpec => []ButtonTypeOK
<1>1. Inv => ButtonTypeOK
  BY DEF Inv, ButtonTypeOK
<1> QED
  BY <1>1, ButtonsRefined, InvHolds, PTL

\* No press of an armed button is forgotten, for any number of buttons
\* (button_wake.rs, the hand-over of PRESSED).
THEOREM PressKept == MCSpec => []NoPressForgotten
<1>1. Inv => NoPressForgotten
  BY DEF Inv, NoPressForgotten
<1> QED
  BY <1>1, ButtonsRefined, InvHolds, PTL

\* Main acts on no press there was not (gpio.rs, enable_interrupt clears the
\* stale flag).
THEOREM PressReal == MCSpec => []NoPhantomPress
<1>1. Inv => NoPhantomPress
  BY DEF Inv, NoPhantomPress
<1> QED
  BY <1>1, ButtonsRefined, InvHolds, PTL
-----------------------------------------------------------------------------

PortApart ==
    /\ fIsr # "idle" => fPc = "idle"
    /\ fOp \in {"enable", "clear", "set"}
    /\ fPc = "select_edge" => fOp = "enable"

PortImageTrue ==
    Port!Rewriting => fImage \subseteq fIfg /\ fIfg \ fImage \subseteq fRaced

PortInv == PortApart /\ PortImageTrue /\ Port!LostOnlyInRewrite

LEMMA PortInitInv == Port!Init => PortInv
BY DEF Port!Init, PortInv, PortApart, PortImageTrue, Port!LostOnlyInRewrite,
   Port!Rewriting, Port!Unsettled

LEMMA PortEdgeInv == ASSUME PortInv, NEW p \in Port!Pin, Port!Edge(p) PROVE PortInv'
<1> USE DEF PortInv, Port!Edge, Port!call
<1>1. PortApart'
  BY DEF PortApart
<1>2. PortImageTrue'
  BY DEF PortImageTrue, Port!Rewriting
<1>3. Port!LostOnlyInRewrite'
  <2>1. (fDue \subseteq fIfg \cup fRaced)'
    BY DEF Port!LostOnlyInRewrite
  <2>2. Port!Unsettled' = Port!Unsettled
    BY DEF Port!Unsettled
  <2>. QED BY <2>1, <2>2 DEF Port!LostOnlyInRewrite
<1>. QED BY <1>1, <1>2, <1>3

LEMMA PortBeginInv ==
    ASSUME PortInv, NEW p \in Port!Pin,
           Port!EnableInterrupt(p) \/ Port!ClearInterruptPending(p) \/ Port!SetInterruptPending(p)
    PROVE  PortInv'
<1>1. PICK o \in {"enable", "clear", "set"}, first \in {"select_edge", "read_flags"} :
        Port!Begin(o, p, first) /\ (first = "select_edge" <=> o = "enable")
  BY DEF Port!EnableInterrupt, Port!ClearInterruptPending, Port!SetInterruptPending
<1>2. Port!Unsettled = {} /\ Port!Unsettled' = {}
  BY <1>1 DEF Port!Unsettled, Port!Begin, Port!Step
<1>. QED
  BY <1>1, <1>2 DEF PortInv, Port!Begin, Port!Step, PortApart, PortImageTrue,
     Port!LostOnlyInRewrite, Port!Rewriting, Port!history

LEMMA PortSelectInv == ASSUME PortInv, Port!SelectEdge PROVE PortInv'
<1>1. Port!Unsettled = {}
  BY DEF Port!SelectEdge, Port!Step, Port!Unsettled
<1>2. ~Port!Rewriting'
  BY DEF Port!SelectEdge, Port!Step, Port!Rewriting
<1>3. Port!Unsettled' = {fPin}
  BY DEF Port!SelectEdge, Port!Step, Port!Unsettled, PortInv, PortApart
<1>. QED
  BY <1>1, <1>2, <1>3 DEF PortInv, Port!SelectEdge, Port!Step, PortApart,
     PortImageTrue, Port!LostOnlyInRewrite, Port!history

LEMMA PortReadFlagsInv == ASSUME PortInv, Port!ReadFlags PROVE PortInv'
<1>1. Port!Unsettled' = Port!Unsettled
  BY DEF Port!ReadFlags, Port!Step, Port!Unsettled
<1>. QED
  BY <1>1 DEF PortInv, Port!ReadFlags, Port!Step, PortApart, PortImageTrue,
     Port!LostOnlyInRewrite, Port!history

LEMMA PortWriteFlagsInv == ASSUME PortInv, Port!WriteFlags PROVE PortInv'
<1>1. fPc = "write_flags" /\ fIsr = "idle" /\ fPc' \in {"enable", "idle"}
  BY DEF Port!WriteFlags, Port!Step
<1>2. ~Port!Rewriting' /\ Port!Unsettled' = {} /\ Port!Unsettled \subseteq {fPin}
  BY <1>1 DEF Port!WriteFlags, Port!Rewriting, Port!Unsettled
<1>3. fImage \subseteq fIfg /\ fIfg \ fImage \subseteq fRaced
  BY <1>1 DEF PortInv, PortImageTrue, Port!Rewriting
<1>4. Port!LostOnlyInRewrite'
  BY <1>2, <1>3 DEF PortInv, Port!WriteFlags, Port!LostOnlyInRewrite
<1>. QED
  BY <1>1, <1>2, <1>4 DEF PortInv, Port!WriteFlags, PortApart, PortImageTrue

LEMMA PortEnablesInv ==
    ASSUME PortInv, Port!SetEnable \/ \E p \in Port!Pin : Port!DisableInterrupt(p)
    PROVE  PortInv'
<1>1. Port!Unsettled = {} /\ Port!Unsettled' = {} /\ ~Port!Rewriting'
  BY DEF Port!SetEnable, Port!DisableInterrupt, Port!Step, Port!Unsettled,
     Port!Rewriting
<1>. QED
  BY <1>1 DEF PortInv, Port!SetEnable, Port!DisableInterrupt, Port!Step, PortApart,
     PortImageTrue, Port!LostOnlyInRewrite, Port!history

LEMMA PortHandlerInv ==
    ASSUME PortInv, (\E style \in {"drain",
           "clear"} : Port!EnterIsr(style)) \/ Port!ReadIrqFlags
    PROVE  PortInv'
<1>1. fPc = "idle" /\ fPc' = "idle"
  BY DEF Port!EnterIsr, Port!ReadIrqFlags, PortInv, PortApart, Port!call
<1>2. Port!Unsettled = {} /\ Port!Unsettled' = {}
  BY <1>1 DEF Port!Unsettled
<1>. QED
  BY <1>1, <1>2 DEF PortInv, Port!EnterIsr, Port!ReadIrqFlags, PortApart,
     PortImageTrue, Port!LostOnlyInRewrite, Port!Rewriting, Port!history, Port!call

LEMMA PortReadIvInv == ASSUME PortInv, Port!ReadIv PROVE PortInv'
<1>1. fPc = "idle" /\ fPc' = "idle" /\ ~Port!Rewriting'
  BY DEF Port!ReadIv, PortInv, PortApart, Port!call, Port!Rewriting
<1>2. Port!Unsettled = {} /\ Port!Unsettled' = {}
  BY <1>1 DEF Port!Unsettled
<1>. QED
  BY <1>1, <1>2 DEF PortInv, Port!ReadIv, PortApart, PortImageTrue,
     Port!LostOnlyInRewrite, Port!history, Port!call

LEMMA PortClearIrqInv ==
    ASSUME PortInv, NEW p \in Port!Pin, Port!ClearIrq(p) PROVE PortInv'
<1>1. fPc = "idle" /\ fPc' = "idle" /\ ~Port!Rewriting'
  BY DEF Port!ClearIrq, PortInv, PortApart, Port!call, Port!Rewriting
<1>2. Port!Unsettled = {} /\ Port!Unsettled' = {}
  BY <1>1 DEF Port!Unsettled
<1>3. fImage \subseteq fIfg /\ fIfg \ fImage \subseteq fRaced
  BY DEF Port!ClearIrq, PortInv, PortImageTrue, Port!Rewriting
<1>. QED
  BY <1>1, <1>2, <1>3 DEF PortInv, Port!ClearIrq, PortApart, PortImageTrue,
     Port!LostOnlyInRewrite, Port!call

LEMMA PortStutterInv == ASSUME PortInv, UNCHANGED Port!vars PROVE PortInv'
BY DEF PortInv, PortApart, PortImageTrue, Port!LostOnlyInRewrite, Port!Rewriting,
   Port!Unsettled, Port!vars, Port!call

LEMMA PortInvInductive == PortInv /\ [Port!Next]_(Port!vars) => PortInv'
<1>1. ASSUME PortInv, Port!Next PROVE PortInv'
  BY <1>1, PortEdgeInv, PortBeginInv, PortSelectInv, PortReadFlagsInv,
     PortWriteFlagsInv, PortEnablesInv, PortHandlerInv, PortReadIvInv,
     PortClearIrqInv DEF Port!Next
<1>. QED BY <1>1, PortStutterInv

\* For any number of pins and any interleaving of edges, calls and handlers:
\* an edge not consumed is latched, or came inside a rewrite of PxIFG for the
\* sake of another pin; and no flag is up that no edge raised.
THEOREM PortLostOnlyCorrect == Port!Spec => []Port!LostOnlyInRewrite
<1>1. Port!Init => PortInv
  BY PortInitInv
<1>2. PortInv /\ [Port!Next]_(Port!vars) => PortInv'
  BY PortInvInductive
<1>3. PortInv => Port!LostOnlyInRewrite
  BY DEF PortInv
<1>. QED BY <1>1, <1>2, <1>3, PTL DEF Port!Spec

\* In the run that has the port beside the rest too: its steps are the port's,
\* or leave the port alone (gpio.rs, the rewrites of PxIFG).
THEOREM LostOnlyCorrect == MCSpec => []LostOnlyInRewrite
<1>1. MCInit => Port!Init
  BY DEF MCInit
<1>2. [MCNext]_allVars => [Port!Next]_(Port!vars)
  BY DEF MCNext, allVars, OnTimer, OnCapture, OnCalendar, OnButtons, OnPort,
     ports, port, Port!vars
<1>3. LostOnlyInRewrite <=> Port!LostOnlyInRewrite
  BY DEF LostOnlyInRewrite
<1> QED
  BY <1>1, <1>2, <1>3, PortLostOnlyCorrect, PTL DEF MCSpec, Port!Spec
=============================================================================
