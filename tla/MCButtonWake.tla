---------------------------- MODULE MCButtonWake ----------------------------
(* The two buttons of the LaunchPad, pressed at any moment and any number  *)
(* of times.                                                               *)
EXTENDS ButtonWake
=============================================================================
