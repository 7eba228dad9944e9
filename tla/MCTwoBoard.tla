----------------------------- MODULE MCTwoBoard -----------------------------
(***************************************************************************)
(* The rig alone, for what it does not keep: with a hand on the port that  *)
(* brands a board, with one at a terminal, and with its suites, for the    *)
(* tally that the I2C bridge asserts.                                      *)
(***************************************************************************)
EXTENDS TwoBoard
=============================================================================
