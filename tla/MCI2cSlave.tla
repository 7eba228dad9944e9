----------------------------- MODULE MCI2cSlave -----------------------------
(* Segments of up to two bytes, enough of them for a transaction, one with *)
(* a repeated START and the next transaction after it.                     *)
EXTENDS I2cSlave
=============================================================================
