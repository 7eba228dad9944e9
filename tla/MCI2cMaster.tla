---------------------------- MODULE MCI2cMaster -----------------------------
(* A probe, writes, reads, and writes turned into reads: runs of no byte,  *)
(* one byte, and enough of them to overtake.                               *)
EXTENDS I2cMaster

W(n) == [dir |-> "write", n |-> n]
R(n) == [dir |-> "read", n |-> n]

MCTransactions ==
    {<<W(0)>>, <<W(1)>>, <<W(3)>>, <<R(1)>>, <<R(3)>>,
     <<W(0), R(1)>>, <<W(1), R(2)>>, <<W(2), R(1)>>}
=============================================================================
