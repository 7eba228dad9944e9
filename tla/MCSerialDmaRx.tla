--------------------------- MODULE MCSerialDmaRx ----------------------------
(* Buffers of one to four bytes, so that zero, one or more bytes go by     *)
(* CPU before the channel takes over, and any number of them by DMA.       *)
EXTENDS SerialDmaRx
=============================================================================
