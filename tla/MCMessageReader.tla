--------------------------- MODULE MCMessageReader ---------------------------
(* Finite instance of MessageReader for TLC.                                *)
EXTENDS MessageReader
=============================================================================
