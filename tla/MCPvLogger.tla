----------------------------- MODULE MCPvLogger -----------------------------
(* A log of a few bytes with line breaks anywhere.                         *)
EXTENDS PvLogger

MCAny == SUBSET (1..Size)
=============================================================================
