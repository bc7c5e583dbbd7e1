------------------------------ MODULE MCForks -------------------------------
(* A volume of blocks of two bytes, so that windows begin and end inside    *)
(* blocks, laid out as mkfs does.                                           *)
EXTENDS Forks

MCReserved == UsedBlocks(TotalBlocks)
=============================================================================
