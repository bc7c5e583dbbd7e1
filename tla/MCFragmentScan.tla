--------------------------- MODULE MCFragmentScan ---------------------------
(* Every bitmap of a seven-block volume and every request up to one block   *)
(* more than the volume has.                                                *)
EXTENDS FragmentScan
=============================================================================
