------------------------------ MODULE MCVolume ------------------------------
(* Small volumes for TLC. *)
EXTENDS Volume

MCReserved == {0, 3}

\* HFSX compares names as they are; HFS+ folds their case.
Binary == [n \in Names |-> n]

\* Do not go on from an image that a failed operation left half edited.
Untorn == ~img.torn

\* A case-folding volume, on which all names are spellings of one name.
Folded == [n \in Names |-> CHOOSE m \in Names : TRUE]
=============================================================================
