-------------------------------- MODULE MCMM --------------------------------
(***************************************************************************)
(* Instances of MM for TLC.                                                *)
(***************************************************************************)
EXTENDS MM, TLC

\* The driver fills a block with the low byte of its index, mdriver.c:640.
FillIndex == [id \in Ids |-> id * 16843009]

\* A client whose blocks have the same contents, so that they can be swapped.
FillSame == [id \in Ids |-> 16843009]
Symmetry == Permutations(Ids)
=============================================================================
