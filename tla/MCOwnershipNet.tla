--------------------------- MODULE MCOwnershipNet ---------------------------
(* OwnershipNet on a small instance.                                       *)
EXTENDS OwnershipNet, TLC

Symmetry == Permutations(Players)
=============================================================================
