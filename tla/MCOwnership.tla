---------------------------- MODULE MCOwnership ----------------------------
(* The server of Ownership on a small instance, with every request.        *)
EXTENDS Ownership, TLC

Symmetry == Permutations(Players)
=============================================================================
