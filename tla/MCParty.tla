------------------------------ MODULE MCParty ------------------------------
(* Party on a small instance.                                              *)
EXTENDS Party

(* An address has no meaning but its identity.                             *)
Symmetry == Permutations(Ptr)
=============================================================================
