--------------------------- MODULE MCStringCache ---------------------------
(* StringCache on a small instance.  The sets of messages of TypeOK are    *)
(* infinite, which does not keep TLC from testing membership.              *)
EXTENDS StringCache, TLC

Symmetry == Permutations(Clients) \cup Permutations(Strings)
=============================================================================
