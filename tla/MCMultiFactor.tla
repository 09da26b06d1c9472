--------------------------- MODULE MCMultiFactor ---------------------------
(* Instances of MultiFactor for TLC.                                       *)
EXTENDS MultiFactor, TLC

Symmetry == Permutations(Proc) \cup Permutations(Challenge)

=============================================================================
