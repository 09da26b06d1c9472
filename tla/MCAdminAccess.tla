--------------------------- MODULE MCAdminAccess ---------------------------
(* Instances of AdminAccess for TLC.                                       *)
EXTENDS AdminAccess, TLC

CONSTANTS Staff, a1

SeedGroups == [a \in {a1} |-> Staff]
Symmetry == Permutations(Proc)

=============================================================================
