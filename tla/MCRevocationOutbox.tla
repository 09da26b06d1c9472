------------------------- MODULE MCRevocationOutbox -------------------------
(* Instances of RevocationOutbox for TLC.                                  *)
EXTENDS RevocationOutbox, TLC

\* Two rows are enough for a batch that goes on, or ends, after its first row.
TwoEvents == 1 .. 2

Symmetry == Permutations(Publisher)

=============================================================================
