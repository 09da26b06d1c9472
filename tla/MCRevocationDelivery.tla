----------------------- MODULE MCRevocationDelivery -----------------------
(* Instances of RevocationDelivery for TLC.                                *)
EXTENDS RevocationDelivery, TLC


\* Every event is a logout or password event: it targets every application.
AllApps == [e \in Event |-> App]

Symmetry == Permutations(Task) \cup Permutations(App)

=============================================================================
