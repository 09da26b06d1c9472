-------------------------- MODULE MCCentralAccess --------------------------
(* Instances of CentralAccess: one user, whose logins create every session. *)
EXTENDS CentralAccess, TLC

CONSTANTS u1, s1, t1

OneUser == [s \in Session |-> u1]

\* A session and a token that run out; a code that does so is simply refused.
SomeExpire == {s1, t1}

Symmetry == Permutations(Proc)

=============================================================================
