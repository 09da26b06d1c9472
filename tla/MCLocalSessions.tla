--------------------------- MODULE MCLocalSessions ---------------------------
(* Instances of LocalSessions for TLC.                                     *)
EXTENDS LocalSessions, TLC

CONSTANTS c1, c2, e1, e2

\* e1 ends the session c1 (SessionRevoked); e2 ends all of its user's (PasswordChanged).
Targets == e1 :> {c1} @@ e2 :> {c1, c2}

\* The user-wide event alone, which does not tell the central sessions apart.
UserTargets == e2 :> {c1, c2}

Symmetry ==
    Permutations(Request) \cup Permutations(Login) \cup Permutations(CentralSession)

=============================================================================
