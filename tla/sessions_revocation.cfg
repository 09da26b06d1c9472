SPECIFICATION Spec
CONSTANTS
    c1 = c1  c2 = c2  e1 = e1  e2 = e2
    Login = {l1, l2}
    CentralSession = {c1, c2}
    Event = {e2}
    Target <- UserTargets
    UserWide = {e2}
    Request = {r1, r2, r3}
    NoEvent = NoEvent  NoCentral = NoCentral
    MaxFaults = 1
CHECK_DEADLOCK FALSE
SYMMETRY Symmetry
INVARIANTS TypeOK ProcessedMeansRevoked AnswersAreTruthful
PROPERTIES DuplicatesRevokeNothing GrantsRespectRevocation EndedSessionsStay
