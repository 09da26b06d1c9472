SPECIFICATION Spec
CONSTANTS
    c1 = c1  c2 = c2  e1 = e1  e2 = e2
    Login = {l1}
    CentralSession = {c1, c2}
    Event = {e1, e2}
    Target <- Targets
    UserWide = {e2}
    Request = {r1}
    NoEvent = NoEvent  NoCentral = NoCentral
    MaxFaults = 0
CHECK_DEADLOCK FALSE
INVARIANTS NoSessionSurvivesItsCentral
