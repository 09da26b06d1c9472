SPECIFICATION Spec
CONSTANTS
    Event = {e1}
    NoEvent = none
    App = {a1}
    Targets <- AllApps
    Poison = {}
    Task = {t1}
    Poll = poll
    MaxAttempts = 1
    MaxCopies = 2
    MaxFaults = 0
CHECK_DEADLOCK FALSE
INVARIANT AttemptsWithinLimit
