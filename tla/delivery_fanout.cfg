SPECIFICATION Spec
CONSTANTS
    Event = {e1, bad}
    NoEvent = none
    App = {a1, a2}
    Targets <- AllApps
    Poison = {bad}
    Task = {t1}
    Poll = poll
    MaxAttempts = 1
    MaxCopies = 1
    MaxFaults = 1
CHECK_DEADLOCK FALSE
SYMMETRY Symmetry
INVARIANTS NoMessageLost DeadLettersAreJustified
PROPERTIES PromiseKept
