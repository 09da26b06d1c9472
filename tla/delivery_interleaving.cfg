SPECIFICATION Spec
CONSTANTS
    Event = {e1}
    NoEvent = none
    App = {a1}
    Targets <- AllApps
    Poison = {}
    Task = {t1, t2}
    Poll = poll
    MaxAttempts = 2
    MaxCopies = 2
    MaxFaults = 1
CHECK_DEADLOCK FALSE
SYMMETRY Symmetry
INVARIANTS TypeOK AttemptNumbersAreFresh
PROPERTIES TerminalIsFinal LateAttemptChangesNothing
