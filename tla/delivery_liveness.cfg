SPECIFICATION FairSpec
CONSTANTS
    Event = {e1, bad}
    NoEvent = none
    App = {a1}
    Targets <- AllApps
    Poison = {bad}
    Task = {t1}
    Poll = poll
    MaxAttempts = 2
    MaxCopies = 2
    MaxFaults = 1
CHECK_DEADLOCK FALSE
PROPERTIES EveryDeliveryConcludes ConsumerQuiesces
