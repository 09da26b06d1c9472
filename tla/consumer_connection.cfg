SPECIFICATION FairSpec
CONSTANTS
    Message = {m1}
    Connection = {c1, c2, c3}
    Prefetch = 1
    None = None
CHECK_DEADLOCK FALSE
INVARIANTS TypeOK ShutdownIsGraceful
PROPERTIES ConsumesOrExits
