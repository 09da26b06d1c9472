SPECIFICATION FairSpec
CONSTANTS
    Event <- TwoEvents
    Publisher = {p1, p2}
    BatchSize = 2
    MaxFaults = 3
CHECK_DEADLOCK FALSE
INVARIANTS TypeOK PublishedWasEnqueued AttemptsAreExclusive
PROPERTIES PublishedIsFinal LateAttemptChangesNothing CommittedIsPublished
