SPECIFICATION FairSpec
CONSTANTS
    Timers = {t1, t2}
    Handlers = {h1, h2}
    MaxTime = 1
    MaxCancels = 1
    Never = Never
INVARIANTS
    CancelIsFinal
    NumEventsExact
    NeverOversleeps
PROPERTIES
    FiresInOrder
    TimerFires
