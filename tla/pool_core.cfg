SPECIFICATION Spec
CONSTANTS
    Stages = {s1, s2}
    Events = {e1, e2}
    Workers = {w1, w2}
    Producers = {p1}
    Controllers = {c1}
    Reapers = {}
    InitThreads = {w1, w2}
    KillSizes = {}
    MaxCallbacks = 1
    SpuriousThreadCond = FALSE
    Killer = Killer
    KillEvent = KillEvent
    Nil = Nil
SYMMETRY Symmetry
INVARIANTS
    TypeOK
    RefBalance
    NoLostWakeup
    CallbackAtOwner
PROPERTY KeepsPromise
