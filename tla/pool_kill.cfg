SPECIFICATION Spec
CONSTANTS
    Stages = {s1}
    Events = {e1, e2}
    Workers = {w1, w2, w3}
    Producers = {p1}
    Controllers = {c1}
    Reapers = {r1, r2}
    InitThreads = {w1, w2, w3}
    KillSizes = {0, 1, 2}
    MaxCallbacks = 0
    SpuriousThreadCond = TRUE
    Killer = Killer
    KillEvent = KillEvent
    Nil = Nil
SYMMETRY Symmetry
INVARIANTS
    ThreadsExact
PROPERTY KillReturnsDrained
CHECK_DEADLOCK FALSE
