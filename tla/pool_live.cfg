SPECIFICATION FairSpec
CONSTANTS
    Stages = {s1}
    Events = {e1}
    Workers = {w1, w2}
    Producers = {p1}
    Controllers = {c1}
    Reapers = {r1}
    InitThreads = {w1, w2}
    KillSizes = {1}
    MaxCallbacks = 1
    SpuriousThreadCond = FALSE
    Killer = Killer
    KillEvent = KillEvent
    Nil = Nil
PROPERTIES
    EventServed
    DisconnectReturns
    KillReturns
