SPECIFICATION FairSpec
CONSTANTS
    r1 = r1
    r2 = r2
    Requests = {r1, r2}
    Refused = {r2}
    Server = ep
    EndPoints = {ep}
    TargetEp <- MCTargetEp
    Socks = {3}
    Pollers = {recvEpoll}
    NetThreadCount = 1
    Nil = Nil
INVARIANTS
    RefExact
    NoRequestLost
PROPERTIES
    KeepsOneReply
    BrokenConnFails
