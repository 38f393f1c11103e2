SPECIFICATION Spec
CONSTANTS
    r1 = r1
    r2 = r2
    Requests = {r1, r2}
    Refused = {}
    Server = ep
    EndPoints = {ep}
    TargetEp <- MCTargetEp
    Socks = {3, 4}
    Pollers = {}
    NetThreadCount = 1
    Nil = Nil
SYMMETRY MCSymmetry
INVARIANTS
    HeldConnAlive
    MapsAgree
