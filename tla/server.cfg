SPECIFICATION Spec
CONSTANTS
    c1 = c1
    Clients = {c1, c2}
    Requests = {r1}
    Owner <- MCOwner
    LeavesBy <- MCLeavesBy
    Socks = {s1, s2}
    NumRemoveInactive = 1
    lane = lane
    Lanes = {lane}
    Lane <- MCLane
    Listen = Listen
    Nil = Nil
SYMMETRY MCSymmetry
INVARIANTS
    EventOnce
    HeldExact
    AnswerToAsker
    RecvWakeup
    SendWakeup
