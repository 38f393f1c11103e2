---------------------------- MODULE MCNetServer ----------------------------
(***************************************************************************)
(* NetServer for TLC: one client asks all requests, the others come and go *)
(* (leaving by a reset, which the epoll threads see as a hang-up), while   *)
(* there is one thread of each kind: sockets are interchangeable.          *)
(***************************************************************************)
EXTENDS NetServer, TLC

CONSTANTS c1, lane
MCOwner == [r \in Requests |-> c1]
MCLeavesBy == [c \in Clients |-> IF c = c1 THEN {"fin", "reset"} ELSE {"reset"}]
MCLane == [s \in Socks |-> lane]
MCSymmetry == Permutations(Socks)
=============================================================================
