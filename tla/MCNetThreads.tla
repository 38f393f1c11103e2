---------------------------- MODULE MCNetThreads -----------------------------
(***************************************************************************)
(* NetThreads for TLC: two data threads, and two sockets that share one of *)
(* them; while there is only one, they are handed to the other.            *)
(***************************************************************************)
EXTENDS NetThreads

MCSocks == {1, 3}
=============================================================================
