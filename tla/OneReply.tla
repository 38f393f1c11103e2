------------------------------ MODULE OneReply ------------------------------
(***************************************************************************)
(* What CommStage promises the stage that gives it a request: the event is *)
(* completed once, with the server's answer, which presupposes that the    *)
(* server had the request, or with an error.  No connection, queue or      *)
(* thread appears here.                                                    *)
(***************************************************************************)
EXTENDS Naturals

CONSTANT Request

VARIABLES
    asked,   \* requests given to CommStage
    served,  \* requests the server has received
    reply    \* "none", or how the request's event was completed

vars == <<asked, served, reply>>

Init == asked = {} /\ served = {} /\ reply = [r \in Request |-> "none"]

Waiting == {r \in asked : reply[r] = "none"}

Ask(r) ==
    /\ r \notin asked
    /\ asked' = asked \cup {r}
    /\ UNCHANGED <<served, reply>>

Serve(r) ==
    /\ r \in asked \ served
    /\ served' = served \cup {r}
    /\ UNCHANGED <<asked, reply>>

Answer(r) ==
    /\ r \in Waiting \cap served
    /\ reply' = [reply EXCEPT ![r] = "answer"]
    /\ UNCHANGED <<asked, served>>

(* A connection that goes away fails all the requests it has.              *)
Fail(S) ==
    /\ S \subseteq Waiting
    /\ reply' = [r \in Request |-> IF r \in S THEN "error" ELSE reply[r]]
    /\ UNCHANGED <<asked, served>>

Next ==
    \/ \E r \in Request : Ask(r) \/ Serve(r) \/ Answer(r)
    \/ \E S \in SUBSET Request : Fail(S)

Spec == Init /\ [][Next]_vars
=============================================================================
