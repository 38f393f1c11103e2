---------------------------- MODULE StagePromise ----------------------------
(***************************************************************************)
(* What Stage promises its clients, without pool, run queue or reference   *)
(* counts: an event added to an open stage is accepted and will be handed  *)
(* to a handler in arrival order; an event added to a stage that is not    *)
(* open is parked; disconnect returns only when every accepted event has   *)
(* been handled; connect accepts what was parked.                          *)
(***************************************************************************)
EXTENDS Naturals, Sequences

CONSTANTS Stage, Event

VARIABLES
    phase,     \* "open", "closing" (disconnect is waiting) or "closed"
    accepted,  \* events that will be handled before the stage closes
    parked,    \* events waiting for the next connect
    busy       \* number of handlers at work

vars == <<phase, accepted, parked, busy>>

Drained(s) == accepted[s] = <<>> /\ busy[s] = 0

Init ==
    /\ phase = [s \in Stage |-> "closed"]
    /\ accepted = [s \in Stage |-> <<>>]
    /\ parked = [s \in Stage |-> <<>>]
    /\ busy = [s \in Stage |-> 0]

Add(s, e) ==
    /\ IF phase[s] = "open"
         THEN accepted' = [accepted EXCEPT ![s] = Append(@, e)] /\ UNCHANGED parked
         ELSE parked' = [parked EXCEPT ![s] = Append(@, e)] /\ UNCHANGED accepted
    /\ UNCHANGED <<phase, busy>>

Take(s) ==
    /\ accepted[s] # <<>>
    /\ accepted' = [accepted EXCEPT ![s] = Tail(@)]
    /\ busy' = [busy EXCEPT ![s] = @ + 1]
    /\ UNCHANGED <<phase, parked>>

Finish(s) ==
    /\ busy[s] > 0
    /\ busy' = [busy EXCEPT ![s] = @ - 1]
    /\ UNCHANGED <<phase, accepted, parked>>

Open(s) ==
    /\ phase[s] = "closed"
    /\ phase' = [phase EXCEPT ![s] = "open"]
    /\ accepted' = [accepted EXCEPT ![s] = parked[s]]
    /\ parked' = [parked EXCEPT ![s] = <<>>]
    /\ UNCHANGED busy

Close(s) ==
    /\ phase[s] = "open"
    /\ phase' = [phase EXCEPT ![s] = "closing"]
    /\ UNCHANGED <<accepted, parked, busy>>

Closed(s) ==
    /\ phase[s] \in {"open", "closing"}
    /\ Drained(s)
    /\ phase' = [phase EXCEPT ![s] = "closed"]
    /\ UNCHANGED <<accepted, parked, busy>>

Next ==
    \E s \in Stage :
        \/ \E e \in Event : Add(s, e)
        \/ Take(s) \/ Finish(s) \/ Open(s) \/ Close(s) \/ Closed(s)

Spec == Init /\ [][Next]_vars
=============================================================================
