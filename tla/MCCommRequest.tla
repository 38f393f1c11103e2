---------------------------- MODULE MCCommRequest ----------------------------
(***************************************************************************)
(* CommRequest for TLC: every request goes to the same end point, so that  *)
(* they share connections; requests that none of the other constants names *)
(* are interchangeable.                                                    *)
(***************************************************************************)
EXTENDS CommRequest, TLC

CONSTANT Server
MCTargetEp == [r \in Requests |-> Server]
MCSymmetry == Permutations(Requests)
=============================================================================
