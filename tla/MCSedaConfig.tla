---------------------------- MODULE MCSedaConfig ----------------------------
(***************************************************************************)
(* SedaConfig for TLC: stage 4 sends to dispatcher 3, that to dispatcher   *)
(* 2, and that to stage 1, so that stages are taken down against the flow  *)
(* of events and one dispatcher may send on what it has stored while the   *)
(* other is drained; the configuration lists the stages in another order   *)
(* than that of their names.                                               *)
(***************************************************************************)
EXTENDS SedaConfig, TLC

MCStages == <<4, 3, 1, 2>>
MCNextStages == (1 :> <<>>) @@ (2 :> <<1>>) @@ (3 :> <<2>>) @@ (4 :> <<3>>)
=============================================================================
