--------------------------- MODULE MCControlPlane ---------------------------
(***************************************************************************)
(* Small instances of the control plane: two scenarios, with two vendors   *)
(* at home (each of which may fail its checks) and one away, with enough   *)
(* in stock or with one vendor that cannot serve the larger requests.      *)
(***************************************************************************)
EXTENDS ControlPlane, TLC

CONSTANTS home, away, cheap, steady, distant

MCCandidates == home :> {cheap, steady} @@ away :> {distant}
MCStock == cheap :> 2 @@ steady :> 2 @@ distant :> 2
MCScarceStock == cheap :> 2 @@ steady :> 1 @@ distant :> 2
MCPrice == cheap :> 1 @@ steady :> 2 @@ distant :> 1
MCEvidence == cheap :> {"eligible", "ineligible"}
              @@ steady :> {"eligible", "ineligible"}
              @@ distant :> {"eligible"}
=============================================================================
