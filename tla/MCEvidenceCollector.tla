------------------------ MODULE MCEvidenceCollector ------------------------
(***************************************************************************)
(* Two hosts: one established, with a registry to fall back on, and one    *)
(* that turns 30 days old while the collector lives.  The young host's     *)
(* page names one of its two vendors; the impostor's payee is not its own. *)
(* The same run takes the policy through every bundle of evidence and      *)
(* every decline of it; the collector works where nothing is left of one.  *)
(***************************************************************************)
EXTENDS EvidenceCollector, DecliningEvidence, TLC

CONSTANTS established, young, genuine, tenant, reseller, impostor

MCHostOf == genuine :> established @@ impostor :> established
            @@ tenant :> young @@ reseller :> young
MCPayeeMatch == [v \in Vendor |-> v # impostor]
MCTyposquat == [v \in Vendor |-> FALSE]
MCRegisteredAt == established :> -4000 @@ young :> -58
MCPage == established :> {genuine, impostor} @@ young :> {tenant}

MCInit == Init /\ AnyBundle

MCNext ==
  \/ Decline /\ UNCHANGED vars
  \/ DOMAIN signals = {} /\ Next /\ UNCHANGED signals

MCSpec == MCInit /\ [][MCNext]_<<vars, signals>> /\ Fairness
=============================================================================
