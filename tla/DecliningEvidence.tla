-------------------------- MODULE DecliningEvidence --------------------------
(***************************************************************************)
(* The policy over time: what is known of a vendor gets worse, signal by   *)
(* signal, or a signal can no longer be had, unless it is one of the two   *)
(* supporting ones (docs/PRD.md:632).  Any bundle may be the first one.    *)
(***************************************************************************)
EXTENDS VerificationPolicy

CONSTANT Age  \* bound: the domain ages, in days

ASSUME AgeAssumption == Age \subseteq Int

VARIABLE signals

AnyBundle ==
  \E kinds \in SUBSET BooleanKind : \E findings \in [kinds -> BOOLEAN] :
    \/ signals = findings
    \/ \E age \in Age : signals = With(findings, "domain_age_days", age)

(* The value that speaks against a vendor. *)
Bad(kind) == kind = "typosquat_detected"

Worsen(kind) ==
  /\ kind \in DOMAIN signals
  /\ \/ kind \in BooleanKind /\ signals' = [signals EXCEPT ![kind] = Bad(kind)]
     \/ /\ kind = "domain_age_days"
        /\ \E age \in Age :
             age < signals[kind] /\ signals' = [signals EXCEPT ![kind] = age]

Lose(kind) ==
  /\ kind \in DOMAIN signals \ {"contact_reachable", "news_presence"}
  /\ signals' = [k \in DOMAIN signals \ {kind} |-> signals[k]]

Decline == \E kind \in EvidenceKind : Worsen(kind) \/ Lose(kind)

DeclineSpec == AnyBundle /\ [][Decline]_signals

(* A vendor that is turned down does not come back by looking worse, or    *)
(* because a provider of required evidence falls silent.  (The supporting  *)
(* evidence is left out for a reason: a vendor at 60 points or more that   *)
(* owes 20 of them to an unreachable contact gains when nobody calls.)     *)
NoComeback ==
  [][Status(signals) # "eligible" => Status(signals') # "eligible"]_signals

(* The score shown with a verdict never falls when a signal gets worse:    *)
(* the brackets of the domain age and the cap at 100 are in order.         *)
ScoreFollowsEvidence ==
  [][DOMAIN signals' = DOMAIN signals
       => riskScore(signals') >= riskScore(signals)]_signals

(* What counts against the vendor. *)
Findings ==
  {kind \in BooleanKind \intersect DOMAIN signals : signals[kind] = Bad(kind)}
  \union {bracket \in {"under_30_days", "under_90_days"} :
            /\ "domain_age_days" \in DOMAIN signals
            /\ signals["domain_age_days"] < IF bracket = "under_30_days" THEN 30 ELSE 90}

Hard == {{"payee_identity_match"}, {"typosquat_detected"}}

(* The smallest sets of findings that decide against a vendor when all the *)
(* required evidence is in hand.                                           *)
Decisive ==
  Hard \union
  {{"under_30_days", "web_presence"},
   {"under_30_days", "company_identity_match"},
   {"under_90_days", "company_identity_match", "web_presence"},
   {"under_90_days", "company_identity_match", "contact_reachable"},
   {"company_identity_match", "web_presence", "contact_reachable"}}

(* The weights, the brackets of the age, the compound failure and the      *)
(* limit of 60 come to this table, exactly at 30 and at 90 days: a vendor  *)
(* is ineligible for one of these sets of findings and for nothing less.   *)
(* So no weakness decides alone (docs/PRD.md:650), unless it is a hard     *)
(* failure, and that one decides while evidence is still missing (the      *)
(* comment on hardFailure in policy.ts).                                   *)
FindingsDecide ==
  Status(signals) = "ineligible"
    <=> \E findings \in (IF missing(signals) = {} THEN Decisive ELSE Hard) :
          findings \subseteq Findings
=============================================================================
