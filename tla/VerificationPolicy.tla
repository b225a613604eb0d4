------------------------- MODULE VerificationPolicy -------------------------
(***************************************************************************)
(* evaluateEvidence (services/verification/src/policy.ts): from the        *)
(* signals collected about a vendor to a verdict.  The signals are a       *)
(* function whose domain is the kinds that were collected: a missing       *)
(* signal is a kind outside the domain.  Reasons, hashes, costs and the    *)
(* signing of the attestation are left out; it is issued exactly to an     *)
(* eligible vendor.                                                        *)
(***************************************************************************)
EXTENDS Integers

(* Fault: the web footprint is treated as supporting evidence only. *)
FootprintOptional ==
  {"company_identity_match", "domain_age_days", "payee_identity_match",
   "typosquat_detected"}

REQUIRED_SIGNALS ==
  {"company_identity_match", "domain_age_days", "web_presence",
   "payee_identity_match", "typosquat_detected"}

BooleanKind ==
  {"company_identity_match", "web_presence", "contact_reachable",
   "news_presence", "payee_identity_match", "typosquat_detected"}
EvidenceKind == BooleanKind \union {"domain_age_days"}

With(signals, kind, value) ==
  [k \in DOMAIN signals \union {kind} |->
     IF k = kind THEN value ELSE signals[k]]

missing(signals) == REQUIRED_SIGNALS \ DOMAIN signals

boolSignal(signals, kind, value) ==
  kind \in DOMAIN signals /\ signals[kind] = value

(* Fault: the brackets of the domain age include their end. *)
NoOlderThan(signals, days) ==
  "domain_age_days" \in DOMAIN signals /\ signals["domain_age_days"] <= days

YoungerThan(signals, days) ==
  "domain_age_days" \in DOMAIN signals /\ signals["domain_age_days"] < days

Points(condition, points) == IF condition THEN points ELSE 0

(* Fault: the two age brackets carry each other's points. *)
AgePointsSwapped(signals) ==
  IF YoungerThan(signals, 30) THEN 15 ELSE Points(YoungerThan(signals, 90), 30)

AgePoints(signals) ==
  IF YoungerThan(signals, 30) THEN 30 ELSE Points(YoungerThan(signals, 90), 15)

riskScore(signals) ==
  LET sum == Points(boolSignal(signals, "company_identity_match", FALSE), 35)
             + AgePoints(signals)
             + Points(boolSignal(signals, "web_presence", FALSE), 20)
             + Points(boolSignal(signals, "contact_reachable", FALSE), 20)
             + Points(boolSignal(signals, "payee_identity_match", FALSE), 100)
             + Points(boolSignal(signals, "typosquat_detected", TRUE), 100)
  IN  IF sum > 100 THEN 100 ELSE sum

HardFailure(signals) ==
  \/ boolSignal(signals, "payee_identity_match", FALSE)
  \/ boolSignal(signals, "typosquat_detected", TRUE)

CompoundFailure(signals) ==
  YoungerThan(signals, 30) /\ boolSignal(signals, "web_presence", FALSE)

TooRisky(signals) == CompoundFailure(signals) \/ riskScore(signals) >= 60

Status(signals) ==
  CASE HardFailure(signals) -> "ineligible"
    [] ~HardFailure(signals) /\ missing(signals) # {} -> "insufficient_evidence"
    [] ~HardFailure(signals) /\ missing(signals) = {} ->
         IF TooRisky(signals) THEN "ineligible" ELSE "eligible"
=============================================================================
