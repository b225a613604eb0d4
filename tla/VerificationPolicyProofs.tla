---------------------- MODULE VerificationPolicyProofs ----------------------
(***************************************************************************)
(* The policy is monotone and comes to a table of seven cases: for any     *)
(* domain ages, evidence that gets worse or goes missing never helps a     *)
(* vendor, and the sets of findings that decide against one are known.     *)
(***************************************************************************)
EXTENDS DecliningEvidence, TLAPS

(* The types that the comparisons of the policy rely on. *)
SignalsOK ==
  /\ DOMAIN signals \subseteq EvidenceKind
  /\ "domain_age_days" \in DOMAIN signals => signals["domain_age_days"] \in Int

(* t says of the same kinds what s says, or something worse. *)
NoBetter(t, s) ==
  /\ DOMAIN t = DOMAIN s
  /\ \A kind \in DOMAIN s \ {"domain_age_days"} :
       t[kind] = s[kind] \/ t[kind] = Bad(kind)
  /\ "domain_age_days" \in DOMAIN s =>
       /\ t["domain_age_days"] \in Int /\ s["domain_age_days"] \in Int
       /\ t["domain_age_days"] <= s["domain_age_days"]

(* A step that worsens a signal leaves no other signal better. *)
LEMMA WorseIsNoBetter ==
  ASSUME SignalsOK, NEW kind \in EvidenceKind, Worsen(kind)
  PROVE  NoBetter(signals', signals)
<1>1. CASE kind \in BooleanKind
  <2>1. signals' = [signals EXCEPT ![kind] = Bad(kind)]
    BY <1>1, AgeAssumption DEF Worsen, BooleanKind
  <2>2. kind # "domain_age_days"
    BY <1>1 DEF BooleanKind
  <2> QED
    BY <2>1, <2>2 DEF NoBetter, SignalsOK
<1>2. CASE kind = "domain_age_days"
  <2>1. PICK age \in Age : age < signals[kind]
                           /\ signals' = [signals EXCEPT ![kind] = age]
    BY <1>2 DEF Worsen, BooleanKind
  <2>2. age \in Int /\ kind \in DOMAIN signals
    BY AgeAssumption DEF Worsen
  <2> QED
    BY <1>2, <2>1, <2>2 DEF NoBetter, SignalsOK
<1> QED
  BY <1>1, <1>2 DEF EvidenceKind

(* Every condition of the policy that counts against a vendor survives. *)
FailuresKept(t, s) ==
  /\ boolSignal(s, "company_identity_match", FALSE)
       => boolSignal(t, "company_identity_match", FALSE)
  /\ boolSignal(s, "web_presence", FALSE)
       => boolSignal(t, "web_presence", FALSE)
  /\ boolSignal(s, "contact_reachable", FALSE)
       => boolSignal(t, "contact_reachable", FALSE)
  /\ boolSignal(s, "payee_identity_match", FALSE)
       => boolSignal(t, "payee_identity_match", FALSE)
  /\ boolSignal(s, "typosquat_detected", TRUE)
       => boolSignal(t, "typosquat_detected", TRUE)
  /\ YoungerThan(s, 30) => YoungerThan(t, 30)
  /\ YoungerThan(s, 90) => YoungerThan(t, 90)

LEMMA FailuresRemain ==
  ASSUME NEW s, NEW t, NoBetter(t, s)
  PROVE  FailuresKept(t, s)
<1>1. \A kind \in DOMAIN s \ {"domain_age_days"} :
        boolSignal(s, kind, Bad(kind)) => boolSignal(t, kind, Bad(kind))
  BY DEF boolSignal, NoBetter
<1>2. /\ YoungerThan(s, 30) => YoungerThan(t, 30)
      /\ YoungerThan(s, 90) => YoungerThan(t, 90)
  BY DEF YoungerThan, NoBetter
<1> QED
  BY <1>1, <1>2 DEF FailuresKept, boolSignal, Bad

LEMMA HardFailureRemains ==
  ASSUME NEW s, NEW t, NoBetter(t, s), HardFailure(s)
  PROVE  HardFailure(t)
BY FailuresRemain DEF FailuresKept, HardFailure

(* The score is a sum of points for such conditions, capped. *)
LEMMA ScoreRises ==
  ASSUME NEW s, NEW t, NoBetter(t, s)
  PROVE  /\ riskScore(s) \in Int /\ riskScore(t) \in Int
         /\ riskScore(t) >= riskScore(s)
<1> DEFINE Company(x) == Points(boolSignal(x, "company_identity_match", FALSE), 35)
           Web(x) == Points(boolSignal(x, "web_presence", FALSE), 20)
           Contact(x) == Points(boolSignal(x, "contact_reachable", FALSE), 20)
           Payee(x) == Points(boolSignal(x, "payee_identity_match", FALSE), 100)
           Squat(x) == Points(boolSignal(x, "typosquat_detected", TRUE), 100)
           Sum(x) == Company(x) + AgePoints(x) + Web(x) + Contact(x)
                     + Payee(x) + Squat(x)
<1>1. FailuresKept(t, s)
  BY FailuresRemain
<1>2. /\ Company(s) \in Int /\ Company(t) \in Int /\ Company(t) >= Company(s)
      /\ Web(s) \in Int /\ Web(t) \in Int /\ Web(t) >= Web(s)
  BY <1>1 DEF FailuresKept, Points, boolSignal
<1>3. /\ Contact(s) \in Int /\ Contact(t) \in Int /\ Contact(t) >= Contact(s)
      /\ Payee(s) \in Int /\ Payee(t) \in Int /\ Payee(t) >= Payee(s)
  BY <1>1 DEF FailuresKept, Points, boolSignal
<1>4. Squat(s) \in Int /\ Squat(t) \in Int /\ Squat(t) >= Squat(s)
  BY <1>1 DEF FailuresKept, Points, boolSignal
<1>5. AgePoints(s) \in Int /\ AgePoints(t) \in Int /\ AgePoints(t) >= AgePoints(s)
  BY <1>1 DEF FailuresKept, AgePoints, Points, YoungerThan
<1>6. Sum(s) \in Int /\ Sum(t) \in Int /\ Sum(t) >= Sum(s)
  <2> HIDE DEF Company, Web, Contact, Payee, Squat
  <2> QED
    BY <1>2, <1>3, <1>4, <1>5
<1>7. /\ riskScore(s) = IF Sum(s) > 100 THEN 100 ELSE Sum(s)
      /\ riskScore(t) = IF Sum(t) > 100 THEN 100 ELSE Sum(t)
  BY DEF riskScore
<1> HIDE DEF Sum
<1> QED
  BY <1>6, <1>7

LEMMA RiskRemains ==
  ASSUME NEW s, NEW t, NoBetter(t, s), TooRisky(s)
  PROVE  TooRisky(t)
<1>1. CASE CompoundFailure(s)
  BY <1>1, FailuresRemain DEF FailuresKept, CompoundFailure, TooRisky
<1>2. CASE riskScore(s) >= 60
  BY <1>2, ScoreRises DEF TooRisky
<1> QED
  BY <1>1, <1>2 DEF TooRisky

(* The domain ages that are compared stay numbers. *)
LEMMA SignalsStayOK == DeclineSpec => []SignalsOK
<1>1. AnyBundle => SignalsOK
  BY AgeAssumption DEF AnyBundle, SignalsOK, With, EvidenceKind, BooleanKind
<1>2. SignalsOK /\ [Decline]_signals => SignalsOK'
  <2> SUFFICES ASSUME SignalsOK, [Decline]_signals PROVE SignalsOK'
    OBVIOUS
  <2>1. ASSUME NEW kind \in EvidenceKind, Worsen(kind) PROVE SignalsOK'
    BY <2>1, WorseIsNoBetter DEF NoBetter, SignalsOK
  <2>2. ASSUME NEW kind \in EvidenceKind, Lose(kind) PROVE SignalsOK'
    BY <2>2 DEF Lose, SignalsOK
  <2>3. CASE UNCHANGED signals
    BY <2>3 DEF SignalsOK
  <2> QED
    BY <2>1, <2>2, <2>3 DEF Decline
<1> QED
  BY <1>1, <1>2, PTL DEF DeclineSpec

(* A vendor that was turned down is not admitted on evidence that got      *)
(* worse or went missing (evaluateEvidence, for all domain ages).          *)
THEOREM RefusalIsFinal == DeclineSpec => NoComeback
<1>1. ASSUME SignalsOK, Decline, Status(signals) # "eligible"
      PROVE  Status(signals') # "eligible"
  <2>1. ASSUME NEW kind \in EvidenceKind, Worsen(kind)
        PROVE  Status(signals') # "eligible"
    <3>1. NoBetter(signals', signals)
      BY <1>1, <2>1, WorseIsNoBetter
    <3>2. CASE HardFailure(signals)
      BY <3>1, <3>2, HardFailureRemains DEF Status
    <3>3. CASE missing(signals) # {}
      BY <3>1, <3>3 DEF Status, NoBetter, missing
    <3>4. CASE TooRisky(signals)
      BY <3>1, <3>4, RiskRemains DEF Status
    <3> QED
      BY <1>1, <3>2, <3>3, <3>4 DEF Status
  <2>2. ASSUME NEW kind \in EvidenceKind, Lose(kind)
        PROVE  Status(signals') # "eligible"
    <3>1. kind \in missing(signals')
      BY <1>1, <2>2
      DEF Lose, missing, SignalsOK, EvidenceKind, BooleanKind, REQUIRED_SIGNALS
    <3> QED
      BY <3>1 DEF Status
  <2> QED
    BY <1>1, <2>1, <2>2 DEF Decline
<1> QED
  BY <1>1, SignalsStayOK, PTL DEF DeclineSpec, NoComeback

(* The score shown with a verdict never falls when a signal gets worse     *)
(* (the sum of evaluateEvidence, its age brackets and its cap).            *)
THEOREM ScoreIsMonotone == DeclineSpec => ScoreFollowsEvidence
<1>1. ASSUME SignalsOK, Decline, DOMAIN signals' = DOMAIN signals
      PROVE  riskScore(signals') >= riskScore(signals)
  <2>1. ASSUME NEW kind \in EvidenceKind, Lose(kind) PROVE FALSE
    BY <1>1, <2>1 DEF Lose
  <2> QED
    BY <1>1, <2>1, WorseIsNoBetter, ScoreRises DEF Decline
<1> QED
  BY <1>1, SignalsStayOK, PTL DEF DeclineSpec, ScoreFollowsEvidence

(* The findings are the conditions that the policy tests. *)
LEMMA FindingsAreTested ==
  ASSUME SignalsOK
  PROVE  /\ "company_identity_match" \in Findings
              <=> boolSignal(signals, "company_identity_match", FALSE)
         /\ "web_presence" \in Findings
              <=> boolSignal(signals, "web_presence", FALSE)
         /\ "contact_reachable" \in Findings
              <=> boolSignal(signals, "contact_reachable", FALSE)
         /\ "payee_identity_match" \in Findings
              <=> boolSignal(signals, "payee_identity_match", FALSE)
         /\ "typosquat_detected" \in Findings
              <=> boolSignal(signals, "typosquat_detected", TRUE)
         /\ "under_30_days" \in Findings <=> YoungerThan(signals, 30)
         /\ "under_90_days" \in Findings <=> YoungerThan(signals, 90)
<1>1. ASSUME NEW kind \in BooleanKind
      PROVE  kind \in Findings <=> boolSignal(signals, kind, Bad(kind))
  <2>1. kind \notin {"under_30_days", "under_90_days"}
    BY DEF BooleanKind
  <2> QED
    BY <2>1 DEF Findings, boolSignal
<1>2. /\ Bad("company_identity_match") = FALSE /\ Bad("web_presence") = FALSE
      /\ Bad("contact_reachable") = FALSE /\ Bad("payee_identity_match") = FALSE
      /\ Bad("typosquat_detected") = TRUE
  BY DEF Bad
<1>3. /\ "under_30_days" \notin BooleanKind /\ "under_90_days" \notin BooleanKind
  BY DEF BooleanKind
<1>4. "under_30_days" \in Findings <=> YoungerThan(signals, 30)
  BY <1>3 DEF Findings, YoungerThan
<1>5. "under_90_days" \in Findings <=> YoungerThan(signals, 90)
  BY <1>3 DEF Findings, YoungerThan
<1>6. {"company_identity_match", "web_presence", "contact_reachable",
       "payee_identity_match", "typosquat_detected"} \subseteq BooleanKind
  BY DEF BooleanKind
<1> QED
  BY <1>1, <1>2, <1>4, <1>5, <1>6

(* The score, without the hard failures, is a sum of four.                 *)
LEMMA ScoreWithoutHardFailure ==
  ASSUME SignalsOK, ~HardFailure(signals)
  PROVE  riskScore(signals) >= 60
           <=> Points(boolSignal(signals, "company_identity_match", FALSE), 35)
               + AgePoints(signals)
               + Points(boolSignal(signals, "web_presence", FALSE), 20)
               + Points(boolSignal(signals, "contact_reachable", FALSE), 20) >= 60
<1> DEFINE identity == Points(boolSignal(signals, "company_identity_match", FALSE), 35)
           web == Points(boolSignal(signals, "web_presence", FALSE), 20)
           contact == Points(boolSignal(signals, "contact_reachable", FALSE), 20)
<1>1. /\ Points(boolSignal(signals, "payee_identity_match", FALSE), 100) = 0
      /\ Points(boolSignal(signals, "typosquat_detected", TRUE), 100) = 0
  BY DEF HardFailure, Points
<1>2. identity \in Int /\ web \in Int /\ contact \in Int /\ AgePoints(signals) \in Int
  BY DEF Points, AgePoints
<1>3. riskScore(signals) =
        LET sum == identity + AgePoints(signals) + web + contact + 0 + 0
        IN  IF sum > 100 THEN 100 ELSE sum
  BY <1>1 DEF riskScore
<1> HIDE DEF identity, web, contact
<1>4. riskScore(signals) >= 60 <=> identity + AgePoints(signals) + web + contact >= 60
  BY <1>2, <1>3
<1> QED
  BY <1>4 DEF identity, web, contact

(* The weights of evaluateEvidence and its limit come to a table of        *)
(* findings, exactly at each bracket of the age: for all domain ages, a    *)
(* vendor is ineligible for one of the sets of Decisive and for nothing    *)
(* less, and a hard failure alone decides while evidence is missing.       *)
THEOREM FindingsDecideAlways == DeclineSpec => []FindingsDecide
<1>1. SignalsOK => FindingsDecide
  <2> SUFFICES ASSUME SignalsOK PROVE FindingsDecide
    OBVIOUS
  <2> DEFINE identity == boolSignal(signals, "company_identity_match", FALSE)
             web == boolSignal(signals, "web_presence", FALSE)
             contact == boolSignal(signals, "contact_reachable", FALSE)
             under30 == YoungerThan(signals, 30)
             under90 == YoungerThan(signals, 90)
             table == \/ under30 /\ web
                      \/ under30 /\ identity
                      \/ under90 /\ identity /\ web
                      \/ under90 /\ identity /\ contact
                      \/ identity /\ web /\ contact
  <2>1. HardFailure(signals) <=> \E findings \in Hard : findings \subseteq Findings
    BY FindingsAreTested DEF HardFailure, Hard
  <2>2. (\E findings \in Decisive : findings \subseteq Findings)
          <=> HardFailure(signals) \/ table
    <3>1. (\E findings \in Decisive \ Hard : findings \subseteq Findings) => table
      BY FindingsAreTested DEF Decisive
    <3>2. ASSUME table PROVE \E findings \in Decisive : findings \subseteq Findings
      <4>1. CASE under30 /\ web
        <5>1. {"under_30_days", "web_presence"} \subseteq Findings
          BY <4>1, FindingsAreTested
        <5> QED BY <5>1 DEF Decisive
      <4>2. CASE under30 /\ identity
        <5>1. {"under_30_days", "company_identity_match"} \subseteq Findings
          BY <4>2, FindingsAreTested
        <5> QED BY <5>1 DEF Decisive
      <4>3. CASE under90 /\ identity /\ web
        <5>1. {"under_90_days", "company_identity_match", "web_presence"}
                \subseteq Findings
          BY <4>3, FindingsAreTested
        <5> QED BY <5>1 DEF Decisive
      <4>4. CASE under90 /\ identity /\ contact
        <5>1. {"under_90_days", "company_identity_match", "contact_reachable"}
                \subseteq Findings
          BY <4>4, FindingsAreTested
        <5> QED BY <5>1 DEF Decisive
      <4>5. CASE identity /\ web /\ contact
        <5>1. {"company_identity_match", "web_presence", "contact_reachable"}
                \subseteq Findings
          BY <4>5, FindingsAreTested
        <5> QED BY <5>1 DEF Decisive
      <4> QED
        BY <3>2, <4>1, <4>2, <4>3, <4>4, <4>5
    <3> QED
      BY <2>1, <3>1, <3>2 DEF Decisive
  <2>3. under30 => under90
    BY DEF YoungerThan, SignalsOK
  <2>4. AgePoints(signals) = IF under30 THEN 30 ELSE IF under90 THEN 15 ELSE 0
    BY DEF AgePoints, Points
  <2>5. ASSUME ~HardFailure(signals)
        PROVE  TooRisky(signals) <=> table
    <3>1. riskScore(signals) >= 60
            <=> Points(identity, 35) + AgePoints(signals)
                + Points(web, 20) + Points(contact, 20) >= 60
      BY <2>5, ScoreWithoutHardFailure
    <3>2. CompoundFailure(signals) <=> under30 /\ web
      BY DEF CompoundFailure
    <3>4. /\ identity \in BOOLEAN /\ web \in BOOLEAN /\ contact \in BOOLEAN
          /\ under30 \in BOOLEAN /\ under90 \in BOOLEAN
      BY DEF boolSignal, YoungerThan
    <3> HIDE DEF identity, web, contact, under30, under90
    <3>3. Points(identity, 35) + AgePoints(signals)
            + Points(web, 20) + Points(contact, 20) >= 60
          <=> \/ under30 /\ identity
              \/ under30 /\ web /\ contact
              \/ under90 /\ identity /\ web
              \/ under90 /\ identity /\ contact
              \/ identity /\ web /\ contact
      <4>1. AgePoints(signals) = 30 <=> under30
        BY <2>4, <3>4
      <4>2. AgePoints(signals) \in {15, 30} <=> under90
        BY <2>3, <2>4, <3>4
      <4>3. /\ Points(identity, 35) \in {0, 35} /\ (Points(identity, 35) = 35 <=> identity)
            /\ Points(web, 20) \in {0, 20} /\ (Points(web, 20) = 20 <=> web)
            /\ Points(contact, 20) \in {0, 20} /\ (Points(contact, 20) = 20 <=> contact)
        BY <3>4 DEF Points
      <4>4. AgePoints(signals) \in {0, 15, 30}
        BY <2>4
      <4> QED
        BY <4>1, <4>2, <4>3, <4>4
    <3> QED
      BY <3>1, <3>2, <3>3 DEF TooRisky
  <2>6. Status(signals) = "ineligible"
          <=> \/ HardFailure(signals)
              \/ missing(signals) = {} /\ TooRisky(signals)
    BY DEF Status
  <2> HIDE DEF table
  <2> QED
    BY <2>1, <2>2, <2>5, <2>6 DEF FindingsDecide
<1> QED
  BY <1>1, SignalsStayOK, PTL DEF DeclineSpec
=============================================================================
