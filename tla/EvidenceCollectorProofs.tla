---------------------- MODULE EvidenceCollectorProofs ----------------------
(***************************************************************************)
(* What a collector comes to is true of the vendor, or says that evidence  *)
(* is missing after every retry: for any vendors, hosts, answers, caching  *)
(* and number of collections.                                              *)
(***************************************************************************)
EXTENDS EvidenceCollector, TLAPS

-----------------------------------------------------------------------------
(* Ages and verdicts *)

LEMMA DivisionIsMonotone ==
  ASSUME NEW a \in Int, NEW b \in Int, NEW d \in Nat \ {0}, a <= b
  PROVE  /\ a \div d \in Int /\ b \div d \in Int
         /\ a \div d <= b \div d
<1>1. /\ a \div d \in Int /\ b \div d \in Int
      /\ a = d * (a \div d) + (a % d) /\ 0 <= a % d /\ a % d < d
      /\ b = d * (b \div d) + (b % d) /\ 0 <= b % d /\ b % d < d
  OBVIOUS
<1> QED
  BY <1>1

LEMMA LocalChecks ==
  ASSUME NEW s, NEW v \in Vendor, NEW from, NEW to, TrueAt(s, v, from, to)
  PROVE  HardFailure(s) <=> ~PayeeMatch[v] \/ Typosquat[v]
<1>1. PayeeMatch[v] \in BOOLEAN /\ Typosquat[v] \in BOOLEAN
  BY CollectorAssumption
<1> QED
  BY <1>1 DEF TrueAt, HardFailure, boolSignal

(* What a complete bundle without a hard failure comes to: the vendor is   *)
(* refused when its page does not name it and its domain is young.         *)
LEMMA CompleteStatus ==
  ASSUME NEW s, NEW v \in Vendor, NEW from \in Int, NEW to \in Int,
         TrueAt(s, v, from, to), missing(s) = {}, PayeeMatch[v], ~Typosquat[v]
  PROVE  Status(s) = IF v \in Page[HostOf[v]] \/ s["domain_age_days"] >= 30
                     THEN "eligible" ELSE "ineligible"
<1>1. /\ ~boolSignal(s, "payee_identity_match", FALSE)
      /\ ~boolSignal(s, "typosquat_detected", TRUE)
      /\ ~boolSignal(s, "web_presence", FALSE)
  BY CollectorAssumption DEF TrueAt, boolSignal
<1>2. ~boolSignal(s, "contact_reachable", FALSE)
  BY DEF TrueAt, boolSignal, REQUIRED_SIGNALS
<1>3. {"company_identity_match", "domain_age_days"} \subseteq DOMAIN s
  BY DEF missing, REQUIRED_SIGNALS
<1>4. boolSignal(s, "company_identity_match", FALSE) <=> v \notin Page[HostOf[v]]
  <2>1. s["company_identity_match"] = (v \in Page[HostOf[v]])
    BY <1>3 DEF TrueAt
  <2>2. CASE v \in Page[HostOf[v]]
    <3>1. s["company_identity_match"] = TRUE
      BY <2>1, <2>2, Zenon
    <3> QED
      BY <2>2, <3>1 DEF boolSignal
  <2>3. CASE v \notin Page[HostOf[v]]
    <3>1. (v \in Page[HostOf[v]]) = FALSE
      BY <2>3
    <3>2. s["company_identity_match"] = FALSE
      BY <2>1, <3>1, Zenon
    <3> QED
      BY <1>3, <2>3, <3>2 DEF boolSignal
  <2> QED
    BY <2>2, <2>3
<1>5. s["domain_age_days"] \in Int
  <2>1. PICK time \in from .. to :
          s["domain_age_days"] = (time - RegisteredAt[HostOf[v]]) \div Day
    BY <1>3 DEF TrueAt
  <2>2. RegisteredAt[HostOf[v]] \in Int /\ Day \in Nat \ {0}
    BY CollectorAssumption
  <2>3. time - RegisteredAt[HostOf[v]] \in Int
    BY <2>2
  <2> QED
    BY <2>1, <2>2, <2>3, DivisionIsMonotone
<1>6. /\ YoungerThan(s, 30) <=> s["domain_age_days"] < 30
      /\ YoungerThan(s, 90) <=> s["domain_age_days"] < 90
  BY <1>3 DEF YoungerThan
<1>7. AgePoints(s) = IF s["domain_age_days"] < 30 THEN 30
                     ELSE IF s["domain_age_days"] < 90 THEN 15 ELSE 0
  BY <1>6 DEF AgePoints, Points
<1>8. riskScore(s) = (IF v \in Page[HostOf[v]] THEN 0 ELSE 35) + AgePoints(s)
  <2> DEFINE Company == Points(boolSignal(s, "company_identity_match", FALSE), 35)
             Web == Points(boolSignal(s, "web_presence", FALSE), 20)
             Contact == Points(boolSignal(s, "contact_reachable", FALSE), 20)
             Payee == Points(boolSignal(s, "payee_identity_match", FALSE), 100)
             Squat == Points(boolSignal(s, "typosquat_detected", TRUE), 100)
             Sum == Company + AgePoints(s) + Web + Contact + Payee + Squat
  <2>1. /\ Company = IF v \in Page[HostOf[v]] THEN 0 ELSE 35
        /\ Web = 0 /\ Contact = 0 /\ Payee = 0 /\ Squat = 0
    BY <1>1, <1>2, <1>4 DEF Points
  <2>2. AgePoints(s) \in {0, 15, 30}
    BY <1>7
  <2>3. riskScore(s) = IF Sum > 100 THEN 100 ELSE Sum
    BY DEF riskScore
  <2>4. Sum = Company + AgePoints(s) /\ Company \in {0, 35}
    <3> HIDE DEF Company, Web, Contact, Payee, Squat
    <3> QED
      BY <2>1, <2>2
  <2> HIDE DEF Company, Sum
  <2> QED
    BY <2>1, <2>2, <2>3, <2>4
<1>9. TooRisky(s) <=> v \notin Page[HostOf[v]] /\ s["domain_age_days"] < 30
  <2>1. ~CompoundFailure(s)
    BY <1>1 DEF CompoundFailure
  <2>2. riskScore(s) >= 60 <=> v \notin Page[HostOf[v]] /\ s["domain_age_days"] < 30
    BY <1>5, <1>7, <1>8
  <2> QED
    BY <2>1, <2>2 DEF TooRisky
<1>10. ~HardFailure(s)
  BY <1>1 DEF HardFailure
<1> QED
  BY <1>5, <1>9, <1>10 DEF Status

LEMMA TruthIsTrue ==
  ASSUME NEW v \in Vendor, NEW t \in Int
  PROVE  TrueAt(Truth(v, t), v, t, t) /\ missing(Truth(v, t)) = {}
<1>1. DOMAIN Truth(v, t) = REQUIRED_SIGNALS
  BY DEF Truth
<1>2. /\ Truth(v, t)["payee_identity_match"] = PayeeMatch[v]
      /\ Truth(v, t)["typosquat_detected"] = Typosquat[v]
      /\ Truth(v, t)["web_presence"] = TRUE
      /\ Truth(v, t)["company_identity_match"] = (v \in Page[HostOf[v]])
      /\ Truth(v, t)["domain_age_days"] = (t - RegisteredAt[HostOf[v]]) \div Day
  BY DEF Truth, REQUIRED_SIGNALS
<1>3. t \in t .. t
  OBVIOUS
<1> QED
  BY <1>1, <1>2, <1>3 DEF TrueAt, missing, REQUIRED_SIGNALS

(* A verdict on signals that were true during the collection.              *)
LEMMA VerdictFollowsTruth ==
  ASSUME NEW s, NEW v \in Vendor, NEW from \in Int, NEW to \in Int, from <= to,
         TrueAt(s, v, from, to)
  PROVE  /\ Status(s) = "eligible" => Status(Truth(v, to)) = "eligible"
         /\ Status(s) = "ineligible" => Status(Truth(v, from)) = "ineligible"
         /\ Status(s) = "insufficient_evidence" =>
              missing(s) # {} /\ PayeeMatch[v] /\ ~Typosquat[v]
<1> DEFINE age(t) == (t - RegisteredAt[HostOf[v]]) \div Day
<1>1. /\ TrueAt(Truth(v, from), v, from, from) /\ missing(Truth(v, from)) = {}
      /\ TrueAt(Truth(v, to), v, to, to) /\ missing(Truth(v, to)) = {}
  BY TruthIsTrue
<1>2. CASE ~PayeeMatch[v] \/ Typosquat[v]
  <2>1. HardFailure(s) /\ HardFailure(Truth(v, from))
    BY <1>1, <1>2, LocalChecks
  <2> QED
    BY <2>1 DEF Status
<1>3. CASE PayeeMatch[v] /\ ~Typosquat[v] /\ missing(s) # {}
  <2>1. ~HardFailure(s)
    BY <1>3, LocalChecks
  <2> QED
    BY <1>3, <2>1 DEF Status
<1>4. CASE PayeeMatch[v] /\ ~Typosquat[v] /\ missing(s) = {}
  <2>1. PICK time \in from .. to : s["domain_age_days"] = age(time)
    BY <1>4 DEF missing, REQUIRED_SIGNALS, TrueAt
  <2>2. RegisteredAt[HostOf[v]] \in Int /\ Day \in Nat \ {0}
    BY CollectorAssumption
  <2>3. /\ age(from) \in Int /\ age(time) \in Int /\ age(to) \in Int
        /\ age(from) <= age(time) /\ age(time) <= age(to)
    <3>1. /\ from - RegisteredAt[HostOf[v]] \in Int
          /\ time - RegisteredAt[HostOf[v]] \in Int
          /\ to - RegisteredAt[HostOf[v]] \in Int
          /\ from - RegisteredAt[HostOf[v]] <= time - RegisteredAt[HostOf[v]]
          /\ time - RegisteredAt[HostOf[v]] <= to - RegisteredAt[HostOf[v]]
      BY <2>2
    <3> QED
      BY <2>2, <3>1, DivisionIsMonotone
  <2>4. /\ Truth(v, from)["domain_age_days"] = age(from)
        /\ Truth(v, to)["domain_age_days"] = age(to)
    BY DEF Truth, REQUIRED_SIGNALS
  <2> HIDE DEF age
  <2>5. /\ Status(s) = IF v \in Page[HostOf[v]] \/ age(time) >= 30
                       THEN "eligible" ELSE "ineligible"
        /\ Status(Truth(v, from)) = IF v \in Page[HostOf[v]] \/ age(from) >= 30
                                    THEN "eligible" ELSE "ineligible"
        /\ Status(Truth(v, to)) = IF v \in Page[HostOf[v]] \/ age(to) >= 30
                                  THEN "eligible" ELSE "ineligible"
    BY <1>1, <1>4, <2>1, <2>4, CompleteStatus
  <2> QED
    BY <2>3, <2>5
<1> QED
  BY <1>2, <1>3, <1>4
-----------------------------------------------------------------------------
(* Bundles *)

LEMMA LocalSignalsAreTrue ==
  ASSUME NEW v \in Vendor, NEW from, NEW to
  PROVE  /\ TrueAt(localSignals(v), v, from, to)
         /\ DOMAIN localSignals(v) = {"payee_identity_match", "typosquat_detected"}
BY DEF localSignals, TrueAt, REQUIRED_SIGNALS

LEMMA HostSignalsAreTrue ==
  ASSUME NEW v \in Vendor, NEW facts, NEW from \in Int, clock \in Int, from <= clock,
         facts.registeredAt # None => facts.registeredAt = RegisteredAt[HostOf[v]],
         facts.markdown # None => facts.markdown = Page[HostOf[v]]
  PROVE  /\ TrueAt(HostSignals(v, facts), v, from, clock)
         /\ facts.registeredAt # None => "domain_age_days" \in DOMAIN HostSignals(v, facts)
         /\ facts.markdown # None =>
              {"web_presence", "company_identity_match"} \subseteq DOMAIN HostSignals(v, facts)
<1> DEFINE aged == IF facts.registeredAt = None THEN localSignals(v)
                   ELSE With(localSignals(v), "domain_age_days", ageDays(facts))
           shown == With(aged, "web_presence", TRUE)
           full == With(shown, "company_identity_match", v \in facts.markdown)
<1>1. /\ TrueAt(aged, v, from, clock)
      /\ DOMAIN aged \subseteq {"payee_identity_match", "typosquat_detected", "domain_age_days"}
      /\ facts.registeredAt # None => "domain_age_days" \in DOMAIN aged
  <2>1. CASE facts.registeredAt = None
    BY <2>1, LocalSignalsAreTrue
  <2>2. CASE facts.registeredAt # None
    <3>1. /\ DOMAIN aged = {"payee_identity_match", "typosquat_detected", "domain_age_days"}
          /\ aged["payee_identity_match"] = PayeeMatch[v]
          /\ aged["typosquat_detected"] = Typosquat[v]
          /\ aged["domain_age_days"] = (clock - RegisteredAt[HostOf[v]]) \div Day
      BY <2>2 DEF localSignals, With, ageDays
    <3>2. clock \in from .. clock
      OBVIOUS
    <3> QED
      BY <2>2, <3>1, <3>2 DEF TrueAt, REQUIRED_SIGNALS
  <2> QED
    BY <2>1, <2>2
<1>2. CASE facts.markdown = None
  BY <1>1, <1>2 DEF HostSignals
<1>3. CASE facts.markdown # None
  <2> HIDE DEF aged
  <2>1. /\ DOMAIN full = DOMAIN aged \union {"web_presence", "company_identity_match"}
        /\ full["web_presence"] = TRUE
        /\ full["company_identity_match"] = (v \in Page[HostOf[v]])
        /\ \A kind \in DOMAIN aged : full[kind] = aged[kind]
    BY <1>1, <1>3 DEF With
  <2> HIDE DEF full
  <2>2. TrueAt(full, v, from, clock)
    BY <1>1, <2>1 DEF TrueAt, REQUIRED_SIGNALS
  <2>3. HostSignals(v, facts) = full
    BY <1>3 DEF HostSignals, contentMentions, full, aged
  <2> QED
    BY <1>1, <2>1, <2>2, <2>3
<1> QED
  BY <1>2, <1>3

LEMMA NewsChangesNothing ==
  ASSUME NEW s, NEW v \in Vendor, NEW from, NEW to, TrueAt(s, v, from, to),
         NEW present \in BOOLEAN
  PROVE  /\ TrueAt(With(s, "news_presence", present), v, from, to)
         /\ missing(With(s, "news_presence", present)) = missing(s)
<1> DEFINE t == With(s, "news_presence", present)
<1>1. /\ DOMAIN t = DOMAIN s \union {"news_presence"}
      /\ \A kind \in DOMAIN s : kind # "news_presence" => t[kind] = s[kind]
  BY DEF With
<1> HIDE DEF t
<1>2. TrueAt(t, v, from, to) /\ missing(t) = missing(s)
  BY <1>1 DEF TrueAt, missing, REQUIRED_SIGNALS
<1> QED
  BY <1>2 DEF t

LEMMA StatusType ==
  ASSUME NEW s
  PROVE  Status(s) \in {"eligible", "ineligible", "insufficient_evidence"}
BY DEF Status
-----------------------------------------------------------------------------
(* The invariant *)

LEMMA NoneIsNothing ==
  /\ None \notin Vendor /\ None \notin Int
  /\ \A page \in SUBSET Vendor : page # None
BY NoneAssumption

LEMMA HostFactsAreTyped ==
  ASSUME NEW v \in Vendor
  PROVE  /\ HostOf[v] \in Host /\ RegisteredAt[HostOf[v]] \in Int
         /\ Page[HostOf[v]] \subseteq Vendor
         /\ RdapSources(HostOf[v]) \in {1, 2}
BY CollectorAssumption DEF RdapSources

LEMMA InitiallySound == Init => CollectorInv
<1> SUFFICES ASSUME Init PROVE CollectorInv
  OBVIOUS
<1>1. TypeOK
  <2>1. calls \in Calls
    BY DEF Init, NoCalls, Calls
  <2>2. DOMAIN bundle \subseteq EvidenceKind
    BY DEF Init
  <2>3. cache \in [Host -> Facts \union {NoFacts}]
    BY DEF Init
  <2> QED
    BY <2>1, <2>2, <2>3, CollectorAssumption DEF Init, TypeOK
<1>2. AnswersAreTrue /\ CollectionIsSound /\ ChainIsInOrder
  BY DEF Init, AnswersAreTrue, CollectionIsSound, ChainIsInOrder
<1> QED
  BY <1>1, <1>2 DEF CollectorInv

LEMMA RdapKeepsInv ==
  ASSUME CollectorInv, Rdap
  PROVE  CollectorInv'
<1>1. vendor \in Vendor /\ stage = "fetching" /\ clock' = clock
  BY DEF CollectorInv, CollectionIsSound, Rdap
<1>2. /\ calls.rdap \in 0 .. 2 /\ calls.rdap <= RdapSources(HostOf[vendor])
      /\ calls.rdap # RdapSources(HostOf[vendor])
      /\ calls.scrape \in 0 .. 2 /\ calls.news \in 0 .. 1
  BY <1>1 DEF CollectorInv, TypeOK, Calls, CollectionIsSound, Rdap, RdapSettled
<1>3. /\ calls' = [calls EXCEPT !.rdap = calls.rdap + 1]
      /\ calls' \in Calls /\ calls'.rdap = calls.rdap + 1
  BY <1>2, HostFactsAreTyped, <1>1 DEF Rdap, CollectorInv, TypeOK, Calls
<1>4. registered' = None \/ registered' = RegisteredAt[HostOf[vendor]]
  BY DEF Rdap
<1>5. TypeOK'
  BY <1>1, <1>3, <1>4, HostFactsAreTyped
  DEF CollectorInv, TypeOK, Rdap, chain
<1>6. AnswersAreTrue'
  BY <1>1, <1>4 DEF CollectorInv, AnswersAreTrue, Rdap
<1>7. CollectionIsSound'
  <2>1. calls'.rdap <= RdapSources(HostOf[vendor])
    BY <1>1, <1>2, <1>3, HostFactsAreTyped
  <2>2. RdapSources(HostOf[vendor])' = RdapSources(HostOf[vendor])
    BY DEF Rdap, RdapSources
  <2> QED
    BY <1>1, <2>1, <2>2 DEF CollectorInv, CollectionIsSound, Rdap
<1>8. ChainIsInOrder'
  BY <1>1 DEF CollectorInv, ChainIsInOrder, Rdap, chain
<1> QED
  BY <1>5, <1>6, <1>7, <1>8 DEF CollectorInv

LEMMA ScrapeKeepsInv ==
  ASSUME CollectorInv, Scrape
  PROVE  CollectorInv'
<1>1. vendor \in Vendor /\ stage = "fetching" /\ clock' = clock
  BY DEF CollectorInv, CollectionIsSound, Scrape
<1>2. /\ calls.rdap \in 0 .. 2 /\ calls.scrape \in 0 .. 1 /\ calls.news \in 0 .. 1
  BY <1>1 DEF CollectorInv, TypeOK, Calls, Scrape, ScrapeSettled
<1>3. /\ calls' = [calls EXCEPT !.scrape = calls.scrape + 1]
      /\ calls' \in Calls /\ calls'.rdap = calls.rdap
  BY <1>2 DEF Scrape, CollectorInv, TypeOK, Calls
<1>4. markdown' = None \/ markdown' = Page[HostOf[vendor]]
  BY DEF Scrape
<1>5. TypeOK'
  BY <1>1, <1>3, <1>4, HostFactsAreTyped
  DEF CollectorInv, TypeOK, Scrape, chain
<1>6. AnswersAreTrue'
  BY <1>1, <1>4 DEF CollectorInv, AnswersAreTrue, Scrape
<1>7. CollectionIsSound'
  <2>1. RdapSources(HostOf[vendor])' = RdapSources(HostOf[vendor])
    BY DEF Scrape, RdapSources
  <2> QED
    BY <1>1, <1>3, <2>1 DEF CollectorInv, CollectionIsSound, Scrape
<1>8. ChainIsInOrder'
  BY <1>1 DEF CollectorInv, ChainIsInOrder, Scrape, chain
<1> QED
  BY <1>5, <1>6, <1>7, <1>8 DEF CollectorInv

(* Neither of the other two looks at the evidence. *)
LEMMA ExplainersKeepInv ==
  ASSUME CollectorInv, OpenRouter \/ Claude
  PROVE  CollectorInv'
<1>1. /\ UNCHANGED <<mode, clock, vendor, observedAt, calls, registered, markdown,
                     bundle, cache, verdict, explainers, collections>>
      /\ stage \in {"openrouter", "claude"} /\ stage' \in {"idle", "claude"}
      /\ stage' = "claude" => stage = "openrouter"
  BY DEF OpenRouter, Claude, UnchangedEvidence
<1>2. explanation' = None \/ explanation' \in Explanation
  BY DEF OpenRouter, Claude, CollectorInv, TypeOK, Explanation, Unexplained, Unavailable
<1>3. failures' \subseteq {"openrouter", "claude-code-oauth"}
  BY DEF OpenRouter, Claude, CollectorInv, TypeOK
<1>4. TypeOK'
  BY <1>1, <1>2, <1>3 DEF CollectorInv, TypeOK
<1>5. AnswersAreTrue'
  BY <1>1 DEF CollectorInv, AnswersAreTrue
<1>6. CollectionIsSound'
  BY <1>1 DEF CollectorInv, CollectionIsSound
<1>7. ChainIsInOrder'
  BY <1>1 DEF CollectorInv, ChainIsInOrder, OpenRouter, Claude, UnchangedEvidence
<1> QED
  BY <1>4, <1>5, <1>6, <1>7 DEF CollectorInv

LEMMA TickKeepsInv ==
  ASSUME CollectorInv, Tick
  PROVE  CollectorInv'
<1>1. UNCHANGED <<mode, stage, vendor, observedAt, calls, registered, markdown,
                  bundle, cache, verdict, explainers, failures, explanation,
                  collections>>
  BY DEF Tick, collection, chain
<1>2. clock \in Nat /\ clock' = clock + 1 /\ clock' \in 0 .. MaxClock
  BY CollectorAssumption DEF Tick, CollectorInv, TypeOK
<1>3. TypeOK'
  BY <1>1, <1>2 DEF CollectorInv, TypeOK
<1>4. AnswersAreTrue'
  BY <1>1 DEF CollectorInv, AnswersAreTrue
<1>5. stage = "news" => TrueAt(bundle, vendor, observedAt, clock)'
  <2>1. \A time \in observedAt .. clock : time \in observedAt .. clock'
    BY <1>2 DEF CollectorInv, TypeOK
  <2>2. ASSUME stage = "news" PROVE TrueAt(bundle, vendor, observedAt, clock)
    BY <2>2 DEF CollectorInv, CollectionIsSound
  <2> QED
    BY <1>1, <2>1, <2>2 DEF TrueAt
<1>6. AskedInVain' = AskedInVain /\ RdapSources(HostOf[vendor])' = RdapSources(HostOf[vendor])
  BY <1>1 DEF AskedInVain, RdapSources
<1>7. CollectionIsSound'
  BY <1>1, <1>5, <1>6 DEF CollectorInv, CollectionIsSound
<1>8. ChainIsInOrder'
  BY <1>1 DEF CollectorInv, ChainIsInOrder
<1> QED
  BY <1>3, <1>4, <1>7, <1>8 DEF CollectorInv

LEMMA HostFactsKeepsInv ==
  ASSUME CollectorInv, HostFacts
  PROVE  CollectorInv'
<1> DEFINE facts == [registeredAt |-> registered, markdown |-> markdown,
                     expiresAt |-> clock + CacheTtl]
<1>1. /\ vendor \in Vendor /\ stage = "fetching" /\ stage' = "news"
      /\ UNCHANGED <<mode, clock, vendor, observedAt, calls, registered, markdown,
                     verdict, explainers, failures, explanation, collections>>
      /\ bundle' = HostSignals(vendor, facts)
      /\ cache' = IF Cacheable(facts) THEN [cache EXCEPT ![HostOf[vendor]] = facts]
                                      ELSE cache
  BY DEF CollectorInv, CollectionIsSound, HostFacts, chain
<1>2. /\ facts.registeredAt = registered /\ facts.markdown = markdown
      /\ clock \in Int /\ observedAt \in Int /\ observedAt <= clock
      /\ facts.expiresAt \in Int /\ facts.expiresAt = clock + CacheTtl
  BY CollectorAssumption DEF CollectorInv, TypeOK
<1>3. /\ registered # None => registered = RegisteredAt[HostOf[vendor]]
      /\ markdown # None => markdown = Page[HostOf[vendor]]
  BY DEF CollectorInv, AnswersAreTrue
<1>4. /\ TrueAt(bundle', vendor, observedAt, clock)
      /\ registered # None => "domain_age_days" \in DOMAIN bundle'
      /\ markdown # None =>
           {"web_presence", "company_identity_match"} \subseteq DOMAIN bundle'
  <2> HIDE DEF facts
  <2> QED
    BY <1>1, <1>2, <1>3, HostSignalsAreTrue
<1>5. /\ cache' \in [Host -> Facts \union {NoFacts}]
      /\ \A host \in Host : cache'[host] # NoFacts =>
           /\ cache'[host].registeredAt = RegisteredAt[host]
           /\ cache'[host].markdown = Page[host]
  <2>1. /\ cache \in [Host -> Facts \union {NoFacts}]
        /\ \A host \in Host : cache[host] # NoFacts =>
             /\ cache[host].registeredAt = RegisteredAt[host]
             /\ cache[host].markdown = Page[host]
    BY DEF CollectorInv, TypeOK, AnswersAreTrue
  <2>2. CASE ~Cacheable(facts)
    BY <1>1, <2>1, <2>2
  <2>3. CASE Cacheable(facts)
    <3>1. /\ facts.registeredAt = RegisteredAt[HostOf[vendor]]
          /\ facts.markdown = Page[HostOf[vendor]]
      BY <1>2, <1>3, <2>3 DEF Cacheable
    <3>2. facts \in Facts
      BY <1>1, <1>2, <3>1, HostFactsAreTyped DEF Facts
    <3>3. cache' = [cache EXCEPT ![HostOf[vendor]] = facts]
      BY <1>1, <2>3
    <3> HIDE DEF facts
    <3> QED
      BY <1>1, <2>1, <3>1, <3>2, <3>3, HostFactsAreTyped
  <2> QED
    BY <2>2, <2>3
<1>6. TypeOK'
  <2>1. DOMAIN bundle' \subseteq EvidenceKind
    BY <1>4 DEF TrueAt, REQUIRED_SIGNALS, EvidenceKind, BooleanKind
  <2> QED
    BY <1>1, <1>5, <2>1 DEF CollectorInv, TypeOK
<1>7. AnswersAreTrue'
  BY <1>1, <1>3, <1>5 DEF AnswersAreTrue
<1>8. AskedInVain'
  <2>1. BothSettled
    BY DEF HostFacts
  <2>2. RdapSources(HostOf[vendor])' = RdapSources(HostOf[vendor])
    BY <1>1 DEF RdapSources
  <2> QED
    BY <1>1, <1>4, <2>1, <2>2 DEF AskedInVain, BothSettled, RdapSettled, ScrapeSettled
<1>9. CollectionIsSound'
  <2>1. TrueAt(bundle, vendor, observedAt, clock)'
    BY <1>1, <1>4 DEF TrueAt
  <2> QED
    BY <1>1, <1>8, <2>1 DEF CollectorInv, CollectionIsSound
<1>10. ChainIsInOrder'
  BY <1>1 DEF CollectorInv, ChainIsInOrder
<1> QED
  BY <1>6, <1>7, <1>9, <1>10 DEF CollectorInv

-----------------------------------------------------------------------------
(* The steps that come to a verdict *)

(* A verdict on signals s: they are true, and what they lack was asked for.*)
JudgedOn(s) ==
  /\ TrueAt(s, vendor', observedAt', clock)
  /\ verdict' = [vendor |-> vendor', at |-> clock, status |-> Status(s)]
  /\ HardFailure(s) => calls' = NoCalls
  /\ ~HardFailure(s) /\ missing(s) # {} =>
       \/ markdown' = None /\ calls'.scrape = 2
       \/ registered' = None /\ calls'.rdap = RdapSources(HostOf[vendor'])

LEMMA NewsJudges ==
  ASSUME CollectorInv, News
  PROVE  /\ vendor \in Vendor /\ UNCHANGED <<mode, clock, vendor, observedAt>>
         /\ stage' = "openrouter" /\ bundle' = << >>
         /\ UNCHANGED <<registered, markdown, cache, explainers, failures,
                        explanation, collections>>
         /\ calls' \in Calls
         /\ \E s : JudgedOn(s)
<1>1. /\ vendor \in Vendor /\ stage' = "openrouter" /\ bundle' = << >>
      /\ UNCHANGED <<mode, clock, vendor, observedAt, registered, markdown, cache,
                     explainers, failures, explanation, collections>>
  BY DEF CollectorInv, CollectionIsSound, News, Judge, chain
<1>2. calls' \in Calls /\ calls'.rdap = calls.rdap /\ calls'.scrape = calls.scrape
  BY DEF News, CollectorInv, TypeOK, Calls
<1>3. /\ TrueAt(bundle, vendor, observedAt, clock) /\ AskedInVain
      /\ PayeeMatch[vendor] /\ ~Typosquat[vendor]
  BY DEF CollectorInv, CollectionIsSound, News
<1>4. PICK s : /\ TrueAt(s, vendor, observedAt, clock) /\ missing(s) = missing(bundle)
               /\ Judge(vendor, s)
  <2>1. CASE Judge(vendor, bundle)
    BY <1>3, <2>1
  <2>2. ASSUME NEW present \in BOOLEAN,
               Judge(vendor, With(bundle, "news_presence", present))
        PROVE  \E s : /\ TrueAt(s, vendor, observedAt, clock)
                      /\ missing(s) = missing(bundle) /\ Judge(vendor, s)
    BY <1>1, <1>3, <2>2, NewsChangesNothing
  <2> QED
    BY <2>1, <2>2 DEF News
<1>5. ~HardFailure(s)
  BY <1>1, <1>3, <1>4, LocalChecks
<1>6. missing(s) # {} => \/ markdown' = None /\ calls'.scrape = 2
                         \/ registered' = None /\ calls'.rdap = RdapSources(HostOf[vendor'])
  <2>1. TrueAt(bundle, vendor, observedAt, clock) /\ missing(bundle) = missing(s)
    BY <1>3, <1>4
  <2>2. missing(s) # {} => \/ ~({"web_presence", "company_identity_match"} \subseteq DOMAIN bundle)
                           \/ "domain_age_days" \notin DOMAIN bundle
    BY <2>1 DEF TrueAt, missing, REQUIRED_SIGNALS
  <2> QED
    BY <1>1, <1>2, <1>3, <2>2 DEF AskedInVain
<1>7. JudgedOn(s)
  BY <1>1, <1>4, <1>5, <1>6 DEF JudgedOn, Judge
<1> QED
  BY <1>1, <1>2, <1>7

LEMMA CollectJudges ==
  ASSUME CollectorInv, NEW v \in Vendor, Collect(v), mode = "live",
         stage' \notin {"fetching", "news"}
  PROVE  \E s : JudgedOn(s)
<1>1. /\ HardFailure(localSignals(v)) /\ Judge(v, localSignals(v))
      /\ vendor' = v /\ observedAt' = clock /\ calls' = NoCalls
  BY DEF Collect
<1>2. TrueAt(localSignals(v), v, clock, clock)
  BY LocalSignalsAreTrue
<1>3. JudgedOn(localSignals(v))
  BY <1>1, <1>2 DEF JudgedOn, Judge
<1> QED
  BY <1>3

LEMMA NewsKeepsInv ==
  ASSUME CollectorInv, News
  PROVE  CollectorInv'
<1>1. PICK s : JudgedOn(s)
  BY NewsJudges
<1>2. verdict' \in Verdict /\ verdict'.vendor = vendor /\ verdict' # None
  <2>1. verdict' = [vendor |-> vendor, at |-> clock, status |-> Status(s)]
    BY <1>1, NewsJudges DEF JudgedOn
  <2> QED
    BY <2>1, NewsJudges, StatusType, NoneAssumption DEF Verdict, CollectorInv, TypeOK
<1>3. DOMAIN bundle' \subseteq EvidenceKind
  BY NewsJudges
<1>4. TypeOK'
  BY <1>2, <1>3, NewsJudges DEF CollectorInv, TypeOK
<1>5. AnswersAreTrue'
  BY NewsJudges DEF CollectorInv, AnswersAreTrue
<1>6. CollectionIsSound'
  BY <1>2, NewsJudges DEF CollectionIsSound
<1>7. ChainIsInOrder'
  <2>1. failures = {}
    BY DEF News, CollectorInv, ChainIsInOrder
  <2> QED
    BY <2>1, NewsJudges DEF ChainIsInOrder
<1> QED
  BY <1>4, <1>5, <1>6, <1>7 DEF CollectorInv

LEMMA CollectKeepsInv ==
  ASSUME CollectorInv, NEW v \in Vendor, Collect(v)
  PROVE  CollectorInv'
<1>1. /\ vendor' = v /\ observedAt' = clock /\ calls' = NoCalls
      /\ registered' = None /\ markdown' = None /\ failures' = {} /\ explanation' = None
      /\ collections' = collections + 1 /\ collections' \in 0 .. MaxCollections
      /\ UNCHANGED <<mode, clock, cache, explainers>>
  BY CollectorAssumption DEF Collect, CollectorInv, TypeOK
<1>2. stage' \in {"fetching", "news", "openrouter"}
  BY DEF Collect, Judge
<1>3. /\ verdict' \in Verdict \union {None}
      /\ stage' = "openrouter" => verdict' # None /\ verdict'.vendor = v
  <2>1. CASE Judge(v, fixtureEvidence(v)) \/ Judge(v, localSignals(v))
    <3>1. PICK s : verdict' = [vendor |-> v, at |-> clock, status |-> Status(s)]
      BY <2>1 DEF Judge
    <3>2. verdict' \in Verdict
      BY <3>1, StatusType DEF Verdict, CollectorInv, TypeOK
    <3> QED
      BY <3>1, <3>2, NoneAssumption
  <2>2. CASE UNCHANGED verdict /\ stage' # "openrouter"
    BY <2>2 DEF CollectorInv, TypeOK
  <2> QED
    BY <2>1, <2>2 DEF Collect
<1>4. ASSUME stage' \in {"fetching", "news"}
      PROVE  mode = "live" /\ PayeeMatch[v] /\ ~Typosquat[v]
  <2>1. mode = "live" /\ ~HardFailure(localSignals(v))
    BY <1>4 DEF Collect, Judge
  <2> QED
    BY <2>1, LocalSignalsAreTrue, LocalChecks
<1>5. ASSUME stage' = "news"
      PROVE  TrueAt(bundle', v, clock, clock) /\ AskedInVain'
  <2> DEFINE facts == cache[HostOf[v]]
  <2>1. bundle' = HostSignals(v, facts) /\ facts # NoFacts
    BY <1>5 DEF Collect, Judge, Fresh
  <2>2. /\ facts.registeredAt = RegisteredAt[HostOf[v]] /\ facts.markdown = Page[HostOf[v]]
        /\ facts \in Facts
    BY <2>1, HostFactsAreTyped DEF CollectorInv, TypeOK, AnswersAreTrue
  <2>3. facts.registeredAt # None /\ facts.markdown # None /\ clock \in Int
    BY <2>2, HostFactsAreTyped, NoneIsNothing DEF CollectorInv, TypeOK
  <2> HIDE DEF facts
  <2>4. /\ TrueAt(bundle', v, clock, clock)
        /\ {"domain_age_days", "web_presence", "company_identity_match"} \subseteq DOMAIN bundle'
    BY <2>1, <2>2, <2>3, HostSignalsAreTrue
  <2> QED
    BY <2>4 DEF AskedInVain
<1>6. TypeOK'
  <2>1. calls' \in Calls
    BY <1>1 DEF NoCalls, Calls
  <2>2. DOMAIN bundle' \subseteq EvidenceKind
    <3>1. CASE UNCHANGED bundle
      BY <3>1 DEF CollectorInv, TypeOK
    <3>2. CASE stage' = "news"
      BY <1>5, <3>2 DEF TrueAt, REQUIRED_SIGNALS, EvidenceKind, BooleanKind
    <3>3. CASE bundle' = localSignals(v)
      BY <3>3, LocalSignalsAreTrue DEF EvidenceKind, BooleanKind
    <3> QED
      BY <3>1, <3>2, <3>3 DEF Collect
  <2>3. observedAt' \in 0 .. clock'
    BY <1>1, CollectorAssumption DEF CollectorInv, TypeOK
  <2> QED
    BY <1>1, <1>2, <1>3, <2>1, <2>2, <2>3 DEF CollectorInv, TypeOK
<1>7. AnswersAreTrue'
  BY <1>1 DEF CollectorInv, AnswersAreTrue
<1>8. CollectionIsSound'
  <2>1. calls'.rdap <= RdapSources(HostOf[vendor])'
    BY <1>1 DEF NoCalls, RdapSources
  <2>2. stage' = "news" => TrueAt(bundle, vendor, observedAt, clock)' /\ AskedInVain'
    BY <1>1, <1>5 DEF TrueAt
  <2> QED
    BY <1>1, <1>2, <1>3, <1>4, <2>1, <2>2 DEF CollectionIsSound
<1>9. ChainIsInOrder'
  BY <1>1, <1>2 DEF ChainIsInOrder
<1> QED
  BY <1>6, <1>7, <1>8, <1>9 DEF CollectorInv

(* Answers in hand and in the cache are true of their host, a bundle says  *)
(* nothing else, and what it lacks was asked for (live.ts, collect).       *)
THEOREM CollectorInvariant == Spec => []CollectorInv
<1>1. CollectorInv /\ [Next]_vars => CollectorInv'
  <2> SUFFICES ASSUME CollectorInv, [Next]_vars PROVE CollectorInv'
    OBVIOUS
  <2>1. CASE UNCHANGED vars
    <3>1. UNCHANGED <<mode, clock, stage, vendor, observedAt, calls, registered,
                      markdown, bundle, cache, verdict, explainers, failures,
                      explanation, collections>>
      BY <2>1 DEF vars, collection, chain
    <3>2. TypeOK'
      BY <3>1 DEF CollectorInv, TypeOK
    <3>3. AnswersAreTrue' /\ ChainIsInOrder'
      BY <3>1 DEF CollectorInv, AnswersAreTrue, ChainIsInOrder
    <3>4. CollectionIsSound'
      BY <3>1 DEF CollectorInv, CollectionIsSound, TrueAt, AskedInVain, RdapSources
    <3> QED
      BY <3>2, <3>3, <3>4 DEF CollectorInv
  <2> QED
    BY <2>1, RdapKeepsInv, ScrapeKeepsInv, HostFactsKeepsInv, NewsKeepsInv,
       CollectKeepsInv, ExplainersKeepInv, TickKeepsInv DEF Next
<1> QED
  BY <1>1, InitiallySound, PTL DEF Spec

-----------------------------------------------------------------------------
(* The verdicts *)

(* A verdict is new, or nothing that it rests on has changed. *)
LEMMA VerdictIsNewOrKept ==
  ASSUME CollectorInv, [Next]_vars, Judged'
  PROVE  \/ Judged /\ UNCHANGED <<vendor, verdict, observedAt, calls, registered, markdown>>
         \/ vendor' \in Vendor /\ \E s : JudgedOn(s)
<1> DEFINE Goal == \/ Judged /\ UNCHANGED <<vendor, verdict, observedAt, calls,
                                           registered, markdown>>
                   \/ vendor' \in Vendor /\ \E s : JudgedOn(s)
<1>1. ASSUME NEW v \in Vendor, Collect(v) PROVE Goal
  <2>1. mode = "live" /\ stage' \notin {"fetching", "news"} /\ vendor' = v
    BY <1>1 DEF Judged, Collect
  <2> QED
    BY <1>1, <2>1, CollectJudges
<1>2. CASE Rdap \/ Scrape \/ HostFacts
  BY <1>2 DEF Judged, Rdap, Scrape, HostFacts
<1>3. CASE News
  BY <1>3, NewsJudges
<1>4. CASE OpenRouter \/ Claude
  BY <1>4 DEF Judged, OpenRouter, Claude, UnchangedEvidence
<1>5. CASE Tick
  BY <1>5 DEF Judged, Tick, collection
<1>6. CASE UNCHANGED vars
  BY <1>6 DEF Judged, vars, collection
<1> QED
  BY <1>1, <1>2, <1>3, <1>4, <1>5, <1>6 DEF Next

(* No failure, cached page or cached date makes a vendor look better or    *)
(* worse than it is, and nothing is invented (live.ts, policy.ts).         *)
THEOREM VerdictsAreTrue == Spec => []VerdictIsTrue
<1>1. Init => VerdictIsTrue
  BY DEF Init, VerdictIsTrue, Judged
<1>2. ASSUME CollectorInv, VerdictIsTrue, [Next]_vars PROVE VerdictIsTrue'
  <2> SUFFICES ASSUME Judged'
      PROVE  /\ verdict'.status = "eligible"
                  => Status(Truth(verdict'.vendor, verdict'.at)) = "eligible"
             /\ verdict'.status = "ineligible"
                  => Status(Truth(verdict'.vendor, observedAt')) = "ineligible"
    BY DEF VerdictIsTrue
  <2>1. CASE Judged /\ UNCHANGED <<vendor, verdict, observedAt, calls, registered, markdown>>
    BY <1>2, <2>1 DEF VerdictIsTrue
  <2>2. CASE vendor' \in Vendor /\ \E s : JudgedOn(s)
    <3>1. PICK s : JudgedOn(s)
      BY <2>2
    <3>2. /\ TrueAt(s, vendor', observedAt', clock)
          /\ verdict'.vendor = vendor' /\ verdict'.at = clock
          /\ verdict'.status = Status(s)
      BY <3>1 DEF JudgedOn
    <3>3. clock \in Int /\ observedAt' \in Int /\ observedAt' <= clock
      <4>1. clock \in 0 .. MaxClock /\ observedAt \in 0 .. clock
        BY <1>2 DEF CollectorInv, TypeOK
      <4>2. observedAt' = observedAt \/ observedAt' = clock
        BY <1>2 DEF Next, Collect, Rdap, Scrape, HostFacts, News, OpenRouter, Claude,
                    UnchangedEvidence, Tick, collection, vars
      <4> QED
        BY <4>1, <4>2, CollectorAssumption
    <3> QED
      BY <2>2, <3>2, <3>3, VerdictFollowsTruth
  <2> QED
    BY <1>2, <2>1, <2>2, VerdictIsNewOrKept
<1> QED
  BY <1>1, <1>2, CollectorInvariant, PTL DEF Spec

(* Evidence is only called insufficient after every retry of this          *)
(* collection (rdap, scrape and hostFacts in live.ts).                     *)
THEOREM InsufficiencyEarned == Spec => []InsufficiencyIsEarned
<1>1. Init => InsufficiencyIsEarned
  BY DEF Init, InsufficiencyIsEarned, Judged
<1>2. ASSUME CollectorInv, InsufficiencyIsEarned, [Next]_vars PROVE InsufficiencyIsEarned'
  <2> SUFFICES ASSUME Judged', verdict'.status = "insufficient_evidence"
      PROVE  \/ markdown' = None /\ calls'.scrape = 2
             \/ /\ registered' = None
                /\ calls'.rdap = IF HostOf[verdict'.vendor] \in SecondSource THEN 2 ELSE 1
    BY DEF InsufficiencyIsEarned
  <2>1. CASE Judged /\ UNCHANGED <<vendor, verdict, observedAt, calls, registered, markdown>>
    BY <1>2, <2>1 DEF InsufficiencyIsEarned
  <2>2. CASE vendor' \in Vendor /\ \E s : JudgedOn(s)
    <3>1. PICK s : JudgedOn(s)
      BY <2>2
    <3>2. verdict'.vendor = vendor' /\ verdict'.status = Status(s)
      BY <3>1 DEF JudgedOn
    <3>3. ~HardFailure(s) /\ missing(s) # {}
      BY <3>2 DEF Status
    <3> QED
      BY <3>1, <3>2, <3>3 DEF JudgedOn, RdapSources
  <2> QED
    BY <1>2, <2>1, <2>2, VerdictIsNewOrKept
<1> QED
  BY <1>1, <1>2, CollectorInvariant, PTL DEF Spec

(* A vendor that fails a local check costs no call (collect in live.ts).   *)
THEOREM HardFailuresAreFree == Spec => []HardFailureIsFree
<1>1. Init => HardFailureIsFree
  BY DEF Init, HardFailureIsFree, Judged
<1>2. ASSUME CollectorInv, HardFailureIsFree, [Next]_vars PROVE HardFailureIsFree'
  <2> SUFFICES ASSUME Judged', ~PayeeMatch[verdict'.vendor] \/ Typosquat[verdict'.vendor]
      PROVE  verdict'.status = "ineligible" /\ calls' = NoCalls
    BY DEF HardFailureIsFree
  <2>1. CASE Judged /\ UNCHANGED <<vendor, verdict, observedAt, calls, registered, markdown>>
    BY <1>2, <2>1 DEF HardFailureIsFree
  <2>2. CASE vendor' \in Vendor /\ \E s : JudgedOn(s)
    <3>1. PICK s : JudgedOn(s)
      BY <2>2
    <3>2. verdict'.vendor = vendor' /\ verdict'.status = Status(s)
      BY <3>1 DEF JudgedOn
    <3>3. HardFailure(s)
      BY <2>2, <3>1, <3>2, LocalChecks DEF JudgedOn
    <3> QED
      BY <3>1, <3>2, <3>3 DEF JudgedOn, Status
  <2> QED
    BY <1>2, <2>1, <2>2, VerdictIsNewOrKept
<1> QED
  BY <1>1, <1>2, CollectorInvariant, PTL DEF Spec

-----------------------------------------------------------------------------
(* What explains them *)

Asked == {e \in {"openrouter", "claude"} : explainers[e] # "off"}

LEMMA ExplainersTyped ==
  ASSUME CollectorInv
  PROVE  /\ explainers.openrouter \in {"off", "keyless", "on"}
         /\ explainers.claude \in {"off", "on"}
         /\ "openrouter" \in Asked <=> explainers.openrouter # "off"
         /\ "claude" \in Asked <=> explainers.claude # "off"
         /\ Asked \subseteq {"openrouter", "claude"}
BY DEF CollectorInv, TypeOK, Explainers, Asked

(* What ExplanationIsHonest says of an explanation, once it is shown. *)
Honest(shown) ==
  IF shown = None THEN Asked = {}
  ELSE CASE shown.provider = "none" -> Asked # {}
         [] shown.provider = "openrouter" ->
              explainers.openrouter = "on" /\ shown.fallbackFor = None
         [] OTHER -> /\ explainers.claude = "on"
                     /\ (shown.fallbackFor = "openrouter") = ("openrouter" \in Asked)

LEMMA OpenRouterIsHonest ==
  ASSUME CollectorInv, OpenRouter, stage' = "idle"
  PROVE  Honest(explanation')
<1>1. /\ explainers.openrouter = "on"
      /\ explanation' = [provider |-> "openrouter", fallbackFor |-> None]
  BY DEF OpenRouter
<1>2. explanation' # None
  BY <1>1, NoneAssumption DEF Explanation
<1> QED
  BY <1>1, <1>2 DEF Honest

LEMMA ClaudeIsHonest ==
  ASSUME CollectorInv, Claude
  PROVE  Honest(explanation')
<1>1. failures = {} <=> "openrouter" \notin Asked
  BY ExplainersTyped DEF Claude, CollectorInv, ChainIsInOrder
<1>2. CASE /\ explainers.claude = "on"
           /\ explanation' = [provider |-> "claude-code-oauth",
                              fallbackFor |-> IF failures = {} THEN None ELSE "openrouter"]
  <2>1. /\ explanation'.provider = "claude-code-oauth"
        /\ explanation'.fallbackFor = IF failures = {} THEN None ELSE "openrouter"
        /\ explanation' \in Explanation
    BY <1>2 DEF Explanation
  <2>2. explanation' # None /\ None # "openrouter"
    BY <2>1, NoneAssumption
  <2> QED
    BY <1>1, <1>2, <2>1, <2>2 DEF Honest
<1>3. CASE /\ failures' = IF explainers.claude = "on"
                          THEN failures \union {"claude-code-oauth"} ELSE failures
           /\ explanation' = Unexplained
  <2>1. failures' = {} <=> Asked = {}
    BY <1>1, <1>3, ExplainersTyped
  <2>2. Unavailable.provider = "none" /\ Unavailable # None
    BY NoneAssumption DEF Unavailable, Explanation
  <2>3. explanation' = IF failures' # {} THEN Unavailable ELSE None
    BY <1>3 DEF Unexplained
  <2> QED
    BY <2>1, <2>2, <2>3 DEF Honest
<1> QED
  BY <1>2, <1>3 DEF Claude

(* What is shown of a verdict says who answered and who failed, and its    *)
(* absence that nobody was asked (explainVerdict in explainer.ts).         *)
THEOREM ExplanationsAreHonest == Spec => []ExplanationIsHonest
<1> DEFINE Shown == stage = "idle" /\ verdict # None => Honest(explanation)
<1>1. ExplanationIsHonest <=> Shown
  BY DEF ExplanationIsHonest, Honest, Asked
<1>2. Init => Shown
  BY DEF Init
<1>3. ASSUME CollectorInv, Shown, [Next]_vars PROVE Shown'
  <2> SUFFICES ASSUME stage' = "idle", verdict' # None PROVE Honest(explanation)'
    OBVIOUS
  <2>1. explainers' = explainers
    BY <1>3 DEF Next, Collect, Rdap, Scrape, HostFacts, News, OpenRouter, Claude,
                UnchangedEvidence, Tick, chain, vars
  <2>2. Honest(explanation)' <=> Honest(explanation')
    BY <2>1 DEF Honest, Asked
  <2>3. CASE OpenRouter
    BY <1>3, <2>2, <2>3, OpenRouterIsHonest
  <2>4. CASE Claude
    BY <1>3, <2>2, <2>4, ClaudeIsHonest
  <2>5. CASE Tick \/ UNCHANGED vars
    <3>1. UNCHANGED <<stage, verdict, explanation>>
      BY <2>5 DEF Tick, collection, chain, vars
    <3> QED
      BY <1>3, <2>2, <3>1
  <2>6. CASE Rdap \/ Scrape \/ HostFacts \/ News
    BY <2>6 DEF Rdap, Scrape, HostFacts, News, Judge
  <2>7. ASSUME NEW v \in Vendor, Collect(v) PROVE FALSE
    BY <2>7 DEF Collect, Judge
  <2> QED
    BY <1>3, <2>3, <2>4, <2>5, <2>6, <2>7 DEF Next
<1>4. Spec => []Shown
  <2> HIDE DEF Shown
  <2> QED
    BY <1>2, <1>3, CollectorInvariant, PTL DEF Spec
<1> QED
  <2> HIDE DEF Shown
  <2> QED
    BY <1>1, <1>4, PTL
-----------------------------------------------------------------------------
(* The end of a collection *)

(* What may still happen to it: the attempts left, at each of them an      *)
(* answer, then the facts, the news and the explainers.                    *)
Outstanding ==
  CASE stage = "fetching" -> 4 + (RdapSources(HostOf[vendor]) - calls.rdap)
                               + (2 - calls.scrape)
    [] stage = "news" -> 3
    [] stage = "openrouter" -> 2
    [] stage = "claude" -> 1
    [] OTHER -> 0

(* All that happens to a collection brings it closer to its end.           *)
CollectionsRunDown ==
  [][\/ stage = "idle" /\ Outstanding' <= 8
     \/ Outstanding' < Outstanding]_<<collection, cache, verdict, failures,
                                      explanation>>

LEMMA AttemptsAreFew ==
  ASSUME CollectorInv
  PROVE  /\ calls.rdap \in 0 .. 2 /\ calls.scrape \in 0 .. 2
         /\ RdapSources(HostOf[vendor]) \in 1 .. 2
         /\ stage = "fetching" => calls.rdap <= RdapSources(HostOf[vendor])
  BY DEF CollectorInv, TypeOK, Calls, CollectionIsSound, RdapSources

LEMMA CollectionGetsCloser ==
  ASSUME CollectorInv, [Next]_vars
  PROVE  \/ stage = "idle" /\ Outstanding' <= 8
         \/ Outstanding' < Outstanding
         \/ UNCHANGED <<collection, cache, verdict, failures, explanation>>
<1>1. ASSUME NEW v \in Vendor, Collect(v)
      PROVE  stage = "idle" /\ Outstanding' <= 8
  <2>1. /\ stage = "idle" /\ calls' = NoCalls /\ vendor' = v
        /\ stage' \in {"fetching", "news", "openrouter"}
    BY <1>1 DEF Collect, Judge
  <2>2. RdapSources(HostOf[vendor']) \in 1 .. 2
    BY DEF RdapSources
  <2> QED
    BY <2>1, <2>2 DEF Outstanding, NoCalls, RdapSources
<1>2. CASE Rdap
  <2>1. /\ stage = "fetching" /\ stage' = "fetching" /\ vendor' = vendor
        /\ calls.rdap # RdapSources(HostOf[vendor])
        /\ calls'.rdap = calls.rdap + 1 /\ calls'.scrape = calls.scrape
    BY <1>2 DEF Rdap, RdapSettled, CollectorInv, TypeOK, Calls
  <2> QED
    BY <2>1, AttemptsAreFew DEF Outstanding, RdapSources
<1>3. CASE Scrape
  <2>1. /\ stage = "fetching" /\ stage' = "fetching" /\ vendor' = vendor
        /\ calls'.scrape = calls.scrape + 1 /\ calls'.rdap = calls.rdap
    BY <1>3 DEF Scrape, CollectorInv, TypeOK, Calls
  <2> QED
    BY <2>1, AttemptsAreFew DEF Outstanding, RdapSources
<1>4. CASE HostFacts \/ News \/ OpenRouter \/ Claude
  <2>1. \/ stage = "fetching" /\ stage' = "news"
        \/ stage = "news" /\ stage' = "openrouter"
        \/ stage = "openrouter" /\ stage' \in {"claude", "idle"}
        \/ stage = "claude" /\ stage' = "idle"
    BY <1>4 DEF HostFacts, News, Judge, OpenRouter, Claude
  <2> QED
    BY <2>1, AttemptsAreFew DEF Outstanding
<1>5. CASE Tick \/ UNCHANGED vars
  BY <1>5 DEF Tick, vars, chain
<1> QED
  BY <1>1, <1>2, <1>3, <1>4, <1>5 DEF Next

(* A collection and what explains it are over after eight steps at most,   *)
(* however the providers fail (rdap and scrape in live.ts, explainVerdict):*)
(* what EveryCollectionEnds leaves to fairness is that each step is taken. *)
THEOREM CollectionsGetCloser == Spec => CollectionsRunDown
<1>1. CollectorInv /\ [Next]_vars
        => \/ stage = "idle" /\ Outstanding' <= 8
           \/ Outstanding' < Outstanding
           \/ UNCHANGED <<collection, cache, verdict, failures, explanation>>
  BY CollectionGetsCloser
<1> QED
  BY <1>1, CollectorInvariant, PTL DEF Spec, CollectionsRunDown
=============================================================================
