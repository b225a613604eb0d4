-------------------------- MODULE EvidenceCollector --------------------------
(***************************************************************************)
(* One EvidenceCollector (services/verification/src/collector.ts and       *)
(* live.ts), the verdicts that runtime.ts draws from what it collects, and *)
(* the chain that explains them (control-plane/src/explainer.ts).          *)
(* Its caller verifies one vendor after another.  In live mode a           *)
(* collection asks RDAP and the scraper at the same time, each with its    *)
(* second chance, then the news search; every fetch ends with an answer or *)
(* a failure, its timeout included.                                        *)
(*                                                                         *)
(* A page is the set of vendors whose name it mentions.  What the          *)
(* providers would say about a host does not change while the collector    *)
(* lives; whether they answer does.                                        *)
(***************************************************************************)
EXTENDS VerificationPolicy

CONSTANTS
  Vendor, Host, HostOf,  \* hostOf(vendor.domain)
  PayeeMatch,   \* vendor -> its quoted payee agrees with one of its names
  Typosquat,    \* vendor -> its domain imitates another candidate's
  Synthetic,    \* the vendors that the fixtures describe as lookalikes
  RegisteredAt, \* host -> its registration date
  Page,         \* host -> the vendors its page mentions
  SecondSource, \* the .com and .net hosts, which have a registry to ask
  LinkupKey,    \* a key for the news search is configured
  Day,          \* ticks of the clock in a day
  CacheTtl,
  None,
  MaxClock, MaxCollections  \* bounds

ASSUME CollectorAssumption ==
  /\ HostOf \in [Vendor -> Host] /\ RegisteredAt \in [Host -> Int]
  /\ PayeeMatch \in [Vendor -> BOOLEAN] /\ Typosquat \in [Vendor -> BOOLEAN]
  /\ Page \in [Host -> SUBSET Vendor]
  /\ Synthetic \subseteq Vendor /\ SecondSource \subseteq Host
  /\ LinkupKey \in BOOLEAN
  /\ Day \in Nat \ {0} /\ CacheTtl \in Nat /\ MaxClock \in Nat
  /\ MaxCollections \in Nat

VARIABLES
  mode,         \* VERIFICATION_MODE
  clock,
  stage, vendor, observedAt,   \* the collection under way
  calls,        \* fetches made for it, by provider
  registered, markdown,        \* what RDAP and the scraper have answered
  bundle,       \* its signals so far
  cache,
  verdict,      \* the last verdict
  explainers,   \* the environment: which explainers are enabled
  failures, explanation,       \* of the chain; what is shown of the verdict
  collections   \* collections so far

collection == <<stage, vendor, observedAt, calls, registered, markdown, bundle>>
chain == <<explainers, failures, explanation>>
vars == <<mode, clock, collection, cache, verdict, chain, collections>>

NoFacts == [registeredAt |-> None, markdown |-> None, expiresAt |-> None]
Facts == [registeredAt : Int, markdown : SUBSET Vendor, expiresAt : Int]
NoCalls == [rdap |-> 0, scrape |-> 0, news |-> 0]
Verdict == [vendor : Vendor, at : 0 .. MaxClock,
            status : {"eligible", "ineligible", "insufficient_evidence"}]

(* An explainer that is enabled without its key throws at once. *)
Explainers == [openrouter : {"off", "keyless", "on"}, claude : {"off", "on"}]
Explanation == [provider : {"openrouter", "claude-code-oauth", "none"},
                fallbackFor : {"openrouter", None}]
Unavailable == [provider |-> "none", fallbackFor |-> None]

ASSUME NoneAssumption ==
  /\ None \notin Vendor \union Int \union {"openrouter"}
  /\ \A page \in SUBSET Vendor : page # None
  /\ None \notin Verdict /\ None \notin Explanation

Init ==
  /\ mode \in {"fixture", "live"}
  /\ clock = 0
  /\ stage = "idle" /\ vendor = None /\ observedAt = 0
  /\ calls = NoCalls
  /\ registered = None /\ markdown = None /\ bundle = << >>
  /\ cache = [h \in Host |-> NoFacts]
  /\ verdict = None
  /\ explainers \in Explainers /\ failures = {} /\ explanation = None
  /\ collections = 0

-----------------------------------------------------------------------------
(* The signals. *)

localSignals(v) ==
  [kind \in {"payee_identity_match", "typosquat_detected"} |->
     IF kind = "payee_identity_match" THEN PayeeMatch[v] ELSE Typosquat[v]]

fixtureEvidence(v) ==
  [kind \in EvidenceKind |->
     CASE kind = "domain_age_days" -> IF v \in Synthetic THEN 14 ELSE 1840
       [] kind = "typosquat_detected" -> v \in Synthetic
       [] kind \in BooleanKind \ {"typosquat_detected"} -> v \notin Synthetic]

(* Fault: the age is taken when the registry answers, and cached with it. *)
AgeWhenFetched(facts) == (facts.expiresAt - CacheTtl - facts.registeredAt) \div Day

ageDays(facts) == (clock - facts.registeredAt) \div Day

contentMentions(page, v) == v \in page

(* What the facts about its host say of a vendor. *)
HostSignals(v, facts) ==
  LET aged == IF facts.registeredAt = None THEN localSignals(v)
              ELSE With(localSignals(v), "domain_age_days", ageDays(facts))
  IN  IF facts.markdown = None THEN aged
      ELSE With(With(aged, "web_presence", TRUE),
                "company_identity_match", contentMentions(facts.markdown, v))

-----------------------------------------------------------------------------
(* The steps of a collection. *)

Judge(v, signals) ==
  /\ verdict' = [vendor |-> v, at |-> clock, status |-> Status(signals)]
  /\ stage' = "openrouter"

Fresh(facts) == facts # NoFacts /\ facts.expiresAt > clock

(* collect, to its first await: the fixtures, or the local checks. *)
Collect(v) ==
  /\ stage = "idle" /\ collections < MaxCollections
  /\ collections' = collections + 1
  /\ vendor' = v /\ observedAt' = clock
  /\ calls' = NoCalls
  /\ registered' = None /\ markdown' = None
  /\ failures' = {} /\ explanation' = None
  /\ LET facts == cache[HostOf[v]] IN
       \/ /\ mode = "fixture"
          /\ Judge(v, fixtureEvidence(v))
          /\ UNCHANGED bundle
       \/ /\ mode = "live" /\ HardFailure(localSignals(v))
          /\ Judge(v, localSignals(v))
          /\ UNCHANGED bundle
       \/ /\ mode = "live" /\ ~HardFailure(localSignals(v)) /\ Fresh(facts)
          /\ stage' = "news" /\ bundle' = HostSignals(v, facts)
          /\ UNCHANGED verdict
       \/ /\ mode = "live" /\ ~HardFailure(localSignals(v)) /\ ~Fresh(facts)
          /\ stage' = "fetching" /\ bundle' = localSignals(v)
          /\ UNCHANGED verdict
  /\ UNCHANGED <<mode, clock, cache, explainers>>

(* Fault: the registry is never asked. *)
RdapOrgOnly(host) == 1

RdapSources(host) == IF host \in SecondSource THEN 2 ELSE 1

RdapSettled == registered # None \/ calls.rdap = RdapSources(HostOf[vendor])
ScrapeSettled == markdown # None \/ calls.scrape = 2

(* One request of rdap: a date, or anything else that makes it try the     *)
(* next source (an error status, no registration date, a timeout).         *)
Rdap ==
  /\ stage = "fetching" /\ ~RdapSettled
  /\ calls' = [calls EXCEPT !.rdap = @ + 1]
  /\ registered' \in {RegisteredAt[HostOf[vendor]], None}
  /\ UNCHANGED <<mode, clock, stage, vendor, observedAt, markdown, bundle,
                 cache, verdict, chain, collections>>

(* One attempt of scrape: a page, or nothing (an error status, an empty    *)
(* page, a timeout).                                                       *)
Scrape ==
  /\ stage = "fetching" /\ ~ScrapeSettled
  /\ calls' = [calls EXCEPT !.scrape = @ + 1]
  /\ markdown' \in {Page[HostOf[vendor]], None}
  /\ UNCHANGED <<mode, clock, stage, vendor, observedAt, registered, bundle,
                 cache, verdict, chain, collections>>

(* Fault: it is the answers that are awaited, not the end of the requests. *)
BothAnswered == registered # None /\ markdown # None

BothSettled == RdapSettled /\ ScrapeSettled

(* Fault: whatever came back is kept. *)
WorthKeeping(facts) == facts.registeredAt # None \/ facts.markdown # None

Cacheable(facts) == facts.registeredAt # None /\ facts.markdown # None

(* The rest of hostFacts, and of collect up to the news. *)
HostFacts ==
  /\ stage = "fetching" /\ BothSettled
  /\ LET facts == [registeredAt |-> registered, markdown |-> markdown,
                   expiresAt |-> clock + CacheTtl]
     IN  /\ bundle' = HostSignals(vendor, facts)
         /\ cache' = IF Cacheable(facts)
                     THEN [cache EXCEPT ![HostOf[vendor]] = facts] ELSE cache
  /\ stage' = "news"
  /\ UNCHANGED <<mode, clock, vendor, observedAt, calls, registered, markdown,
                 verdict, chain, collections>>

(* newsPresence, if it is configured, and the verdict. *)
News ==
  /\ stage = "news"
  /\ calls' = [calls EXCEPT !.news = IF LinkupKey THEN 1 ELSE 0]
  /\ \/ Judge(vendor, bundle)
     \/ LinkupKey /\ \E present \in BOOLEAN :
          Judge(vendor, With(bundle, "news_presence", present))
  /\ bundle' = << >>
  /\ UNCHANGED <<mode, clock, vendor, observedAt, registered, markdown, cache,
                 chain, collections>>

-----------------------------------------------------------------------------
(* explainVerdict, after the verdict and without a say in it. *)

UnchangedEvidence ==
  UNCHANGED <<mode, clock, vendor, observedAt, calls, registered, markdown,
              bundle, cache, verdict, explainers, collections>>

OpenRouter ==
  /\ stage = "openrouter"
  /\ \/ /\ explainers.openrouter = "on"
        /\ explanation' = [provider |-> "openrouter", fallbackFor |-> None]
        /\ stage' = "idle" /\ UNCHANGED failures
     \/ /\ explainers.openrouter # "off"
        /\ failures' = failures \union {"openrouter"}
        /\ stage' = "claude" /\ UNCHANGED explanation
     \/ /\ explainers.openrouter = "off"
        /\ stage' = "claude" /\ UNCHANGED <<failures, explanation>>
  /\ UnchangedEvidence

(* Fault: only the failure of the last explainer counts. *)
LastFailure == IF explainers.claude = "on" THEN Unavailable ELSE None

(* Nobody has explained: an event says so if anybody has failed. *)
Unexplained == IF failures' # {} THEN Unavailable ELSE None

Claude ==
  /\ stage = "claude"
  /\ \/ /\ explainers.claude = "on"
        /\ explanation' = [provider |-> "claude-code-oauth",
                           fallbackFor |-> IF failures = {} THEN None ELSE "openrouter"]
        /\ UNCHANGED failures
     \/ /\ failures' = IF explainers.claude = "on" THEN failures \union {"claude-code-oauth"}
                                                   ELSE failures
        /\ explanation' = Unexplained
  /\ stage' = "idle"
  /\ UnchangedEvidence

Tick ==
  /\ clock < MaxClock
  /\ clock' = clock + 1
  /\ UNCHANGED <<mode, collection, cache, verdict, chain, collections>>

Next ==
  \/ \E v \in Vendor : Collect(v)
  \/ Rdap \/ Scrape \/ HostFacts \/ News \/ OpenRouter \/ Claude \/ Tick

Spec == Init /\ [][Next]_vars

(* Every fetch carries a timeout, and the event loop runs what is ready. *)
Fairness == /\ WF_vars(Rdap) /\ WF_vars(Scrape)
            /\ WF_vars(HostFacts) /\ WF_vars(News)
            /\ WF_vars(OpenRouter) /\ WF_vars(Claude)

FairSpec == Spec /\ Fairness

-----------------------------------------------------------------------------
(* Types; in the cache, whole answers only. *)
Calls == [rdap : 0 .. 2, scrape : 0 .. 2, news : 0 .. 1]

TypeOK ==
  /\ mode \in {"fixture", "live"} /\ clock \in 0 .. MaxClock
  /\ stage \in {"idle", "fetching", "news", "openrouter", "claude"}
  /\ vendor \in Vendor \union {None} /\ observedAt \in 0 .. clock
  /\ calls \in Calls
  /\ registered = None \/ registered \in Int
  /\ markdown = None \/ markdown \subseteq Vendor
  /\ DOMAIN bundle \subseteq EvidenceKind
  /\ cache \in [Host -> Facts \union {NoFacts}]
  /\ verdict \in Verdict \union {None}
  /\ explainers \in Explainers
  /\ failures \subseteq {"openrouter", "claude-code-oauth"}
  /\ explanation = None \/ explanation \in Explanation
  /\ collections \in 0 .. MaxCollections

(* What is in hand or in the cache is what the providers say of the host.  *)
AnswersAreTrue ==
  /\ registered # None => vendor \in Vendor /\ registered = RegisteredAt[HostOf[vendor]]
  /\ markdown # None => vendor \in Vendor /\ markdown = Page[HostOf[vendor]]
  /\ \A host \in Host : cache[host] # NoFacts =>
       cache[host].registeredAt = RegisteredAt[host] /\ cache[host].markdown = Page[host]

(* The signals are true of v at some moment of the collection.             *)
TrueAt(signals, v, from, to) ==
  /\ DOMAIN signals \subseteq REQUIRED_SIGNALS \union {"news_presence"}
  /\ {"payee_identity_match", "typosquat_detected"} \subseteq DOMAIN signals
  /\ signals["payee_identity_match"] = PayeeMatch[v]
  /\ signals["typosquat_detected"] = Typosquat[v]
  /\ "web_presence" \in DOMAIN signals => signals["web_presence"] = TRUE
  /\ "company_identity_match" \in DOMAIN signals =>
       signals["company_identity_match"] = (v \in Page[HostOf[v]])
  /\ "domain_age_days" \in DOMAIN signals =>
       \E time \in from .. to :
         signals["domain_age_days"] = (time - RegisteredAt[HostOf[v]]) \div Day

(* What is not known of a host was asked for as often as the code asks.    *)
AskedInVain ==
  /\ \/ {"web_presence", "company_identity_match"} \subseteq DOMAIN bundle
     \/ markdown = None /\ calls.scrape = 2
  /\ \/ "domain_age_days" \in DOMAIN bundle
     \/ registered = None /\ calls.rdap = RdapSources(HostOf[vendor])

(* A collection that asks is a live one, of a vendor that local checks     *)
(* have not turned down.                                                   *)
CollectionIsSound ==
  /\ stage # "idle" => vendor \in Vendor
  /\ stage \in {"openrouter", "claude"} => verdict # None
  /\ stage \in {"fetching", "news"} =>
       /\ mode = "live" /\ PayeeMatch[vendor] /\ ~Typosquat[vendor]
  /\ stage = "fetching" => calls.rdap <= RdapSources(HostOf[vendor])
  /\ stage = "news" => TrueAt(bundle, vendor, observedAt, clock) /\ AskedInVain
  /\ stage \notin {"fetching", "news"} /\ verdict # None => verdict.vendor = vendor

(* The explainers that have failed are those that were asked.              *)
ChainIsInOrder ==
  /\ stage \in {"fetching", "news", "openrouter"} => failures = {}
  /\ stage = "claude" =>
       failures = IF explainers.openrouter = "off" THEN {} ELSE {"openrouter"}

CollectorInv == TypeOK /\ AnswersAreTrue /\ CollectionIsSound /\ ChainIsInOrder

(* What the providers would have said of a vendor at a time, had each of   *)
(* them answered.                                                          *)
Truth(v, time) ==
  [kind \in REQUIRED_SIGNALS |->
     CASE kind = "payee_identity_match" -> PayeeMatch[v]
       [] kind = "typosquat_detected" -> Typosquat[v]
       [] kind = "web_presence" -> TRUE
       [] kind = "company_identity_match" -> v \in Page[HostOf[v]]
       [] kind = "domain_age_days" -> (time - RegisteredAt[HostOf[v]]) \div Day]

Judged == mode = "live" /\ stage \notin {"fetching", "news"} /\ verdict # None

(* Nothing is invented, and no failure, cached page or cached date makes a *)
(* vendor look better or worse than it is: one that is eligible has        *)
(* deserved it at the time of the verdict, and one that is refused was to  *)
(* be refused when its collection began.                                   *)
VerdictIsTrue ==
  Judged => /\ verdict.status = "eligible"
                 => Status(Truth(verdict.vendor, verdict.at)) = "eligible"
            /\ verdict.status = "ineligible"
                 => Status(Truth(verdict.vendor, observedAt)) = "ineligible"

(* Evidence is only called insufficient after a provider of it was asked   *)
(* in this very collection as often as the code asks, in vain: a transient *)
(* failure is retried, and never remembered.                               *)
InsufficiencyIsEarned ==
  Judged /\ verdict.status = "insufficient_evidence" =>
    \/ markdown = None /\ calls.scrape = 2
    \/ /\ registered = None
       /\ calls.rdap = IF HostOf[verdict.vendor] \in SecondSource THEN 2 ELSE 1

(* live.test.ts:58: a vendor that fails a local check is turned down       *)
(* without asking anybody.                                                 *)
HardFailureIsFree ==
  Judged /\ (~PayeeMatch[verdict.vendor] \/ Typosquat[verdict.vendor]) =>
    /\ verdict.status = "ineligible"
    /\ calls = NoCalls

(* What is shown of a verdict is the answer of the first explainer that    *)
(* gave one, and says of a second that it stood in for the first; it is    *)
(* called unavailable when somebody was asked and nobody answered, and is  *)
(* only missing where no explainer is enabled.                             *)
ExplanationIsHonest ==
  stage = "idle" /\ verdict # None =>
    LET asked == {e \in {"openrouter", "claude"} : explainers[e] # "off"}
    IN  IF explanation = None THEN asked = {}
        ELSE CASE explanation.provider = "none" -> asked # {}
               [] explanation.provider = "openrouter" ->
                    explainers.openrouter = "on" /\ explanation.fallbackFor = None
               [] OTHER ->
                    /\ explainers.claude = "on"
                    /\ (explanation.fallbackFor = "openrouter")
                          = ("openrouter" \in asked)

(* However the providers fail, a collection ends in a verdict, and the     *)
(* explainers do not hold it up for ever.                                  *)
EveryCollectionEnds == stage # "idle" ~> stage = "idle"
=============================================================================
