# Verification of Continuim's recovery control plane

TLA+ models of the Continuim services, TLC configurations that check them on
small instances, and TLAPS proofs of what matters most for every instance.
Paths are relative to the repository.

## 1. Inventory

Continuim watches a client's inventory, and when a critical part runs low an
agent sources it without a human: it tries to buy, is denied, collects evidence
about the vendor, obtains a signed, vendor-bound capability and buys with it.

| Component | State | Operations | Hard parts | Correct when |
|---|---|---|---|---|
| Procurement origin, `services/procurement` | two in-memory Maps, `orders` and `consumedNonces` | `POST /po/:vendorId` | concurrent requests around one `await`; retries, replays; expiry; restart forgets both Maps | a capability buys one order under named keys, a key names one request, nothing is granted without a covering capability |
| Capability checks, `packages/security` | none | sign, verify, bind, encode | boundaries, exact binding | only what was signed is granted |
| Recovery store, `control-plane/src/store.ts` | SQLite: state, events, incidents; `runStartedAt` in memory | reset, start, consume, complete, fail, history | several writes without a transaction; persisted state outlives the process | what is shown and taught is what happened |
| Run supervision, `runtime.ts` | `acceptedOrder` of the run | `runDemo`, `runStockout` | lost or unreadable answers; throws | every run ends, and is recorded once |
| HTTP API, `server.ts` | one store per client | state, reset, scenario, run, consume, client-incident, stockout webhook | checks before an `await`; operations during a run | one recovery at a time |
| Inventory monitor, `monitor.ts` | `tickRunning` | tick every 2 s | overlaps with runs, resets, other triggers | low stock is answered once |
| Procurement loop, `services/agent` | learned flag, candidates left, blacklist | one pass over ranked vendors | five awaits for each vendor | buys at most once, from a verified vendor |
| Verification policy, `verification/src/policy.ts` | none | `evaluateEvidence` | boundaries, missing signals | evidence that is worse or missing never helps |
| Evidence collectors, `collector.ts`, `live.ts`, `match.ts` | host cache | `collect` | concurrent providers, retries, fallback, cache | a failure omits a signal, nothing is invented |
| Explainer chain, `explainer.ts`, `claude.ts`, `openrouter.ts` | none | `explainVerdict` | a provider fails | never changes a verdict |
| Datacenter console, `Continuum/src/lib/datacenter` | active fault, breach count, incident | tick, inject, restore, reset, start, stop, synchronize | stale polls, late answers to hand-offs, other surfaces on the same store | an incident is handed over once and confirmed; the console comes to agree with the control plane |
| Live polling, `Continuum/src/lib/live/useLiveState.ts` | last state, connected | poll every interval | answers out of order, change of client | the pages come to show the selected client |
| Simulation engine, `Continuum/src/lib/simulation` | board, path, vendors; ledger and incidents in localStorage | trigger, reset, set workspace, set speed | a run cannot be stopped while it sleeps; page loads; refused writes | an interrupted run leaves no trace, one that ends leaves one |
| Application store and theatre, `store.tsx`, `DemoPlayer.tsx` | selected workspace, whether a run was started by itself | select, reload, automatic start | timers against answers | they only operate the engine |
| Live actions and views, `actions.ts`, `adapt.ts` | none | post; compute a view | | not modelled |
| Web pages, proxy | none of their own | | | only their controls |
| Scripts, deployment | none of the system's | | | not modelled |

How they interact: the monitor, the console (through a proxy route of the web
application) and the webhook start a run on the store of a client; the run
calls the collector, the policy and the explainer in process and the origin over
HTTP; the browser polls the store's state, and Meridian's console hands its
incidents over to it.  The simulation in the browser runs next to all this and
only shares the page.  The two clients have their own tables and share nothing
but the process.

What makes each correct, and what can go wrong that a test would hardly reach,
is listed under "hazards" in PROJECT.json, each at its line.

## 2. Modules

| Module | Models | State and actions |
|---|---|---|
| `CapabilityLedger` | what the origin promises of keys that are not empty: keys and nonces are bound one to one, only forgetting unbinds them | `boundTo`; `Spend`, `Forget` |
| `ProcurementOrigin` | the origin with the capability checks | the two Maps, the exchanges (HTTP requests), a clock, restarts; `Receive` is `readJson`, `Authorize`/`Deny` the outcome of the awaited `authorizePurchase`, `RefuseChangedReplay`, `Replay`, `RefuseSpentNonce`, `CreateOrder` the four ways `createPurchaseOrder` runs to its answer, in the order of its tests |
| `ProcurementOriginProofs` | theorems about it | |
| `MCProcurementOrigin` | instance for TLC | |
| `RecoveryLifecycle` | what the control plane promises: one recovery at a time, each recorded by itself | `active`, `ledger`; `Begin`, `Conclude`, `Abandon`, `Forget` |
| `ClientStore` | what a surface of a client may rely on: one record that others reset or start a run on, and that every live run may end on | `status`, `home`, `inbound`, `liveRuns`; `Begin`, `End`, `Reset`, `Restart` |
| `ControlPlane` | one client's store, its handlers, the monitor, the supervised loop, crashes and restarts of either process | one action for each handler (`Reset`, `CheckSwitch` and `Switch`, `RunDemo`, `Consume`, `ClientIncident`, `Webhook`), `MonitorTick`, one for each stretch of a run between two awaits (`Source`, `ProbeDenied`, `Verify`, `OriginAccepts`, `OriginRefuses`, `Ordered`, `AnswerGarbled`, `Exhaust`, `Complete`, `Throw`), `Crash`, `CrashInComplete`, `OriginRestarts` |
| `MCControlPlane` | instances for TLC | |
| `ControlPlaneProofs` | theorems about it | |
| `VerificationPolicy` | `evaluateEvidence`, as operators on a bundle of signals (a function whose domain is what was collected) | `missing`, `riskScore`, `Status` |
| `DecliningEvidence` | the policy over time | `signals`; `AnyBundle` to begin with, then `Worsen`, `Lose` |
| `VerificationPolicyProofs` | theorems about it | |
| `EvidenceCollector` | one collector, the verdicts drawn from it and what explains them | the collection under way, the host cache, a clock; `Collect` is `collect` to its first `await`, `Rdap` one pass of its loop, `Scrape` one attempt, `HostFacts` what follows `Promise.all`, `News` the search and the verdict, `OpenRouter` and `Claude` the chain of `explainVerdict` |
| `MCEvidenceCollector` | instance for TLC of the collector, with `DecliningEvidence` beside it | |
| `EvidenceCollectorProofs` | theorems about it | |
| `DatacenterConsole` | `DatacenterRuntime` with its detector, the bridge to the control plane, the poll that reconciles the two | fault, breach count, incident, the POST of each fault, polls answered but not applied; one action for each button, timer and answer; `Accept`, `Refuse`, `ResetArrives`, `RunEnds`, `OtherRun`, `OtherReset`, `ServerRestarts` are what happens to Meridian's store |
| `DatacenterConsoleProofs` | theorems about it | |
| `SimulationEngine` | `ContinuumEngine` and the ledger in localStorage | `trigger`, `Reset`, `setWorkspace`, `Reload` (a page load); one action for each stretch of a run between two sleeps, and `FinishThrows` for a last one whose write localStorage refuses |
| `ContinuumStore` | the provider and the theatre around the engine | polls by client, the state shown; `Poll`, `Answered`, `Failed`, `AutoStart`, `Start`, `StartOver`, `SelectWorkspace`, `ReloadPage` |
| `MCContinuumStore` | instance for TLC | |
| `ContinuumStoreProofs`, `IncidentRecordsProofs` | theorems about both | |

Composition: `ContinuumStore` extends `SimulationEngine`; `EvidenceCollector`
and `DecliningEvidence` extend `VerificationPolicy`; `ControlPlane` takes a
verdict from what `EvidenceCollector` shows to be possible.

Where two processes talk, an abstract specification stands between them, which
one side implements and the other is shown to rely on alone:

| Between | Specification | Implemented by | Used by |
|---|---|---|---|
| control plane and origin | `CapabilityLedger` | `ProcurementOrigin` for its named keys (`ImplementsLedger`) | `ControlPlane`, whose `orders` are such a ledger (`BuysThroughTheLedger`) |
| console and control plane | `ClientStore` | `ControlPlane` (`ServesItsClient`) | `DatacenterConsole`, whose `server` is such a store (`UsesTheStore`) |

The origin keeps this ledger for every key but the empty one (finding 1), and
whoever uses the empty key, the others are kept: the control plane's own keys,
`<event>:<vendor>`, are never empty.

`RecoveryLifecycle` is implemented twice, by `ControlPlane` for real recoveries
and by `SimulationEngine` for simulated ones (`ImplementsLifecycle` in both).

Operators introduced by a comment `Fault:` are plausible mistakes in the code.
They take no part in a specification; each one shows that some property would
notice the mistake (PROJECT.json, "mutants").

### What the models abstract

*Origin.*  The fields that an attestation and a request must agree on one by
one are vendor, unit price, nonce and a single value for the others, since the
code refuses a mismatch in any of them alike.  A signature is the secret it was
made with.  Order ids are a counter.  Any string is a key, the empty one
(`EmptyKey`) included, which the test for a spent nonce takes for no owner.  A body
that is too large or no JSON (`readable`) is answered with 400 like a malformed
request.

*Control plane.*  A run's candidates are a set with a price for each; "the
ranked list" is whichever vendor precedes the others, proven ones first, then
the cheaper.  The origin is the set of orders it has accepted, and of those it
still remembers (`accepted`, `orders`): it restarts at any time, and what it
forgets stays bought.  A run's requests carry a capability minted for it, so the
origin answers 201 for a new key and 409 for a known one; refusals for other
reasons happen when `Reliable` is FALSE.  The verdict on a
vendor is any member of `Evidence[vendor]` (`EvidenceCollector` says what it
can be, and why).  A request in flight reaches the origin before its run throws
or dies, or never does.  Money, blacklists, timestamps,
explanations, the asset of a client incident and the text of events are left
out; `log` keeps which runs have events in the shown ledger.  `start` resets the
store when the event's SKU is another scenario's: no caller can reach that, as
the webhook has switched before and the others take the SKU from the store.

*Evidence.*  Comparing names and domains (`match.ts`) gives the constants
`PayeeMatch` and `Typosquat`; a page is the set of vendors it names.  What a
provider would say of a host is fixed, whether it answers is not: an error
status, an empty or unusable answer and a timeout are all the same failure.  The
clock never steps back.  The pause before the second scrape is any number of
ticks.  The model lets one collector verify a vendor again and two vendors share
a host, which is what the cache is for; `runStockout` makes a collector for each
run and its catalogue has a host for each vendor, so today's runs never hit it.

*Assumptions on the environment* are constants: `OperatorWaits` (resets and
switches come between runs, and requests arrive in one piece), `SenderOnce` (the
webhook's sender delivers an event once), `Reliable` (no throw: collector
configured, no lost or unreadable answer, no refusal but 409).  The code has no
guard for any of them; the runs below say what holds with and without.

*Explanations.*  Prompts, text and cost are left out: an explainer has no key,
is off, or is on and answers or fails.

*Console.*  A fault is a number; the asset and metric it is injected on, healthy
samples, the history and the timeline are left out.  Time since the injection
counts in 700 ms up to 1, which is when the ECC counter passes its limit; a tick
of an interval that was set after the injection comes no earlier than that.
The store is found in either scenario (`ShownAtFirst`), and what others do to it
is what `ClientStore` allows: a late switch may reset it at any time, a restart
ends its runs without changing its status.
Answers to polls are a set, applied in any order or lost.  Resets in flight are
counted, since each arrives once or is lost.

*Browser.*  A workspace has one scenario, a scenario one incident type and a
client one workspace, so one name stands for all.  A sleep takes any time, which
is what the speed changes.  Transcripts, artifacts, amounts, latencies and
confidences are left out.  There is one tab.  localStorage may refuse a write at
the end of a run (the ledger's, or the list's), which `trigger` swallows; a refused
write of the selected workspace (`store.tsx:93`) is ignored by the code and changes
nothing the pages show.

## 3. Runs

| Run | Bounds | Shows |
|---|---|---|
| `origin` | 3 requests out of 12 kinds, 3 keys (one of them empty), 2 nonces, 3 capabilities, clock to 2, 1 restart; 221,469 states | in a life of the process a nonce buys a second order only if the first went to the empty key (`OnlyTheEmptyKeyIsForgotten`); a key, empty or not, names one request; a retry of an accepted request is never told it conflicts; every 201 is covered by a valid capability and an exact amount; for each life of the process a capability buys at most one order under named keys and one more under the empty one (`ExposureIsBounded`); refinement of `CapabilityLedger` for named keys |
| `recovery_orderly` | 3 requests that start a run or reset, 4 runs, 2 scenarios, 2 + 1 vendors; the three assumptions; no crash | `LiveRunIsShown`, so one live run; incidents are filed under their own run and scenario; nothing outlives a reset; history is honest; an event buys once; purchases are recorded; every run ends; low stock is answered; refinement of `RecoveryLifecycle` |
| `recovery_disruptive` | 2 requests, 1 crash, 4 runs, any restarts of the origin, a second vendor that is short of stock; none of the assumptions; 861,942 states | what remains: `RecoveryInv`, the invariant of the proofs; the shown order was accepted as shown; no vendor is credited with an order it did not get; the monitor fires once between resets; every order bought is justified by its run (its event and quantity, a candidate in stock that evidence can clear, the denial known) |
| `collector` | 3 collections, 4 vendors on 2 hosts, one of which turns 30 days old; clock to 3, cache for 2; beside it every bundle of signals, ages on both sides of both brackets; 395,099 states | `CollectorInv`, the invariant of the proofs; a verdict is true of the vendor or says that evidence is missing; that only after every retry of this collection; an explanation says who answered and who failed; every collection ends; turned down is never admitted on worse or less required evidence; the score follows the evidence; a vendor is ineligible for one of the sets of findings in `Decisive` and for nothing less (`FindingsDecide`) |
| `browser` | 2 workspaces, 2 runs, 2 interruptions (reset, switch, page load), writes refused or not, 1 poll in flight for a client, 2 records kept, 1 seed; 109,700 states | what localStorage remembers is one record for each run that ended and none of the others, but for what a run wrote before a write was refused; a warm path was earned; the board is one run's and in order; refinement of `RecoveryLifecycle`; a run settles, or a refused write has left it running on the board; the pages come to show the selected client |
| `console` | 2 faults of 2 types, the store in either scenario at first, 1 interruption, 1 act of another surface or restart of the control plane, 1 answer in flight; 478,731 states | `ConsoleInv`, the invariant of the proofs; a hand-off happens once for a fault, after two samples in a row that show it; between polls only an accepted incident is under review; a fault that stays is reported; the console comes to agree with a control plane that stands still |
| `empty_key` | finding; the instance of `origin` | `NonceBuysOneOrder` fails when the first order went to the empty key |
| `history_without_denial` | finding | `HistoryIsHonest` fails when an event asks for more than any vendor has |
| `crash_strands_run` | finding | `EveryRunEnds` fails after a restart in mid-run |
| `switch_under_run` | finding | `ScenarioHoldsStill` fails when a run begins between a scenario request's check and its body |
| `second_run_after_reset` | finding | `OneLiveRun` fails after a reset in mid-run |
| `lost_fault` | finding | `FaultIsHandedOff` fails for a fault injected after an earlier run has completed |

Why the bounds are enough.  The origin's history properties compare two
answers, and a third request is what can come between them; two nonces and two
named keys give every combination of same and different, and the empty key stands
on either side of a named one; the only submission whose total is not a safe
integer is within its capability otherwise, so the limit alone refuses it; a clock to 2 lets one
capability expire and another become valid while a request is at the `await`;
one restart separates two lives.  In the control plane three requests are a
reset (or a switch) and two triggers, next to the monitor's own runs; two
candidates give the fallback from a refused or ineligible vendor to the next; a
crash needs one run before and one after.  With a second vendor that is short,
a large request has one candidate and a small one two, so a run falls back, runs
out, or buys.  `MaxRuns` is derived so that runs never run out (a request either
starts a run or makes one reset, and the monitor fires at most once between
resets): no trigger is lost to the bound, which is a theorem (`NoTriggerIsLost`).
Deadlock is checked in `browser` and `console`, whose timers never stop, and not
in the others: there requests, crashes and the clock are bounded, so every
behaviour comes to an end.  The origin's run uses the symmetry of its requests
(safety and refinement only); the liveness runs use none.

The policy has thresholds at 30 and 90 days, so the ages on either side of each,
29, 30, 89 and 90, stand for all (the theorems need no bound), and `FindingsDecide`
says exactly which findings decide at each of them.  No sum of weights lies
between 56 and 64, so moving the limit of 60 by a point changes no verdict.  A collector's second and third collections meet a
cache that is filled, expired, or was spared a half answer; the clock crosses the
30-day bracket and the expiry; the two vendors of the young host differ only in
what its page says of them.

In the browser two runs are what it takes for a stale run to wake next to a
fresh one, and two interruptions for a reset followed by a switch or a page
load; with a seed and two finished runs the list of two records is cut.  In the
console a second fault meets the leftovers of the first (its count, its late
answer, its completed run); a node that is offline breaches at every sample, an
ECC spike only from the second on, and the other types are like the first.  One
answer in flight may already be stale when it is applied.

Fairness.  `FairSpec` of the control plane makes each run's continuations weakly fair: the event loop
runs a continuation that is ready, and a fetch ends with an answer, an error
or the client's timeout.  The monitor is weakly fair because it is an interval
timer.  Nothing is assumed of the operator, the sender or the consumption of
stock, and none of a restart.  In the collector the requests and continuations
are weakly fair, as every fetch carries an `AbortSignal.timeout`; nothing says
that one ever succeeds; the explainers likewise.  In the browser a run's sleeps
end and the poll's interval fires (weak fairness), a request ends one way or the
other (weak), and a poll that is sent again and again is answered again and
again (strong fairness of `Answered`, `PollAnswered`): the pages can only come to
agree with a control plane that is up.  `EveryRunEnds`, `RunIsSettled` and
`FaultIsReported` do not need the last one.  Nothing is assumed of hand-offs,
resets, switches and page loads.

## 4. Findings

Each is a disagreement between the code and what the repository says of it; the
run of that name ends in a counterexample.

1. `empty_key`: whether a nonce is spent is a test on the truthiness of its owner
   (`procurement/src/index.ts:47`), and any string is a key (`:95`).  What bought
   an order under the key `""` buys another under a named key, in the same life of
   the process, while `SYSTEM.md:544` and `:702` and `PRD.md:584` promise one order
   without exception.  Nobody in the repository sends an empty key.
2. `history_without_denial`: the comment in `history()` says every completed run
   observed or recalled the denial.  A run without any candidate in stock does
   neither, is recorded, and the next run skips the probe.
3. `crash_strands_run`: the persisted status survives a restart, its run does
   not.  Nothing but a reset ends the state.
4. `switch_under_run`: the status is checked before the body is awaited, so the
   documented 409 does not protect a run that begins in between.
5. `second_run_after_reset`: reset does not know of live runs; the store turns
   idle and a second run passes the check.
6. `lost_fault`: a fault injected while the store still says `complete` from an
   earlier run is cleared by the next poll (`syncControlPlane`), usually before
   the second sample; nobody hears of it, although nobody interfered.

The following contradict no document; they are listed as hazards or only here.

- Supporting evidence can turn a vendor down but need not be collected: live
  mode never asks for `contact_reachable`, so a vendor that the 20 points for an
  unreachable contact would refuse is admitted there.
- A webhook event that is delivered again may buy from a second vendor, and an
  order whose answer is lost stays unrecorded: the code does not enforce the
  assumptions that exclude them.
- A restart of the origin forgets nonces, which the project documents;
  `GrantIsCovered` and `ExposureIsBounded` (a life of the process costs one order
  for a capability under all named keys, and one under the empty key) are the
  bounds that remain for the origin, `PurchasesAreJustified` for the control plane.
- The console takes the status of its incident from whatever run the store shows
  (`datacenter/runtime.ts:114`): after a hand-off that was refused or failed, the
  next poll shows the incident under review and the failure's message is gone,
  and an incident resolved by hand turns back to under review.  Hence
  `ReviewIsEarned` speaks of what happens between polls.
- A failed hand-off is never sent again (`:215`).
- `reset` of the console publishes `connected` by whether its own timer is set,
  not by whether the poll succeeds (`:283`).
- A late answer about the previous client is shown under the new one until the
  next poll (`useLiveState.ts:23`, one ref for all effects); `ShowsTheWorkspace`
  says that it does not stay.
- A run of the simulation whose last write localStorage refuses stays running on
  the board until a reset: `trigger` swallows whatever is thrown as a cancellation
  (`engine.ts:240`), also a full or disabled storage (`simulation/ledger.ts:19`).
  The ledger may then know a run that the list of incidents does not.
- The theatre keeps the last live state when the control plane is no longer
  reached (`DemoPlayer.tsx:38`), and the live controls act on Meridian's store
  whatever client is shown (`actions.ts:18`, `server.ts:227`).

## 5. Proofs

`ProcurementOriginProofs` proves, for every set of requests, keys, nonces,
vendors, capabilities and submissions, every clock bound and number of restarts
(from the assumptions `OriginAssumption` and `NoOrderAssumption` on the
constants):

- `TypeCorrect`: `Spec => []TypeOK`.
- `OriginInvariant`: `Spec => []OriginInv`.  The properties compare answers given
  at two moments and are not inductive.  What carries them is the link between an
  answer of the current life of the process and the Maps as they are now: a 201
  is still the stored order of its key (`CurrentGrantStored`), a 409 is still
  justified (`CurrentConflictStands`), and the two Maps agree on who consumed
  which nonce (`MapsAgree`), unless that was the empty key and a named one bought
  after it; across the await, what authorization established
  (`AuthorizationKept`).  There is one step for each action and under it one for
  each conjunct.
- `GrantCoverage`: `Spec => []GrantIsCovered`, from the invariant.
- `CapabilityBuysOnce`, `KeysNameRequests`, `VerdictsAreStable`:
  `OnlyTheEmptyKeyIsForgotten`, `KeyNamesOneRequest`, `VerdictIsStable`.  The first
  is what the code keeps of `NonceBuysOneOrder` (finding 1), and without an empty
  key among `Key` it is the same.  Two answers of the
  current life agree by the invariant; the answers of earlier lives no longer
  change, so the lemma `AnswersAgree` adds the three properties to the invariant
  and shows that an action gives one answer at most.
- `CapabilityExposure`: `Spec => []ExposureIsBounded`.  In a life of the process a
  nonce buys one order under all named keys, so the orders that one nonce has
  bought under them map one to one into the lives (`OneForEachLife`), of which there
  are one more than restarts; the orders under the empty key do so as well.
- `OrderFinality`: `Spec => OrdersAreFinal`.
- `LedgerRefinement`: `Spec => ImplementsLedger`; `CreateOrder` under a named key is
  `Spend` (under the empty key a stutter), `Restart` is `Forget`, everything else a stutter.

`ControlPlaneProofs` proves, for any scenarios, vendors, prices, stocks, events,
and numbers of requests and crashes (`ControlPlaneAssumption`,
`NoOrderAssumption`):

- without any assumption on the environment, `RecoveryInvariant`,
  `ShownOrdersAreReal`, `CreditsAreEarned`, `MonitorFiresOnceAtMost`,
  `TicksHoldTheirRuns`.  The invariant `RecoveryInv` adds to these that what a run
  takes for bought was accepted from it (`RunIsSound`), and that the epoch of an
  idle store has no run yet, which is why the monitor cannot fire twice;
- likewise without any, `PurchasesAreAlwaysJustified`.  Its invariant says of
  every run what an order is to be justified by later: the vendors it has left are
  candidates in stock, and past a verdict its vendor is one that evidence can
  clear and the denial is known;
- likewise, `OriginRefinement` (`Spec => BuysThroughTheLedger`): an accepted order
  binds a key that was free to a capability that no other key has, since a run
  orders once from a vendor; a restart is `Forget`;
- likewise, `ClientRefinement` (`Spec => ServesItsClient`).  A run that begins adds
  one to the live runs and one that ends takes one away (`LiveRunsStep`, with the
  library's facts on cardinality), and a run is for a quantity other than zero, so
  what is inbound tells an order from none;
- likewise, for finitely many vendors, `RunsGetCloser` (`Spec => RunsRunDown`): the
  measure `Remaining`, five for each candidate left and the steps left for this
  one, falls with every step of a run, crash or throw, and is bounded when it
  begins.  So no run goes on for ever, however often it falls back;
- likewise, `NoRunIsStuck` (`Spec => []LiveRunsCanGoOn`): the order of the
  candidates, proven first and then by price, has a least element in what is left
  (the natural numbers are well-founded), and past that the run has a vendor that
  can be judged.  What `EveryRunEnds` takes from fairness is no more than that a
  run that can go on does;
- `NoTriggerIsLost` (`Spec => []RunsSuffice`): runs begun, an idle store and a
  switch in flight, counted together, stay within requests, crashes and one;
- if the operator waits (`OperatorWaits`), `LiveRunsAreShown`, `OneRunAtATime`,
  `IncidentsAreOwn`, `ResetsAreFinal`, `ScenarioIsKept` and `LifecycleRefinement`
  (`Begins` is `Begin`, the end of a run `Conclude` or `Abandon`, a reset `Forget`).
  `OneRunAtATime` and `ScenarioIsKept` are the counterparts of findings 5 and 4:
  the assumption they need is the one the code does not enforce;
- if some candidate has whatever quantity is asked for (`StockSuffices`),
  `HistoryIsEarned`, the counterpart of finding 2;
- if the network is `Reliable`, `NoHiddenPurchase`; and with `SenderOnce` as well
  `StockoutBuysOnce`.

The argument: every step of the specification is of one of six kinds (`Kinds`):
the run's bookkeeping stays, or the store is reset, or reboots, or a run begins,
walks on, or ends.  A kind says what each variable may do, and each invariant is
shown to survive the kinds rather than the two dozen actions.

`VerificationPolicyProofs` proves, for every set of domain ages
(`AgeAssumption`), of the declining evidence (`DeclineSpec`) `RefusalIsFinal`
(`NoComeback`), `ScoreIsMonotone` (`ScoreFollowsEvidence`) and `FindingsDecideAlways`
(`[]FindingsDecide`).  The first two rest on one relation, `NoBetter`, between two
bundles: every condition the policy holds against a vendor survives it
(`FailuresRemain`), hence the hard failure, the sum of points and the risk.  The
third compares the sum of points, the brackets and the compound failure with a
table of findings: `Decisive` lists the smallest sets that turn a vendor down.

`EvidenceCollectorProofs` proves, for any vendors, hosts, pages and dates
(`CollectorAssumption`, `NoneAssumption`), caching or not, `CollectorInvariant`,
`VerdictsAreTrue`, `InsufficiencyEarned`, `HardFailuresAreFree` and
`ExplanationsAreHonest`.  `CollectorInv` says of every answer in hand and in the
cache that it is the host's (`AnswersAreTrue`), of a bundle under way that it
says nothing else and lacks only what was asked for as often as the code asks
(`CollectionIsSound`), and where in the chain the explainers are
(`ChainIsInOrder`).  `TrueAt` relates a bundle to a vendor and an interval of
days in which its age was taken; the verdict theorems follow from it and from
the policy alone, without looking at the providers again.  `CollectionsGetCloser`
gives the collection a measure (attempts, then the facts, the news and the
explainers) that whatever happens to it lowers.

`DatacenterConsoleProofs` proves, for any number of faults, answers and
interferences (`ConsoleAssumption`), `ConsoleInvariant`, `HandoffConfirmed` and
`ReviewEarned`.  `WatchIsFresh`, the part of `ConsoleInv` that is more than types,
says that until an incident is known nothing was handed over for the fault on
the console and the detector's count is of that very fault; both leftovers that
could confirm a fault too early are excluded by it.  `StoreRefinement`
(`Spec => UsesTheStore`) is the other half of `ClientRefinement`: whatever the
console and the other surfaces do to the store is a step of `ClientStore`, so
the two modules speak of the same store.

`ContinuumStoreProofs` proves, for any workspaces, candidates, runs and
interruptions (`EngineAssumption`, `SeedAssumption`, `StoreAssumption`),
`EngineInvariant`, `StoreImplementsEngine`, `BoardInOrder` and `WarmEarned`.
`EngineInv` says that at most one run is awake under the current token
(`TokensOK`), that the board, the path and the vendors are those of the point it
has come to (`BoardOK`), and that the ledger knows only verified candidates that
runs that wrote it bought from (`LedgerOK`), which are those that finished and
those whose second write was refused (`Learned`).  A refused write leaves `running`
set with no run awake (`Stranded`), and the board says so until a reset.  `StoreImplementsEngine` lets the proofs
forget the polls and the theatre.  `IncidentRecordsProofs` proves `RecordsEarned`
on top of it: the list of incidents is newest first, so cutting it keeps the
newest; its length counts the finished runs, and the ledger's hits those that
wrote it.
`SimulationLifecycle` (`Spec => ImplementsLifecycle`) maps the run that was
triggered last, while `running` is set, to the active recovery: a sleep that
ends under a stale token is a stutter, so an interrupted run is an `Abandon` and
nothing else.  `NoRunLacksItsVendor` shows that the engine's throws and early
returns for want of a vendor are not reached, so that a refused write is the only
way to leave `running` set;
`SimulatedRunsWindDown` counts the sleeps that a run has left.

Only model-checked: the liveness properties (`EveryRunEnds`, `LowStockIsAnswered`,
`EveryCollectionEnds`, `RunIsSettled`, `ShowsTheWorkspace`, `FaultIsReported`,
`ConsoleConverges`), which are out of the prover's reach: weak fairness speaks of
`ENABLED`.  For the first and for `EveryCollectionEnds` and `RunIsSettled` the
theorems above leave just that step to TLC: a measure that every step lowers and,
where the guards do not say so by themselves, a step that is there to take.  Every safety property
that a passing run checks is also a theorem.  Some theorems go the other way:
`OrdersAreFinal`, `HardFailureIsFree`, `TickHoldsItsRun`, `BuysThroughTheLedger`,
`ServesItsClient`, `UsesTheStore`, `RunsRunDown`, `RunsSuffice`, `LiveRunsCanGoOn`,
`CollectionsRunDown`, `NothingIsMissing` and `RunsWindDown` are proved and not in
a cfg, as a proof for every instance says more than one more property in
a large run would; TLC agrees with them on these instances or smaller ones.  No definition is recursive: the
policy sums a fixed set of points, and the engine's `Find` is a choice from a
finite sequence, so no fact waits for an induction over data.

## 6. Not modelled

- `setClientIncident`'s asset and title, `setMonitorActive` and
  `markMonitorCheck`: fields that no other operation reads.
- `match.ts` and the catalogue: constants of the collector.  `data/workspaces.ts`:
  constants of the engine, with what it needs of them as `EngineAssumption`.
- `adapt.ts` and the pages compute what is shown of a state and keep none;
  `actions.ts` and the proxy route forward to handlers that are modelled.
- `setSpeed`: a sleep takes any time.
- Scripts and deployment descriptors hold no state of the system.

## 7. Plan

1. (done) `CapabilityLedger`, `ProcurementOrigin`, its proofs.
2. (done) `RecoveryLifecycle`, `ControlPlane`, the findings, `ControlPlaneProofs`.
3. (done) `VerificationPolicy`, `EvidenceCollector` with the explainers, their
   proofs.
4. (done) `DatacenterConsole`: the console's fault lifecycle against polled
   state, its proofs.
5. (done) `SimulationEngine`, `ContinuumStore`: cancellation by token, the warm
   path, one record for each finished run, polls across a change of client, their
   proofs.
6. (done) The processes composed: restarts of the origin under the control plane,
   `CapabilityLedger` and `ClientStore` as the interfaces between them, the
   lifecycle for the simulation.
7. (done) For each liveness property of a run the measure that its steps lower,
   and that a run is never stuck, for every instance.
8. The same for the console: how far a fault that stays is from its hand-off, and
   an idle console from agreeing with a control plane that stands still.
