---------------------------- MODULE ControlPlane ----------------------------
(***************************************************************************)
(* One client's recoveries: its DemoStore, the HTTP handlers and the       *)
(* inventory monitor that start them, and the procurement loop that each   *)
(* of them runs (services/control-plane and services/agent).  The clients  *)
(* share nothing but the process, so one is enough.                        *)
(*                                                                         *)
(* A handler runs to its end after its last await, and so does a           *)
(* continuation of a recovery: the interleaving points are the awaits      *)
(* (the paced emits, the evidence, the two trips to the origin, the body   *)
(* of the scenario request).                                               *)
(*                                                                         *)
(* The origin appears as the set of orders it has accepted, and of those   *)
(* it remembers: it may restart at any time, on its own.  Its requests     *)
(* always carry a fresh capability, so a key it knows is answered 409 and  *)
(* a new one 201 (ProcurementOrigin has the detail).  The ledger of        *)
(* decision events is abstracted to the recoveries that have events in it; *)
(* money, blacklists, timestamps and explanations are left out.  Every     *)
(* item is critical in both scenarios, and both have the same quantities.  *)
(***************************************************************************)
EXTENDS Integers, FiniteSets

CONSTANTS
  Scenario, Home,    \* the scenarios, and the one this client is routed to
  Vendor, NoVendor,
  Candidates,        \* scenario -> its vendors
  Stock, Price,      \* vendor -> availableQty and unitPriceCents of its quote
  Evidence,          \* vendor -> the verdicts its evidence can lead to
  Quantity,          \* quantities a webhook can ask for
  RequestedQty,      \* what the monitor and the console ask for
  FullQty, Threshold,
  WebhookEvent,      \* event ids of the stockout webhook's sender
  NoOrder,
  MonitorEnabled,    \* MONITOR_ENABLED # "0"
  OperatorWaits,     \* the console resets and switches between runs only,
                     \* and its requests arrive in one piece
  SenderOnce,        \* the webhook's sender delivers an event once
  Reliable,          \* no throw: the collector is configured, and the origin
                     \* is up, its answers arrive and can be read
  MaxRequests,       \* bound: HTTP requests that start a run or reset
  MaxCrashes         \* bound: crashes of the process

(* A request either starts a run or makes one reset, and the monitor fires *)
(* at most once for each reset: so the runs never run out.                 *)
MaxRuns == MaxRequests + MaxCrashes + 1

Run == 1 .. MaxRuns
NoRun == 0
Event == Run \union WebhookEvent

ASSUME ControlPlaneAssumption ==
  /\ Home \in Scenario
  /\ NoVendor \notin Vendor
  /\ Candidates \in [Scenario -> SUBSET Vendor]
  /\ Stock \in [Vendor -> Nat] /\ Price \in [Vendor -> Nat]
  /\ Evidence \in [Vendor -> SUBSET {"eligible", "ineligible"}]
  /\ \A v \in Vendor : Evidence[v] # {}
  /\ Quantity \subseteq Nat \ {0} /\ RequestedQty \in Nat \ {0}
  /\ FullQty \in Nat /\ Threshold \in Nat
  /\ WebhookEvent \intersect Nat = {}
  /\ {MonitorEnabled, OperatorWaits, SenderOnce, Reliable} \subseteq BOOLEAN
  /\ MaxRequests \in Nat /\ MaxCrashes \in Nat

VARIABLES
  status, scenario, currentQty, inbound, order,  \* DemoState, as persisted
  log,          \* the runs with events in DemoState.events
  incidents,    \* the incidents table
  startedAt,    \* runStartedAt: the run whose start it is, or NoRun
  tickRunning,  \* the run that the monitor's tick awaits, or NoRun
  switching,    \* a scenario request has passed its check, its body is awaited
  runs, begun,  \* the recoveries, numbered as they begin
  accepted,     \* the orders the origin has accepted
  orders,       \* those that it remembers: its Map, in its current life
  epoch, requests, crashes    \* resets, requests and crashes so far

shown == <<status, scenario, currentQty, inbound, order, log>>
origin == <<accepted, orders>>
budget == <<requests, crashes>>
vars == <<shown, incidents, startedAt, tickRunning, switching, runs, begun,
          origin, epoch, budget>>

Stage == {"none", "sourcing", "probing", "verifying", "ordering", "accepted",
          "finishing", "ended", "dead"}

RunType ==
  [stage : Stage, event : Event, quantity : Nat, scenario : Scenario,
   learned : BOOLEAN, todo : SUBSET Vendor, proven : SUBSET Vendor,
   vendor : Vendor \union {NoVendor}, byMonitor : BOOLEAN, epoch : Nat]

OrderType == [event : Event, vendor : Vendor, run : Run, quantity : Nat]

ASSUME NoOrderAssumption == NoOrder \notin OrderType

IncidentType ==
  [run : Run, scenario : Scenario, vendor : Vendor \union {NoVendor},
   timedFrom : Run \union {NoRun}]

Unused == [stage |-> "none", event |-> 1, quantity |-> 0, scenario |-> Home,
           learned |-> FALSE, todo |-> {}, proven |-> {},
           vendor |-> NoVendor, byMonitor |-> FALSE, epoch |-> 0]

(* The first start of the process, on an empty database. *)
Init ==
  /\ status = "idle" /\ scenario = Home /\ currentQty = FullQty
  /\ inbound = 0 /\ order = NoOrder /\ log = {} /\ incidents = {}
  /\ startedAt = NoRun /\ tickRunning = NoRun /\ switching = FALSE
  /\ runs = [r \in Run |-> Unused] /\ begun = 0
  /\ accepted = {} /\ orders = {}
  /\ epoch = 0 /\ requests = 0 /\ crashes = 0

Live(r) == runs[r].stage \notin {"none", "ended", "dead"}
-----------------------------------------------------------------------------
(* DemoStore *)

(* Fault: the decision events survive a reset. *)
ResetKeepsEvents(s) ==
  /\ status' = "idle" /\ scenario' = s /\ currentQty' = FullQty
  /\ inbound' = 0 /\ order' = NoOrder
  /\ log' = log
  /\ startedAt' = NoRun
  /\ epoch' = epoch + 1

(* reset: the decision events go, the incidents stay. *)
ResetTo(s) ==
  /\ status' = "idle" /\ scenario' = s /\ currentQty' = FullQty
  /\ inbound' = 0 /\ order' = NoOrder
  /\ log' = {}
  /\ startedAt' = NoRun
  /\ epoch' = epoch + 1

(* history: what the incidents of scenario s teach. *)
KnowsAuthorizationRequired(s) == \E i \in incidents : i.scenario = s

ProvenVendors(s) ==
  {i.vendor : i \in {j \in incidents : j.scenario = s}} \ {NoVendor}

(* The candidates that have the quantity. *)
Priced(s, quantity) == {v \in Candidates[s] : Stock[v] >= quantity}

(* The loop tries v before w: proven vendors first, each group by price.   *)
Precedes(run, v, w) ==
  IF v \in run.proven <=> w \in run.proven THEN Price[v] <= Price[w]
                                           ELSE v \in run.proven

(* Fault: candidates are tried that do not have the quantity. *)
RecoveryOverAll(event, quantity, s, byMonitor, resets) ==
  [stage |-> "sourcing", event |-> event, quantity |-> quantity,
   scenario |-> s, learned |-> KnowsAuthorizationRequired(s),
   todo |-> Candidates[s], proven |-> ProvenVendors(s),
   vendor |-> NoVendor, byMonitor |-> byMonitor, epoch |-> resets]

(* runProcurementLoop, up to its first await. *)
NewRecovery(event, quantity, s, byMonitor, resets) ==
  [stage |-> "sourcing", event |-> event, quantity |-> quantity,
   scenario |-> s, learned |-> KnowsAuthorizationRequired(s),
   todo |-> Priced(s, quantity), proven |-> ProvenVendors(s),
   vendor |-> NoVendor, byMonitor |-> byMonitor, epoch |-> resets]

(* start, and the loop up to its first await, after the reset that the     *)
(* handler makes first when the store shows another scenario than s.       *)
Begin(r, event, quantity, onHand, s, byMonitor) ==
  LET clean == s # scenario
  IN  /\ r = begun + 1
      /\ r \in Run
      /\ begun' = r
      /\ status' = "running" /\ scenario' = s /\ currentQty' = onHand
      /\ inbound' = IF clean THEN 0 ELSE inbound
      /\ order' = IF clean THEN NoOrder ELSE order
      /\ log' = IF clean THEN {r} ELSE log \union {r}
      /\ epoch' = IF clean THEN epoch + 1 ELSE epoch
      /\ startedAt' = r
      /\ runs' = [runs EXCEPT ![r] =
                     NewRecovery(event, quantity, s, byMonitor, epoch')]
      /\ UNCHANGED <<incidents, switching, origin, crashes>>

(* Fault: the incident is taken from the order that the store shows. *)
IncidentOfShownOrder(r) ==
  [run |-> r, scenario |-> scenario, timedFrom |-> startedAt,
   vendor |-> IF order = NoOrder THEN NoVendor ELSE order.vendor]

(* The row that complete adds to the incidents. *)
Incident(r) ==
  [run |-> r, scenario |-> scenario, vendor |-> runs[r].vendor,
   timedFrom |-> startedAt]

OrderOf(r) ==
  IF runs[r].vendor = NoVendor THEN NoOrder
  ELSE [event |-> runs[r].event, vendor |-> runs[r].vendor, run |-> r,
        quantity |-> runs[r].quantity]

(* Fault: only a run that has ordered is over. *)
OutcomeOfOrdersOnly(r) == IF OrderOf(r) = NoOrder THEN status ELSE "complete"

Outcome(r) == IF OrderOf(r) = NoOrder THEN "failed" ELSE "complete"
-----------------------------------------------------------------------------
(* The HTTP handlers.  A request that is refused changes nothing.          *)

Request == requests < MaxRequests /\ requests' = requests + 1

(* Fault: the status is not looked at. *)
StatusIgnored == TRUE

NotRunning == status # "running"

(* An assumption on the console, not a guard of the code. *)
OperatorMayReset == OperatorWaits => \A r \in Run : ~Live(r)

(* POST /api/demo/reset asks nothing of the state. *)
Reset(hard) ==
  /\ OperatorMayReset
  /\ Request
  /\ ResetTo(scenario)
  /\ incidents' = IF hard THEN {} ELSE incidents
  /\ UNCHANGED <<tickRunning, switching, runs, begun, origin, crashes>>

(* POST /api/demo/scenario checks the status, then awaits its body. *)
CheckSwitch ==
  /\ ~switching
  /\ NotRunning
  /\ switching' = TRUE
  /\ Request
  /\ UNCHANGED <<shown, incidents, startedAt, tickRunning, runs, begun,
                 origin, epoch, crashes>>

Switch(s) ==
  /\ switching
  /\ OperatorMayReset
  /\ switching' = FALSE
  /\ ResetTo(s)
  /\ UNCHANGED <<incidents, tickRunning, runs, begun, origin, budget>>

(* The body is not JSON, or names no scenario. *)
RefuseSwitch ==
  /\ switching
  /\ switching' = FALSE
  /\ UNCHANGED <<shown, incidents, startedAt, tickRunning, runs, begun,
                 origin, epoch, budget>>

(* POST /api/demo/consume *)
Consume ==
  /\ NotRunning
  /\ currentQty > 0
  /\ currentQty' = currentQty - 1
  /\ UNCHANGED <<status, scenario, inbound, order, log, incidents, startedAt,
                 tickRunning, switching, runs, begun, origin, epoch, budget>>

(* An event of the control plane's own: nothing is left of the item. *)
runDemo(r) == Begin(r, r, RequestedQty, 0, scenario, FALSE)

(* Fault: the console's run starts without the check. *)
RunDemoUnchecked(r) ==
  /\ Request
  /\ runDemo(r)
  /\ UNCHANGED tickRunning

(* POST /api/demo/run *)
RunDemo(r) ==
  /\ NotRunning
  /\ Request
  /\ runDemo(r)
  /\ UNCHANGED tickRunning

(* POST /api/demo/client-incident drains the stock to the threshold. *)
ClientIncident(r) ==
  LET onHand == IF scenario = Home THEN currentQty ELSE FullQty
      drained == IF onHand > Threshold THEN Threshold ELSE onHand
  IN  /\ NotRunning
      /\ inbound = 0
      /\ Request
      /\ Begin(r, r, RequestedQty, drained, Home, FALSE)
      /\ UNCHANGED tickRunning

(* POST /api/events/stockout: the event says what is on hand. *)
Webhook(r, e, quantity, onHand) ==
  /\ NotRunning
  /\ SenderOnce => \A q \in 1 .. begun : runs[q].event # e
  /\ Request
  /\ Begin(r, e, quantity, onHand, Home, FALSE)
  /\ UNCHANGED tickRunning

(* Faults: the threshold itself does not count; the status is not looked at. *)
StockBelowThreshold ==
  MonitorEnabled /\ currentQty < Threshold /\ inbound = 0 /\ status = "idle"
StockoutWhateverStatus ==
  MonitorEnabled /\ currentQty <= Threshold /\ inbound = 0

(* The condition of checkInventoryOnce. *)
StockoutDetected ==
  /\ MonitorEnabled
  /\ currentQty <= Threshold
  /\ inbound = 0
  /\ status = "idle"

(* A tick of the monitor that fires: it is busy until its run has ended.   *)
(* (One that does not fire leaves nothing but the time of the check.)      *)
MonitorTick(r) ==
  /\ tickRunning = NoRun
  /\ StockoutDetected
  /\ Begin(r, r, RequestedQty, currentQty, scenario, TRUE)
  /\ tickRunning' = r
  /\ UNCHANGED requests
-----------------------------------------------------------------------------
(* The procurement loop.  Every step emits events, which show in the log.  *)

Emit(r) == log' = log \union {r}

AtStage(r, stage) == begun >= r /\ runs[r].stage = stage

GoTo(r, stage) == runs' = [runs EXCEPT ![r].stage = stage]

(* What is left of a run that is over: the loop's own variables are gone. *)
Over(run, stage) ==
  [run EXCEPT !.stage = stage, !.todo = {}, !.proven = {},
              !.vendor = NoVendor]

End(r) == runs' = [runs EXCEPT ![r] = Over(@, "ended")]

(* A step that only the run itself and the log see. *)
RunStep(r) ==
  /\ Emit(r)
  /\ UNCHANGED <<status, scenario, currentQty, inbound, order, incidents,
                 startedAt, tickRunning, switching, begun, epoch, budget>>

(* The next candidate: probed without a capability, unless the loop knows. *)
Source(r) ==
  /\ AtStage(r, "sourcing")
  /\ \E v \in runs[r].todo :
       /\ \A w \in runs[r].todo : Precedes(runs[r], v, w)
       /\ runs' = [runs EXCEPT ![r] =
            [@ EXCEPT
               !.vendor = v,
               !.todo = runs[r].todo \ {v},
               !.stage = IF runs[r].learned THEN "verifying" ELSE "probing"]]
  /\ RunStep(r) /\ UNCHANGED origin

(* Fault: a run that is out of candidates still names the last one. *)
ExhaustNamesLast(r) ==
  /\ AtStage(r, "sourcing")
  /\ runs[r].todo = {}
  /\ GoTo(r, "finishing")
  /\ RunStep(r) /\ UNCHANGED origin

Exhaust(r) ==
  /\ AtStage(r, "sourcing")
  /\ runs[r].todo = {}
  /\ runs' = [runs EXCEPT ![r] =
       [@ EXCEPT !.vendor = NoVendor, !.stage = "finishing"]]
  /\ RunStep(r) /\ UNCHANGED origin

(* Fault: the loop does not learn from the denial. *)
DenialNotLearned(r) ==
  /\ AtStage(r, "probing")
  /\ GoTo(r, "verifying")
  /\ RunStep(r) /\ UNCHANGED origin

(* The origin denies the probe, as the loop requires. *)
ProbeDenied(r) ==
  /\ AtStage(r, "probing")
  /\ runs' = [runs EXCEPT ![r] =
       [@ EXCEPT !.learned = TRUE, !.stage = "verifying"]]
  /\ RunStep(r) /\ UNCHANGED origin

Verify(r) ==
  /\ AtStage(r, "verifying")
  /\ \E verdict \in Evidence[runs[r].vendor] :
       GoTo(r, IF verdict = "eligible" THEN "ordering" ELSE "sourcing")
  /\ RunStep(r) /\ UNCHANGED origin

(* The origin knows the idempotency key "<event>:<vendor>". *)
KeyKnown(r) ==
  \E a \in orders : a.event = runs[r].event /\ a.vendor = runs[r].vendor

(* The order reaches the origin, which accepts it; the answer is under way.*)
OriginAccepts(r) ==
  /\ AtStage(r, "ordering")
  /\ ~KeyKnown(r)
  /\ accepted' = accepted \union {OrderOf(r)}
  /\ orders' = orders \union {OrderOf(r)}
  /\ GoTo(r, "accepted")
  /\ UNCHANGED <<shown, incidents, startedAt, tickRunning, switching, begun,
                 epoch, budget>>

(* An answer other than 201: the loop goes on with the next candidate. *)
OriginRefuses(r) ==
  /\ AtStage(r, "ordering")
  /\ KeyKnown(r) \/ ~Reliable
  /\ GoTo(r, "sourcing")
  /\ RunStep(r) /\ UNCHANGED origin

(* Fault: the loop goes on after an order. *)
OrderedAndOn(r) ==
  /\ AtStage(r, "accepted")
  /\ GoTo(r, "sourcing")
  /\ RunStep(r) /\ UNCHANGED origin

Ordered(r) ==
  /\ AtStage(r, "accepted")
  /\ GoTo(r, "finishing")
  /\ RunStep(r) /\ UNCHANGED origin

(* The answer carries no order (a gateway's error page, a cut body): it is *)
(* taken for a refusal.                                                    *)
AnswerGarbled(r) ==
  /\ ~Reliable
  /\ AtStage(r, "accepted")
  /\ GoTo(r, "sourcing")
  /\ RunStep(r) /\ UNCHANGED origin

(* Fault: a tick that was awaiting a run stays marked as running. *)
TickNotReleased(r) == UNCHANGED tickRunning

(* The monitor's tick ends with the run it awaits. *)
ReleaseTick(r) == tickRunning' = IF tickRunning = r THEN NoRun ELSE tickRunning

(* complete: the incident first, with the scenario that is shown now. *)
Complete(r) ==
  /\ AtStage(r, "finishing")
  /\ incidents' = incidents \union {Incident(r)}
  /\ startedAt' = NoRun
  /\ order' = OrderOf(r)
  /\ status' = Outcome(r)
  /\ inbound' = IF OrderOf(r) = NoOrder THEN 0 ELSE runs[r].quantity
  /\ End(r)
  /\ ReleaseTick(r)
  /\ UNCHANGED <<scenario, currentQty, log, switching, begun, origin, epoch,
                 budget>>

(* Where a run can throw: before the loop (no collector), or at a fetch,   *)
(* whose request or answer is lost; a probe also if it is not denied.      *)
CanThrow(r) ==
  \/ AtStage(r, "sourcing") /\ runs[r].vendor = NoVendor
  \/ \E stage \in {"probing", "ordering", "accepted"} : AtStage(r, stage)

Throw(r) ==
  /\ ~Reliable
  /\ CanThrow(r)
  /\ status' = "failed"
  /\ Emit(r)
  /\ End(r)
  /\ ReleaseTick(r)
  /\ UNCHANGED <<scenario, currentQty, inbound, order, incidents, startedAt,
                 switching, begun, origin, epoch, budget>>
-----------------------------------------------------------------------------
(* The process ends and starts again on its database.  What it was awaiting*)
(* is gone: the recoveries, the tick, the requests.  The store shows what  *)
(* it showed, unless that was another scenario than the client's.          *)
Reboot ==
  /\ crashes < MaxCrashes
  /\ crashes' = crashes + 1
  /\ runs' = [r \in Run |-> IF Live(r) THEN Over(runs[r], "dead")
                                       ELSE runs[r]]
  /\ startedAt' = NoRun /\ tickRunning' = NoRun /\ switching' = FALSE
  /\ IF scenario = Home THEN UNCHANGED <<shown, epoch>> ELSE ResetTo(Home)
  /\ UNCHANGED <<begun, origin, requests>>

Crash == Reboot /\ UNCHANGED incidents

(* complete makes two writes; the process ends between them. *)
CrashInComplete(r) ==
  /\ AtStage(r, "finishing")
  /\ incidents' = incidents \union {Incident(r)}
  /\ Reboot

(* The origin starts again, with empty Maps; what it accepted stays bought.*)
(* (One that has accepted nothing has nothing to forget.)                  *)
OriginRestarts ==
  /\ orders # {}
  /\ orders' = {}
  /\ UNCHANGED <<accepted, shown, incidents, startedAt, tickRunning, switching,
                 runs, begun, epoch, budget>>

Handlers ==
  \/ \E hard \in BOOLEAN : Reset(hard)
  \/ CheckSwitch \/ RefuseSwitch \/ \E s \in Scenario : Switch(s)
  \/ Consume
  \/ \E r \in Run : \/ RunDemo(r) \/ ClientIncident(r)
                    \/ \E e \in WebhookEvent, q \in Quantity, n \in 0 .. Threshold :
                         Webhook(r, e, q, n)

Monitor == \E r \in Run : MonitorTick(r)

Loop(r) ==
  \/ Source(r) \/ Exhaust(r) \/ ProbeDenied(r) \/ Verify(r)
  \/ OriginAccepts(r) \/ OriginRefuses(r) \/ Ordered(r) \/ AnswerGarbled(r)
  \/ Complete(r) \/ Throw(r)

Crashes == Crash \/ \E r \in Run : CrashInComplete(r)

Next == \/ Handlers \/ Monitor \/ (\E r \in Run : Loop(r))
        \/ Crashes \/ OriginRestarts

Spec == Init /\ [][Next]_vars

(* The event loop runs every continuation, a fetch ends (with an answer or *)
(* a timeout), and the interval timer ticks.                               *)
FairSpec ==
  /\ Spec
  /\ WF_vars(Monitor)
  /\ \A r \in Run : WF_vars(Loop(r))
-----------------------------------------------------------------------------
TypeOK ==
  /\ status \in {"idle", "running", "complete", "failed"}
  /\ scenario \in Scenario
  /\ currentQty \in Nat /\ inbound \in Nat
  /\ order \in OrderType \union {NoOrder}
  /\ log \subseteq Run
  /\ incidents \subseteq IncidentType
  /\ startedAt \in Run \union {NoRun} /\ tickRunning \in Run \union {NoRun}
  /\ switching \in BOOLEAN
  /\ runs \in [Run -> RunType] /\ begun \in Run \union {NoRun}
  /\ accepted \subseteq OrderType /\ orders \subseteq accepted
  /\ epoch \in Nat /\ requests \in 0 .. MaxRequests /\ crashes \in 0 .. MaxCrashes

(* A second recovery is refused while one is active (409, server.ts;       *)
(* docs/integrations/NEXLA.md).                                            *)
OneLiveRun == \A r, q \in Run : Live(r) /\ Live(q) => r = q

(* The store speaks of the live run: its status is "running" and the start *)
(* time is that run's.  So there is one live run at a time; it takes an    *)
(* operator who waits, as a reset in mid-run makes room for the next.      *)
LiveRunIsShown ==
  \A r \in Run : Live(r) => status = "running" /\ startedAt = r

(* An incident is filed under the scenario its run recovered, is timed     *)
(* from that run's start, and names only a vendor the run bought from; so  *)
(* what history() teaches about a scenario was learned in that scenario.   *)
IncidentsAreTheRunsOwn ==
  \A i \in incidents :
    /\ i.scenario = runs[i.run].scenario
    /\ i.timedFrom = i.run
    /\ i.vendor # NoVendor =>
         \E a \in accepted : a.run = i.run /\ a.vendor = i.vendor

(* A reset is final: no event and no order of a run that began before it   *)
(* shows up after it.                                                      *)
NothingOutlivesAReset ==
  /\ \A r \in log : runs[r].epoch = epoch
  /\ order # NoOrder => runs[order.run].epoch = epoch

(* Every recovery on record met the denial or recalled it, so any incident *)
(* implies the requirement is known (the comment in history(), store.ts).  *)
HistoryIsHonest == \A i \in incidents : runs[i.run].learned

(* A delivered stockout is bought once: no two orders accepted by the      *)
(* origin stem from the same event.                                        *)
EventBuysOnce ==
  \A a, b \in accepted : a.event = b.event => a = b

(* Nothing is bought behind the ledger's back: an order that the origin    *)
(* accepted from a run that has ended is the one its incident names.       *)
(* (Unless a hard reset has emptied the ledger since.)                     *)
PurchasesAreRecorded ==
  \A a \in accepted :
    runs[a.run].stage = "ended" /\ runs[a.run].epoch = epoch =>
      \E i \in incidents : i.run = a.run /\ i.vendor = a.vendor

(* The order that the store shows was accepted by the origin, as shown,    *)
(* and the inbound quantity is that order's, whatever was lost or crashed. *)
ShownOrderIsReal ==
  /\ order # NoOrder => order \in accepted
  /\ inbound = IF order = NoOrder THEN 0 ELSE order.quantity

(* An incident credits no vendor that the run did not buy from, even when  *)
(* runs overlap and the process crashes between complete's two writes.     *)
CreditIsEarned ==
  \A i \in incidents : i.vendor # NoVendor =>
    \E a \in accepted : a.run = i.run /\ a.vendor = i.vendor

(* The monitor fires at most once between two resets: neither a failed run *)
(* nor an overlapping one makes it buy again.                              *)
MonitorFiresOnce ==
  \A r, q \in 1 .. begun :
    runs[r].byMonitor /\ runs[q].byMonitor /\ runs[r].epoch = runs[q].epoch
    => r = q

(* Whatever crashes, restarts or is lost: each accepted order is of the    *)
(* event and for the quantity of its run, from a candidate of that run's   *)
(* scenario that has the quantity and that evidence can clear, and was     *)
(* sent knowing that authorization is required (docs/PRD.md).              *)
PurchasesAreJustified ==
  \A a \in accepted :
    LET run == runs[a.run]
    IN  /\ a.event = run.event /\ a.quantity = run.quantity
        /\ a.vendor \in Priced(run.scenario, run.quantity)
        /\ "eligible" \in Evidence[a.vendor]
        /\ run.learned

(* While a tick awaits its run, no other run of the monitor is live, and   *)
(* the tick is not held by a run that is over.                             *)
TickHoldsItsRun ==
  /\ tickRunning # NoRun => Live(tickRunning)
  /\ \A r \in Run : Live(r) /\ runs[r].byMonitor => r = tickRunning

(* The inductive invariant.  What a run holds: it has begun or not, in an   *)
(* epoch that is not over before the store says so; it has picked a vendor *)
(* once it probes, and what it takes for bought the origin has accepted.   *)
RunIsSound(r) ==
  LET run == runs[r]
  IN  /\ r > begun => run.stage = "none"
      /\ r <= begun => /\ run.epoch <= epoch
                       /\ run.epoch = epoch => status # "idle"
      /\ run.stage \in {"probing", "verifying", "ordering", "accepted"}
           => run.vendor # NoVendor
      /\ run.stage \in {"accepted", "finishing"} /\ run.vendor # NoVendor
           => OrderOf(r) \in accepted

RecoveryInv ==
  /\ TypeOK
  /\ \A r \in Run : RunIsSound(r)
  /\ \A i \in incidents : i.run <= begun
  /\ ShownOrderIsReal /\ CreditIsEarned /\ MonitorFiresOnce /\ TickHoldsItsRun

(* The scenario does not move under a live run (409 if a run is active,    *)
(* docs/SYSTEM.md): the vendors, the history and the incident of a run all *)
(* belong to the scenario it began with.                                   *)
ScenarioHoldsStill ==
  [][\A r \in Run : Live(r) /\ Live(r)' => scenario' = scenario]_vars

(* Every recovery reaches a terminal state: the store does not stay at     *)
(* "running" (runtime.ts, scripts/demo-verify.ts).                         *)
EveryRunEnds == (status = "running") ~> (status # "running")

(* Low stock is answered: an idle store at the threshold with nothing      *)
(* inbound does not stay so, as the monitor ticks.                         *)
LowStockIsAnswered ==
  LET Low == currentQty <= Threshold /\ inbound = 0 /\ status = "idle"
  IN  MonitorEnabled /\ Low ~> ~Low

(* The control plane implements the lifecycle of recoveries.               *)
Lifecycle == INSTANCE RecoveryLifecycle
  WITH active <- IF status = "running" THEN startedAt ELSE NoRun,
       ledger <- {i.run : i \in incidents}

ImplementsLifecycle == Lifecycle!Spec

(* The origin, as its one client: a key is an event and a vendor, and each *)
(* run has a capability minted for each vendor that it orders from.  The   *)
(* control plane relies on no more than the ledger that ProcurementOrigin  *)
(* implements.                                                             *)
BoughtWith ==
  [k \in Event \X Vendor |->
     IF \E a \in orders : <<a.event, a.vendor>> = k
     THEN LET a == CHOOSE a \in orders : <<a.event, a.vendor>> = k
          IN  <<a.run, a.vendor>>
     ELSE <<NoRun, NoVendor>>]

Origin == INSTANCE CapabilityLedger
  WITH Key <- Event \X Vendor, Nonce <- Run \X Vendor,
       NoNonce <- <<NoRun, NoVendor>>, boundTo <- BoughtWith

BuysThroughTheLedger == Origin!Spec

(* What the surfaces of the client rely on: whoever acts on the store, it  *)
(* does no more than ClientStore, which is what Meridian's console is      *)
(* modelled against.                                                       *)
Client == INSTANCE ClientStore
  WITH home <- scenario = Home, inbound <- inbound # 0,
       liveRuns <- Cardinality({r \in Run : Live(r)})

ServesItsClient == Client!Spec
=============================================================================
