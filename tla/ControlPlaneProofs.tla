------------------------- MODULE ControlPlaneProofs -------------------------
(***************************************************************************)
(* The recoveries of one client, for any number of scenarios, vendors,     *)
(* requests and crashes.  A step of the control plane is of one of six     *)
(* kinds (Kinds); what each kind does to the runs and to the store is all  *)
(* that the invariants need to know of the actions.  Proved are RecoveryInv*)
(* without any assumption on the environment, and what an operator who     *)
(* waits, a reliable network, a sender that delivers once and sufficient   *)
(* stock each add to it.                                                   *)
(***************************************************************************)
EXTENDS ControlPlane, FiniteSetTheorems, WellFoundedInduction, TLAPS

USE DEF origin

(* What no step of a run changes of it; nor does it find new candidates. *)
Keeps(x, y) ==
  /\ y.event = x.event /\ y.quantity = x.quantity /\ y.scenario = x.scenario
  /\ y.byMonitor = x.byMonitor /\ y.epoch = x.epoch
  /\ x.learned => y.learned
  /\ y.todo \subseteq x.todo

OnlyRun(r) ==
  /\ runs' \in [Run -> RunType]
  /\ \A q \in Run : q # r => runs'[q] = runs[q]

BudgetOK ==
  /\ currentQty \in Nat /\ switching \in BOOLEAN
  /\ requests \in 0 .. MaxRequests /\ crashes \in 0 .. MaxCrashes

(* A step that no run sees. *)
Stays ==
  UNCHANGED <<status, scenario, inbound, order, log, incidents, startedAt,
              tickRunning, runs, begun, accepted, epoch>>

Resets ==
  /\ OperatorMayReset
  /\ \E s \in Scenario : ResetTo(s)
  /\ incidents' \in {incidents, {}}
  /\ UNCHANGED <<tickRunning, runs, begun, accepted>>

(* The store that a run begins on: as it was, or reset for its scenario. *)
BeginsOn(r) ==
  \/ /\ scenario' = scenario /\ epoch' = epoch
     /\ inbound' = inbound /\ order' = order /\ log' = log \union {r}
  \/ /\ scenario' # scenario /\ epoch' = epoch + 1
     /\ inbound' = 0 /\ order' = NoOrder /\ log' = {r}

(* What starts a run: a request, or a tick of the monitor. *)
BeginsBy(r) ==
  \/ /\ status # "running" /\ ~runs'[r].byMonitor
     /\ tickRunning' = tickRunning
     /\ \/ runs'[r].event = r
        \/ /\ runs'[r].event \in WebhookEvent
           /\ SenderOnce => \A q \in 1 .. begun : runs[q].event # runs'[r].event
  \/ /\ status = "idle" /\ runs'[r].byMonitor
     /\ tickRunning = NoRun /\ tickRunning' = r
     /\ runs'[r].event = r

Begins(r) ==
  /\ r = begun + 1 /\ begun' = r
  /\ OnlyRun(r)
  /\ LET run == runs'[r]
     IN  /\ run.stage = "sourcing" /\ run.vendor = NoVendor
         /\ run.epoch = epoch' /\ run.scenario = scenario'
         /\ run.quantity \in Quantity \union {RequestedQty}
         /\ run.todo = Priced(run.scenario, run.quantity)
  /\ status' = "running" /\ scenario' \in {scenario, Home} /\ startedAt' = r
  /\ BeginsOn(r) /\ BeginsBy(r)
  /\ UNCHANGED <<incidents, accepted>>

(* A stretch of the loop, from one stage of the run to another. *)
Moves(x, y, r) ==
  \/ /\ x.stage = "sourcing" /\ y.stage \in {"probing", "verifying"}
     /\ y.stage = "verifying" => y.learned
     /\ y.vendor # NoVendor /\ accepted' = accepted
  \/ /\ x.stage = "sourcing" /\ x.todo = {} /\ y.stage = "finishing"
     /\ y.vendor = NoVendor /\ accepted' = accepted
  \/ /\ x.stage = "probing" /\ y.stage = "verifying"
     /\ y.learned /\ y.vendor = x.vendor /\ accepted' = accepted
  \/ /\ x.stage = "verifying" /\ y.stage \in {"ordering", "sourcing"}
     /\ y.vendor = x.vendor /\ accepted' = accepted
  \/ /\ x.stage = "ordering" /\ y.stage = "accepted" /\ y.vendor = x.vendor
     /\ ~KeyKnown(r) /\ accepted' = accepted \union {OrderOf(r)}
  \/ /\ x.stage = "ordering" /\ y.stage = "sourcing" /\ accepted' = accepted
  \/ /\ x.stage = "accepted" /\ y.stage = "finishing" /\ y.vendor = x.vendor
     /\ accepted' = accepted
  \/ /\ ~Reliable /\ x.stage = "accepted" /\ y.stage = "sourcing"
     /\ accepted' = accepted

(* What the loop picks: a vendor of its candidates, which is one less then,*)
(* and one to order from by its evidence.                                  *)
Chooses(x, y) ==
  /\ x.stage = "sourcing" /\ y.stage \in {"probing", "verifying"}
       => y.vendor \in x.todo /\ y.todo = x.todo \ {y.vendor}
  /\ x.stage = "verifying" /\ y.stage = "ordering"
       => "eligible" \in Evidence[x.vendor]

Walks(r) ==
  /\ r <= begun
  /\ OnlyRun(r) /\ Keeps(runs[r], runs'[r]) /\ Moves(runs[r], runs'[r], r)
  /\ Chooses(runs[r], runs'[r])
  /\ log' \in {log, log \union {r}}
  /\ UNCHANGED <<status, scenario, inbound, order, incidents, startedAt,
                 tickRunning, begun, epoch>>

(* How a run ends: with its incident, or in an error. *)
EndsBy(r) ==
  \/ /\ runs[r].stage = "finishing" /\ status' = Outcome(r)
     /\ incidents' = incidents \union {Incident(r)}
     /\ order' = OrderOf(r) /\ startedAt' = NoRun
     /\ inbound' = IF OrderOf(r) = NoOrder THEN 0 ELSE runs[r].quantity
     /\ log' = log
  \/ /\ ~Reliable /\ status' = "failed" /\ log' = log \union {r}
     /\ UNCHANGED <<incidents, order, startedAt, inbound>>

Ends(r) ==
  /\ r <= begun /\ Live(r)
  /\ OnlyRun(r) /\ Keeps(runs[r], runs'[r])
  /\ runs'[r].stage = "ended" /\ runs'[r].vendor = NoVendor
  /\ status' \in {"complete", "failed"}
  /\ EndsBy(r) /\ ReleaseTick(r)
  /\ UNCHANGED <<scenario, begun, accepted, epoch>>

Reboots ==
  /\ runs' \in [Run -> RunType]
  /\ \A r \in Run : IF Live(r) THEN /\ Keeps(runs[r], runs'[r])
                                    /\ runs'[r].stage = "dead"
                                    /\ runs'[r].vendor = NoVendor
                               ELSE runs'[r] = runs[r]
  /\ startedAt' = NoRun /\ tickRunning' = NoRun
  /\ IF scenario = Home
       THEN UNCHANGED <<status, scenario, inbound, order, log, epoch>>
       ELSE ResetTo(Home)
  /\ \/ incidents' = incidents
     \/ \E r \in Run : /\ r <= begun /\ runs[r].stage = "finishing"
                       /\ incidents' = incidents \union {Incident(r)}
  /\ UNCHANGED <<begun, accepted>>

Kind == \/ Stays \/ Resets \/ Reboots
        \/ \E r \in Run : Begins(r) \/ Walks(r) \/ Ends(r)
-----------------------------------------------------------------------------
LEMMA RunsAreNumbered == MaxRuns \in Nat /\ MaxRuns > 0 /\ NoRun \notin Run
  BY ControlPlaneAssumption DEF MaxRuns, Run, NoRun

(* A change of one run is seen in that run only. *)
LEMMA OneRunChanges ==
  ASSUME runs \in [Run -> RunType], NEW r \in Run, NEW run \in RunType,
         runs' = [runs EXCEPT ![r] = run]
  PROVE  OnlyRun(r) /\ runs'[r] = run
  BY DEF OnlyRun

(* start, with the run it begins, whatever calls it. *)
LEMMA BeginBegins ==
  ASSUME TypeOK, NEW r \in Run, NEW e \in Event,
         NEW q \in Quantity \union {RequestedQty}, NEW n \in Nat,
         NEW s \in Scenario, NEW m \in BOOLEAN, Begin(r, e, q, n, s, m)
  PROVE  /\ r = begun + 1 /\ begun' = r /\ OnlyRun(r)
         /\ runs'[r].stage = "sourcing" /\ runs'[r].vendor = NoVendor
         /\ runs'[r].event = e /\ runs'[r].byMonitor = m
         /\ runs'[r].epoch = epoch' /\ runs'[r].scenario = scenario'
         /\ runs'[r].quantity = q
         /\ runs'[r].todo = Priced(scenario', q)
         /\ status' = "running" /\ scenario' = s /\ startedAt' = r
         /\ BeginsOn(r) /\ currentQty' = n
         /\ UNCHANGED <<incidents, accepted, switching, crashes>>
<1> DEFINE run == NewRecovery(e, q, s, m, epoch')
<1>1. epoch' \in Nat
  BY DEF Begin, TypeOK
<1>2. Priced(s, q) \in SUBSET Vendor
  BY ControlPlaneAssumption DEF Priced
<1>3. ProvenVendors(s) \in SUBSET Vendor
  BY DEF ProvenVendors, TypeOK, IncidentType
<1>4. KnowsAuthorizationRequired(s) \in BOOLEAN
  BY DEF KnowsAuthorizationRequired
<1>5. q \in Nat
  BY ControlPlaneAssumption
<1>6. run \in RunType
  BY <1>1, <1>2, <1>3, <1>4, <1>5 DEF NewRecovery, RunType, Stage
<1>7. runs' = [runs EXCEPT ![r] = run]
  BY DEF Begin
<1>8. OnlyRun(r) /\ runs'[r] = run
  <2> HIDE DEF run
  <2> QED
    BY <1>6, <1>7, OneRunChanges DEF TypeOK
<1>9. /\ run.stage = "sourcing" /\ run.vendor = NoVendor /\ run.event = e
      /\ run.byMonitor = m /\ run.epoch = epoch' /\ run.scenario = s
      /\ run.quantity = q /\ run.todo = Priced(s, q)
  BY DEF NewRecovery
<1>10. scenario' = s
  BY DEF Begin
<1> HIDE DEF run
<1>11. BeginsOn(r)
  BY DEF Begin, BeginsOn
<1> QED
  BY <1>8, <1>9, <1>10, <1>11 DEF Begin

LEMMA EventsInclude == Run \subseteq Event /\ WebhookEvent \subseteq Event
  BY DEF Event

(* The triggers of a run. *)
LEMMA TriggerBegins ==
  ASSUME TypeOK, NEW r \in Run,
         \/ RunDemo(r) \/ ClientIncident(r) \/ MonitorTick(r)
         \/ \E e \in WebhookEvent, q \in Quantity, n \in 0 .. Threshold :
              Webhook(r, e, q, n)
  PROVE  Begins(r) /\ BudgetOK'
<1>1. ASSUME NEW e \in Event, NEW q \in Quantity \union {RequestedQty},
             NEW n \in Nat, NEW s \in {scenario, Home}, NEW m \in BOOLEAN,
             Begin(r, e, q, n, s, m),
             requests' \in 0 .. MaxRequests,
             \/ /\ status # "running" /\ ~m /\ tickRunning' = tickRunning
                /\ \/ e = r
                   \/ /\ e \in WebhookEvent
                      /\ SenderOnce => \A p \in 1 .. begun : runs[p].event # e
             \/ /\ status = "idle" /\ m /\ tickRunning = NoRun
                /\ tickRunning' = r /\ e = r
      PROVE  Begins(r) /\ BudgetOK'
  <2>1. /\ r = begun + 1 /\ begun' = r /\ OnlyRun(r)
        /\ runs'[r].stage = "sourcing" /\ runs'[r].vendor = NoVendor
        /\ runs'[r].event = e /\ runs'[r].byMonitor = m
        /\ runs'[r].epoch = epoch' /\ runs'[r].scenario = scenario'
        /\ runs'[r].quantity = q
        /\ runs'[r].todo = Priced(scenario', q)
        /\ status' = "running" /\ scenario' = s /\ startedAt' = r
        /\ BeginsOn(r) /\ currentQty' = n
        /\ UNCHANGED <<incidents, accepted, switching, crashes>>
    <3>1. s \in Scenario
      BY ControlPlaneAssumption DEF TypeOK
    <3> QED
      BY <1>1, <3>1, BeginBegins
  <2>2. BeginsBy(r)
    BY <1>1, <2>1 DEF BeginsBy
  <2>3. BudgetOK'
    BY <1>1, <2>1 DEF BudgetOK, TypeOK
  <2> QED
    BY <2>1, <2>2, <2>3 DEF Begins
<1> USE EventsInclude, ControlPlaneAssumption
<1>2. requests + 1 \in 0 .. MaxRequests \/ ~(requests < MaxRequests)
  BY DEF TypeOK
<1>3. CASE RunDemo(r)
  <2>1. Begin(r, r, RequestedQty, 0, scenario, FALSE)
    BY <1>3 DEF RunDemo, runDemo
  <2>2. requests' \in 0 .. MaxRequests /\ status # "running" /\ tickRunning' = tickRunning
    BY <1>2, <1>3 DEF RunDemo, Request, NotRunning
  <2>3. scenario \in Scenario
    BY DEF TypeOK
  <2> QED
    BY <1>1, <2>1, <2>2, <2>3
<1>4. CASE ClientIncident(r)
  <2> DEFINE onHand == IF scenario = Home THEN currentQty ELSE FullQty
             drained == IF onHand > Threshold THEN Threshold ELSE onHand
  <2>1. Begin(r, r, RequestedQty, drained, Home, FALSE)
    BY <1>4 DEF ClientIncident
  <2>2. requests' \in 0 .. MaxRequests /\ status # "running" /\ tickRunning' = tickRunning
    BY <1>2, <1>4 DEF ClientIncident, Request, NotRunning
  <2>3. drained \in Nat
    BY DEF TypeOK
  <2> HIDE DEF drained
  <2> QED
    BY <1>1, <2>1, <2>2, <2>3
<1>5. CASE MonitorTick(r)
  <2>1. Begin(r, r, RequestedQty, currentQty, scenario, TRUE)
    BY <1>5 DEF MonitorTick
  <2>2. /\ requests' \in 0 .. MaxRequests /\ status = "idle"
        /\ tickRunning = NoRun /\ tickRunning' = r
    BY <1>5 DEF MonitorTick, StockoutDetected, TypeOK
  <2>3. scenario \in Scenario /\ currentQty \in Nat
    BY DEF TypeOK
  <2> QED
    BY <1>1, <2>1, <2>2, <2>3
<1>6. ASSUME NEW e \in WebhookEvent, NEW q \in Quantity, NEW n \in 0 .. Threshold,
             Webhook(r, e, q, n)
      PROVE  Begins(r) /\ BudgetOK'
  <2>1. Begin(r, e, q, n, Home, FALSE)
    BY <1>6 DEF Webhook
  <2>2. /\ requests' \in 0 .. MaxRequests /\ status # "running"
        /\ tickRunning' = tickRunning
        /\ SenderOnce => \A p \in 1 .. begun : runs[p].event # e
    BY <1>2, <1>6 DEF Webhook, Request, NotRunning
  <2>3. n \in Nat
    BY <1>6
  <2> QED
    BY <1>1, <2>1, <2>2, <2>3
<1> QED
  BY <1>3, <1>4, <1>5, <1>6

(* A run that changes some of its fields is still a run. *)
LEMMA RunFields ==
  ASSUME NEW run \in RunType
  PROVE  /\ \A stage \in Stage : [run EXCEPT !.stage = stage] \in RunType
         /\ run.todo \in SUBSET Vendor /\ run.learned \in BOOLEAN
         /\ run.stage \in Stage /\ run.vendor \in Vendor \union {NoVendor}
         /\ run.quantity \in Nat /\ run.event \in Event /\ run.epoch \in Nat
  BY DEF RunType

(* A step that moves a run to a stage and changes nothing else of it. *)
LEMMA GoToMoves ==
  ASSUME TypeOK, NEW r \in Run, NEW stage \in Stage, GoTo(r, stage)
  PROVE  /\ OnlyRun(r) /\ Keeps(runs[r], runs'[r])
         /\ runs'[r].stage = stage /\ runs'[r].vendor = runs[r].vendor
         /\ runs'[r].learned = runs[r].learned
<1> DEFINE run == [runs[r] EXCEPT !.stage = stage]
<1>1. runs[r] \in RunType
  BY DEF TypeOK
<1>2. run \in RunType
  BY <1>1, RunFields
<1>3. /\ Keeps(runs[r], run) /\ run.stage = stage
      /\ run.vendor = runs[r].vendor /\ run.learned = runs[r].learned
  BY <1>1 DEF RunType, Keeps
<1>4. runs' = [runs EXCEPT ![r] = run]
  BY <1>1 DEF GoTo, TypeOK, RunType
<1> HIDE DEF run
<1>5. OnlyRun(r) /\ runs'[r] = run
  BY <1>2, <1>4, OneRunChanges DEF TypeOK
<1> QED
  BY <1>3, <1>5

(* The stretches of the loop. *)
LEMMA LoopWalks ==
  ASSUME TypeOK, NEW r \in Run,
         \/ Source(r) \/ Exhaust(r) \/ ProbeDenied(r) \/ Verify(r)
         \/ OriginAccepts(r) \/ OriginRefuses(r) \/ Ordered(r)
         \/ AnswerGarbled(r)
  PROVE  Walks(r) /\ BudgetOK'
<1> DEFINE Frame == /\ r <= begun
                    /\ log' \in {log, log \union {r}}
                    /\ UNCHANGED <<status, scenario, inbound, order, incidents,
                                   startedAt, tickRunning, begun, epoch>>
<1>1. Frame /\ BudgetOK'
  BY DEF Source, Exhaust, ProbeDenied, Verify, OriginAccepts, OriginRefuses,
         Ordered, AnswerGarbled, RunStep, Emit, AtStage, shown, budget,
         BudgetOK, TypeOK, Run
<1>2. runs[r] \in RunType
  BY DEF TypeOK
<1>3. ASSUME OnlyRun(r), Keeps(runs[r], runs'[r]),
             Moves(runs[r], runs'[r], r), Chooses(runs[r], runs'[r])
      PROVE  Walks(r)
  BY <1>1, <1>3 DEF Walks
<1> HIDE DEF Frame
<1>4. CASE Source(r)
  <2>1. PICK v \in runs[r].todo :
          runs' = [runs EXCEPT ![r] =
            [@ EXCEPT
               !.vendor = v,
               !.todo = runs[r].todo \ {v},
               !.stage = IF runs[r].learned THEN "verifying" ELSE "probing"]]
    BY <1>4 DEF Source
  <2> DEFINE run == [runs[r] EXCEPT
               !.vendor = v,
               !.todo = runs[r].todo \ {v},
               !.stage = IF runs[r].learned THEN "verifying" ELSE "probing"]
  <2>2. v \in Vendor
    BY <1>2, <2>1, RunFields
  <2>3. run \in RunType
    BY <1>2, <2>2 DEF RunType, Stage
  <2>4. /\ Keeps(runs[r], run) /\ run.vendor = v
        /\ run.todo = runs[r].todo \ {v}
        /\ run.stage = IF runs[r].learned THEN "verifying" ELSE "probing"
        /\ run.learned = runs[r].learned
    BY <1>2 DEF RunType, Keeps
  <2>5. runs' = [runs EXCEPT ![r] = run]
    BY <2>1 DEF TypeOK
  <2> HIDE DEF run
  <2>6. OnlyRun(r) /\ runs'[r] = run
    BY <2>3, <2>5, OneRunChanges DEF TypeOK
  <2>7. Moves(runs[r], runs'[r], r)
    BY <1>4, <2>2, <2>4, <2>6, ControlPlaneAssumption DEF Moves, Source, AtStage
  <2>8. Chooses(runs[r], runs'[r])
    BY <1>4, <2>4, <2>6 DEF Chooses, Source, AtStage
  <2> QED
    BY <1>1, <1>3, <2>4, <2>6, <2>7, <2>8
<1>5. CASE Exhaust(r)
  <2> DEFINE run == [runs[r] EXCEPT !.vendor = NoVendor, !.stage = "finishing"]
  <2>1. run \in RunType
    BY <1>2 DEF RunType, Stage
  <2>2. /\ Keeps(runs[r], run) /\ run.vendor = NoVendor
        /\ run.stage = "finishing"
    BY <1>2 DEF RunType, Keeps
  <2>3. runs' = [runs EXCEPT ![r] = run]
    BY <1>5 DEF Exhaust, TypeOK
  <2> HIDE DEF run
  <2>4. OnlyRun(r) /\ runs'[r] = run
    BY <2>1, <2>3, OneRunChanges DEF TypeOK
  <2>5. Moves(runs[r], runs'[r], r)
    BY <1>5, <2>2, <2>4 DEF Moves, Exhaust, AtStage
  <2>6. Chooses(runs[r], runs'[r])
    BY <1>5, <2>2, <2>4 DEF Chooses, Exhaust, AtStage
  <2> QED
    BY <1>1, <1>3, <2>2, <2>4, <2>5, <2>6
<1>6. CASE ProbeDenied(r)
  <2> DEFINE run == [runs[r] EXCEPT !.learned = TRUE, !.stage = "verifying"]
  <2>1. run \in RunType
    BY <1>2 DEF RunType, Stage
  <2>2. /\ Keeps(runs[r], run) /\ run.vendor = runs[r].vendor
        /\ run.stage = "verifying" /\ run.learned
    BY <1>2 DEF RunType, Keeps
  <2>3. runs' = [runs EXCEPT ![r] = run]
    BY <1>6 DEF ProbeDenied, TypeOK
  <2> HIDE DEF run
  <2>4. OnlyRun(r) /\ runs'[r] = run
    BY <2>1, <2>3, OneRunChanges DEF TypeOK
  <2>5. Moves(runs[r], runs'[r], r)
    BY <1>6, <2>2, <2>4 DEF Moves, ProbeDenied, AtStage
  <2>6. Chooses(runs[r], runs'[r])
    BY <1>6, <2>2, <2>4 DEF Chooses, ProbeDenied, AtStage
  <2> QED
    BY <1>1, <1>3, <2>2, <2>4, <2>5, <2>6
<1>7. ASSUME NEW stage \in Stage, GoTo(r, stage),
             \/ /\ runs[r].stage = "verifying" /\ stage \in {"ordering", "sourcing"}
                /\ stage = "ordering" => "eligible" \in Evidence[runs[r].vendor]
                /\ accepted' = accepted
             \/ /\ runs[r].stage = "ordering" /\ stage = "accepted"
                /\ ~KeyKnown(r) /\ accepted' = accepted \union {OrderOf(r)}
             \/ /\ runs[r].stage = "ordering" /\ stage = "sourcing"
                /\ accepted' = accepted
             \/ /\ runs[r].stage = "accepted" /\ stage = "finishing"
                /\ accepted' = accepted
             \/ /\ ~Reliable /\ runs[r].stage = "accepted" /\ stage = "sourcing"
                /\ accepted' = accepted
      PROVE  Walks(r)
  <2>1. /\ OnlyRun(r) /\ Keeps(runs[r], runs'[r])
        /\ runs'[r].stage = stage /\ runs'[r].vendor = runs[r].vendor
    BY <1>7, GoToMoves
  <2>2. Moves(runs[r], runs'[r], r) /\ Chooses(runs[r], runs'[r])
    BY <1>7, <2>1 DEF Moves, Chooses
  <2> QED
    BY <1>3, <2>1, <2>2
<1>8. {"sourcing", "ordering", "accepted", "finishing"} \subseteq Stage
  BY DEF Stage
<1>9. CASE Verify(r)
  <2>1. PICK verdict \in Evidence[runs[r].vendor] :
          GoTo(r, IF verdict = "eligible" THEN "ordering" ELSE "sourcing")
    BY <1>9 DEF Verify
  <2>2. PICK stage \in {"ordering", "sourcing"} :
          GoTo(r, stage) /\ (stage = "ordering" => verdict = "eligible")
    BY <2>1
  <2> QED
    BY <1>1, <1>7, <1>8, <1>9, <2>1, <2>2 DEF Verify, AtStage
<1>10. CASE OriginAccepts(r)
  BY <1>1, <1>7, <1>8, <1>10 DEF OriginAccepts, AtStage
<1>11. CASE OriginRefuses(r)
  BY <1>1, <1>7, <1>8, <1>11 DEF OriginRefuses, AtStage
<1>12. CASE Ordered(r)
  BY <1>1, <1>7, <1>8, <1>12 DEF Ordered, AtStage
<1>13. CASE AnswerGarbled(r)
  BY <1>1, <1>7, <1>8, <1>13 DEF AnswerGarbled, AtStage
<1> QED
  BY <1>4, <1>5, <1>6, <1>9, <1>10, <1>11, <1>12, <1>13

(* What is left of a run that is over. *)
LEMMA OverEnds ==
  ASSUME NEW run \in RunType, NEW stage \in Stage
  PROVE  /\ Over(run, stage) \in RunType /\ Keeps(run, Over(run, stage))
         /\ Over(run, stage).stage = stage /\ Over(run, stage).vendor = NoVendor
  BY DEF RunType, Over, Keeps

LEMMA RunEnds ==
  ASSUME TypeOK, NEW r \in Run, Complete(r) \/ Throw(r)
  PROVE  Ends(r) /\ BudgetOK'
<1>1. runs[r] \in RunType /\ "ended" \in Stage
  BY DEF TypeOK, Stage
<1>2. runs' = [runs EXCEPT ![r] = Over(runs[r], "ended")]
  BY DEF Complete, Throw, End, TypeOK
<1>3. /\ OnlyRun(r) /\ Keeps(runs[r], runs'[r])
      /\ runs'[r].stage = "ended" /\ runs'[r].vendor = NoVendor
  BY <1>1, <1>2, OverEnds, OneRunChanges DEF TypeOK
<1>4. r <= begun /\ Live(r)
  BY DEF Complete, Throw, CanThrow, AtStage, Live, TypeOK, Run
<1>5. BudgetOK'
  BY DEF Complete, Throw, budget, BudgetOK, TypeOK
<1>6. status' \in {"complete", "failed"} /\ EndsBy(r) /\ ReleaseTick(r)
      /\ UNCHANGED <<scenario, begun, accepted, epoch>>
  BY DEF Complete, Throw, Outcome, EndsBy, Emit, AtStage
<1> QED
  BY <1>3, <1>4, <1>5, <1>6 DEF Ends

LEMMA RebootEnds ==
  ASSUME TypeOK, Crashes
  PROVE  Reboots /\ BudgetOK'
<1>1. /\ Reboot
      /\ \/ incidents' = incidents
         \/ \E r \in Run : /\ r <= begun /\ runs[r].stage = "finishing"
                           /\ incidents' = incidents \union {Incident(r)}
  BY DEF Crashes, Crash, CrashInComplete, AtStage, TypeOK, Run
<1>2. runs' = [r \in Run |-> IF Live(r) THEN Over(runs[r], "dead") ELSE runs[r]]
  BY <1>1 DEF Reboot
<1>3. \A r \in Run : runs[r] \in RunType /\ Over(runs[r], "dead") \in RunType
  BY OverEnds DEF TypeOK, Stage
<1>4. runs' \in [Run -> RunType]
  BY <1>2, <1>3
<1>5. \A r \in Run : IF Live(r) THEN /\ Keeps(runs[r], runs'[r])
                                     /\ runs'[r].stage = "dead"
                                     /\ runs'[r].vendor = NoVendor
                                ELSE runs'[r] = runs[r]
  BY <1>2, OverEnds DEF TypeOK, Stage
<1>6. BudgetOK'
  <2>1. crashes' \in 0 .. MaxCrashes /\ requests' = requests
    BY <1>1, ControlPlaneAssumption DEF Reboot, TypeOK
  <2>2. currentQty' \in Nat
    BY <1>1, ControlPlaneAssumption DEF Reboot, ResetTo, shown, TypeOK
  <2>3. switching' \in BOOLEAN
    BY <1>1 DEF Reboot
  <2> QED
    BY <2>1, <2>2, <2>3 DEF BudgetOK, TypeOK
<1>7. /\ startedAt' = NoRun /\ tickRunning' = NoRun
      /\ IF scenario = Home
           THEN UNCHANGED <<status, scenario, inbound, order, log, epoch>>
           ELSE ResetTo(Home)
      /\ UNCHANGED <<begun, accepted>>
  BY <1>1, ControlPlaneAssumption DEF Reboot, shown
<1> QED
  BY <1>1, <1>4, <1>5, <1>6, <1>7 DEF Reboots

(* The handlers that start no run, and the steps of another system. *)
LEMMA OthersStay ==
  ASSUME TypeOK,
         \/ CheckSwitch \/ RefuseSwitch \/ Consume \/ OriginRestarts
         \/ UNCHANGED vars
         \/ \E hard \in BOOLEAN : Reset(hard)
         \/ \E s \in Scenario : Switch(s)
  PROVE  (Stays \/ Resets) /\ BudgetOK'
<1>1. CASE CheckSwitch
  <2>1. Stays /\ currentQty' = currentQty
    BY <1>1 DEF CheckSwitch, shown, Stays
  <2>2. requests' \in 0 .. MaxRequests /\ crashes' = crashes
    BY <1>1, ControlPlaneAssumption DEF CheckSwitch, Request, TypeOK
  <2>3. switching' \in BOOLEAN
    BY <1>1 DEF CheckSwitch
  <2> QED
    BY <2>1, <2>2, <2>3 DEF BudgetOK, TypeOK
<1>2. CASE RefuseSwitch \/ OriginRestarts \/ UNCHANGED vars
  BY <1>2 DEF RefuseSwitch, OriginRestarts, vars, shown, budget, Stays, BudgetOK,
              TypeOK
<1>3. CASE Consume
  BY <1>3 DEF Consume, budget, Stays, BudgetOK, TypeOK
<1>4. CASE \E hard \in BOOLEAN : Reset(hard)
  BY <1>4, ControlPlaneAssumption
     DEF Reset, ResetTo, Request, Resets, BudgetOK, TypeOK
<1>5. CASE \E s \in Scenario : Switch(s)
  BY <1>5, ControlPlaneAssumption
     DEF Switch, ResetTo, budget, Resets, BudgetOK, TypeOK
<1> QED
  BY <1>1, <1>2, <1>3, <1>4, <1>5

LEMMA Kinds ==
  ASSUME TypeOK, [Next]_vars
  PROVE  Kind /\ BudgetOK'
<1>1. CASE Handlers
  BY <1>1, OthersStay, TriggerBegins DEF Handlers, Kind
<1>2. CASE Monitor
  BY <1>2, TriggerBegins DEF Monitor, Kind
<1>3. ASSUME NEW r \in Run, Loop(r)
      PROVE  Kind /\ BudgetOK'
  BY <1>3, LoopWalks, RunEnds DEF Loop, Kind
<1>4. CASE Crashes
  BY <1>4, RebootEnds DEF Kind
<1>5. CASE OriginRestarts \/ UNCHANGED vars
  BY <1>5, OthersStay DEF Kind
<1> QED
  BY <1>1, <1>2, <1>3, <1>4, <1>5 DEF Next

(* Only a request that it accepts and a restart change what the origin     *)
(* remembers.                                                              *)
LEMMA OriginSteps ==
  ASSUME TypeOK, [Next]_vars
  PROVE  \/ UNCHANGED origin
         \/ OriginRestarts
         \/ \E r \in Run : OriginAccepts(r)
<1>1. CASE Handlers
  BY <1>1 DEF Handlers, Reset, CheckSwitch, Switch, RefuseSwitch, Consume, RunDemo,
              runDemo, ClientIncident, Webhook, Begin
<1>2. CASE Monitor
  BY <1>2 DEF Monitor, MonitorTick, Begin
<1>3. ASSUME NEW r \in Run, Loop(r)
      PROVE  UNCHANGED origin \/ OriginAccepts(r)
  BY <1>3 DEF Loop, Source, Exhaust, ProbeDenied, Verify, OriginRefuses, Ordered,
              AnswerGarbled, Complete, Throw
<1>4. CASE Crashes
  BY <1>4 DEF Crashes, Crash, CrashInComplete, Reboot
<1>5. CASE UNCHANGED vars
  BY <1>5 DEF vars
<1> QED
  BY <1>1, <1>2, <1>3, <1>4, <1>5 DEF Next
-----------------------------------------------------------------------------
LEMMA OrdersAreTyped ==
  ASSUME runs \in [Run -> RunType], NEW r \in Run
  PROVE  /\ OrderOf(r) \in OrderType \union {NoOrder}
         /\ runs[r].vendor # NoVendor =>
              /\ OrderOf(r) \in OrderType /\ OrderOf(r) # NoOrder
              /\ OrderOf(r).run = r /\ OrderOf(r).vendor = runs[r].vendor
              /\ OrderOf(r).event = runs[r].event
              /\ OrderOf(r).quantity = runs[r].quantity
         /\ runs[r].vendor = NoVendor => OrderOf(r) = NoOrder
<1>1. runs[r] \in RunType
  OBVIOUS
<1>2. /\ runs[r].vendor \in Vendor \union {NoVendor}
      /\ runs[r].event \in Event /\ runs[r].quantity \in Nat
  BY <1>1, RunFields
<1> QED
  BY <1>2, NoOrderAssumption DEF OrderOf, OrderType

LEMMA IncidentsAreTyped ==
  ASSUME TypeOK, NEW r \in Run
  PROVE  /\ Incident(r) \in IncidentType
         /\ Incident(r).run = r /\ Incident(r).scenario = scenario
         /\ Incident(r).vendor = runs[r].vendor
         /\ Incident(r).timedFrom = startedAt
  BY RunFields DEF Incident, IncidentType, TypeOK

(* The order of a run that orders is one. *)
LEMMA AcceptedIsTyped ==
  ASSUME TypeOK, NEW r \in Run, RunIsSound(r), Walks(r)
  PROVE  /\ accepted' \subseteq OrderType /\ accepted \subseteq accepted'
         /\ \A a \in accepted' : a \in accepted \/ a = OrderOf(r)
<1>1. CASE accepted' = accepted
  BY <1>1 DEF TypeOK
<1>2. CASE runs[r].stage = "ordering" /\ accepted' = accepted \union {OrderOf(r)}
  <2>1. runs[r].vendor # NoVendor
    BY <1>2 DEF RunIsSound
  <2>2. OrderOf(r) \in OrderType
    BY <2>1, OrdersAreTyped DEF TypeOK
  <2> QED
    BY <1>2, <2>2 DEF TypeOK
<1> QED
  BY <1>1, <1>2 DEF Walks, Moves

LEMMA ResetTypes ==
  ASSUME TypeOK, \E s \in Scenario : ResetTo(s)
  PROVE  /\ status' = "idle" /\ scenario' \in Scenario /\ inbound' = 0
         /\ order' = NoOrder /\ log' = {} /\ startedAt' = NoRun
         /\ epoch' \in Nat /\ epoch' = epoch + 1 /\ epoch' > epoch
  BY DEF ResetTo, TypeOK

LEMMA StoreTypes ==
  ASSUME TypeOK, Kind, \A r \in Run : RunIsSound(r)
  PROVE  /\ status' \in {"idle", "running", "complete", "failed"}
         /\ scenario' \in Scenario /\ inbound' \in Nat /\ epoch' \in Nat
         /\ order' \in OrderType \union {NoOrder}
         /\ log' \subseteq Run
         /\ incidents' \subseteq IncidentType
         /\ startedAt' \in Run \union {NoRun}
         /\ tickRunning' \in Run \union {NoRun}
         /\ runs' \in [Run -> RunType] /\ begun' \in Run \union {NoRun}
         /\ accepted' \subseteq OrderType
<1> DEFINE Goal ==
         /\ status' \in {"idle", "running", "complete", "failed"}
         /\ scenario' \in Scenario /\ inbound' \in Nat /\ epoch' \in Nat
         /\ order' \in OrderType \union {NoOrder}
         /\ log' \subseteq Run
         /\ incidents' \subseteq IncidentType
         /\ startedAt' \in Run \union {NoRun}
         /\ tickRunning' \in Run \union {NoRun}
         /\ runs' \in [Run -> RunType] /\ begun' \in Run \union {NoRun}
         /\ accepted' \subseteq OrderType
<1>1. CASE Stays
  BY <1>1 DEF Stays, TypeOK
<1>2. CASE Resets
  BY <1>2, ResetTypes DEF Resets, TypeOK
<1>3. CASE Reboots
  <2>1. incidents' \subseteq IncidentType
    BY <1>3, IncidentsAreTyped DEF Reboots, TypeOK
  <2>2. CASE UNCHANGED <<status, scenario, inbound, order, log, epoch>>
    BY <1>3, <2>1, <2>2 DEF Reboots, TypeOK
  <2>3. CASE \E s \in Scenario : ResetTo(s)
    BY <1>3, <2>1, <2>3, ResetTypes DEF Reboots, TypeOK
  <2> QED
    BY <1>3, <2>2, <2>3, ControlPlaneAssumption DEF Reboots
<1>4. ASSUME NEW r \in Run, Begins(r)
      PROVE  Goal
  <2>1. /\ inbound' \in Nat /\ epoch' \in Nat /\ log' \subseteq Run
        /\ order' \in OrderType \union {NoOrder}
    <3>1. BeginsOn(r)
      BY <1>4 DEF Begins
    <3>2. inbound' \in Nat /\ epoch' \in Nat
      BY <3>1 DEF BeginsOn, TypeOK
    <3>3. order' \in OrderType \union {NoOrder}
      BY <3>1 DEF BeginsOn, TypeOK
    <3>4. log' \subseteq Run
      BY <3>1 DEF BeginsOn, TypeOK
    <3> QED
      BY <3>2, <3>3, <3>4
  <2>2. tickRunning' \in Run \union {NoRun}
    BY <1>4 DEF Begins, BeginsBy, TypeOK
  <2> QED
    BY <1>4, <2>1, <2>2, ControlPlaneAssumption DEF Begins, OnlyRun, TypeOK
<1>5. ASSUME NEW r \in Run, Walks(r)
      PROVE  Goal
  <2>1. accepted' \subseteq OrderType
    BY <1>5, AcceptedIsTyped
  <2> QED
    BY <1>5, <2>1 DEF Walks, OnlyRun, TypeOK
<1>6. ASSUME NEW r \in Run, Ends(r)
      PROVE  Goal
  <2>1. incidents' \subseteq IncidentType
    BY <1>6, IncidentsAreTyped DEF Ends, EndsBy, TypeOK
  <2>2. order' \in OrderType \union {NoOrder} /\ log' \subseteq Run
        /\ startedAt' \in Run \union {NoRun}
    BY <1>6, OrdersAreTyped DEF Ends, EndsBy, TypeOK
  <2>3. inbound' \in Nat
    BY <1>6, RunFields DEF Ends, EndsBy, TypeOK
  <2>4. tickRunning' \in Run \union {NoRun}
    BY <1>6 DEF Ends, ReleaseTick, TypeOK
  <2> QED
    BY <1>6, <2>1, <2>2, <2>3, <2>4 DEF Ends, OnlyRun, TypeOK
<1> QED
  BY <1>1, <1>2, <1>3, <1>4, <1>5, <1>6 DEF Kind

(* A kind of step keeps every run sound. *)
LEMMA SoundStep ==
  ASSUME TypeOK, Kind, \A r \in Run : RunIsSound(r), NEW q \in Run
  PROVE  RunIsSound(q)'
<1> DEFINE run == runs[q]
<1>1. /\ run \in RunType /\ run.epoch \in Nat /\ epoch \in Nat
      /\ q \in Int /\ begun \in Int
  BY RunFields DEF TypeOK, Run, NoRun
<1>2. ASSUME runs'[q].stage = run.stage, runs'[q].vendor = run.vendor,
             runs'[q].epoch = run.epoch, OrderOf(q)' = OrderOf(q),
             accepted \subseteq accepted', begun' = begun,
             \/ epoch' = epoch /\ (status' = "idle" => status = "idle")
             \/ epoch' = epoch + 1
      PROVE  RunIsSound(q)'
  <2>1. q <= begun => /\ run.epoch <= epoch'
                      /\ run.epoch = epoch' => status' # "idle"
    BY <1>1, <1>2 DEF RunIsSound
  <2> QED
    BY <1>2, <2>1 DEF RunIsSound
<1>3. ASSUME runs'[q].stage \in {"ended", "dead"}, runs'[q].vendor = NoVendor,
             Keeps(run, runs'[q]), begun' = begun, Live(q),
             \/ epoch' = epoch /\ (status' = "idle" => status = "idle")
             \/ epoch' = epoch + 1
      PROVE  RunIsSound(q)'
  <2>1. q <= begun
    BY <1>1, <1>3 DEF RunIsSound, Live
  <2>2. runs'[q].epoch = run.epoch
    BY <1>3 DEF Keeps
  <2>3. run.epoch <= epoch' /\ (run.epoch = epoch' => status' # "idle")
    BY <1>1, <1>3, <2>1 DEF RunIsSound
  <2> QED
    BY <1>1, <1>3, <2>1, <2>2, <2>3 DEF RunIsSound
<1>4. runs'[q] = runs[q] => OrderOf(q)' = OrderOf(q)
  BY DEF OrderOf
<1>5. CASE Stays
  BY <1>2, <1>4, <1>5 DEF Stays
<1>6. CASE Resets
  BY <1>2, <1>4, <1>6, ResetTypes DEF Resets
<1>7. CASE Reboots
  <2>1. \/ epoch' = epoch /\ (status' = "idle" => status = "idle")
        \/ epoch' = epoch + 1
    BY <1>7, ResetTypes, ControlPlaneAssumption DEF Reboots
  <2>2. CASE Live(q)
    BY <1>3, <1>7, <2>1, <2>2 DEF Reboots
  <2>3. CASE ~Live(q)
    BY <1>2, <1>4, <1>7, <2>1, <2>3 DEF Reboots
  <2> QED
    BY <2>2, <2>3
<1>8. ASSUME NEW r \in Run, Begins(r)
      PROVE  RunIsSound(q)'
  <2>1. \/ epoch' = epoch
        \/ epoch' = epoch + 1
    BY <1>8 DEF Begins, BeginsOn
  <2>2. CASE q = r
    BY <1>1, <1>8, <2>1, <2>2 DEF Begins, RunIsSound
  <2>3. CASE q # r
    <3>1. runs'[q] = runs[q] /\ status' = "running" /\ begun' = begun + 1 /\ r = begun + 1
          /\ accepted' = accepted
      BY <1>8, <2>3 DEF Begins, OnlyRun
    <3>2. q > begun' => run.stage = "none"
      BY <1>1, <2>3, <3>1 DEF RunIsSound
    <3>3. q <= begun' => run.epoch <= epoch'
      BY <1>1, <2>1, <2>3, <3>1 DEF RunIsSound
    <3> QED
      BY <1>4, <3>1, <3>2, <3>3 DEF RunIsSound
  <2> QED
    BY <2>2, <2>3
<1>9. ASSUME NEW r \in Run, Walks(r)
      PROVE  RunIsSound(q)'
  <2>1. CASE q # r
    BY <1>2, <1>4, <1>9, <2>1, AcceptedIsTyped DEF Walks, OnlyRun
  <2>2. CASE q = r
    <3> DEFINE new == runs'[q]
    <3>1. q <= begun' /\ new.epoch = run.epoch /\ epoch' = epoch /\ status' = status
          /\ begun' = begun
      BY <1>9, <2>2 DEF Walks, Keeps
    <3>2. /\ q > begun' => new.stage = "none"
          /\ q <= begun' => /\ new.epoch <= epoch'
                            /\ new.epoch = epoch' => status' # "idle"
      BY <1>1, <3>1 DEF RunIsSound
    <3>3. Moves(run, new, q)
      BY <1>9, <2>2 DEF Walks
    <3>4. new.stage \in {"probing", "verifying", "ordering", "accepted"}
             => new.vendor # NoVendor
      BY <3>3 DEF Moves, RunIsSound
    <3>5. ASSUME new.stage \in {"accepted", "finishing"}, new.vendor # NoVendor
          PROVE  OrderOf(q)' \in accepted'
      <4>1. /\ new.vendor = run.vendor
            /\ OrderOf(q) \in accepted'
        BY <3>3, <3>5 DEF Moves, RunIsSound
      <4>2. OrderOf(q)' = OrderOf(q)
        BY <1>9, <2>2, <4>1 DEF OrderOf, Walks, Keeps
      <4> QED
        BY <4>1, <4>2
    <3> QED
      BY <3>2, <3>4, <3>5 DEF RunIsSound
  <2> QED
    BY <2>1, <2>2
<1>10. ASSUME NEW r \in Run, Ends(r)
       PROVE  RunIsSound(q)'
  <2>1. status' # "idle" /\ epoch' = epoch /\ begun' = begun /\ accepted' = accepted
    BY <1>10 DEF Ends
  <2>2. CASE q = r
    BY <1>3, <1>10, <2>1, <2>2 DEF Ends
  <2>3. CASE q # r
    BY <1>2, <1>4, <1>10, <2>1, <2>3 DEF Ends, OnlyRun
  <2> QED
    BY <2>2, <2>3
<1> QED
  BY <1>5, <1>6, <1>7, <1>8, <1>9, <1>10 DEF Kind
-----------------------------------------------------------------------------
(* A run that is not live stays what it is until it begins. *)
LEMMA RunsKeep ==
  ASSUME RecoveryInv, Kind, NEW q \in Run
  PROVE  /\ q <= begun => Keeps(runs[q], runs'[q])
         /\ Live(q)' => Live(q) \/ Begins(q)
         /\ Live(q) /\ Live(q)' => ~Reboots
<1>1. TypeOK /\ q \in Int /\ begun \in Int
  BY DEF RecoveryInv, TypeOK, Run, NoRun
<1>2. CASE Stays \/ Resets
  <2>1. runs' = runs
    BY <1>2 DEF Stays, Resets
  <2> QED
    BY <2>1 DEF Keeps, Live, Reboots
<1>3. CASE Reboots
  BY <1>3 DEF Reboots, Keeps, Live
<1>4. ASSUME NEW r \in Run, Begins(r) \/ Walks(r) \/ Ends(r)
      PROVE  /\ q <= begun => Keeps(runs[q], runs'[q])
             /\ Live(q)' => Live(q) \/ Begins(q)
  <2>1. CASE q # r
    <3>1. runs'[q] = runs[q]
      BY <1>4, <2>1 DEF Begins, Walks, Ends, OnlyRun
    <3> QED
      BY <3>1 DEF Keeps, Live
  <2>2. CASE q = r
    BY <1>1, <1>4, <2>2 DEF Begins, Walks, Ends, Moves, Live
  <2> QED
    BY <2>1, <2>2
<1>5. Live(q) /\ Live(q)' => ~Reboots
  BY DEF Reboots, Live
<1> QED
  BY <1>2, <1>3, <1>4, <1>5 DEF Kind

(* What a step adds to the incidents and to the orders. *)
LEMMA LedgerStep ==
  ASSUME TypeOK, Kind, \A r \in Run : RunIsSound(r)
  PROVE  /\ \A i \in incidents' :
              i \in incidents \/ \E r \in Run : /\ r <= begun
                                                /\ runs[r].stage = "finishing"
                                                /\ i = Incident(r)
         /\ accepted \subseteq accepted'
         /\ begun' \in Int /\ begun <= begun'
<1>1. begun \in Int /\ begun + 1 > begun
  BY DEF TypeOK, Run, NoRun
<1>2. CASE Stays
  BY <1>1, <1>2 DEF Stays
<1>3. CASE Resets
  BY <1>1, <1>3 DEF Resets
<1>4. CASE Reboots
  BY <1>1, <1>4 DEF Reboots
<1>5. ASSUME NEW r \in Run, Begins(r)
      PROVE  incidents' = incidents /\ accepted' = accepted /\ begun' = begun + 1
  BY <1>5 DEF Begins
<1>6. ASSUME NEW r \in Run, Walks(r)
      PROVE  incidents' = incidents /\ accepted \subseteq accepted' /\ begun' = begun
  BY <1>6, AcceptedIsTyped DEF Walks
<1>7. ASSUME NEW r \in Run, Ends(r)
      PROVE  /\ \/ incidents' = incidents
                \/ /\ r <= begun /\ runs[r].stage = "finishing"
                   /\ incidents' = incidents \union {Incident(r)}
             /\ accepted' = accepted /\ begun' = begun
  BY <1>7 DEF Ends, EndsBy
<1> QED
  BY <1>1, <1>2, <1>3, <1>4, <1>5, <1>6, <1>7 DEF Kind

LEMMA IncidentsAreOfRuns ==
  ASSUME RecoveryInv, Kind
  PROVE  \A i \in incidents' : i.run \in Run /\ i.run <= begun'
<1>1. \A r \in Run : r \in Int /\ Incident(r).run = r
  BY IncidentsAreTyped DEF RecoveryInv, Run
<1>2. \A i \in incidents : i.run \in Run /\ i.run <= begun
  BY DEF RecoveryInv, TypeOK, IncidentType
<1>3. \A i \in incidents' : i.run \in Run /\ i.run <= begun
  BY <1>1, <1>2, LedgerStep DEF RecoveryInv
<1>4. begun \in Int /\ begun' \in Int /\ begun <= begun'
  BY LedgerStep DEF RecoveryInv, TypeOK, Run, NoRun
<1>5. \A r \in Run : r <= begun => r <= begun'
  BY <1>4 DEF Run
<1> QED
  BY <1>3, <1>5

LEMMA CreditStep ==
  ASSUME RecoveryInv, Kind
  PROVE  CreditIsEarned'
<1> SUFFICES ASSUME NEW i \in incidents', i.vendor # NoVendor
             PROVE  \E a \in accepted' : a.run = i.run /\ a.vendor = i.vendor
  BY DEF CreditIsEarned
<1>1. accepted \subseteq accepted'
  BY LedgerStep DEF RecoveryInv
<1>2. CASE i \in incidents
  BY <1>1, <1>2 DEF RecoveryInv, CreditIsEarned
<1>3. ASSUME NEW r \in Run, runs[r].stage = "finishing", i = Incident(r)
      PROVE  \E a \in accepted' : a.run = i.run /\ a.vendor = i.vendor
  <2>1. i.vendor = runs[r].vendor /\ i.run = r
    BY <1>3, IncidentsAreTyped DEF RecoveryInv
  <2>2. OrderOf(r) \in accepted
    BY <1>3, <2>1 DEF RecoveryInv, RunIsSound
  <2>3. OrderOf(r).run = r /\ OrderOf(r).vendor = runs[r].vendor
    BY <2>1, OrdersAreTyped DEF RecoveryInv, TypeOK
  <2> QED
    BY <1>1, <2>1, <2>2, <2>3
<1> QED
  BY <1>2, <1>3, LedgerStep DEF RecoveryInv

LEMMA ShownOrderStep ==
  ASSUME RecoveryInv, Kind
  PROVE  ShownOrderIsReal'
<1>1. accepted \subseteq accepted'
  BY LedgerStep DEF RecoveryInv
<1>2. CASE order' = order /\ inbound' = inbound
  BY <1>1, <1>2 DEF RecoveryInv, ShownOrderIsReal
<1>3. CASE order' = NoOrder /\ inbound' = 0
  BY <1>3 DEF ShownOrderIsReal
<1>4. ASSUME NEW r \in Run, Ends(r)
      PROVE  ShownOrderIsReal'
  <2>1. CASE UNCHANGED <<incidents, order, startedAt, inbound>>
    BY <1>2, <2>1
  <2>2. CASE /\ runs[r].stage = "finishing" /\ order' = OrderOf(r)
             /\ inbound' = IF OrderOf(r) = NoOrder THEN 0 ELSE runs[r].quantity
    <3>1. CASE runs[r].vendor = NoVendor
      BY <1>3, <2>2, <3>1, OrdersAreTyped DEF RecoveryInv, TypeOK
    <3>2. CASE runs[r].vendor # NoVendor
      <4>1. OrderOf(r) \in accepted
        BY <2>2, <3>2 DEF RecoveryInv, RunIsSound
      <4>2. OrderOf(r) # NoOrder /\ OrderOf(r).quantity = runs[r].quantity
        BY <3>2, OrdersAreTyped DEF RecoveryInv, TypeOK
      <4> QED
        BY <1>1, <2>2, <4>1, <4>2 DEF ShownOrderIsReal
    <3> QED
      BY <3>1, <3>2
  <2> QED
    BY <1>4, <2>1, <2>2 DEF Ends, EndsBy
<1>5. \/ order' = order /\ inbound' = inbound
      \/ order' = NoOrder /\ inbound' = 0
      \/ \E r \in Run : Ends(r)
  BY ResetTypes, ControlPlaneAssumption
     DEF Kind, Stays, Resets, Reboots, Begins, BeginsOn, Walks, RecoveryInv
<1> QED
  BY <1>2, <1>3, <1>4, <1>5

(* A step keeps the runs of the monitor apart: it fires on an idle store,  *)
(* and no run of an idle store's epoch has begun.                          *)
LEMMA MonitorStep ==
  ASSUME RecoveryInv, Kind
  PROVE  MonitorFiresOnce'
<1>1. TypeOK /\ begun \in Nat /\ \A q \in 1 .. begun : q \in Run
  BY RunsAreNumbered DEF RecoveryInv, TypeOK, Run, NoRun
<1>2. ASSUME begun' = begun,
             \A q \in 1 .. begun : /\ runs'[q].byMonitor = runs[q].byMonitor
                                   /\ runs'[q].epoch = runs[q].epoch
      PROVE  MonitorFiresOnce'
  BY <1>2 DEF MonitorFiresOnce, RecoveryInv
<1>3. ASSUME NEW r \in Run, Begins(r)
      PROVE  MonitorFiresOnce'
  <2>1. /\ begun' = begun + 1 /\ r = begun + 1 /\ runs'[r].epoch = epoch'
        /\ \A q \in 1 .. begun : runs'[q] = runs[q]
    BY <1>1, <1>3 DEF Begins, OnlyRun
  <2>2. \A q \in 1 .. begun' : q \in 1 .. begun \/ q = r
    BY <1>1, <2>1
  <2>3. \A p, q \in 1 .. begun :
          runs[p].byMonitor /\ runs[q].byMonitor /\ runs[p].epoch = runs[q].epoch
          => p = q
    BY DEF RecoveryInv, MonitorFiresOnce
  <2>4. ASSUME NEW q \in 1 .. begun, runs'[r].byMonitor
        PROVE  runs[q].epoch # epoch'
    <3>1. status = "idle"
      BY <1>3, <2>4 DEF Begins, BeginsBy
    <3>2. runs[q].epoch <= epoch /\ runs[q].epoch # epoch
      BY <1>1, <3>1 DEF RecoveryInv, RunIsSound
    <3>3. epoch' \in {epoch, epoch + 1}
      BY <1>3 DEF Begins, BeginsOn
    <3>4. epoch \in Nat /\ runs[q].epoch \in Nat
      BY <1>1, RunFields DEF TypeOK
    <3> QED
      BY <3>2, <3>3, <3>4
  <2> QED
    BY <2>1, <2>2, <2>3, <2>4 DEF MonitorFiresOnce
<1>4. ASSUME NEW r \in Run, Walks(r) \/ Ends(r)
      PROVE  MonitorFiresOnce'
  BY <1>1, <1>2, <1>4 DEF Walks, Ends, OnlyRun, Keeps
<1>5. CASE Reboots
  BY <1>1, <1>2, <1>5 DEF Reboots, Keeps
<1>6. CASE Stays \/ Resets
  BY <1>2, <1>6 DEF Stays, Resets
<1> QED
  BY <1>3, <1>4, <1>5, <1>6 DEF Kind

LEMMA TickStep ==
  ASSUME RecoveryInv, Kind
  PROVE  TickHoldsItsRun'
<1>1. TypeOK /\ NoRun \notin Run
  BY RunsAreNumbered DEF RecoveryInv
<1>2. /\ tickRunning # NoRun => Live(tickRunning) /\ tickRunning \in Run
      /\ \A q \in Run : Live(q) /\ runs[q].byMonitor => q = tickRunning
  BY DEF RecoveryInv, TypeOK, TickHoldsItsRun
<1>3. CASE Stays \/ Resets
  BY <1>2, <1>3 DEF Stays, Resets, TickHoldsItsRun, Live
<1>4. CASE Reboots
  <2>1. \A q \in Run : ~(Live(q)')
    BY <1>4 DEF Reboots, Live
  <2> QED
    BY <1>4, <2>1 DEF Reboots, TickHoldsItsRun
<1>5. ASSUME NEW r \in Run, Begins(r)
      PROVE  TickHoldsItsRun'
  <2>1. ~Live(r) /\ Live(r)'
    BY <1>1, <1>5 DEF Begins, Live, RecoveryInv, RunIsSound, TypeOK, Run, NoRun
  <2>2. \A q \in Run : q # r => runs'[q] = runs[q]
    BY <1>5 DEF Begins, OnlyRun
  <2>3. \/ ~runs'[r].byMonitor /\ tickRunning' = tickRunning
        \/ tickRunning = NoRun /\ tickRunning' = r
    BY <1>5 DEF Begins, BeginsBy
  <2> QED
    BY <1>1, <1>2, <2>1, <2>2, <2>3 DEF TickHoldsItsRun, Live
<1>6. ASSUME NEW r \in Run, Walks(r)
      PROVE  TickHoldsItsRun'
  <2>1. Live(r) /\ Live(r)'
    BY <1>6 DEF Walks, Moves, Live
  <2>2. \A q \in Run : q # r => runs'[q] = runs[q]
    BY <1>6 DEF Walks, OnlyRun
  <2>3. runs'[r].byMonitor = runs[r].byMonitor /\ tickRunning' = tickRunning
    BY <1>6 DEF Walks, Keeps
  <2> QED
    BY <1>1, <1>2, <2>1, <2>2, <2>3 DEF TickHoldsItsRun, Live
<1>7. ASSUME NEW r \in Run, Ends(r)
      PROVE  TickHoldsItsRun'
  <2>1. ~(Live(r)')
    BY <1>7 DEF Ends, Live
  <2>2. \A q \in Run : q # r => runs'[q] = runs[q]
    BY <1>7 DEF Ends, OnlyRun
  <2>3. tickRunning' = IF tickRunning = r THEN NoRun ELSE tickRunning
    BY <1>7 DEF Ends, ReleaseTick
  <2> QED
    BY <1>1, <1>2, <2>1, <2>2, <2>3 DEF TickHoldsItsRun, Live
<1> QED
  BY <1>3, <1>4, <1>5, <1>6, <1>7 DEF Kind

LEMMA RecoveryInvInit == Init => RecoveryInv
<1> SUFFICES ASSUME Init
             PROVE  RecoveryInv
  OBVIOUS
<1> USE DEF Init
<1>1. Unused \in RunType
  BY ControlPlaneAssumption, RunsAreNumbered DEF Unused, RunType, Stage, Event, Run
<1>2. TypeOK
  <2>1. /\ scenario \in Scenario /\ currentQty \in Nat /\ inbound \in Nat
        /\ order \in OrderType \union {NoOrder} /\ log \subseteq Run
        /\ runs \in [Run -> RunType]
    BY <1>1, ControlPlaneAssumption
  <2>2. epoch \in Nat /\ requests \in 0 .. MaxRequests /\ crashes \in 0 .. MaxCrashes
    BY ControlPlaneAssumption
  <2>3. switching \in BOOLEAN
    OBVIOUS
  <2>4. /\ status \in {"idle", "running", "complete", "failed"}
        /\ incidents \subseteq IncidentType /\ accepted \subseteq OrderType
        /\ orders \subseteq accepted
        /\ startedAt \in Run \union {NoRun} /\ tickRunning \in Run \union {NoRun}
        /\ begun \in Run \union {NoRun}
    BY DEF NoRun
  <2> QED
    BY <2>1, <2>2, <2>3, <2>4 DEF TypeOK
<1>3. \A r \in Run : runs[r].stage = "none" /\ runs[r].vendor = NoVendor /\ r > begun
  BY DEF Unused, Run
<1>4. \A r \in Run : RunIsSound(r) /\ ~Live(r)
  BY <1>3 DEF RunIsSound, Live, Run
<1>5. MonitorFiresOnce
  BY DEF MonitorFiresOnce
<1>6. ShownOrderIsReal /\ CreditIsEarned /\ TickHoldsItsRun
  BY <1>4 DEF ShownOrderIsReal, CreditIsEarned, TickHoldsItsRun
<1> QED
  BY <1>2, <1>4, <1>5, <1>6 DEF RecoveryInv

LEMMA RecoveryInvNext == RecoveryInv /\ [Next]_vars => RecoveryInv'
<1> SUFFICES ASSUME RecoveryInv, [Next]_vars
             PROVE  RecoveryInv'
  OBVIOUS
<1>1. TypeOK /\ \A r \in Run : RunIsSound(r)
  BY DEF RecoveryInv
<1>2. Kind /\ BudgetOK'
  BY <1>1, Kinds
<1>3. TypeOK'
  <2>1. orders' \subseteq accepted'
    BY <1>1, OriginSteps DEF TypeOK, OriginRestarts, OriginAccepts
  <2> QED
    BY <1>1, <1>2, <2>1, StoreTypes DEF TypeOK, BudgetOK
<1>4. \A r \in Run : RunIsSound(r)'
  BY <1>1, <1>2, SoundStep
<1>5. \A i \in incidents' : i.run <= begun'
  BY <1>2, IncidentsAreOfRuns
<1> QED
  BY <1>2, <1>3, <1>4, <1>5, ShownOrderStep, CreditStep, MonitorStep, TickStep
     DEF RecoveryInv

(* The invariant holds whatever the operator, the sender, the network and  *)
(* crashes do: none of the assumptions on the environment is needed.       *)
THEOREM RecoveryInvariant == Spec => []RecoveryInv
  BY RecoveryInvInit, RecoveryInvNext, PTL DEF Spec

(* What the store shows as bought and inbound (complete, store.ts) was     *)
(* accepted by the origin as shown.                                        *)
THEOREM ShownOrdersAreReal == Spec => []ShownOrderIsReal
  BY RecoveryInvariant, PTL DEF RecoveryInv

(* No incident credits a vendor with an order that it did not get, so none *)
(* is tried first that never delivered (learningSummary, store.ts).        *)
THEOREM CreditsAreEarned == Spec => []CreditIsEarned
  BY RecoveryInvariant, PTL DEF RecoveryInv

(* The monitor starts one run at most between two resets (monitor.ts).     *)
THEOREM MonitorFiresOnceAtMost == Spec => []MonitorFiresOnce
  BY RecoveryInvariant, PTL DEF RecoveryInv

(* The monitor's flag is held by a live run, and by the only one of its    *)
(* own (startInventoryMonitor, monitor.ts).                                *)
THEOREM TicksHoldTheirRuns == Spec => []TickHoldsItsRun
  BY RecoveryInvariant, PTL DEF RecoveryInv
-----------------------------------------------------------------------------
(* Why a run orders: its vendor is a candidate with the quantity, whose    *)
(* evidence was eligible, and the run knows that it needs authorization.   *)
RunIsJustified(r) ==
  LET run == runs[r]
      offered == Priced(run.scenario, run.quantity)
  IN  /\ run.todo \subseteq offered
      /\ run.stage \in {"probing", "verifying", "ordering", "accepted"}
           => run.vendor \in offered
      /\ run.stage \in {"verifying", "ordering", "accepted"} => run.learned
      /\ run.stage \in {"ordering", "accepted"}
           => "eligible" \in Evidence[run.vendor]

Justified ==
  /\ \A r \in Run : RunIsJustified(r)
  /\ \A a \in accepted : a.run <= begun
  /\ PurchasesAreJustified

LEMMA RunsStayJustified ==
  ASSUME RecoveryInv, Justified, Kind, NEW q \in Run
  PROVE  RunIsJustified(q)'
<1>1. RunIsJustified(q)
  BY DEF Justified
<1>2. CASE runs'[q] = runs[q]
  BY <1>1, <1>2 DEF RunIsJustified, Priced
<1>3. CASE Keeps(runs[q], runs'[q]) /\ runs'[q].stage \in {"ended", "dead"}
  BY <1>1, <1>3 DEF RunIsJustified, Keeps, Priced
<1>4. CASE Begins(q)
  BY <1>4 DEF Begins, RunIsJustified, Priced
<1>5. CASE Walks(q)
  <2>1. Keeps(runs[q], runs'[q]) /\ Moves(runs[q], runs'[q], q)
        /\ Chooses(runs[q], runs'[q])
    BY <1>5 DEF Walks
  <2> QED
    BY <1>1, <2>1 DEF RunIsJustified, Keeps, Moves, Chooses, Priced
<1>6. ASSUME NEW r \in Run, r # q, Begins(r) \/ Walks(r) \/ Ends(r)
      PROVE  runs'[q] = runs[q]
  BY <1>6 DEF Begins, Walks, Ends, OnlyRun
<1> QED
  BY <1>2, <1>3, <1>4, <1>5, <1>6 DEF Kind, Stays, Resets, Reboots, Ends

LEMMA JustifiedStep ==
  ASSUME RecoveryInv, Justified, [Next]_vars
  PROVE  Justified'
<1>1. TypeOK /\ Kind
  BY Kinds DEF RecoveryInv
<1>2. begun \in Int /\ begun' \in Int /\ begun <= begun'
  BY <1>1, LedgerStep DEF RecoveryInv, TypeOK, Run, NoRun
<1>3. ASSUME NEW a \in accepted
      PROVE  /\ a.run \in Run /\ a.run <= begun /\ a.run <= begun'
             /\ Keeps(runs[a.run], runs'[a.run])
  <2>1. a.run \in Run /\ a.run <= begun /\ a.run \in Int
    BY <1>1 DEF TypeOK, OrderType, Justified, Run
  <2> QED
    BY <1>1, <1>2, <2>1, RunsKeep
<1>4. ASSUME NEW a \in accepted
      PROVE  /\ a.event = runs'[a.run].event /\ a.quantity = runs'[a.run].quantity
             /\ a.vendor \in Priced(runs'[a.run].scenario, runs'[a.run].quantity)
             /\ "eligible" \in Evidence[a.vendor]
             /\ runs'[a.run].learned
  BY <1>3 DEF Justified, PurchasesAreJustified, Keeps
<1>5. CASE accepted' = accepted
  BY <1>1, <1>3, <1>4, <1>5, RunsStayJustified
     DEF Justified, PurchasesAreJustified, Priced
<1>6. ASSUME NEW r \in Run, OriginAccepts(r)
      PROVE  Justified'
  <2> DEFINE a == OrderOf(r)
  <2>1. runs[r].stage = "ordering" /\ r <= begun /\ begun' = begun
        /\ accepted' = accepted \union {a}
    BY <1>6, <1>2 DEF OriginAccepts, AtStage, Run
  <2>2. runs[r].vendor # NoVendor
    BY <2>1 DEF RecoveryInv, RunIsSound
  <2>3. /\ a.run = r /\ a.vendor = runs[r].vendor /\ a.event = runs[r].event
        /\ a.quantity = runs[r].quantity
    BY <1>1, <2>2, OrdersAreTyped DEF TypeOK
  <2>4. Keeps(runs[r], runs'[r])
    BY <1>1, <2>1, RunsKeep
  <2>5. /\ a.vendor \in Priced(runs[r].scenario, runs[r].quantity)
        /\ "eligible" \in Evidence[a.vendor] /\ runs[r].learned
    BY <2>1, <2>3 DEF Justified, RunIsJustified
  <2>6. /\ a.event = runs'[a.run].event /\ a.quantity = runs'[a.run].quantity
        /\ a.vendor \in Priced(runs'[a.run].scenario, runs'[a.run].quantity)
        /\ "eligible" \in Evidence[a.vendor]
        /\ runs'[a.run].learned
    BY <2>3, <2>4, <2>5 DEF Keeps
  <2> HIDE DEF a
  <2> QED
    BY <1>1, <1>3, <1>4, <2>1, <2>3, <2>6, RunsStayJustified
       DEF Justified, PurchasesAreJustified, Priced
<1> QED
  BY <1>1, <1>5, <1>6, OriginSteps DEF OriginRestarts

LEMMA JustifiedInvariant == Spec => [](RecoveryInv /\ Justified)
<1>1. Init => Justified
  BY DEF Init, Unused, Justified, RunIsJustified, PurchasesAreJustified
<1>2. Init => RecoveryInv
  BY RecoveryInvInit
<1>3. RecoveryInv /\ Justified /\ [Next]_vars => (RecoveryInv /\ Justified)'
  BY RecoveryInvNext, JustifiedStep
<1> QED
  BY <1>1, <1>2, <1>3, PTL DEF Spec

(* Whoever resets, whatever is lost and whatever restarts, what is bought  *)
(* is for the event and the quantity of its run, from a vendor of its      *)
(* scenario with the stock and with evidence that clears it, and with      *)
(* authorization known to be required (runProcurementLoop, loop.ts).       *)
THEOREM PurchasesAreAlwaysJustified == Spec => []PurchasesAreJustified
<1>1. Justified => PurchasesAreJustified
  BY DEF Justified
<1> QED
  BY <1>1, JustifiedInvariant, PTL
-----------------------------------------------------------------------------
(* The origin as one ledger.  What it remembers is read as a book of keys. *)
Book(S) ==
  [k \in Event \X Vendor |->
     IF \E a \in S : <<a.event, a.vendor>> = k
     THEN LET a == CHOOSE a \in S : <<a.event, a.vendor>> = k
          IN  <<a.run, a.vendor>>
     ELSE <<NoRun, NoVendor>>]

Distinct(S) == \A a, b \in S : a.event = b.event /\ a.vendor = b.vendor => a = b

(* A book of orders with different keys names the buyer of each key. *)
LEMMA BookNames ==
  ASSUME NEW S \in SUBSET OrderType, Distinct(S)
  PROVE  /\ \A a \in S : /\ <<a.event, a.vendor>> \in Event \X Vendor
                         /\ Book(S)[<<a.event, a.vendor>>] = <<a.run, a.vendor>>
         /\ \A k \in Event \X Vendor :
              (\A a \in S : <<a.event, a.vendor>> # k)
                => Book(S)[k] = <<NoRun, NoVendor>>
<1>1. ASSUME NEW a \in S
      PROVE  /\ <<a.event, a.vendor>> \in Event \X Vendor
             /\ Book(S)[<<a.event, a.vendor>>] = <<a.run, a.vendor>>
  <2> DEFINE k == <<a.event, a.vendor>>
             b == CHOOSE b \in S : <<b.event, b.vendor>> = k
  <2>1. k \in Event \X Vendor
    BY DEF OrderType
  <2>2. b \in S /\ <<b.event, b.vendor>> = k
    OBVIOUS
  <2>3. b = a
    BY <2>2 DEF Distinct
  <2>4. Book(S)[k] = <<b.run, b.vendor>>
    BY <2>1 DEF Book
  <2> QED
    BY <2>1, <2>3, <2>4
<1>2. ASSUME NEW k \in Event \X Vendor, \A a \in S : <<a.event, a.vendor>> # k
      PROVE  Book(S)[k] = <<NoRun, NoVendor>>
  BY <1>2 DEF Book
<1> QED
  BY <1>1, <1>2

(* An order under a new key, of a run that has none under another, spends. *)
LEMMA BookSpends ==
  ASSUME NEW S \in SUBSET OrderType, Distinct(S), NEW a \in OrderType,
         \A b \in S : ~(b.event = a.event /\ b.vendor = a.vendor),
         \A b \in S : b.run = a.run => b.event = a.event
  PROVE  LET k == <<a.event, a.vendor>>
             n == <<a.run, a.vendor>>
         IN  /\ k \in Event \X Vendor /\ n \in Run \X Vendor
             /\ Book(S)[k] = <<NoRun, NoVendor>>
             /\ \A other \in Event \X Vendor : Book(S)[other] # n
             /\ Book(S \union {a}) = [Book(S) EXCEPT ![k] = n]
             /\ Distinct(S \union {a})
<1> DEFINE k == <<a.event, a.vendor>>
           n == <<a.run, a.vendor>>
           T == S \union {a}
<1>1. k \in Event \X Vendor /\ n \in Run \X Vendor
  BY DEF OrderType
<1>2. Book(S)[k] = <<NoRun, NoVendor>>
  BY <1>1, BookNames
<1>3. ASSUME NEW other \in Event \X Vendor
      PROVE  Book(S)[other] # n
  <2>1. CASE \E b \in S : <<b.event, b.vendor>> = other
    <3>1. PICK b \in S : <<b.event, b.vendor>> = other
      BY <2>1
    <3>2. Book(S)[other] = <<b.run, b.vendor>>
      BY <3>1, BookNames
    <3> QED
      BY <3>2
  <2>2. CASE \A b \in S : <<b.event, b.vendor>> # other
    <3>1. Book(S)[other] = <<NoRun, NoVendor>>
      BY <2>2, BookNames
    <3>2. a.run # NoRun
      BY RunsAreNumbered DEF OrderType
    <3> QED
      BY <3>1, <3>2
  <2> QED
    BY <2>1, <2>2
<1>4. Distinct(T) /\ T \in SUBSET OrderType
  BY DEF Distinct
<1>5. ASSUME NEW other \in Event \X Vendor
      PROVE  Book(T)[other] = [Book(S) EXCEPT ![k] = n][other]
  <2>1. CASE other = k
    <3>1. Book(T)[k] = n
      BY <1>4, BookNames
    <3>2. [Book(S) EXCEPT ![k] = n][k] = n
      BY <1>1 DEF Book
    <3> QED
      BY <2>1, <3>1, <3>2
  <2>2. CASE other # k
    <3>1. [Book(S) EXCEPT ![k] = n][other] = Book(S)[other]
      BY <2>2 DEF Book
    <3>2. CASE \E b \in S : <<b.event, b.vendor>> = other
      <4>1. PICK b \in S : <<b.event, b.vendor>> = other
        BY <3>2
      <4>2. Book(S)[other] = <<b.run, b.vendor>> /\ Book(T)[other] = <<b.run, b.vendor>>
        BY <1>4, <4>1, BookNames
      <4> QED
        BY <3>1, <4>2
    <3>3. CASE \A b \in S : <<b.event, b.vendor>> # other
      <4>1. \A b \in T : <<b.event, b.vendor>> # other
        BY <2>2, <3>3
      <4>2. Book(S)[other] = <<NoRun, NoVendor>> /\ Book(T)[other] = <<NoRun, NoVendor>>
        BY <1>4, <3>3, <4>1, BookNames
      <4> QED
        BY <3>1, <4>2
    <3> QED
      BY <3>2, <3>3
  <2> QED
    BY <2>1, <2>2
<1>6. Book(T) = [Book(S) EXCEPT ![k] = n]
  <2>1. /\ Book(T) = [o \in Event \X Vendor |-> Book(T)[o]]
        /\ [Book(S) EXCEPT ![k] = n]
             = [o \in Event \X Vendor |-> [Book(S) EXCEPT ![k] = n][o]]
    BY DEF Book
  <2> QED
    BY <1>5, <2>1
<1> QED
  BY <1>1, <1>2, <1>3, <1>4, <1>6

LEMMA BookIsRead == BoughtWith = Book(orders) /\ BoughtWith' = Book(orders')
  BY DEF BoughtWith, Book

LEMMA BookForgets == Book({}) = [k \in Event \X Vendor |-> <<NoRun, NoVendor>>]
  BY DEF Book

(* A step of the control plane or of the origin, at the ledger. *)
LEMMA OriginImplements ==
  ASSUME RecoveryInv, Justified, Distinct(orders), [Next]_vars
  PROVE  [Origin!Next]_BoughtWith /\ Distinct(orders')
<1>1. TypeOK /\ orders \in SUBSET OrderType
  BY DEF RecoveryInv, TypeOK
<1>2. CASE UNCHANGED origin
  BY <1>2, BookIsRead
<1>3. CASE OriginRestarts
  BY <1>3, BookIsRead, BookForgets
     DEF OriginRestarts, Origin!Next, Origin!Forget, Distinct
<1>4. ASSUME NEW r \in Run, OriginAccepts(r)
      PROVE  Origin!Next /\ Distinct(orders')
  <2> DEFINE a == OrderOf(r)
             k == <<a.event, a.vendor>>
             n == <<a.run, a.vendor>>
  <2>1. runs[r].stage = "ordering" /\ ~KeyKnown(r) /\ orders' = orders \union {a}
    BY <1>4 DEF OriginAccepts, AtStage
  <2>2. runs[r].vendor # NoVendor
    BY <2>1 DEF RecoveryInv, RunIsSound
  <2>3. /\ a \in OrderType /\ a.run = r
        /\ a.vendor = runs[r].vendor /\ a.event = runs[r].event
    BY <1>1, <2>2, OrdersAreTyped DEF TypeOK
  <2>4. \A b \in orders : ~(b.event = a.event /\ b.vendor = a.vendor)
    BY <2>1, <2>3 DEF KeyKnown
  <2>5. \A b \in orders : b.run = a.run => b.event = a.event
    BY <1>1, <2>3 DEF Justified, PurchasesAreJustified, TypeOK
  <2> HIDE DEF a
  <2>6. /\ k \in Event \X Vendor /\ n \in Run \X Vendor
        /\ Book(orders)[k] = <<NoRun, NoVendor>>
        /\ \A other \in Event \X Vendor : Book(orders)[other] # n
        /\ Book(orders \union {a}) = [Book(orders) EXCEPT ![k] = n]
        /\ Distinct(orders \union {a})
    BY <1>1, <2>3, <2>4, <2>5, BookSpends
  <2>7. Origin!Spend(k, n)
    BY <2>1, <2>6, BookIsRead DEF Origin!Spend
  <2> QED
    BY <2>1, <2>6, <2>7 DEF Origin!Next
<1> QED
  BY <1>1, <1>2, <1>3, <1>4, OriginSteps

(* Whatever it loses and whenever either restarts, the control plane sees  *)
(* of the origin a ledger that binds each key once to one capability and   *)
(* may forget: the ledger that ProcurementOrigin implements.               *)
THEOREM OriginRefinement == Spec => BuysThroughTheLedger
<1>1. Init => Origin!Init /\ Distinct(orders)
  BY BookIsRead, BookForgets DEF Init, Origin!Init, Distinct
<1>2. RecoveryInv /\ Justified /\ Distinct(orders) /\ [Next]_vars
        => [Origin!Next]_BoughtWith /\ Distinct(orders)'
  BY OriginImplements
<1> QED
  BY <1>1, <1>2, JustifiedInvariant, PTL DEF Spec, BuysThroughTheLedger, Origin!Spec
-----------------------------------------------------------------------------
(* An operator who waits.  The store is at the live run, what it shows is  *)
(* of the present epoch, and "running" with a start time means a live run. *)
LiveRunIsAtHome ==
  \A r \in Run : Live(r) => runs[r].scenario = scenario /\ runs[r].epoch = epoch

StartIsOfLiveRun ==
  status = "running" /\ startedAt # NoRun => Live(startedAt)

Orderly ==
  /\ LiveRunIsShown /\ LiveRunIsAtHome /\ StartIsOfLiveRun
  /\ IncidentsAreTheRunsOwn /\ NothingOutlivesAReset

(* What every kind of step does to a store that is orderly. *)
LEMMA OrderlyRuns ==
  ASSUME OperatorWaits, RecoveryInv, Orderly, Kind
  PROVE  LiveRunIsShown' /\ LiveRunIsAtHome' /\ StartIsOfLiveRun'
<1>1. TypeOK /\ NoRun \notin Run
  BY RunsAreNumbered DEF RecoveryInv
<1>2. \A q \in Run : Live(q) => /\ status = "running" /\ startedAt = q
                                /\ runs[q].scenario = scenario
                                /\ runs[q].epoch = epoch
  BY DEF Orderly, LiveRunIsShown, LiveRunIsAtHome
<1>3. ASSUME \A q \in Run : ~(Live(q)'), startedAt' = NoRun \/ status' # "running"
      PROVE  LiveRunIsShown' /\ LiveRunIsAtHome' /\ StartIsOfLiveRun'
  BY <1>3 DEF LiveRunIsShown, LiveRunIsAtHome, StartIsOfLiveRun
<1>4. CASE Stays
  BY <1>4 DEF Orderly, Stays, LiveRunIsShown, LiveRunIsAtHome, StartIsOfLiveRun,
              Live
<1>5. CASE Resets
  <2>1. \A q \in Run : ~(Live(q)')
    BY <1>5 DEF Resets, OperatorMayReset, Live
  <2>2. startedAt' = NoRun
    BY <1>1, <1>5, ResetTypes DEF Resets
  <2> QED
    BY <1>3, <2>1, <2>2
<1>6. CASE Reboots
  <2>1. \A q \in Run : ~(Live(q)')
    BY <1>6 DEF Reboots, Live
  <2> QED
    BY <1>3, <1>6, <2>1 DEF Reboots
<1>7. ASSUME NEW r \in Run, Begins(r)
      PROVE  LiveRunIsShown' /\ LiveRunIsAtHome' /\ StartIsOfLiveRun'
  <2>1. status # "running"
    BY <1>7 DEF Begins, BeginsBy
  <2>2. \A q \in Run : q # r => ~(Live(q)')
    BY <1>2, <1>7, <2>1 DEF Begins, OnlyRun, Live
  <2>3. /\ Live(r)' /\ status' = "running" /\ startedAt' = r
        /\ runs'[r].scenario = scenario' /\ runs'[r].epoch = epoch'
    BY <1>7 DEF Begins, Live
  <2> QED
    BY <2>2, <2>3 DEF LiveRunIsShown, LiveRunIsAtHome, StartIsOfLiveRun
<1>8. ASSUME NEW r \in Run, Walks(r)
      PROVE  LiveRunIsShown' /\ LiveRunIsAtHome' /\ StartIsOfLiveRun'
  <2>1. Live(r) /\ Live(r)'
    BY <1>8 DEF Walks, Moves, Live
  <2>2. \A q \in Run : q # r => ~(Live(q)')
    BY <1>2, <1>8, <2>1 DEF Walks, OnlyRun, Live
  <2>3. /\ status' = "running" /\ startedAt' = r
        /\ runs'[r].scenario = scenario' /\ runs'[r].epoch = epoch'
    BY <1>2, <1>8, <2>1 DEF Walks, Keeps
  <2> QED
    BY <2>1, <2>2, <2>3 DEF LiveRunIsShown, LiveRunIsAtHome, StartIsOfLiveRun
<1>9. ASSUME NEW r \in Run, Ends(r)
      PROVE  LiveRunIsShown' /\ LiveRunIsAtHome' /\ StartIsOfLiveRun'
  <2>1. \A q \in Run : ~(Live(q)')
    BY <1>2, <1>9 DEF Ends, OnlyRun, Live
  <2> QED
    BY <1>3, <1>9, <2>1 DEF Ends
<1> QED
  BY <1>4, <1>5, <1>6, <1>7, <1>8, <1>9 DEF Kind

LEMMA OrderlyIncidents ==
  ASSUME RecoveryInv, RecoveryInv', Orderly, Kind
  PROVE  IncidentsAreTheRunsOwn'
<1> SUFFICES ASSUME NEW i \in incidents'
             PROVE  i.scenario = runs'[i.run].scenario /\ i.timedFrom = i.run
  BY DEF IncidentsAreTheRunsOwn, RecoveryInv, CreditIsEarned
<1>1. CASE i \in incidents
  <2>1. i.run \in Run /\ i.run <= begun
    BY <1>1 DEF RecoveryInv, TypeOK, IncidentType
  <2>2. runs'[i.run].scenario = runs[i.run].scenario
    BY <2>1, RunsKeep DEF Keeps
  <2> QED
    BY <1>1, <2>2 DEF Orderly, IncidentsAreTheRunsOwn
<1>2. ASSUME NEW r \in Run, r <= begun, runs[r].stage = "finishing", i = Incident(r)
      PROVE  i.scenario = runs'[i.run].scenario /\ i.timedFrom = i.run
  <2>1. startedAt = r /\ runs[r].scenario = scenario
    BY <1>2 DEF Orderly, LiveRunIsShown, LiveRunIsAtHome, Live
  <2>2. runs'[r].scenario = runs[r].scenario
    BY <1>2, RunsKeep DEF Keeps
  <2>3. i.run = r /\ i.scenario = scenario /\ i.timedFrom = startedAt
    BY <1>2, IncidentsAreTyped DEF RecoveryInv
  <2> QED
    BY <2>1, <2>2, <2>3
<1> QED
  BY <1>1, <1>2, LedgerStep DEF RecoveryInv

LEMMA OrderlyEpochs ==
  ASSUME RecoveryInv, Orderly, Kind
  PROVE  NothingOutlivesAReset'
<1>1. TypeOK
  BY DEF RecoveryInv
<1>2. /\ \A q \in log : q \in Run /\ runs[q].epoch = epoch
      /\ order # NoOrder => order.run \in Run /\ runs[order.run].epoch = epoch
  BY <1>1 DEF Orderly, NothingOutlivesAReset, TypeOK, OrderType
<1>3. ASSUME order' = NoOrder, log' = {}
      PROVE  NothingOutlivesAReset'
  BY <1>3 DEF NothingOutlivesAReset
<1>4. ASSUME NEW r \in Run, runs'[r].epoch = epoch', epoch' = epoch,
             log' \subseteq log \union {r},
             order' = order \/ order' = NoOrder \/ order'.run = r,
             \A q \in Run : q # r => runs'[q].epoch = runs[q].epoch
      PROVE  NothingOutlivesAReset'
  BY <1>2, <1>4 DEF NothingOutlivesAReset
<1>5. CASE Stays
  BY <1>5 DEF Stays, Orderly, NothingOutlivesAReset
<1>6. CASE Resets
  BY <1>1, <1>3, <1>6, ResetTypes DEF Resets
<1>7. CASE Reboots
  <2>1. \A q \in Run : runs'[q].epoch = runs[q].epoch
    BY <1>7 DEF Reboots, Keeps
  <2>2. CASE UNCHANGED <<status, scenario, inbound, order, log, epoch>>
    BY <1>2, <2>1, <2>2 DEF NothingOutlivesAReset
  <2>3. CASE \E s \in Scenario : ResetTo(s)
    BY <1>1, <1>3, <2>3, ResetTypes
  <2> QED
    BY <1>7, <2>2, <2>3, ControlPlaneAssumption DEF Reboots
<1>8. ASSUME NEW r \in Run, Begins(r)
      PROVE  NothingOutlivesAReset'
  <2>1. /\ runs'[r].epoch = epoch'
        /\ \A q \in Run : q # r => runs'[q].epoch = runs[q].epoch
    BY <1>8 DEF Begins, OnlyRun
  <2>2. CASE epoch' = epoch /\ order' = order /\ log' = log \union {r}
    BY <1>4, <2>1, <2>2
  <2>3. CASE order' = NoOrder /\ log' = {r}
    BY <2>1, <2>3 DEF NothingOutlivesAReset
  <2> QED
    BY <1>8, <2>2, <2>3 DEF Begins, BeginsOn
<1>9. ASSUME NEW r \in Run, Walks(r) \/ Ends(r)
      PROVE  NothingOutlivesAReset'
  <2>1. Live(r)
    BY <1>9 DEF Walks, Moves, Ends, Live
  <2>2. runs[r].epoch = epoch
    BY <2>1 DEF Orderly, LiveRunIsAtHome
  <2>3. /\ runs'[r].epoch = epoch' /\ epoch' = epoch
        /\ \A q \in Run : q # r => runs'[q].epoch = runs[q].epoch
    BY <1>9, <2>2 DEF Walks, Ends, OnlyRun, Keeps
  <2>4. log' \subseteq log \union {r}
    BY <1>9 DEF Walks, Ends, EndsBy
  <2>5. OrderOf(r) = NoOrder \/ OrderOf(r).run = r
    BY <1>1, OrdersAreTyped DEF TypeOK
  <2>6. order' = order \/ order' = NoOrder \/ order'.run = r
    BY <1>9, <2>5 DEF Walks, Ends, EndsBy
  <2> QED
    BY <1>4, <2>3, <2>4, <2>6
<1> QED
  BY <1>5, <1>6, <1>7, <1>8, <1>9 DEF Kind

LEMMA OrderlyStep ==
  ASSUME OperatorWaits, RecoveryInv, RecoveryInv', Orderly, [Next]_vars
  PROVE  Orderly'
<1>1. Kind
  BY Kinds DEF RecoveryInv
<1> QED
  BY <1>1, OrderlyRuns, OrderlyIncidents, OrderlyEpochs DEF Orderly

LEMMA OrderlyInit == Init => Orderly
<1> SUFFICES ASSUME Init
             PROVE  Orderly
  OBVIOUS
<1>1. \A r \in Run : ~Live(r)
  BY DEF Init, Unused, Live
<1> QED
  BY <1>1 DEF Init, Orderly, LiveRunIsShown, LiveRunIsAtHome, StartIsOfLiveRun,
              IncidentsAreTheRunsOwn, NothingOutlivesAReset

LEMMA OrderlyInvariant ==
  ASSUME OperatorWaits
  PROVE  Spec => [](RecoveryInv /\ Orderly)
<1>1. Init => RecoveryInv /\ Orderly
  BY RecoveryInvInit, OrderlyInit
<1>2. RecoveryInv /\ Orderly /\ [Next]_vars => (RecoveryInv /\ Orderly)'
  BY RecoveryInvNext, OrderlyStep
<1> QED
  BY <1>1, <1>2, PTL DEF Spec

(* The next five assume an operator who resets and switches between runs   *)
(* only, and nothing of the sender, the network and crashes.               *)

(* The live run is the one that the store shows as running.                *)
THEOREM LiveRunsAreShown ==
  ASSUME OperatorWaits
  PROVE  Spec => []LiveRunIsShown
<1>1. Orderly => LiveRunIsShown
  BY DEF Orderly
<1> QED
  BY <1>1, OrderlyInvariant, PTL

(* A second recovery is refused while one is active.                       *)
THEOREM OneRunAtATime ==
  ASSUME OperatorWaits
  PROVE  Spec => []OneLiveRun
<1>1. LiveRunIsShown => OneLiveRun
  BY DEF LiveRunIsShown, OneLiveRun
<1> QED
  BY <1>1, LiveRunsAreShown, PTL

(* An incident has the scenario, the start and the vendor of its own run   *)
(* (recordIncident, store.ts).                                             *)
THEOREM IncidentsAreOwn ==
  ASSUME OperatorWaits
  PROVE  Spec => []IncidentsAreTheRunsOwn
<1>1. Orderly => IncidentsAreTheRunsOwn
  BY DEF Orderly
<1> QED
  BY <1>1, OrderlyInvariant, PTL

(* Nothing of a run that began before a reset shows up after it.           *)
THEOREM ResetsAreFinal ==
  ASSUME OperatorWaits
  PROVE  Spec => []NothingOutlivesAReset
<1>1. Orderly => NothingOutlivesAReset
  BY DEF Orderly
<1> QED
  BY <1>1, OrderlyInvariant, PTL

(* The scenario does not move under a live run (server.ts refuses to).     *)
THEOREM ScenarioIsKept ==
  ASSUME OperatorWaits
  PROVE  Spec => ScenarioHoldsStill
<1>1. ASSUME RecoveryInv, Orderly, RecoveryInv', Orderly', [Next]_vars
      PROVE  [\A r \in Run : Live(r) /\ Live(r)' => scenario' = scenario]_vars
  <2> SUFFICES ASSUME NEW r \in Run, Live(r), Live(r)'
               PROVE  scenario' = scenario
    OBVIOUS
  <2>1. Kind /\ r <= begun
    <3>1. Kind
      BY <1>1, Kinds DEF RecoveryInv
    <3>2. r <= begun
      BY <1>1 DEF RecoveryInv, RunIsSound, TypeOK, Live, Run, NoRun
    <3> QED
      BY <3>1, <3>2
  <2>2. runs[r].scenario = scenario /\ runs'[r].scenario = scenario'
    BY <1>1 DEF Orderly, LiveRunIsAtHome
  <2>3. runs'[r].scenario = runs[r].scenario
    BY <1>1, <2>1, RunsKeep DEF Keeps
  <2> QED
    BY <2>2, <2>3
<1>2. Spec => [](RecoveryInv /\ Orderly)
  BY OrderlyInvariant
<1> QED
  BY <1>1, <1>2, PTL DEF Spec, ScenarioHoldsStill

-----------------------------------------------------------------------------
(* Whatever quantity is asked for, some candidate has it.                  *)
StockSuffices ==
  \A s \in Scenario, q \in Quantity \union {RequestedQty} : Priced(s, q) # {}

(* A run knows of the denial from its first candidate on. *)
RunIsHonest(r) ==
  /\ runs[r].stage \in {"verifying", "ordering", "accepted", "finishing"}
       => runs[r].learned
  /\ runs[r].stage = "sourcing" => runs[r].learned \/ runs[r].todo # {}

LEMMA HonestStep ==
  ASSUME StockSuffices, RecoveryInv, \A r \in Run : RunIsHonest(r),
         HistoryIsHonest, Kind
  PROVE  (\A r \in Run : RunIsHonest(r)') /\ HistoryIsHonest'
<1>1. ASSUME NEW q \in Run, runs'[q] = runs[q]
      PROVE  RunIsHonest(q)'
  BY <1>1 DEF RunIsHonest
<1>2. ASSUME NEW q \in Run, runs'[q].stage \in {"ended", "dead"}
      PROVE  RunIsHonest(q)'
  BY <1>2 DEF RunIsHonest
<1>3. ASSUME Stays \/ Resets
      PROVE  \A q \in Run : RunIsHonest(q)'
  BY <1>1, <1>3 DEF Stays, Resets
<1>4. ASSUME Reboots
      PROVE  \A q \in Run : RunIsHonest(q)'
  BY <1>1, <1>2, <1>4 DEF Reboots
<1>5. ASSUME NEW r \in Run, Begins(r)
      PROVE  \A q \in Run : RunIsHonest(q)'
  <2>1. \A q \in Run : q # r => RunIsHonest(q)'
    BY <1>1, <1>5 DEF Begins, OnlyRun
  <2>2. runs'[r].stage = "sourcing" /\ runs'[r].todo # {}
    BY <1>5, ControlPlaneAssumption DEF Begins, StockSuffices, RecoveryInv, TypeOK
  <2> QED
    BY <2>1, <2>2 DEF RunIsHonest
<1>6. ASSUME NEW r \in Run, Walks(r)
      PROVE  \A q \in Run : RunIsHonest(q)'
  <2>1. \A q \in Run : q # r => RunIsHonest(q)'
    BY <1>1, <1>6 DEF Walks, OnlyRun
  <2>2. RunIsHonest(r) /\ Moves(runs[r], runs'[r], r) /\ Keeps(runs[r], runs'[r])
    BY <1>6 DEF Walks
  <2>3. RunIsHonest(r)'
    BY <2>2 DEF RunIsHonest, Moves, Keeps
  <2> QED
    BY <2>1, <2>3
<1>7. ASSUME NEW r \in Run, Ends(r)
      PROVE  \A q \in Run : RunIsHonest(q)'
  <2>1. \A q \in Run : q # r => RunIsHonest(q)'
    BY <1>1, <1>7 DEF Ends, OnlyRun
  <2> QED
    BY <1>2, <1>7, <2>1 DEF Ends
<1>8. HistoryIsHonest'
  <2> SUFFICES ASSUME NEW i \in incidents'
               PROVE  runs'[i.run].learned
    BY DEF HistoryIsHonest
  <2>1. \A q \in Run : q <= begun /\ runs[q].learned => runs'[q].learned
    BY RunsKeep DEF Keeps
  <2>2. CASE i \in incidents
    <3>1. i.run \in Run /\ i.run <= begun
      BY <2>2 DEF RecoveryInv, TypeOK, IncidentType
    <3> QED
      BY <2>1, <2>2, <3>1 DEF HistoryIsHonest
  <2>3. ASSUME NEW r \in Run, r <= begun, runs[r].stage = "finishing", i = Incident(r)
        PROVE  runs'[i.run].learned
    BY <2>1, <2>3, IncidentsAreTyped DEF RunIsHonest, RecoveryInv
  <2> QED
    BY <2>2, <2>3, LedgerStep DEF RecoveryInv
<1> QED
  BY <1>3, <1>4, <1>5, <1>6, <1>7, <1>8 DEF Kind

(* If some candidate has whatever quantity is asked for, every recorded    *)
(* recovery has met the denial or recalled it (history, store.ts), with no *)
(* assumption on the operator, the sender, the network or crashes.         *)
THEOREM HistoryIsEarned ==
  ASSUME StockSuffices
  PROVE  Spec => []HistoryIsHonest
<1> DEFINE Inv == RecoveryInv /\ (\A r \in Run : RunIsHonest(r)) /\ HistoryIsHonest
<1>1. Init => Inv
  BY RecoveryInvInit DEF Init, Unused, RunIsHonest, HistoryIsHonest
<1>2. Inv /\ [Next]_vars => Inv'
  <2> SUFFICES ASSUME Inv, [Next]_vars
               PROVE  Inv'
    OBVIOUS
  <2>1. RecoveryInv' /\ Kind
    BY RecoveryInvNext, Kinds DEF RecoveryInv
  <2> QED
    BY <2>1, HonestStep
<1> QED
  BY <1>1, <1>2, PTL DEF Spec
-----------------------------------------------------------------------------
(* Nothing is lost or unreadable.  An order the origin has accepted is the *)
(* only one of its run, which has not gone back to another vendor.         *)
OrderIsOfItsRun(a) ==
  /\ a.run <= begun /\ a.event = runs[a.run].event
  /\ runs[a.run].stage \in {"accepted", "finishing", "ended", "dead"}
  /\ runs[a.run].stage \in {"accepted", "finishing"} => a = OrderOf(a.run)

OneOrderEach == \A a, b \in accepted : a.run = b.run => a = b

LEMMA OrdersStep ==
  ASSUME Reliable, RecoveryInv, Kind, OneOrderEach,
         \A a \in accepted : OrderIsOfItsRun(a)
  PROVE  (\A a \in accepted' : OrderIsOfItsRun(a)') /\ OneOrderEach'
<1> DEFINE Goal == (\A a \in accepted' : OrderIsOfItsRun(a)') /\ OneOrderEach'
<1>1. TypeOK /\ \A a \in accepted : a.run \in Run /\ a.run <= begun
  BY DEF RecoveryInv, TypeOK, OrderType, OrderIsOfItsRun
<1>2. /\ \A q \in Run : q <= begun => runs'[q].event = runs[q].event
      /\ \A q \in Run : q <= begun => q <= begun'
  <2>1. begun \in Int /\ begun' \in Int /\ begun <= begun'
    BY <1>1, LedgerStep DEF RecoveryInv, TypeOK, Run, NoRun
  <2> QED
    BY <2>1, RunsKeep DEF Keeps, Run
<1>3. \A q \in Run : runs'[q] = runs[q] => OrderOf(q)' = OrderOf(q)
  BY DEF OrderOf
<1>4. ASSUME NEW a \in accepted, runs'[a.run] = runs[a.run]
      PROVE  OrderIsOfItsRun(a)'
  BY <1>1, <1>2, <1>3, <1>4 DEF OrderIsOfItsRun
<1>5. ASSUME NEW a \in accepted, runs'[a.run].stage \in {"ended", "dead"}
      PROVE  OrderIsOfItsRun(a)'
  BY <1>1, <1>2, <1>5 DEF OrderIsOfItsRun
<1>6. accepted' = accepted => OneOrderEach'
  BY DEF OneOrderEach
<1>7. CASE Stays \/ Resets
  <2>1. runs' = runs /\ accepted' = accepted
    BY <1>7 DEF Stays, Resets
  <2> QED
    BY <1>4, <1>6, <2>1
<1>8. CASE Reboots
  <2>1. accepted' = accepted
    BY <1>8 DEF Reboots
  <2>2. \A q \in Run : runs'[q] = runs[q] \/ runs'[q].stage = "dead"
    BY <1>8 DEF Reboots
  <2> QED
    BY <1>1, <1>4, <1>5, <1>6, <2>1, <2>2
<1>9. ASSUME NEW r \in Run, Begins(r)
      PROVE  Goal
  <2>1. accepted' = accepted /\ \A q \in Run : q <= begun => runs'[q] = runs[q]
    BY <1>1, <1>9 DEF Begins, OnlyRun, TypeOK, Run, NoRun
  <2> QED
    BY <1>1, <1>4, <1>6, <2>1
<1>10. ASSUME NEW r \in Run, Ends(r)
       PROVE  Goal
  <2>1. /\ accepted' = accepted
        /\ \A q \in Run : runs'[q] = runs[q] \/ runs'[q].stage = "ended"
    BY <1>10 DEF Ends, OnlyRun
  <2> QED
    BY <1>1, <1>4, <1>5, <1>6, <2>1
<1>11. ASSUME NEW r \in Run, Walks(r)
       PROVE  Goal
  <2>1. /\ \A q \in Run : q # r => runs'[q] = runs[q]
        /\ Moves(runs[r], runs'[r], r) /\ Keeps(runs[r], runs'[r])
        /\ r <= begun
    BY <1>11 DEF Walks, OnlyRun
  <2>2. CASE /\ runs[r].stage = "ordering" /\ runs'[r].stage = "accepted"
             /\ runs'[r].vendor = runs[r].vendor
             /\ accepted' = accepted \union {OrderOf(r)}
    <3>1. \A a \in accepted : a.run # r
      BY <2>2 DEF OrderIsOfItsRun
    <3>2. /\ runs[r].vendor # NoVendor /\ OrderOf(r).run = r
          /\ OrderOf(r).event = runs[r].event
      BY <1>1, <2>2, OrdersAreTyped DEF RecoveryInv, RunIsSound, TypeOK
    <3>3. OrderOf(r)' = OrderOf(r)
      BY <2>1, <2>2 DEF OrderOf, Keeps
    <3>4. ASSUME NEW a \in {OrderOf(r)}
          PROVE  OrderIsOfItsRun(a)'
      BY <1>2, <2>1, <2>2, <3>2, <3>3, <3>4 DEF OrderIsOfItsRun
    <3>5. ASSUME NEW a \in accepted
          PROVE  OrderIsOfItsRun(a)'
      BY <1>1, <1>4, <2>1, <3>1
    <3>6. OneOrderEach'
      BY <2>2, <3>1, <3>2 DEF OneOrderEach
    <3> QED
      BY <2>2, <3>4, <3>5, <3>6
  <2>3. CASE /\ runs[r].stage = "accepted" /\ runs'[r].stage = "finishing"
             /\ runs'[r].vendor = runs[r].vendor /\ accepted' = accepted
    <3>1. OrderOf(r)' = OrderOf(r)
      BY <2>1, <2>3 DEF OrderOf, Keeps
    <3>2. ASSUME NEW a \in accepted, a.run = r
          PROVE  OrderIsOfItsRun(a)'
      BY <1>1, <1>2, <2>3, <3>1, <3>2 DEF OrderIsOfItsRun
    <3> QED
      BY <1>1, <1>4, <1>6, <2>1, <2>3, <3>2
  <2>4. CASE /\ runs[r].stage \in {"sourcing", "probing", "verifying", "ordering"}
             /\ accepted' = accepted
    <3>1. \A a \in accepted : a.run # r
      BY <2>4 DEF OrderIsOfItsRun
    <3> QED
      BY <1>1, <1>4, <1>6, <2>1, <2>4, <3>1
  <2> QED
    BY <2>1, <2>2, <2>3, <2>4 DEF Moves
<1> QED
  BY <1>7, <1>8, <1>9, <1>10, <1>11 DEF Kind

LEMMA RecordedStep ==
  ASSUME Reliable, RecoveryInv, Kind, PurchasesAreRecorded,
         \A a \in accepted : OrderIsOfItsRun(a),
         \A a \in accepted' : OrderIsOfItsRun(a)'
  PROVE  PurchasesAreRecorded'
<1> DEFINE Recorded(a) == \E i \in incidents : i.run = a.run /\ i.vendor = a.vendor
<1> SUFFICES ASSUME NEW a \in accepted',
                    runs'[a.run].stage = "ended", runs'[a.run].epoch = epoch'
             PROVE  Recorded(a)'
  BY DEF PurchasesAreRecorded
<1>1. TypeOK /\ \A b \in accepted : b.run \in Run /\ b.run <= begun
  BY DEF RecoveryInv, TypeOK, OrderType, OrderIsOfItsRun
<1>2. ASSUME a \in accepted, runs'[a.run] = runs[a.run], epoch' = epoch,
             incidents \subseteq incidents'
      PROVE  Recorded(a)'
  BY <1>2 DEF PurchasesAreRecorded
<1>3. ASSUME a \in accepted, runs'[a.run].epoch = runs[a.run].epoch,
             epoch' = epoch + 1
      PROVE  FALSE
  <2>1. a.run \in Run /\ a.run <= begun /\ runs[a.run] \in RunType
    BY <1>1, <1>3 DEF TypeOK
  <2>2. runs[a.run].epoch <= epoch
    BY <2>1 DEF RecoveryInv, RunIsSound
  <2>3. runs[a.run].epoch \in Nat /\ epoch \in Nat
    BY <1>1, <2>1, RunFields DEF TypeOK
  <2>4. runs[a.run].epoch = epoch + 1
    BY <1>3
  <2> QED
    BY <2>2, <2>3, <2>4
<1>4. CASE Stays
  BY <1>2, <1>4 DEF Stays
<1>5. CASE Resets
  BY <1>1, <1>3, <1>5, ResetTypes DEF Resets
<1>6. CASE Reboots
  <2>1. a \in accepted /\ a.run \in Run
    BY <1>1, <1>6 DEF Reboots
  <2>2. runs'[a.run] = runs[a.run]
    BY <1>6, <2>1 DEF Reboots
  <2>3. CASE epoch' = epoch
    BY <1>2, <1>6, <2>1, <2>2, <2>3 DEF Reboots
  <2>4. CASE epoch' = epoch + 1
    BY <1>3, <2>1, <2>2, <2>4
  <2> QED
    BY <1>1, <1>6, <2>3, <2>4, ResetTypes, ControlPlaneAssumption DEF Reboots
<1>7. ASSUME NEW r \in Run, Begins(r)
      PROVE  Recorded(a)'
  <2>1. a \in accepted /\ a.run \in Run /\ a.run <= begun
    BY <1>1, <1>7 DEF Begins
  <2>2. runs'[a.run] = runs[a.run] /\ incidents' = incidents
    BY <1>1, <1>7, <2>1 DEF Begins, OnlyRun, TypeOK, Run, NoRun
  <2>3. epoch' \in {epoch, epoch + 1}
    BY <1>7 DEF Begins, BeginsOn
  <2> QED
    BY <1>2, <1>3, <2>1, <2>2, <2>3
<1>8. ASSUME NEW r \in Run, Walks(r)
      PROVE  Recorded(a)'
  <2>1. a.run \in Run /\ a.run # r
    <3>1. runs'[r].stage # "ended"
      BY <1>8 DEF Walks, Moves
    <3>2. a.run \in Run
      BY <1>1, <1>8, AcceptedIsTyped DEF RecoveryInv, OrderType
    <3> QED
      BY <3>1, <3>2
  <2>2. a \in accepted
    BY <1>1, <1>8, <2>1, AcceptedIsTyped, OrdersAreTyped, NoOrderAssumption
       DEF RecoveryInv, TypeOK
  <2> QED
    BY <1>2, <1>8, <2>1, <2>2 DEF Walks, OnlyRun
<1>9. ASSUME NEW r \in Run, Ends(r)
      PROVE  Recorded(a)'
  <2>1. a \in accepted /\ a.run \in Run /\ epoch' = epoch
    BY <1>1, <1>9 DEF Ends
  <2>2. CASE a.run # r
    BY <1>2, <1>9, <2>1, <2>2 DEF Ends, EndsBy, OnlyRun
  <2>3. CASE a.run = r
    <3>1. runs[r].stage = "finishing" /\ Incident(r) \in incidents'
      BY <1>9 DEF Ends, EndsBy
    <3>2. a = OrderOf(r)
      BY <2>1, <2>3, <3>1 DEF OrderIsOfItsRun
    <3>3. a \in OrderType
      BY <2>1 DEF RecoveryInv, TypeOK
    <3>4. a.vendor = runs[r].vendor
      BY <3>2, <3>3, OrdersAreTyped, NoOrderAssumption DEF RecoveryInv, TypeOK
    <3>5. Incident(r).run = r /\ Incident(r).vendor = runs[r].vendor
      BY <1>1, IncidentsAreTyped
    <3> QED
      BY <2>3, <3>1, <3>4, <3>5
  <2> QED
    BY <2>2, <2>3
<1> QED
  BY <1>4, <1>5, <1>6, <1>7, <1>8, <1>9 DEF Kind

(* The events of the runs are distinct if the sender delivers each once. *)
EventsAreOwn ==
  /\ \A q \in 1 .. begun : runs[q].event = q \/ runs[q].event \in WebhookEvent
  /\ \A p, q \in 1 .. begun : runs[p].event = runs[q].event => p = q

LEMMA EventsStep ==
  ASSUME SenderOnce, RecoveryInv, Kind, EventsAreOwn
  PROVE  EventsAreOwn'
<1>1. TypeOK /\ begun \in Nat /\ \A q \in 1 .. begun : q \in Run /\ q <= begun
  BY RunsAreNumbered DEF RecoveryInv, TypeOK, Run, NoRun
<1>2. \A q \in 1 .. begun : runs'[q].event = runs[q].event
  BY <1>1, RunsKeep DEF Keeps
<1>3. CASE begun' = begun
  BY <1>2, <1>3 DEF EventsAreOwn
<1>4. ASSUME NEW r \in Run, Begins(r)
      PROVE  EventsAreOwn'
  <2>1. begun' = begun + 1 /\ r = begun + 1
    BY <1>4 DEF Begins
  <2>2. \A q \in 1 .. begun' : q \in 1 .. begun \/ q = r
    BY <1>1, <2>1
  <2>3. \/ runs'[r].event = r
        \/ /\ runs'[r].event \in WebhookEvent
           /\ \A q \in 1 .. begun : runs[q].event # runs'[r].event
    BY <1>4 DEF Begins, BeginsBy
  <2>4. \A q \in 1 .. begun : q # r /\ q \in Nat /\ r \in Nat
    BY <1>1, <2>1
  <2>5. r \notin WebhookEvent
    BY <1>1, <2>1, ControlPlaneAssumption
  <2>6. \A q \in 1 .. begun : runs'[q].event # runs'[r].event
    BY <1>2, <2>3, <2>4, <2>5 DEF EventsAreOwn
  <2>7. \A q \in 1 .. begun' : runs'[q].event = q \/ runs'[q].event \in WebhookEvent
    BY <1>2, <2>2, <2>3 DEF EventsAreOwn
  <2>8. \A p, q \in 1 .. begun' : runs'[p].event = runs'[q].event => p = q
    BY <1>2, <2>2, <2>6 DEF EventsAreOwn
  <2> QED
    BY <2>7, <2>8 DEF EventsAreOwn
<1>5. begun' = begun \/ \E r \in Run : Begins(r)
  BY DEF Kind, Stays, Resets, Reboots, Walks, Ends
<1> QED
  BY <1>3, <1>4, <1>5

Delivered ==
  /\ RecoveryInv /\ OneOrderEach /\ PurchasesAreRecorded
  /\ \A a \in accepted : OrderIsOfItsRun(a)

LEMMA DeliveredInvariant ==
  ASSUME Reliable
  PROVE  Spec => []Delivered
<1>1. Init => Delivered
  BY RecoveryInvInit DEF Init, Delivered, OneOrderEach, PurchasesAreRecorded
<1>2. Delivered /\ [Next]_vars => Delivered'
  <2> SUFFICES ASSUME Delivered, [Next]_vars
               PROVE  Delivered'
    OBVIOUS
  <2>1. RecoveryInv /\ RecoveryInv' /\ Kind
    BY RecoveryInvNext, Kinds DEF Delivered, RecoveryInv
  <2>2. (\A a \in accepted' : OrderIsOfItsRun(a)') /\ OneOrderEach'
    BY <2>1, OrdersStep DEF Delivered
  <2>3. PurchasesAreRecorded'
    BY <2>1, <2>2, RecordedStep DEF Delivered
  <2> QED
    BY <2>1, <2>2, <2>3 DEF Delivered
<1> QED
  BY <1>1, <1>2, PTL DEF Spec

(* If no run throws and no answer is lost or unreadable, the ledger names  *)
(* every purchase of a run that has ended, whatever the operator does      *)
(* meanwhile and wherever the process crashes.                             *)
THEOREM NoHiddenPurchase ==
  ASSUME Reliable
  PROVE  Spec => []PurchasesAreRecorded
<1>1. Delivered => PurchasesAreRecorded
  BY DEF Delivered
<1> QED
  BY <1>1, DeliveredInvariant, PTL

(* If moreover the sender delivers an event once, a stockout is bought     *)
(* once: two accepted orders never stem from one event.                    *)
THEOREM StockoutBuysOnce ==
  ASSUME Reliable, SenderOnce
  PROVE  Spec => []EventBuysOnce
<1>1. Init => EventsAreOwn
  BY DEF Init, EventsAreOwn
<1>2. RecoveryInv /\ EventsAreOwn /\ [Next]_vars => EventsAreOwn'
  BY EventsStep, Kinds DEF RecoveryInv
<1>3. Delivered /\ EventsAreOwn => EventBuysOnce
  <2> SUFFICES ASSUME Delivered, EventsAreOwn,
                      NEW a \in accepted, NEW b \in accepted, a.event = b.event
               PROVE  a = b
    BY DEF EventBuysOnce
  <2>1. /\ a.run \in 1 .. begun /\ b.run \in 1 .. begun
        /\ a.event = runs[a.run].event /\ b.event = runs[b.run].event
    BY DEF Delivered, OrderIsOfItsRun, RecoveryInv, TypeOK, OrderType, Run, NoRun
  <2>2. a.run = b.run
    BY <2>1 DEF EventsAreOwn
  <2> QED
    BY <2>2 DEF Delivered, OneOrderEach
<1>4. Delivered => RecoveryInv
  BY DEF Delivered
<1> QED
  BY <1>1, <1>2, <1>3, <1>4, DeliveredInvariant, PTL DEF Spec
-----------------------------------------------------------------------------
(* The refinement.  A step of the control plane begins, concludes or       *)
(* abandons the recovery that the store shows, forgets the ledger between  *)
(* two, or is a stutter of the lifecycle.                                  *)
LEMMA LifecycleStep ==
  ASSUME OperatorWaits, RecoveryInv, Orderly, RecoveryInv', Orderly', Kind
  PROVE  [Lifecycle!Next]_<<IF status = "running" THEN startedAt ELSE NoRun,
                            {i.run : i \in incidents}>>
<1> DEFINE active == IF status = "running" THEN startedAt ELSE NoRun
           ledger == {i.run : i \in incidents}
<1>1. TypeOK /\ NoRun \notin Run
  BY RunsAreNumbered DEF RecoveryInv
<1>2. /\ \A r \in Run : Live(r) => active = r
      /\ active # NoRun => active \in Run /\ Live(active)
  BY <1>1 DEF Orderly, LiveRunIsShown, StartIsOfLiveRun, TypeOK
<1>3. CASE Stays
  BY <1>3 DEF Stays
<1>4. CASE Resets
  <2>1. active = NoRun
    BY <1>2, <1>4 DEF Resets, OperatorMayReset
  <2>2. active' = NoRun /\ ledger' \in {ledger, {}}
    BY <1>1, <1>4, ResetTypes DEF Resets
  <2> QED
    BY <2>1, <2>2 DEF Lifecycle!Next, Lifecycle!Forget
<1>5. CASE Reboots
  <2>1. active' = NoRun
    BY <1>5 DEF Reboots
  <2>2. CASE incidents' = incidents
    BY <2>1, <2>2 DEF Lifecycle!Next, Lifecycle!Abandon
  <2>3. ASSUME NEW r \in Run, runs[r].stage = "finishing",
               incidents' = incidents \union {Incident(r)}
        PROVE  Lifecycle!Conclude
    <3>1. active = r
      BY <1>2, <2>3 DEF Live
    <3>2. ledger' = ledger \union {r}
      BY <1>1, <2>3, IncidentsAreTyped
    <3> QED
      BY <1>1, <2>1, <3>1, <3>2 DEF Lifecycle!Conclude
  <2> QED
    BY <1>5, <2>2, <2>3 DEF Reboots, Lifecycle!Next
<1>6. ASSUME NEW r \in Run, Begins(r)
      PROVE  Lifecycle!Begin
  <2>1. active = NoRun
    BY <1>6 DEF Begins, BeginsBy
  <2>2. active' = r /\ ledger' = ledger
    BY <1>6 DEF Begins
  <2>3. r \notin ledger
    BY <1>1, <1>6 DEF Begins, RecoveryInv, TypeOK, Run, NoRun
  <2> QED
    BY <2>1, <2>2, <2>3 DEF Lifecycle!Begin
<1>7. ASSUME NEW r \in Run, Walks(r)
      PROVE  active' = active /\ ledger' = ledger
  BY <1>7 DEF Walks
<1>8. ASSUME NEW r \in Run, Ends(r)
      PROVE  Lifecycle!Next
  <2>1. active = r
    BY <1>2, <1>8 DEF Ends
  <2>2. active' = NoRun
    BY <1>8 DEF Ends
  <2>3. CASE incidents' = incidents
    BY <1>1, <2>1, <2>2, <2>3 DEF Lifecycle!Next, Lifecycle!Abandon
  <2>4. CASE incidents' = incidents \union {Incident(r)}
    <3>1. ledger' = ledger \union {r}
      BY <1>1, <2>4, IncidentsAreTyped
    <3> QED
      BY <1>1, <2>1, <2>2, <3>1 DEF Lifecycle!Next, Lifecycle!Conclude
  <2> QED
    BY <1>8, <2>3, <2>4 DEF Ends, EndsBy
<1> QED
  BY <1>3, <1>4, <1>5, <1>6, <1>7, <1>8 DEF Kind, Lifecycle!Next

(* With an operator who waits, the control plane implements the lifecycle: *)
(* one recovery at a time, each put on record by itself and once.          *)
THEOREM LifecycleRefinement ==
  ASSUME OperatorWaits
  PROVE  Spec => ImplementsLifecycle
<1>1. Init => Lifecycle!Init
  BY DEF Init, Lifecycle!Init
<1>2. ASSUME RecoveryInv, Orderly, RecoveryInv', Orderly', [Next]_vars
      PROVE  [Lifecycle!Next]_<<IF status = "running" THEN startedAt ELSE NoRun,
                                {i.run : i \in incidents}>>
  BY <1>2, Kinds, LifecycleStep DEF RecoveryInv
<1>3. Spec => [](RecoveryInv /\ Orderly)
  BY OrderlyInvariant
<1> QED
  BY <1>1, <1>2, <1>3, PTL DEF Spec, ImplementsLifecycle, Lifecycle!Spec
-----------------------------------------------------------------------------
(* How far a run is from its end: the stages ahead of it, and five for     *)
(* each candidate it has not tried.                                        *)
Ahead == [sourcing |-> 2, probing |-> 6, verifying |-> 5, ordering |-> 4,
          accepted |-> 3, finishing |-> 1]

Remaining(run) ==
  IF run.stage \in {"none", "ended", "dead"} THEN 0
  ELSE 5 * Cardinality(run.todo) + Ahead[run.stage]

(* A run only ever gets closer to its end, and begins no farther from it   *)
(* than its scenario has candidates.                                       *)
RunsRunDown ==
  [][\A r \in Run :
       /\ r <= begun /\ runs'[r] # runs[r]
            => Remaining(runs'[r]) < Remaining(runs[r])
       /\ r > begun /\ r <= begun'
            => Remaining(runs'[r])
                 <= 5 * Cardinality(Candidates[runs'[r].scenario]) + 2]_vars

LEMMA CandidatesAreFinite ==
  ASSUME IsFiniteSet(Vendor), NEW S \in SUBSET Vendor, NEW T \in SUBSET S
  PROVE  /\ IsFiniteSet(S) /\ Cardinality(S) \in Nat /\ Cardinality(T) \in Nat
         /\ Cardinality(T) <= Cardinality(S)
         /\ \A v \in S : T = S \ {v} => Cardinality(T) = Cardinality(S) - 1
<1>1. IsFiniteSet(S) /\ IsFiniteSet(T)
  BY FS_Subset
<1> QED
  BY <1>1, FS_Subset, FS_CardinalityType, FS_RemoveElement

LEMMA StepGetsCloser ==
  ASSUME IsFiniteSet(Vendor), RecoveryInv, Kind, NEW r \in Run
  PROVE  /\ r <= begun /\ runs'[r] # runs[r]
              => Remaining(runs'[r]) < Remaining(runs[r])
         /\ r > begun /\ r <= begun'
              => Remaining(runs'[r])
                   <= 5 * Cardinality(Candidates[runs'[r].scenario]) + 2
<1> DEFINE x == runs[r]
           y == runs'[r]
<1>1. TypeOK /\ begun \in Int /\ r \in Int /\ x.todo \in SUBSET Vendor
  BY RunFields DEF RecoveryInv, TypeOK, Run, NoRun
<1>2. Cardinality(x.todo) \in Nat
  BY <1>1, CandidatesAreFinite
<1>3. CASE Begins(r)
  <2>1. y.scenario \in Scenario /\ y.stage = "sourcing"
        /\ y.todo = Priced(y.scenario, y.quantity) /\ r > begun
    BY <1>1, <1>3, ControlPlaneAssumption DEF Begins, TypeOK
  <2>2. y.todo \in SUBSET Candidates[y.scenario]
        /\ Candidates[y.scenario] \in SUBSET Vendor
    BY <2>1, ControlPlaneAssumption DEF Priced
  <2>3. /\ Cardinality(y.todo) \in Nat /\ Cardinality(Candidates[y.scenario]) \in Nat
        /\ Cardinality(y.todo) <= Cardinality(Candidates[y.scenario])
    BY <2>2, CandidatesAreFinite
  <2>4. Remaining(y) = 5 * Cardinality(y.todo) + 2
    BY <2>1 DEF Remaining, Ahead
  <2> QED
    BY <1>1, <2>1, <2>3, <2>4
<1>4. CASE Walks(r)
  <2>1. Moves(x, y, r) /\ Chooses(x, y) /\ y.todo \in SUBSET x.todo /\ begun' = begun
    BY <1>4 DEF Walks, Keeps
  <2>2. Cardinality(y.todo) \in Nat /\ Cardinality(y.todo) <= Cardinality(x.todo)
    BY <1>1, <2>1, CandidatesAreFinite
  <2>3. CASE x.stage = "sourcing" /\ y.stage \in {"probing", "verifying"}
    <3>1. Cardinality(y.todo) = Cardinality(x.todo) - 1
      BY <1>1, <2>1, <2>3, CandidatesAreFinite DEF Chooses
    <3> QED
      BY <1>1, <1>2, <2>1, <2>2, <2>3, <3>1 DEF Remaining, Ahead
  <2>4. CASE ~(x.stage = "sourcing" /\ y.stage \in {"probing", "verifying"})
    <3>1. /\ x.stage \in DOMAIN Ahead /\ y.stage \in DOMAIN Ahead
          /\ Ahead[y.stage] < Ahead[x.stage]
          /\ Ahead[y.stage] \in Nat /\ Ahead[x.stage] \in Nat
      BY <2>1, <2>4 DEF Moves, Ahead
    <3>2. /\ Remaining(x) = 5 * Cardinality(x.todo) + Ahead[x.stage]
          /\ Remaining(y) = 5 * Cardinality(y.todo) + Ahead[y.stage]
      BY <3>1 DEF Remaining, Ahead
    <3> QED
      BY <1>1, <1>2, <2>1, <2>2, <3>1, <3>2
  <2> QED
    BY <2>3, <2>4
<1>5. CASE Live(r) /\ y.stage \in {"ended", "dead"} /\ begun' = begun
  <2>1. x.stage \in {"sourcing", "probing", "verifying", "ordering", "accepted",
                    "finishing"}
    BY <1>1, <1>5, RunFields DEF TypeOK, Live, Stage
  <2>2. Ahead[x.stage] \in Nat /\ Ahead[x.stage] > 0
    BY <2>1 DEF Ahead
  <2>3. Remaining(x) = 5 * Cardinality(x.todo) + Ahead[x.stage] /\ Remaining(y) = 0
    BY <1>5, <2>1 DEF Remaining
  <2> QED
    BY <1>1, <1>2, <1>5, <2>2, <2>3
<1>6. CASE y = x /\ (r > begun => ~(r <= begun'))
  BY <1>6
<1>7. ASSUME NEW q \in Run, q # r, Begins(q) \/ Walks(q) \/ Ends(q)
      PROVE  y = x /\ (r > begun => ~(r <= begun'))
  BY <1>1, <1>7 DEF Begins, Walks, Ends, OnlyRun
<1>8. CASE Stays \/ Resets \/ Reboots \/ Ends(r)
  <2>1. \/ Live(r) /\ y.stage \in {"ended", "dead"} /\ begun' = begun
        \/ y = x /\ begun' = begun
    BY <1>8 DEF Stays, Resets, Reboots, Ends
  <2> QED
    BY <1>1, <1>5, <1>6, <2>1
<1> QED
  BY <1>3, <1>4, <1>6, <1>7, <1>8 DEF Kind

(* A run goes through its candidates once and ends, however often it falls *)
(* back from a verdict, a refusal or an unreadable answer                  *)
(* (runProcurementLoop): what EveryRunEnds leaves to fairness is that it   *)
(* is scheduled.                                                           *)
THEOREM RunsGetCloser ==
  ASSUME IsFiniteSet(Vendor)
  PROVE  Spec => RunsRunDown
<1>1. RecoveryInv /\ [Next]_vars
        => \A r \in Run :
             /\ r <= begun /\ runs'[r] # runs[r]
                  => Remaining(runs'[r]) < Remaining(runs[r])
             /\ r > begun /\ r <= begun'
                  => Remaining(runs'[r])
                       <= 5 * Cardinality(Candidates[runs'[r].scenario]) + 2
  BY Kinds, StepGetsCloser DEF RecoveryInv
<1> QED
  BY <1>1, RecoveryInvariant, PTL DEF Spec, RunsRunDown
-----------------------------------------------------------------------------
(* A live run has begun; while it has candidates, one of them comes first; *)
(* and the vendor that it deals with is a candidate that can be judged.    *)
RunCanGoOn(r) ==
  LET run == runs[r]
  IN  /\ r <= begun
      /\ run.stage = "sourcing" /\ run.todo # {} =>
           \E v \in run.todo : \A w \in run.todo : Precedes(run, v, w)
      /\ run.stage \in {"probing", "verifying", "ordering", "accepted"} =>
           /\ run.vendor \in Candidates[run.scenario]
           /\ Evidence[run.vendor] # {}

LiveRunsCanGoOn == \A r \in Run : Live(r) => RunCanGoOn(r)

LEMMA CheapestVendor ==
  ASSUME NEW S \in SUBSET Vendor, S # {}
  PROVE  \E v \in S : \A w \in S : Price[v] <= Price[w]
<1> DEFINE prices == {Price[v] : v \in S}
<1>1. prices \subseteq Nat /\ prices # {}
  BY ControlPlaneAssumption
<1>2. PICK p \in prices : \A q \in prices : ~ (<<q, p>> \in OpToRel(<, Nat))
  <2> HIDE DEF prices
  <2> QED
    BY <1>1, NatLessThanWellFounded, WFMin
<1>3. \A q \in prices : ~ (q < p)
  BY <1>1, <1>2 DEF OpToRel
<1>4. PICK v \in S : Price[v] = p
  OBVIOUS
<1>5. ASSUME NEW w \in S
      PROVE  Price[v] <= Price[w]
  <2>1. Price[w] \in prices /\ Price[w] \in Nat /\ Price[v] \in Nat
    BY <1>1
  <2> HIDE DEF prices
  <2> QED
    BY <1>3, <1>4, <2>1
<1> QED
  BY <1>5

(* Proven vendors come first, and of each group the cheapest.              *)
LEMMA NextCandidate ==
  ASSUME NEW run, run.todo \in SUBSET Vendor, run.todo # {}
  PROVE  \E v \in run.todo : \A w \in run.todo : Precedes(run, v, w)
<1> DEFINE known == run.todo \intersect run.proven
<1>1. CASE known # {}
  <2>1. PICK v \in known : \A w \in known : Price[v] <= Price[w]
    BY <1>1, CheapestVendor
  <2> QED
    BY <2>1 DEF Precedes
<1>2. CASE known = {}
  <2>1. PICK v \in run.todo : \A w \in run.todo : Price[v] <= Price[w]
    BY CheapestVendor
  <2> QED
    BY <1>2, <2>1 DEF Precedes
<1> QED
  BY <1>1, <1>2

(* No run waits for a candidate that is not there, or deals with a vendor  *)
(* that its scenario does not have (runProcurementLoop), whatever happens  *)
(* around it: together with RunsGetCloser, all that EveryRunEnds needs of  *)
(* fairness is that a run that can go on does.                             *)
THEOREM NoRunIsStuck == Spec => []LiveRunsCanGoOn
<1>1. RecoveryInv /\ Justified => LiveRunsCanGoOn
  <2> SUFFICES ASSUME RecoveryInv, Justified, NEW r \in Run, Live(r)
               PROVE  RunCanGoOn(r)
    BY DEF LiveRunsCanGoOn
  <2>1. RunIsSound(r) /\ RunIsJustified(r) /\ runs[r].todo \in SUBSET Vendor
        /\ runs[r].scenario \in Scenario /\ begun \in Int
    <3>1. TypeOK /\ RunIsSound(r) /\ RunIsJustified(r)
      BY DEF RecoveryInv, Justified
    <3>2. runs[r] \in RunType
      BY <3>1 DEF TypeOK
    <3>3. runs[r].todo \in SUBSET Vendor /\ runs[r].scenario \in Scenario
      BY <3>2 DEF RunType
    <3> QED
      BY <3>1, <3>3 DEF TypeOK, Run, NoRun
  <2>2. r <= begun
    BY <2>1 DEF RunIsSound, Live, Run
  <2>3. runs[r].todo # {} =>
          \E v \in runs[r].todo : \A w \in runs[r].todo : Precedes(runs[r], v, w)
    BY <2>1, NextCandidate
  <2>4. runs[r].stage \in {"probing", "verifying", "ordering", "accepted"} =>
          /\ runs[r].vendor \in Candidates[runs[r].scenario]
          /\ Evidence[runs[r].vendor] # {}
    BY <2>1, ControlPlaneAssumption DEF RunIsJustified, Priced
  <2> QED
    BY <2>2, <2>3, <2>4 DEF RunCanGoOn
<1> QED
  BY <1>1, JustifiedInvariant, PTL
-----------------------------------------------------------------------------
(* The bound on the runs is none: there is one left for each request that  *)
(* can still be made, and for the monitor on an idle store.                *)
RunsSuffice ==
  requests < MaxRequests \/ status = "idle" => begun + 1 \in Run

OneOrNone(b) == IF b THEN 1 ELSE 0

Counted ==
  begun + OneOrNone(status = "idle") + OneOrNone(switching)
    <= requests + crashes + 1

LEMMA CountStep ==
  ASSUME TypeOK, Counted, [Next]_vars
  PROVE  Counted'
<1> USE DEF Counted, OneOrNone
<1>1. /\ begun \in Int /\ requests \in Int /\ crashes \in Int
      /\ switching \in BOOLEAN
  BY DEF TypeOK, Run, NoRun
<1>2. ASSUME NEW hard \in BOOLEAN, Reset(hard)
      PROVE  Counted'
  BY <1>1, <1>2 DEF Reset, ResetTo, Request
<1>3. CASE CheckSwitch
  BY <1>1, <1>3 DEF CheckSwitch, Request, shown
<1>4. ASSUME NEW s \in Scenario, Switch(s)
      PROVE  Counted'
  BY <1>1, <1>4 DEF Switch, ResetTo, budget
<1>5. CASE RefuseSwitch
  BY <1>1, <1>5 DEF RefuseSwitch, shown, budget
<1>6. CASE Consume
  BY <1>1, <1>6 DEF Consume, budget
<1>7. ASSUME NEW r \in Run, begun' = r, r = begun + 1, status' = "running",
             switching' = switching, crashes' = crashes,
             \/ requests' = requests + 1
             \/ requests' = requests /\ status = "idle"
      PROVE  Counted'
  BY <1>1, <1>7
<1>8. ASSUME NEW r \in Run,
             \/ RunDemo(r) \/ ClientIncident(r) \/ MonitorTick(r)
             \/ \E e \in WebhookEvent, q \in Quantity, n \in 0 .. Threshold :
                  Webhook(r, e, q, n)
      PROVE  Counted'
  BY <1>7, <1>8 DEF RunDemo, runDemo, ClientIncident, Webhook, MonitorTick,
     StockoutDetected, Request, Begin
<1>9. ASSUME NEW r \in Run, Loop(r)
      PROVE  Counted'
  <2>1. UNCHANGED <<begun, switching, requests, crashes>>
        /\ (status' = status \/ status' \in {"complete", "failed"})
    BY <1>9 DEF Loop, Source, Exhaust, ProbeDenied, Verify, OriginAccepts,
       OriginRefuses, Ordered, AnswerGarbled, Complete, Throw, RunStep, Outcome,
       shown, budget
  <2> QED
    BY <1>1, <2>1
<1>10. CASE Crashes
  <2>1. /\ crashes' = crashes + 1 /\ requests' = requests /\ begun' = begun
        /\ switching' = FALSE
    BY <1>10 DEF Crashes, Crash, CrashInComplete, Reboot
  <2> QED
    BY <1>1, <2>1
<1>11. CASE OriginRestarts \/ UNCHANGED vars
  BY <1>1, <1>11 DEF OriginRestarts, vars, shown, budget
<1> QED
  BY <1>2, <1>3, <1>4, <1>5, <1>6, <1>8, <1>9, <1>10, <1>11
     DEF Next, Handlers, Monitor

(* No request, and no stock that the monitor finds low (checkInventoryOnce,*)
(* monitor.ts), goes unanswered because the model has run out of runs: what*)
(* is said of a trigger does not hold for lack of one.                     *)
THEOREM NoTriggerIsLost == Spec => []RunsSuffice
<1>1. Init => Counted
  BY DEF Init, Counted, OneOrNone
<1>2. RecoveryInv /\ Counted /\ [Next]_vars => Counted'
  BY CountStep DEF RecoveryInv
<1>3. RecoveryInv /\ Counted => RunsSuffice
  BY ControlPlaneAssumption
     DEF RecoveryInv, TypeOK, Counted, OneOrNone, RunsSuffice, MaxRuns, Run, NoRun
<1> QED
  BY <1>1, <1>2, <1>3, RecoveryInvariant, PTL DEF Spec
-----------------------------------------------------------------------------
(* The store as its client sees it, whatever the environment does.  An     *)
(* order is for something, so what is inbound tells an order from none.    *)
Asked == \A r \in Run : r <= begun => runs[r].quantity # 0

LEMMA AskedStep ==
  ASSUME RecoveryInv, Asked, Kind
  PROVE  Asked'
<1> SUFFICES ASSUME NEW q \in Run, q <= begun'
             PROVE  runs'[q].quantity # 0
  BY DEF Asked
<1>1. begun \in Nat /\ q \in Int
  BY DEF RecoveryInv, TypeOK, Run, NoRun
<1>2. CASE q <= begun
  BY <1>2, RunsKeep DEF Asked, Keeps
<1>3. CASE Begins(q)
  BY <1>3, ControlPlaneAssumption DEF Begins
<1>4. q <= begun \/ Begins(q)
  <2>1. begun' = begun \/ \E r \in Run : Begins(r)
    BY DEF Kind, Stays, Resets, Reboots, Walks, Ends
  <2>2. ASSUME NEW r \in Run, Begins(r), ~(q <= begun)
        PROVE  r = q
    BY <1>1, <2>2 DEF Begins
  <2> QED
    BY <2>1, <2>2
<1> QED
  BY <1>2, <1>3, <1>4

LiveRuns == {r \in Run : Live(r)}

(* A run that begins is one more that is live, and one that ends one less. *)
LEMMA LiveRunsStep ==
  ASSUME RecoveryInv, Kind
  PROVE  /\ Cardinality(LiveRuns) \in Nat
         /\ Stays \/ Resets => LiveRuns' = LiveRuns
         /\ Reboots => Cardinality(LiveRuns)' = 0
         /\ \A r \in Run :
              /\ Walks(r) => LiveRuns' = LiveRuns
              /\ Begins(r) => Cardinality(LiveRuns)' = Cardinality(LiveRuns) + 1
              /\ Ends(r) => /\ Cardinality(LiveRuns) > 0
                            /\ Cardinality(LiveRuns)' = Cardinality(LiveRuns) - 1
<1>1. IsFiniteSet(LiveRuns) /\ Cardinality(LiveRuns) \in Nat
  <2>1. IsFiniteSet(Run)
    BY RunsAreNumbered, FS_Interval DEF Run
  <2>2. LiveRuns \in SUBSET Run
    BY DEF LiveRuns
  <2>3. IsFiniteSet(LiveRuns)
    BY <2>1, <2>2, FS_Subset
  <2> QED
    BY <2>3, FS_CardinalityType
<1>2. ASSUME Stays \/ Resets
      PROVE  LiveRuns' = LiveRuns
  <2>1. runs' = runs
    BY <1>2 DEF Stays, Resets
  <2> QED
    BY <2>1 DEF LiveRuns, Live
<1>3. ASSUME Reboots
      PROVE  Cardinality(LiveRuns)' = 0
  <2>1. \A r \in Run : ~(Live(r)')
    BY <1>3 DEF Reboots, Live
  <2>2. LiveRuns' = {}
    BY <2>1 DEF LiveRuns
  <2> QED
    BY <2>2, FS_EmptySet
<1>4. ASSUME NEW r \in Run, OnlyRun(r)
      PROVE  \A q \in Run : q # r => (Live(q)' <=> Live(q))
  BY <1>4 DEF OnlyRun, Live
<1>5. ASSUME NEW r \in Run, Walks(r)
      PROVE  LiveRuns' = LiveRuns
  <2>1. Live(r) /\ Live(r)'
    BY <1>5 DEF Walks, Moves, Live
  <2>2. \A q \in Run : Live(q)' <=> Live(q)
    BY <1>4, <1>5, <2>1 DEF Walks
  <2> QED
    BY <2>2 DEF LiveRuns
<1>6. ASSUME NEW r \in Run, Begins(r)
      PROVE  Cardinality(LiveRuns)' = Cardinality(LiveRuns) + 1
  <2>1. ~Live(r) /\ Live(r)'
    BY <1>6 DEF Begins, Live, RecoveryInv, RunIsSound, TypeOK, Run, NoRun
  <2>2. LiveRuns' = LiveRuns \union {r} /\ r \notin LiveRuns
    BY <1>4, <1>6, <2>1 DEF Begins, LiveRuns
  <2> QED
    BY <1>1, <2>2, FS_AddElement
<1>7. ASSUME NEW r \in Run, Ends(r)
      PROVE  /\ Cardinality(LiveRuns) > 0
             /\ Cardinality(LiveRuns)' = Cardinality(LiveRuns) - 1
  <2>1. Live(r) /\ ~(Live(r)')
    BY <1>7 DEF Ends, Live
  <2>2. LiveRuns' = LiveRuns \ {r} /\ r \in LiveRuns
    BY <1>4, <1>7, <2>1 DEF Ends, LiveRuns
  <2>3. Cardinality(LiveRuns) # 0
    BY <1>1, <2>2, FS_EmptySet
  <2> QED
    BY <1>1, <2>2, <2>3, FS_RemoveElement
<1> QED
  BY <1>1, <1>2, <1>3, <1>5, <1>6, <1>7

(* Each kind of step is one of the store's, or none.                       *)
LEMMA ClientStep ==
  ASSUME RecoveryInv, Asked, Kind
  PROVE  [Client!Next]_<<status, scenario = Home, inbound # 0,
                         Cardinality({r \in Run : Live(r)})>>
<1> DEFINE home == scenario = Home
           due == inbound # 0
           live == Cardinality(LiveRuns)
<1>1. TypeOK
  BY DEF RecoveryInv
<1>2. CASE Stays
  <2>1. LiveRuns' = LiveRuns /\ UNCHANGED <<status, scenario, inbound>>
    BY <1>2, LiveRunsStep DEF Stays
  <2> QED
    BY <2>1 DEF LiveRuns
<1>3. CASE Resets
  <2>1. LiveRuns' = LiveRuns /\ status' = "idle" /\ ~(due')
    BY <1>1, <1>3, LiveRunsStep, ResetTypes DEF Resets
  <2>2. \E h \in BOOLEAN : Client!Shows("idle", h, FALSE)
    BY <2>1 DEF Client!Shows
  <2> QED
    BY <2>1, <2>2 DEF Client!Next, Client!Reset, LiveRuns
<1>4. CASE Reboots
  <2>1. live' = 0
    BY <1>4, LiveRunsStep
  <2>2. CASE scenario = Home
    BY <1>4, <2>1, <2>2
       DEF Reboots, Client!Next, Client!Restart, Client!Shows, LiveRuns
  <2>3. CASE scenario # Home
    BY <1>4, <2>1, <2>3
       DEF Reboots, ResetTo, Client!Next, Client!Restart, Client!Shows, LiveRuns
  <2> QED
    BY <2>2, <2>3
<1>5. ASSUME NEW r \in Run, Begins(r)
      PROVE  Client!Next
  <2>1. live' = live + 1 /\ status # "running" /\ status' = "running"
    BY <1>5, LiveRunsStep DEF Begins, BeginsBy
  <2>2. CASE scenario' = scenario /\ inbound' = inbound
    BY <2>1, <2>2 DEF Client!Next, Client!Begin, Client!Shows, LiveRuns
  <2>3. CASE scenario' # scenario /\ inbound' = 0
    <3>1. scenario # Home /\ scenario' = Home
      BY <1>5, <2>3 DEF Begins
    <3> QED
      BY <2>1, <2>3, <3>1 DEF Client!Next, Client!Begin, Client!Shows, LiveRuns
  <2> QED
    BY <1>5, <2>2, <2>3 DEF Begins, BeginsOn
<1>6. ASSUME NEW r \in Run, Walks(r)
      PROVE  UNCHANGED <<status, home, due, live>>
  <2>1. LiveRuns' = LiveRuns /\ UNCHANGED <<status, scenario, inbound>>
    BY <1>6, LiveRunsStep DEF Walks
  <2> QED
    BY <2>1
<1>7. ASSUME NEW r \in Run, Ends(r)
      PROVE  Client!Next
  <2>1. live > 0 /\ live' = live - 1 /\ scenario' = scenario
    BY <1>7, LiveRunsStep DEF Ends
  <2>2. CASE inbound' = inbound /\ status' = "failed"
    BY <2>1, <2>2 DEF Client!Next, Client!End, Client!Shows, LiveRuns
  <2>3. CASE /\ status' = Outcome(r)
             /\ inbound' = IF OrderOf(r) = NoOrder THEN 0 ELSE runs[r].quantity
    <3>1. runs[r].quantity # 0
      BY <1>7 DEF Ends, Asked
    <3> QED
      BY <2>1, <2>3, <3>1
         DEF Outcome, Client!Next, Client!End, Client!Shows, LiveRuns
  <2> QED
    BY <1>7, <2>2, <2>3 DEF Ends, EndsBy
<1> QED
  BY <1>2, <1>3, <1>4, <1>5, <1>6, <1>7 DEF Kind, LiveRuns

(* Whatever crashes, is lost or is reset in mid-run, the surfaces of the   *)
(* client see no more of the control plane than ClientStore.               *)
THEOREM ClientRefinement == Spec => ServesItsClient
<1>1. Init => Asked /\ Client!Init
  <2>1. Init => Asked
    BY DEF Init, Asked, Run
  <2>2. ASSUME Init
        PROVE  Cardinality({r \in Run : Live(r)}) = 0
    <3>1. {r \in Run : Live(r)} = {}
      BY <2>2 DEF Init, Live, Unused
    <3> QED
      BY <3>1, FS_EmptySet
  <2> QED
    BY <2>1, <2>2 DEF Init, Client!Init
<1>2. RecoveryInv /\ Asked /\ [Next]_vars => Asked'
  BY Kinds, AskedStep DEF RecoveryInv
<1>3. RecoveryInv /\ Asked /\ [Next]_vars
        => [Client!Next]_<<status, scenario = Home, inbound # 0,
                           Cardinality({r \in Run : Live(r)})>>
  BY Kinds, ClientStep DEF RecoveryInv
<1>4. Spec => []RecoveryInv
  BY RecoveryInvariant
<1> QED
  BY <1>1, <1>2, <1>3, <1>4, PTL DEF Spec, ServesItsClient, Client!Spec
=============================================================================
