------------------------- MODULE DatacenterConsole --------------------------
(***************************************************************************)
(* Meridian's client console: the DatacenterRuntime of the browser         *)
(* (Continuum/src/lib/datacenter/runtime.ts), its detector, the hand-off   *)
(* of an incident to the control plane (agent-bridge.ts), and the poll     *)
(* that reconciles the two (live/useLiveState.ts, useDatacenter.ts).       *)
(*                                                                         *)
(* A fault is named by its number, the asset that it is injected on is     *)
(* left out, and so are the waves of healthy assets, the history and the   *)
(* timeline.  The control plane is what server.ts makes of a store, which  *)
(* ControlPlane models: here, one record that this console and other       *)
(* surfaces act on.                                                        *)
(***************************************************************************)
EXTENDS Integers, FiniteSets

CONSTANTS
  InjectedTypes,  \* the fault types that are tried
  ShownAtFirst,   \* whether the store shows Meridian's own scenario when the
                  \* console is opened (of both, if either is possible)
  None,
  MaxFaults, MaxInterruptions, MaxOthers, MaxAnswers  \* bounds

FaultType == {"node_offline", "power_failure", "thermal_runaway", "ecc_spike",
              "network_loss"}
Fault == 1 .. MaxFaults

RunStatus == {"idle", "running", "complete", "failed"}
DemoState == [status : RunStatus, home : BOOLEAN, incident : Fault \union {None}]
Server == [state : DemoState, inbound : BOOLEAN, liveRuns : Nat]
ActiveFault == [id : Fault, type : FaultType, elapsed : 0 .. 1, fullPeriod : BOOLEAN,
                breaches : 0 .. 2]
ClientIncident == [fault : Fault, source : {"local", "control-incident"},
                   status : {"detected", "agent_reviewing", "resolved"}]

ASSUME ConsoleAssumption ==
  /\ InjectedTypes \subseteq FaultType
  /\ ShownAtFirst \subseteq BOOLEAN
  /\ MaxFaults \in Nat /\ MaxInterruptions \in Nat /\ MaxOthers \in Nat
  /\ MaxAnswers \in Nat \ {0}
  /\ None \notin Int \union ActiveFault \union ClientIncident \union DemoState

VARIABLES
  mounted,          \* the timer is set
  activeFault, injected,   \* the fault, if any; faults injected so far
  breachCount, incident,
  polled,           \* the LiveState of the hook, while it is connected
  answers,          \* polls that the control plane has answered
  handoff,          \* the POST of each fault's incident
  resets,           \* POSTs of a reset in flight
  server,           \* Meridian's store
  interruptions, others

runtime == <<activeFault, injected, breachCount, incident>>
hook == <<mounted, polled>>
requests == <<answers, handoff, resets>>
external == <<server, others>>
vars == <<runtime, hook, requests, external, interruptions>>

Idle(home) == [status |-> "idle", home |-> home, incident |-> None]

Init ==
  /\ mounted = TRUE
  /\ activeFault = None /\ injected = 0
  /\ breachCount = 0 /\ incident = None
  /\ polled = None
  /\ answers = {} /\ handoff = [f \in Fault |-> "none"] /\ resets = 0
  /\ \E home \in ShownAtFirst :
       server = [state |-> Idle(home), inbound |-> FALSE, liveRuns |-> 0]
  /\ interruptions = 0 /\ others = 0
-----------------------------------------------------------------------------
(* A sample of the asset with the fault, and the detector. *)

(* In units of 700 ms, since the fault was injected. *)
eccErrors(elapsed) == IF 2 + 3 * elapsed < 12 THEN 2 + 3 * elapsed ELSE 12

(* What the fault does to its asset; packet loss in tenths of a percent. *)
Metrics(type, elapsed) ==
  [heartbeat   |-> type \notin {"node_offline", "power_failure"},
   temperature |-> IF type = "thermal_runaway" THEN 92 ELSE 64,
   eccErrors   |-> IF type = "ecc_spike" THEN eccErrors(elapsed) ELSE 0,
   networkLoss |-> IF type = "network_loss" THEN 68 ELSE 1]

(* Fault: a limit that the counter never passes. *)
LimitPastTheCap(metrics) ==
  \/ ~metrics.heartbeat
  \/ metrics.temperature >= 88
  \/ metrics.eccErrors > 12
  \/ metrics.networkLoss >= 40

evaluateNode(metrics) ==
  \/ ~metrics.heartbeat
  \/ metrics.temperature >= 88
  \/ metrics.eccErrors >= 4
  \/ metrics.networkLoss >= 40

(* Fault: the incident is handed over, and not kept. *)
handOverOnly(f) ==
  /\ incident' = None
  /\ handoff' = [handoff EXCEPT ![f.id] = "sent"]

(* openIncident, up to the POST. *)
openIncident(f) ==
  /\ incident' = [fault |-> f.id, source |-> "local", status |-> "detected"]
  /\ handoff' = [handoff EXCEPT ![f.id] = "sent"]

(* tick, for a fault, with the incident and the count that it meets. *)
Sample(f, known, count) ==
  LET breach == evaluateNode(Metrics(f.type, f.elapsed))
  IN  /\ activeFault' =
           [f EXCEPT !.breaches = IF breach THEN IF @ < 2 THEN @ + 1 ELSE 2 ELSE 0]
      /\ IF known # None
         THEN breachCount' = count /\ incident' = known /\ UNCHANGED handoff
         ELSE LET n == IF breach THEN count + 1 ELSE 0
              IN  /\ breachCount' = n
                  /\ IF n >= 2 THEN openIncident(f)
                     ELSE incident' = None /\ UNCHANGED handoff

NoSample == UNCHANGED <<activeFault, breachCount, incident, handoff>>

(* The timer.  From the second sample of an interval that was set after    *)
(* the injection, 700 ms have passed.                                      *)
Tick ==
  /\ mounted
  /\ IF activeFault = None THEN NoSample
     ELSE \E e \in (IF activeFault.fullPeriod THEN {1} ELSE activeFault.elapsed .. 1) :
            Sample([activeFault EXCEPT !.elapsed = e, !.fullPeriod = TRUE],
                   incident, breachCount)
  /\ UNCHANGED <<injected, hook, answers, resets, external, interruptions>>

(* start: a sample at once, and a new interval. *)
Start ==
  /\ ~mounted
  /\ mounted' = TRUE
  /\ IF activeFault = None THEN NoSample
     ELSE \E e \in activeFault.elapsed .. 1 :
            Sample([activeFault EXCEPT !.elapsed = e, !.fullPeriod = TRUE],
                   incident, breachCount)
  /\ UNCHANGED <<injected, polled, answers, resets, external,
                 interruptions>>
-----------------------------------------------------------------------------
(* The buttons. *)

Interrupt ==
  interruptions < MaxInterruptions /\ interruptions' = interruptions + 1

NewFault(type) ==
  [id |-> injected + 1, type |-> type, elapsed |-> 0, fullPeriod |-> FALSE,
   breaches |-> 0]

(* Fault: the breaches of an earlier fault are counted. *)
countGoesOn(type) ==
  /\ activeFault = None /\ injected < MaxFaults
  /\ injected' = injected + 1
  /\ Sample(NewFault(type), None, breachCount)

injectFault(type) ==
  /\ activeFault = None /\ injected < MaxFaults
  /\ injected' = injected + 1
  /\ Sample(NewFault(type), None, 0)

InjectFault(type) ==
  /\ mounted
  /\ injectFault(type)
  /\ UNCHANGED <<hook, answers, resets, external, interruptions>>

restoreAsset ==
  /\ mounted /\ activeFault # None
  /\ Interrupt
  /\ activeFault' = None /\ breachCount' = 0
  /\ incident' = IF incident = None THEN None
                 ELSE [incident EXCEPT !.status = "resolved"]
  /\ resets' = resets + 1
  /\ UNCHANGED <<injected, hook, answers, handoff, external>>

reset ==
  /\ mounted
  /\ Interrupt
  /\ activeFault' = None /\ breachCount' = 0 /\ incident' = None
  /\ resets' = resets + 1
  /\ UNCHANGED <<injected, hook, answers, handoff, external>>

(* Another page: the hook is gone with what it knew and waits for, the     *)
(* runtime stays.                                                          *)
Stop ==
  /\ mounted
  /\ Interrupt
  /\ mounted' = FALSE /\ polled' = None /\ answers' = {}
  /\ UNCHANGED <<runtime, handoff, resets, external>>

(* A page load loses the runtime too, not the requests under way. *)
Refresh ==
  /\ mounted
  /\ Interrupt
  /\ activeFault' = None /\ breachCount' = 0 /\ incident' = None
  /\ polled' = None /\ answers' = {}
  /\ UNCHANGED <<injected, mounted, handoff, resets, external>>
-----------------------------------------------------------------------------
(* The poll. *)

StatusOf(state) ==
  CASE state.status = "complete" -> "resolved"
    [] state.status = "failed" -> "detected"
    [] OTHER -> "agent_reviewing"

incidentFromControlPlane(fault) ==
  IF fault = None THEN None
  ELSE [fault |-> fault, source |-> "control-incident", status |-> "detected"]

(* The local incident first. *)
KnownIncident(state) ==
  IF incident # None THEN incident ELSE incidentFromControlPlane(state.incident)

Reconcile(state) ==
  /\ incident' = IF KnownIncident(state) = None THEN None
                 ELSE [KnownIncident(state) EXCEPT !.status = StatusOf(state)]
  /\ activeFault' = IF state.status = "complete" THEN None ELSE activeFault

(* Fault: the other client's run is reconciled like this one's. *)
syncAnyScenario(state) ==
  \/ state = None /\ UNCHANGED <<activeFault, incident>>
  \/ state # None /\ Reconcile(state)

syncControlPlane(state) ==
  \/ state = None /\ UNCHANGED <<activeFault, incident>>
  \/ state # None /\ ~state.home /\ activeFault' = None /\ incident' = None
  \/ state # None /\ state.home /\ Reconcile(state)

(* The control plane reads its state; the answer is on its way. *)
Poll ==
  /\ mounted
  /\ Cardinality(answers) < MaxAnswers
  /\ answers' = answers \union {server.state}
  /\ UNCHANGED <<runtime, hook, handoff, resets, external, interruptions>>

(* Answers overtake each other. *)
PollAnswered ==
  \E state \in answers :
    /\ answers' = answers \ {state}
    /\ polled' = state
    /\ syncControlPlane(state)
    /\ UNCHANGED <<injected, breachCount, mounted, handoff, resets, external,
                   interruptions>>

(* If the connection was good, the hook keeps the last state, and as the   *)
(* connection has changed the effect reconciles that state once more.      *)
PollFailed ==
  \E state \in answers :
    /\ answers' = answers \ {state}
    /\ polled' = None
    /\ syncControlPlane(polled)
    /\ UNCHANGED <<injected, breachCount, mounted, handoff, resets, external,
                   interruptions>>
-----------------------------------------------------------------------------
(* The hand-off and the resets at the control plane. *)

Answer(f, outcome) == handoff' = [handoff EXCEPT ![f] = outcome]

(* start leaves alone what is inbound. *)
NewRun(state, inbound) ==
  [state |-> [state EXCEPT !.status = "running"], inbound |-> inbound,
   liveRuns |-> server.liveRuns + 1]

(* POST /api/demo/client-incident; another scenario is reset first. *)
Accept(f) ==
  /\ handoff[f] = "sent"
  /\ server.state.status # "running" /\ ~server.inbound
  /\ server' = NewRun([server.state EXCEPT !.home = TRUE, !.incident = f], FALSE)
  /\ Answer(f, "accepted")
  /\ UNCHANGED <<runtime, hook, answers, resets, others, interruptions>>

(* 409, which submitClientIncident throws: the catch only adds to the      *)
(* timeline, now or later.                                                 *)
Refuse(f) ==
  /\ handoff[f] = "sent"
  /\ server.state.status = "running" \/ server.inbound
  /\ Answer(f, "settled")
  /\ UNCHANGED <<runtime, hook, answers, resets, external, interruptions>>

(* Fault: the answer is taken for that of the incident of the moment. *)
anyCurrent(f) == incident # None

IsCurrent(f) == incident # None /\ incident.fault = f /\ incident.source = "local"

(* The then of openIncident. *)
HandoffAccepted(f) ==
  /\ handoff[f] = "accepted"
  /\ Answer(f, "settled")
  /\ incident' = IF IsCurrent(f) THEN [incident EXCEPT !.status = "agent_reviewing"]
                                 ELSE incident
  /\ UNCHANGED <<activeFault, injected, breachCount, hook, answers, resets,
                 external, interruptions>>

(* The request or its answer was lost. *)
HandoffFailed(f) ==
  /\ handoff[f] \in {"sent", "accepted"}
  /\ Answer(f, "settled")
  /\ UNCHANGED <<runtime, hook, answers, resets, external, interruptions>>

(* POST /api/demo/reset: a live run goes on. *)
ResetArrives ==
  /\ resets > 0
  /\ resets' = resets - 1
  /\ server' = [server EXCEPT !.state = Idle(@.home), !.inbound = FALSE]
  /\ UNCHANGED <<runtime, hook, answers, handoff, others, interruptions>>

ResetLost ==
  /\ resets > 0
  /\ resets' = resets - 1
  /\ UNCHANGED <<runtime, hook, answers, handoff, external, interruptions>>

Ended(status, inbound) ==
  [state |-> [server.state EXCEPT !.status = status], inbound |-> inbound,
   liveRuns |-> server.liveRuns - 1]

(* complete with an order or without one, or fail. *)
RunEnds ==
  /\ server.liveRuns > 0
  /\ \/ server' = Ended("complete", TRUE)
     \/ server' = Ended("failed", FALSE)
     \/ server' = Ended("failed", server.inbound)
  /\ UNCHANGED <<runtime, hook, requests, others, interruptions>>
-----------------------------------------------------------------------------
(* Other surfaces, the monitor, and the control plane itself. *)

Other == others < MaxOthers /\ others' = others + 1

(* The webhook resets a store that shows another scenario. *)
OtherRun ==
  /\ Other
  /\ server.state.status # "running"
  /\ \/ server' = NewRun(server.state, server.inbound)
     \/ ~server.state.home /\ server' = NewRun(Idle(TRUE), FALSE)
  /\ UNCHANGED <<runtime, hook, requests, interruptions>>

(* A reset; or a switch of scenario, which was checked before its body was *)
(* awaited.                                                                *)
OtherReset ==
  /\ Other
  /\ \E home \in BOOLEAN :
       server' = [server EXCEPT !.state = Idle(home), !.inbound = FALSE]
  /\ UNCHANGED <<runtime, hook, requests, interruptions>>

(* The control plane starts again on its database, without its runs. *)
ServerRestarts ==
  /\ Other
  /\ server' = IF server.state.home
                 THEN [server EXCEPT !.liveRuns = 0]
                 ELSE [state |-> Idle(TRUE), inbound |-> FALSE, liveRuns |-> 0]
  /\ UNCHANGED <<runtime, hook, requests, interruptions>>

Next ==
  \/ Tick \/ Start \/ Stop \/ Refresh
  \/ \E type \in InjectedTypes : InjectFault(type)
  \/ restoreAsset \/ reset
  \/ Poll \/ PollAnswered \/ PollFailed
  \/ \E f \in Fault : Accept(f) \/ Refuse(f) \/ HandoffAccepted(f) \/ HandoffFailed(f)
  \/ ResetArrives \/ ResetLost \/ RunEnds
  \/ OtherRun \/ OtherReset \/ ServerRestarts

Spec == Init /\ [][Next]_vars

(* Timers fire, and a poll succeeds again and again. *)
FairSpec ==
  /\ Spec
  /\ WF_vars(Tick) /\ WF_vars(Poll) /\ SF_vars(PollAnswered)
-----------------------------------------------------------------------------
(* Types; the detector counts no further than it must. *)
TypeOK ==
  /\ mounted \in BOOLEAN
  /\ activeFault = None \/ activeFault \in ActiveFault
  /\ injected \in 0 .. MaxFaults
  /\ breachCount \in 0 .. 2
  /\ incident = None \/ incident \in ClientIncident
  /\ polled = None \/ polled \in DemoState
  /\ answers \subseteq DemoState
  /\ handoff \in [Fault -> {"none", "sent", "accepted", "settled"}]
  /\ resets \in Nat
  /\ server \in Server
  /\ interruptions \in 0 .. MaxInterruptions /\ others \in 0 .. MaxOthers

(* The detector and the fault that it watches belong together: until an    *)
(* incident is known, nothing was handed over for the fault, and the count *)
(* is of the samples in a row that show it.                                *)
WatchIsFresh ==
  /\ activeFault # None => activeFault.id = injected
  /\ \A f \in Fault : f > injected => handoff[f] = "none"
  /\ activeFault # None /\ incident = None =>
       /\ handoff[activeFault.id] = "none"
       /\ breachCount = activeFault.breaches /\ breachCount < 2

ConsoleInv == TypeOK /\ WatchIsFresh

(* DatacenterConsole.tsx:268, "The detector, not this button, must observe *)
(* the breach": an incident is handed over once, for a fault that is still *)
(* there, after two samples in a row that show that very fault, whatever   *)
(* was restored, reset or cleared by a poll before.                        *)
HandoffIsConfirmed ==
  [][\A f \in Fault : handoff'[f] = "sent" /\ handoff[f] # "sent" =>
       /\ handoff[f] = "none"
       /\ activeFault'.id = f /\ activeFault'.breaches = 2]_vars

(* Without a poll in between, an incident is only shown as under review    *)
(* when the control plane has accepted that very incident: a late answer   *)
(* about an earlier fault changes nothing.                                 *)
ReviewIsEarned ==
  [][incident # None /\ incident' # None /\ answers' = answers
       /\ incident.fault = incident'.fault
       /\ incident.status = "detected" /\ incident'.status = "agent_reviewing"
       => handoff[incident.fault] = "accepted"]_vars

(* A fault that stays on the console is reported, of whichever type it is. *)
FaultIsReported == activeFault # None ~> activeFault = None \/ incident # None \/ ~mounted

(* Once the control plane stands still, the console comes to agree with it *)
(* for good, however its answers were delayed, reordered or lost before.   *)
Settled(status) == mounted /\ server.state.home /\ server.state.status = status

ConsoleConverges ==
  /\ <>[]Settled("complete") =>
       <>[](activeFault = None /\ (incident = None \/ incident.status = "resolved"))
  /\ <>[]Settled("failed") => <>[](incident = None \/ incident.status = "detected")
  /\ <>[](mounted /\ ~server.state.home) =>
       <>[](activeFault = None /\ incident = None)
  /\ <>[](mounted /\ server.state.home /\ server.state.incident # None) =>
       <>[](incident # None)

(* What happens to the store here, the control plane may do, and what the  *)
(* console itself does to it goes through its handlers.                    *)
Store == INSTANCE ClientStore
  WITH status <- server.state.status, home <- server.state.home,
       inbound <- server.inbound, liveRuns <- server.liveRuns

UsesTheStore == Store!Spec

(* README.md:90, "inject a test fault. The client detector hands the       *)
(* incident to the always-on control-plane monitor".                       *)
FaultIsHandedOff ==
  \A f \in Fault : injected = f ~> handoff[f] # "none" \/ interruptions > 0
=============================================================================
