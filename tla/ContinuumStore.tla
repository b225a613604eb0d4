--------------------------- MODULE ContinuumStore ---------------------------
(***************************************************************************)
(* The provider that every page of the browser application reads           *)
(* (Continuum/src/lib/store.tsx): the simulation of SimulationEngine next  *)
(* to the poll of the control plane (live/useLiveState.ts), and the        *)
(* theatre that starts a simulation (components/agent/DemoPlayer.tsx, with *)
(* its buttons in ConsoleControls.tsx).                                    *)
(*                                                                         *)
(* A workspace is named by its scenario, and so is the client it stands    *)
(* for.  Of an answer only its client matters.  The provider has selected  *)
(* what the engine has: both are set together.                             *)
(***************************************************************************)
EXTENDS SimulationEngine

CONSTANTS
  MaxAsked  \* bound: polls in flight for a client

ASSUME StoreAssumption == MaxAsked \in Nat \ {0}

VARIABLES
  asked,            \* polls in flight, by client
  shown, connected, \* the LiveState: whose state it holds, if any
  received,         \* a poll of either client has been answered
  startedScenario   \* the theatre's ref

polling == <<asked, shown, connected, received>>
storeVars == <<engineVars, polling, startedScenario>>

live == connected /\ shown # None

(* The first page load: the effects of useLiveState poll at once. *)
Init ==
  /\ EngineInit
  /\ asked = [c \in Scenario |-> IF c = Home THEN 1 ELSE 0]
  /\ shown = None /\ connected = FALSE /\ received = FALSE
  /\ startedScenario = None
-----------------------------------------------------------------------------
(* useLiveState(workspaceId) *)

(* Fault: the closure keeps the client that it was made for. *)
AlwaysHome == Home

polled == workspace

(* The interval fires. *)
Poll ==
  /\ asked[polled] < MaxAsked
  /\ asked' = [asked EXCEPT ![polled] = @ + 1]
  /\ UNCHANGED <<engineVars, shown, connected, received, startedScenario>>

(* An answer is shown whoever is selected by now: the ref that would drop  *)
(* it has been reset by the effect of the new client.                      *)
Answered(c) ==
  /\ asked[c] > 0
  /\ asked' = [asked EXCEPT ![c] = @ - 1]
  /\ shown' = c /\ connected' = TRUE /\ received' = TRUE
  /\ UNCHANGED <<engineVars, startedScenario>>

(* The last state is kept. *)
Failed(c) ==
  /\ asked[c] > 0
  /\ asked' = [asked EXCEPT ![c] = @ - 1]
  /\ connected' = FALSE
  /\ UNCHANGED <<engineVars, shown, received, startedScenario>>

(* useLiveState("meridian") and useLiveState("northwind"), which only feed *)
(* the theatre.                                                            *)
Listened ==
  /\ ~received /\ received' = TRUE
  /\ UNCHANGED <<engineVars, asked, shown, connected, startedScenario>>
-----------------------------------------------------------------------------
(* The theatre. *)

(* Its timer, 1.1 s after the last change of what it looks at; the effect  *)
(* clears it when the control plane answers.                               *)
AutoStart(r) ==
  /\ ~live /\ startedScenario # workspace
  /\ startedScenario' = workspace
  /\ IF running THEN r = triggered /\ UNCHANGED engineVars
                ELSE trigger(r, workspace)
  /\ UNCHANGED polling

(* ConsoleControls, which the local theatre shows. *)
Start(r) ==
  /\ ~received
  /\ trigger(r, workspace)
  /\ UNCHANGED <<polling, startedScenario>>

StartOver ==
  /\ ~received
  /\ Reset
  /\ UNCHANGED <<polling, startedScenario>>
-----------------------------------------------------------------------------
(* The page. *)

(* The selector; the new effect polls at once. *)
SelectWorkspace(s) ==
  /\ setWorkspace(s)
  /\ asked' = [asked EXCEPT ![s] = IF @ < MaxAsked THEN @ + 1 ELSE @]
  /\ UNCHANGED <<shown, connected, received, startedScenario>>

(* The selection comes from localStorage, after the first poll of Home. *)
ReloadPage ==
  /\ Reload(workspace)
  /\ asked' = [c \in Scenario |-> IF c \in {Home, workspace} THEN 1 ELSE 0]
  /\ shown' = None /\ connected' = FALSE /\ received' = FALSE
  /\ startedScenario' = None

EngineSteps(r) == Step(r) /\ UNCHANGED <<polling, startedScenario>>

Next ==
  \/ Poll \/ Listened
  \/ \E c \in Scenario : Answered(c) \/ Failed(c) \/ SelectWorkspace(c)
  \/ \E r \in Run : AutoStart(r) \/ Start(r) \/ EngineSteps(r)
  \/ StartOver \/ ReloadPage

Spec == Init /\ [][Next]_storeVars

(* Timers fire, a request ends one way or the other, and the control plane *)
(* answers again and again.                                                *)
FairSpec ==
  /\ Spec
  /\ \A r \in Run : WF_storeVars(EngineSteps(r))
  /\ WF_storeVars(Poll)
  /\ \A c \in Scenario : /\ WF_storeVars(Answered(c) \/ Failed(c))
                         /\ SF_storeVars(Answered(c))
-----------------------------------------------------------------------------
(* Once the operator stops switching, the pages come to show the selected  *)
(* client and stay with it, although an answer about the one selected      *)
(* before may come late and is then shown.                                 *)
ShowsTheWorkspace ==
  \A s \in Scenario : <>[](workspace = s) => <>[](shown = s)
=============================================================================
