-------------------------- MODULE SimulationEngine --------------------------
(***************************************************************************)
(* The simulated remediation in the browser: ContinuumEngine               *)
(* (Continuum/src/lib/simulation/engine.ts) and the learning ledger that   *)
(* it keeps in localStorage (ledger.ts).                                   *)
(*                                                                         *)
(* A run is an asynchronous function that sleeps between its stages.  It   *)
(* cannot be stopped: a reset only makes its token stale, which it notices *)
(* when it wakes.  What it does between two sleeps is one step.            *)
(*                                                                         *)
(* A workspace has one scenario and a scenario one incident type, so       *)
(* Scenario stands for all three.  The transcript, the artifacts of the    *)
(* stages, the sparkline, amounts, latencies, the confidence of a ledger   *)
(* entry and the speed (a sleep takes any time) are left out.  One tab.    *)
(***************************************************************************)
EXTENDS Integers, Sequences, FiniteSets

CONSTANTS
  Scenario, Home,    \* the scenarios, and the one of the first workspace
  Vendor, Verified,  \* the suppliers; those that are verified
  Candidates,        \* scenario -> the vendors that quote for it, in order
  Seeds,             \* the records that an empty browser starts with
  IncidentCap,       \* records that are kept
  None,
  MaxRuns, MaxInterruptions   \* bounds: triggers; resets, switches, reloads

CandidatesOf(s) == {Candidates[s][i] : i \in DOMAIN Candidates[s]}

(* The workspaces of data/workspaces.ts: both scenarios have a verified    *)
(* and an ineligible candidate, without which a cold run throws.           *)
ASSUME EngineAssumption ==
  /\ Home \in Scenario
  /\ Verified \subseteq Vendor
  /\ Candidates \in [Scenario -> Seq(Vendor)]
  /\ \A s \in Scenario : /\ CandidatesOf(s) \intersect Verified # {}
                         /\ CandidatesOf(s) \ Verified # {}
  /\ IncidentCap \in Nat \ {0}
  /\ None \notin Vendor \union Scenario
  /\ MaxRuns \in Nat /\ MaxInterruptions \in Nat

Run == 1 .. MaxRuns

(* Of a seed only matters that no run has left it. *)
ASSUME SeedAssumption == Seeds \in Seq([run : {0}]) /\ Len(Seeds) <= IncidentCap

STAGE_ORDER == <<"detect", "source", "verify", "guard", "procure", "learn">>
Stage == {STAGE_ORDER[i] : i \in 1 .. 6}

(* What a run sleeps for; the others are not awake again. *)
Sleep == {"detect", "source", "verify", "verified", "rejecting", "rerouting",
          "checking", "procure", "learn"}

VARIABLES
  workspace,              \* this.workspaceId
  runToken, running,
  activeScenario, stages, path, selectedVendor, rejectedVendor,
  ledger, incidents,      \* as stored, incidents newest first
  runs, triggered,        \* the calls of trigger that got past its guard
  interruptions

shownRun == <<activeScenario, stages, path, selectedVendor, rejectedVendor>>
stored == <<ledger, incidents>>
engineVars == <<workspace, runToken, running, shownRun, stored, runs,
                triggered, interruptions>>

RunType ==
  [at : Sleep \union {"none", "finished", "unlearned", "unrecorded", "cancelled", "gone"},
   token : Nat, scenario : Scenario, warm : Vendor \union {None}]

Unused == [at |-> "none", token |-> 0, scenario |-> Home, warm |-> None]

idleStages == [stage \in Stage |-> "idle"]

EngineInit ==
  /\ workspace = Home
  /\ runToken = 0 /\ running = FALSE
  /\ activeScenario = None /\ stages = idleStages /\ path = None
  /\ selectedVendor = None /\ rejectedVendor = None
  /\ ledger = [s \in Scenario |-> [vendor |-> None, hits |-> 0]]
  /\ incidents = Seeds
  /\ runs = [r \in Run |-> Unused] /\ triggered = 0
  /\ interruptions = 0
-----------------------------------------------------------------------------
(* ledger.ts *)

findWarmPath(s) == IF ledger[s].hits >= 1 THEN ledger[s].vendor ELSE None

upsertLedgerEntry(s, vendor) ==
  ledger' = [ledger EXCEPT ![s] = [vendor |-> vendor, hits |-> @.hits + 1]]

(* Fault: the list never grows. *)
appendAndDropLast(record) ==
  incidents' = SubSeq(<<record>> \o incidents, 1, Len(incidents))

appendIncident(record) ==
  LET all == <<record>> \o incidents
  IN  incidents' = SubSeq(all, 1, IF Len(all) < IncidentCap THEN Len(all)
                                                            ELSE IncidentCap)
-----------------------------------------------------------------------------
(* The operations of the engine. *)

(* Fault: the run goes on, as its token stays good. *)
resetKeepsToken ==
  /\ running' = FALSE
  /\ activeScenario' = None /\ stages' = idleStages /\ path' = None
  /\ selectedVendor' = None /\ rejectedVendor' = None
  /\ runToken' = runToken

reset ==
  /\ running' = FALSE
  /\ activeScenario' = None /\ stages' = idleStages /\ path' = None
  /\ selectedVendor' = None /\ rejectedVendor' = None
  /\ runToken' = runToken + 1

Interrupt ==
  interruptions < MaxInterruptions /\ interruptions' = interruptions + 1

Reset ==
  /\ Interrupt
  /\ reset
  /\ UNCHANGED <<workspace, stored, runs, triggered>>

setWorkspace(s) ==
  /\ Interrupt
  /\ s # workspace
  /\ workspace' = s
  /\ reset
  /\ UNCHANGED <<stored, runs, triggered>>

(* The vendor that the ledger knows, if it still quotes. *)
WarmVendor(s) ==
  IF findWarmPath(s) \in CandidatesOf(s) THEN findWarmPath(s) ELSE None

(* trigger, and runDetect to its first sleep. *)
trigger(r, s) ==
  /\ ~running
  /\ r = triggered + 1 /\ r \in Run
  /\ triggered' = r
  /\ workspace' = s
  /\ runToken' = runToken + 1
  /\ running' = TRUE
  /\ activeScenario' = s
  /\ stages' = [idleStages EXCEPT !["detect"] = "active"]
  /\ path' = IF WarmVendor(s) = None THEN "cold" ELSE "warm"
  /\ selectedVendor' = None /\ rejectedVendor' = None
  /\ runs' = [runs EXCEPT ![r] = [at |-> "detect", token |-> runToken',
                                  scenario |-> s, warm |-> WarmVendor(s)]]
  /\ UNCHANGED <<stored, interruptions>>

(* A page load: only what is stored remains, the workspace included, which *)
(* the provider selects if it is not the first one.                        *)
Reload(s) ==
  /\ Interrupt
  /\ workspace' = s /\ running' = FALSE
  /\ runToken' = IF s = Home THEN 0 ELSE 1
  /\ activeScenario' = None /\ stages' = idleStages /\ path' = None
  /\ selectedVendor' = None /\ rejectedVendor' = None
  /\ runs' = [r \in Run |-> IF runs[r].at \in Sleep
                            THEN [runs[r] EXCEPT !.at = "gone"] ELSE runs[r]]
  /\ UNCHANGED <<stored, triggered>>
-----------------------------------------------------------------------------
(* A run that wakes. *)

(* Fault: a run that wakes does not look at its token. *)
AnyToken(r) == TRUE

Current(r) == runs[r].token = runToken

(* wait throws, and trigger swallows it. *)
Cancel(r) ==
  /\ runs[r].at \in Sleep
  /\ ~Current(r)
  /\ runs' = [runs EXCEPT ![r].at = "cancelled"]
  /\ UNCHANGED <<workspace, runToken, running, shownRun, stored, triggered,
                 interruptions>>

(* From one sleep to the next. *)
Wake(r, from, to) ==
  /\ runs[r].at = from
  /\ Current(r)
  /\ runs' = [runs EXCEPT ![r].at = to]
  /\ UNCHANGED <<workspace, runToken, triggered, interruptions>>

SetStages(updates) ==
  stages' = [stage \in Stage |-> IF stage \in DOMAIN updates
                                 THEN updates[stage] ELSE stages[stage]]

UnchangedVendors ==
  UNCHANGED <<running, activeScenario, path, selectedVendor, rejectedVendor,
              stored>>

Warm(r) == runs[r].warm # None

(* The end of runDetect, and runSource up to its sleep. *)
Detected(r) ==
  /\ Wake(r, "detect", "source")
  /\ SetStages([detect |-> "done",
                source |-> IF Warm(r) THEN "skipped" ELSE "active"])
  /\ UnchangedVendors

(* The end of runSource, and runVerify up to its first sleep. *)
Sourced(r) ==
  /\ Wake(r, "source", "verify")
  /\ SetStages([source |-> IF Warm(r) THEN stages["source"] ELSE "done",
                verify |-> "active"])
  /\ UnchangedVendors

EvidenceReturned(r) ==
  /\ Wake(r, "verify", "verified")
  /\ SetStages([verify |-> "done"])
  /\ UnchangedVendors

(* Fault: the lowest quote is bought, which is the last. *)
CheapestCandidate(s) == Candidates[s][Len(Candidates[s])]

(* find: the first candidate of a scenario that is one of some vendors. *)
Find(s, vendors) ==
  LET found == {i \in DOMAIN Candidates[s] : Candidates[s][i] \in vendors}
  IN  Candidates[s][CHOOSE i \in found : \A j \in found : i <= j]

VerifiedCandidate(s) == Find(s, Verified)
IneligibleCandidate(s) == Find(s, Vendor \ Verified)

(* runColdGuard tries the ineligible candidate first. *)
ColdGuard(r) ==
  /\ path = "cold"
  /\ Wake(r, "verified", "rejecting")
  /\ rejectedVendor' = IneligibleCandidate(runs[r].scenario)
  /\ selectedVendor' = VerifiedCandidate(runs[r].scenario)
  /\ SetStages([guard |-> "active"])
  /\ UNCHANGED <<running, activeScenario, path, stored>>

Denied(r) ==
  /\ Wake(r, "rejecting", "rerouting")
  /\ SetStages([guard |-> "denied"])
  /\ UnchangedVendors

(* Fault: the warm path forgets to select its vendor. *)
WarmGuardSelectsNobody(r) ==
  /\ path = "warm"
  /\ Wake(r, "verified", "checking")
  /\ SetStages([guard |-> "active"])
  /\ UnchangedVendors

WarmGuard(r) ==
  /\ path = "warm"
  /\ Wake(r, "verified", "checking")
  /\ selectedVendor' = runs[r].warm
  /\ SetStages([guard |-> "active"])
  /\ UNCHANGED <<running, activeScenario, path, rejectedVendor, stored>>

(* The end of either guard, and runProcure up to its sleep. *)
Reroute(r) ==
  /\ Wake(r, "rerouting", "procure")
  /\ SetStages([procure |-> "active"])
  /\ UnchangedVendors

Passed(r) ==
  /\ Wake(r, "checking", "procure")
  /\ SetStages([guard |-> "done", procure |-> "active"])
  /\ UnchangedVendors

(* The end of runProcure, and runLearn up to its sleep. *)
Procured(r) ==
  /\ Wake(r, "procure", "learn")
  /\ SetStages([procure |-> "done", learn |-> "active"])
  /\ UnchangedVendors

Record(r) ==
  [run |-> r, scenario |-> runs[r].scenario, vendor |-> selectedVendor,
   path |-> path]

(* The end of runLearn, and finish, which follows without a sleep; without *)
(* a vendor neither does anything.                                         *)
Finish(r) ==
  /\ Wake(r, "learn", "finished")
  /\ selectedVendor # None
  /\ upsertLedgerEntry(runs[r].scenario, selectedVendor)
  /\ appendIncident(Record(r))
  /\ SetStages([learn |-> "done"])
  /\ running' = FALSE
  /\ UNCHANGED <<activeScenario, path, selectedVendor, rejectedVendor>>

(* localStorage refuses the write of the ledger, or of the list: trigger   *)
(* swallows what is thrown, and nothing that comes after it is done.       *)
FinishThrows(r) ==
  /\ selectedVendor # None
  /\ \/ Wake(r, "learn", "unlearned") /\ UNCHANGED <<stages, ledger>>
     \/ /\ Wake(r, "learn", "unrecorded")
        /\ upsertLedgerEntry(runs[r].scenario, selectedVendor)
        /\ SetStages([learn |-> "done"])
  /\ UNCHANGED <<running, activeScenario, path, selectedVendor, rejectedVendor, incidents>>

Step(r) ==
  \/ Cancel(r) \/ Detected(r) \/ Sourced(r) \/ EvidenceReturned(r)
  \/ ColdGuard(r) \/ Denied(r) \/ Reroute(r)
  \/ WarmGuard(r) \/ Passed(r)
  \/ Procured(r) \/ Finish(r) \/ FinishThrows(r)

EngineNext ==
  \/ \E r \in Run, s \in Scenario : trigger(r, s)
  \/ Reset
  \/ \E s \in Scenario : setWorkspace(s) \/ Reload(s)
  \/ \E r \in Run : Step(r)

EngineSpec == EngineInit /\ [][EngineNext]_engineVars

-----------------------------------------------------------------------------
(* The records of a run, of which the seeds are none. *)
RecordedRuns == {incidents[i].run : i \in DOMAIN incidents} \ {0}

Finished(s) == {r \in Run : runs[r].at = "finished" /\ runs[r].scenario = s}
AllFinished == UNION {Finished(s) : s \in Scenario}

(* The runs that wrote the ledger, whether or not the list took them. *)
Learned(s) ==
  {r \in Run : runs[r].at \in {"finished", "unrecorded"} /\ runs[r].scenario = s}

(* A run that a reset, a switch or a reload interrupts leaves no trace in  *)
(* what the browser remembers, and one that ends leaves exactly one: the   *)
(* ledger counts the runs that wrote it, the list has the latest of those  *)
(* that ended, newest first, and says of each what it was for and from whom*)
(* it bought.  A run whose write is refused is in none that it had not     *)
(* written before.                                                         *)
RecordsAreEarned ==
  /\ \A s \in Scenario : ledger[s].hits = Cardinality(Learned(s))
  /\ RecordedRuns \subseteq AllFinished
  /\ Len(incidents) = LET all == Len(Seeds) + Cardinality(AllFinished)
                      IN  IF all < IncidentCap THEN all ELSE IncidentCap
  /\ \A i \in DOMAIN incidents :
       LET record == incidents[i]
       IN  record.run # 0 =>
             /\ record.scenario = runs[record.run].scenario
             /\ record.path = (IF Warm(record.run) THEN "warm" ELSE "cold")
             /\ record.vendor \in CandidatesOf(record.scenario) \intersect Verified
             /\ \A j \in DOMAIN incidents : i < j => incidents[j].run < record.run

(* Discovery and the denial are only skipped for a vendor that an earlier  *)
(* run of the same incident type bought from, whatever interrupts the runs *)
(* between; and the policy gate holds on both paths: what is bought comes  *)
(* from a verified vendor of the scenario, never from the rejected one.    *)
WarmIsEarned ==
  /\ \A r \in Run : runs[r].warm # None =>
       \E q \in Learned(runs[r].scenario) : q < r
  /\ running /\ stages["procure"] # "idle" =>
       /\ selectedVendor \in CandidatesOf(activeScenario) \intersect Verified
       /\ selectedVendor # rejectedVendor
       /\ (path = "cold") = (stages["guard"] = "denied")
       /\ path = "warm" => selectedVendor = ledger[activeScenario].vendor

Awake == {r \in Run : runs[r].at \in Sleep /\ Current(r)}

(* The run on the board is over and left `running` set. *)
Stranded ==
  running /\ \E r \in Run : r = triggered /\ runs[r].at \in {"unlearned", "unrecorded"}

(* The board is one run's: it shows the stages in order, with the active   *)
(* one where that run is, and no stage begun before the one ahead is over, *)
(* however many stale runs are still asleep.  It is live for nobody else,  *)
(* but for a run whose last write was refused.                             *)
BoardIsInOrder ==
  /\ running <=> Awake # {} \/ Stranded
  /\ \A q, r \in Awake : q = r
  /\ \A r \in Awake : activeScenario = runs[r].scenario
  /\ \A i, j \in 1 .. 6 : i < j /\ stages[STAGE_ORDER[j]] \notin {"idle", "skipped"}
       => stages[STAGE_ORDER[i]] \in {"done", "skipped", "denied"}

(* The simulation implements the lifecycle that the control plane does: one*)
(* run at a time, and what ends is the run that was triggered last, never  *)
(* one that a reset, a switch or a load has abandoned.                     *)
Lifecycle == INSTANCE RecoveryLifecycle
  WITH NoRun <- 0, active <- IF running THEN triggered ELSE 0,
       ledger <- AllFinished

ImplementsLifecycle == Lifecycle!Spec

(* Only a refused write keeps the button disabled until a reset: all other *)
(* runs end, or are interrupted.                                           *)
RunIsSettled == running ~> ~running \/ Stranded
=============================================================================
