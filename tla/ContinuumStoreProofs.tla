------------------------ MODULE ContinuumStoreProofs ------------------------
(***************************************************************************)
(* The simulation in the browser, for any number of runs, interruptions,   *)
(* scenarios and vendors, and whatever the poll and the pages do:          *)
(* EngineInv relates the run that is awake to the board, the ledger and    *)
(* the list of incidents.                                                  *)
(***************************************************************************)
EXTENDS ContinuumStore, TLAPS, WellFoundedInduction, FiniteSetTheorems

StageStatus == {"idle", "active", "done", "skipped", "denied"}

Board == [Stage -> StageStatus]
Runs == [Run -> RunType]
Ledger == [Scenario -> [vendor : Vendor \union {None}, hits : Nat]]

EngineTypeOK ==
  /\ workspace \in Scenario /\ runToken \in Nat /\ running \in BOOLEAN
  /\ activeScenario \in Scenario \union {None}
  /\ stages \in Board
  /\ ledger \in Ledger
  /\ runs \in Runs
  /\ triggered \in 0 .. MaxRuns

(* What a board shows of a run that has come to a point. *)
BoardIs(board, at, warm) ==
  /\ board["detect"] = IF at = "detect" THEN "active" ELSE "done"
  /\ board["source"] = IF at = "detect" THEN "idle"
                       ELSE IF warm THEN "skipped"
                       ELSE IF at = "source" THEN "active" ELSE "done"
  /\ board["verify"] = IF at \in {"detect", "source"} THEN "idle"
                       ELSE IF at = "verify" THEN "active" ELSE "done"
  /\ board["guard"] = IF at \in {"detect", "source", "verify", "verified"} THEN "idle"
                      ELSE IF at \in {"rejecting", "checking"} THEN "active"
                      ELSE IF warm THEN "done" ELSE "denied"
  /\ board["procure"] = IF at = "procure" THEN "active"
                        ELSE IF at \in {"learn", "finished"} THEN "done" ELSE "idle"
  /\ board["learn"] = IF at = "learn" THEN "active"
                      ELSE IF at = "finished" THEN "done" ELSE "idle"

Eligible(s) == CandidatesOf(s) \intersect Verified

(* Whom a warm run that has come to a point has selected and rejected, if  *)
(* the ledger knows the vendor known; and a cold run.                      *)
WarmVendors(run, selected, rejected, known) ==
  /\ run.at \notin {"rejecting", "rerouting"}
  /\ run.warm \in Eligible(run.scenario) /\ run.warm = known
  /\ rejected = None
  /\ run.at \in {"checking", "procure", "learn"} => selected = run.warm

ColdVendors(run, selected, rejected) ==
  /\ run.at # "checking"
  /\ run.at \in {"rejecting", "rerouting", "procure", "learn"} =>
       selected \in Eligible(run.scenario) /\ rejected \notin Verified

Shown(r) ==
  /\ activeScenario = runs[r].scenario
  /\ path = IF Warm(r) THEN "warm" ELSE "cold"
  /\ BoardIs(stages, runs[r].at, Warm(r))
  /\ IF Warm(r) THEN WarmVendors(runs[r], selectedVendor, rejectedVendor,
                                 ledger[runs[r].scenario].vendor)
                ELSE ColdVendors(runs[r], selectedVendor, rejectedVendor)

TokensOK ==
  /\ \A r \in Run : r > triggered => runs[r].at = "none"
  /\ \A r \in Run : runs[r].at \in Sleep => runs[r].token <= runToken
  /\ \A r \in Awake : r = triggered
  /\ Awake # {} => running
  /\ running => Awake # {} \/ Stranded

(* What is bought, or has been by the time a write is refused. *)
BoughtAsAllowed ==
  /\ selectedVendor \in Eligible(activeScenario)
  /\ selectedVendor # rejectedVendor
  /\ (path = "cold") = (stages["guard"] = "denied")
  /\ path = "warm" => selectedVendor = ledger[activeScenario].vendor

BoardOK ==
  /\ \A r \in Awake : Shown(r)
  /\ Awake = {} => \/ stages = idleStages
                   \/ \E at \in {"learn", "finished"}, warm \in BOOLEAN :
                        BoardIs(stages, at, warm)
  /\ Stranded => BoughtAsAllowed

LedgerOK ==
  /\ \A s \in Scenario : ledger[s].hits >= 1 => Learned(s) # {}
  /\ \A s \in Scenario : ledger[s].hits >= 1 => ledger[s].vendor \in Verified
  /\ \A r \in Run : runs[r].warm # None =>
       \E q \in Learned(runs[r].scenario) : q < r

EngineInv == EngineTypeOK /\ TokensOK /\ BoardOK /\ LedgerOK
-----------------------------------------------------------------------------
LEMMA StageNames ==
  Stage = {"detect", "source", "verify", "guard", "procure", "learn"}
<1>1. 1 .. 6 = {1, 2, 3, 4, 5, 6}
  OBVIOUS
<1> QED
  BY <1>1 DEF Stage, STAGE_ORDER

LEMMA LeastElement ==
  ASSUME NEW S, S \subseteq Nat, S # {}
  PROVE  \E i \in S : \A j \in S : i <= j
<1>1. PICK i \in S : \A j \in S : ~ (<<j, i>> \in OpToRel(<, Nat))
  BY NatLessThanWellFounded, WFMin
<1>2. \A j \in S : ~ (j < i)
  BY <1>1 DEF OpToRel
<1> QED
  BY <1>2

(* find answers a candidate of the wanted kind, if there is one. *)
LEMMA FindFinds ==
  ASSUME NEW s \in Scenario, NEW vendors, CandidatesOf(s) \intersect vendors # {}
  PROVE  Find(s, vendors) \in CandidatesOf(s) \intersect vendors
<1> DEFINE found == {i \in DOMAIN Candidates[s] : Candidates[s][i] \in vendors}
<1>1. Candidates[s] \in Seq(Vendor)
  BY EngineAssumption
<1>2. found # {} /\ found \subseteq Nat
  BY <1>1 DEF CandidatesOf
<1>3. \E i \in found : \A j \in found : i <= j
  BY <1>2, LeastElement
<1>4. (CHOOSE i \in found : \A j \in found : i <= j) \in found
  BY <1>3
<1> QED
  BY <1>4 DEF Find, CandidatesOf

LEMMA CandidatesFound ==
  ASSUME NEW s \in Scenario
  PROVE  /\ VerifiedCandidate(s) \in Eligible(s)
         /\ IneligibleCandidate(s) \in CandidatesOf(s) \ Verified
<1>1. VerifiedCandidate(s) \in CandidatesOf(s) \intersect Verified
  BY EngineAssumption, FindFinds DEF VerifiedCandidate
<1>2. CandidatesOf(s) \subseteq Vendor
  <2>1. Candidates[s] \in Seq(Vendor)
    BY EngineAssumption
  <2> QED
    BY <2>1 DEF CandidatesOf
<1>3. CandidatesOf(s) \intersect (Vendor \ Verified) # {}
  BY <1>2, EngineAssumption
<1>4. IneligibleCandidate(s) \in CandidatesOf(s) \intersect (Vendor \ Verified)
  BY <1>3, FindFinds DEF IneligibleCandidate
<1> QED
  BY <1>1, <1>4 DEF Eligible

LEMMA InitEngine == EngineInit => EngineInv
<1> SUFFICES ASSUME EngineInit PROVE EngineInv
  OBVIOUS
<1>1. /\ \A r \in Run : runs[r].at = "none" /\ runs[r].warm = None
      /\ Awake = {}
  BY DEF EngineInit, Unused, Awake, Sleep
<1>2. EngineTypeOK
  <2>1. Unused \in RunType
    BY EngineAssumption DEF Unused, RunType
  <2>2. stages \in Board
    BY DEF EngineInit, idleStages, Board, StageStatus
  <2>3. ledger \in Ledger
    BY DEF EngineInit, Ledger
  <2>4. runs \in Runs
    BY <2>1 DEF EngineInit, Runs
  <2>5. triggered \in 0 .. MaxRuns /\ workspace \in Scenario
    BY EngineAssumption DEF EngineInit
  <2> QED
    BY <2>2, <2>3, <2>4, <2>5 DEF EngineInit, EngineTypeOK
<1>3. TokensOK
  BY <1>1 DEF EngineInit, TokensOK, Sleep
<1>4. BoardOK
  BY <1>1 DEF EngineInit, BoardOK, Stranded
<1>5. LedgerOK
  BY <1>1 DEF EngineInit, LedgerOK
<1> QED
  BY <1>2, <1>3, <1>4, <1>5 DEF EngineInv

-----------------------------------------------------------------------------
LearnedAt == {"finished", "unrecorded"}

(* What stands whatever becomes of the run that is awake. *)
LEMMA LedgerStands ==
  ASSUME LedgerOK, ledger' = ledger,
         \A r \in Run : /\ runs'[r].warm = runs[r].warm
                        /\ runs'[r].scenario = runs[r].scenario
                        /\ runs[r].at \in LearnedAt => runs'[r].at \in LearnedAt
  PROVE  LedgerOK'
<1>1. \A s \in Scenario : \A q \in Learned(s) : q \in Learned(s)'
  BY DEF Learned, LearnedAt
<1>2. \A r \in Run : \A q \in Learned(runs[r].scenario) :
        q \in Learned(runs[r].scenario)'
  BY DEF Learned, LearnedAt
<1>3. \A s \in Scenario : ledger'[s].hits >= 1 => Learned(s)' # {}
  BY <1>1 DEF LedgerOK
<1>4. \A s \in Scenario : ledger'[s].hits >= 1 => ledger'[s].vendor \in Verified
  BY DEF LedgerOK
<1>5. \A r \in Run : runs'[r].warm # None =>
        \E q \in Learned(runs[r].scenario)' : q < r
  <2> SUFFICES ASSUME NEW r \in Run, runs'[r].warm # None
               PROVE  \E q \in Learned(runs[r].scenario)' : q < r
    OBVIOUS
  <2>1. PICK q \in Learned(runs[r].scenario) : q < r
    BY DEF LedgerOK
  <2>2. q \in Run /\ runs'[q].at \in LearnedAt /\ runs'[q].scenario = runs'[r].scenario
    BY <2>1 DEF Learned, LearnedAt
  <2> QED
    BY <2>1, <2>2 DEF Learned, LearnedAt
<1> QED
  BY <1>3, <1>4, <1>5 DEF LedgerOK

(* reset: whoever was awake is stale, and the board is empty. *)
LEMMA ResetEmpties ==
  ASSUME EngineInv, reset, UNCHANGED <<stored, runs, triggered>>, workspace' \in Scenario
  PROVE  EngineInv'
<1>1. Awake' = {}
  <2> SUFFICES ASSUME NEW r \in Run, runs[r].at \in Sleep, runs[r].token = runToken'
               PROVE  FALSE
    BY DEF Awake, Current
  <2>1. runs[r].token <= runToken /\ runs[r].token \in Nat /\ runToken \in Nat
    BY DEF EngineInv, TokensOK, EngineTypeOK, Runs, RunType
  <2> QED
    BY <2>1 DEF reset
<1>2. idleStages \in Board
  BY DEF idleStages, Board, StageStatus
<1>3. EngineTypeOK'
  <2>1. /\ running' = FALSE /\ activeScenario' = None /\ stages' = idleStages
        /\ runToken' = runToken + 1
        /\ ledger' = ledger /\ runs' = runs /\ triggered' = triggered
    BY DEF reset, stored
  <2>2. runToken' \in Nat /\ activeScenario' \in Scenario \union {None}
    BY <2>1 DEF EngineInv, EngineTypeOK
  <2> QED
    BY <1>2, <2>1, <2>2 DEF EngineInv, EngineTypeOK
<1>4. TokensOK'
  <2>1. \A r \in Run : runs'[r].at \in Sleep => runs'[r].token <= runToken'
    <3> SUFFICES ASSUME NEW r \in Run, runs[r].at \in Sleep
                 PROVE  runs[r].token <= runToken + 1
      BY DEF reset
    <3>1. runs[r].token <= runToken /\ runs[r].token \in Nat /\ runToken \in Nat
      BY DEF EngineInv, TokensOK, EngineTypeOK, Runs, RunType
    <3> QED
      BY <3>1
  <2> QED
    BY <1>1, <2>1 DEF reset, EngineInv, TokensOK
<1>5. BoardOK'
  BY <1>1 DEF reset, BoardOK, Stranded
<1>6. LedgerOK'
  BY LedgerStands DEF EngineInv, stored
<1> QED
  BY <1>3, <1>4, <1>5, <1>6 DEF EngineInv

LEMMA ReloadEmpties ==
  ASSUME EngineInv, NEW s \in Scenario, Reload(s)
  PROVE  EngineInv'
<1>1. /\ runs' \in Runs
      /\ \A r \in Run :
           /\ runs'[r].at = (IF runs[r].at \in Sleep THEN "gone" ELSE runs[r].at)
           /\ runs'[r].warm = runs[r].warm
           /\ runs'[r].scenario = runs[r].scenario
  <2>1. runs \in Runs
    BY DEF EngineInv, EngineTypeOK
  <2>2. runs' = [r \in Run |-> IF runs[r].at \in Sleep
                              THEN [runs[r] EXCEPT !.at = "gone"] ELSE runs[r]]
    BY DEF Reload
  <2>3. \A r \in Run : /\ [runs[r] EXCEPT !.at = "gone"] \in RunType
                       /\ [runs[r] EXCEPT !.at = "gone"].at = "gone"
                       /\ [runs[r] EXCEPT !.at = "gone"].warm = runs[r].warm
                       /\ [runs[r] EXCEPT !.at = "gone"].scenario = runs[r].scenario
    BY <2>1 DEF Runs, RunType
  <2> QED
    BY <2>1, <2>2, <2>3 DEF Runs
<1>2. \A r \in Run : runs'[r].at \notin Sleep
  <2>1. "gone" \notin Sleep
    BY DEF Sleep
  <2> QED
    BY <1>1, <2>1
<1>3. Awake' = {}
  BY <1>2 DEF Awake
<1>4. EngineTypeOK'
  <2>1. stages' \in Board
    BY DEF Reload, idleStages, Board, StageStatus
  <2> QED
    BY <1>1, <2>1 DEF Reload, EngineInv, EngineTypeOK, stored
<1>5. TokensOK'
  BY <1>1, <1>2, <1>3 DEF Reload, EngineInv, TokensOK, Sleep
<1>6. BoardOK'
  BY <1>3 DEF Reload, BoardOK, Stranded
<1>7. LedgerOK'
  <2>1. \A r \in Run : runs[r].at \in LearnedAt => runs'[r].at \in LearnedAt
    <3>1. \A at \in LearnedAt : at \notin Sleep
      BY DEF Sleep, LearnedAt
    <3> QED
      BY <1>1, <3>1
  <2>2. LedgerOK /\ ledger' = ledger
    BY DEF Reload, EngineInv, stored
  <2> QED
    BY <1>1, <2>1, <2>2, LedgerStands
<1> QED
  BY <1>4, <1>5, <1>6, <1>7 DEF EngineInv

(* A run is moved on, and nothing else about it or the others changes. *)
LEMMA RunMoves ==
  ASSUME EngineTypeOK, NEW r \in Run,
         NEW to \in Sleep \union {"finished", "unlearned", "unrecorded", "cancelled"},
         runs' = [runs EXCEPT ![r].at = to]
  PROVE  /\ runs' \in Runs
         /\ runs'[r].at = to
         /\ \A q \in Run : /\ runs'[q].token = runs[q].token
                           /\ runs'[q].warm = runs[q].warm
                           /\ runs'[q].scenario = runs[q].scenario
                           /\ q # r => runs'[q] = runs[q]
<1>1. runs[r] \in RunType
  BY DEF EngineTypeOK, Runs
<1>2. runs' = [runs EXCEPT ![r] = [runs[r] EXCEPT !.at = to]]
  OBVIOUS
<1>3. [runs[r] EXCEPT !.at = to] \in RunType
  BY <1>1 DEF RunType
<1> QED
  BY <1>1, <1>2, <1>3 DEF EngineTypeOK, Runs, RunType

LEMMA StagesSet ==
  ASSUME EngineTypeOK, NEW updates, SetStages(updates),
         \A stage \in DOMAIN updates : updates[stage] \in StageStatus
  PROVE  /\ stages' \in Board
         /\ \A stage \in Stage : stages'[stage] = IF stage \in DOMAIN updates
                                                  THEN updates[stage] ELSE stages[stage]
<1>1. stages \in Board
  BY DEF EngineTypeOK
<1> QED
  BY <1>1 DEF SetStages, Board

(* A run that wakes and sleeps again keeps what was shown and known, if    *)
(* the board and the vendors are those of the point it has come to.        *)
LEMMA WakeKeeps ==
  ASSUME EngineInv, NEW r \in Run, NEW from \in Sleep, NEW to \in Sleep,
         Wake(r, from, to), UNCHANGED <<running, activeScenario, path, stored>>,
         stages' \in Board,
         r \in Awake /\ Shown(r) => Shown(r)'
  PROVE  EngineInv'
<1>1. runs' = [runs EXCEPT ![r].at = to] /\ runs[r].at = from /\ Current(r)
  BY DEF Wake
<1>2. EngineTypeOK /\ TokensOK /\ BoardOK /\ LedgerOK
  BY DEF EngineInv
<1>3. /\ runs' \in Runs /\ runs'[r].at = to
      /\ \A q \in Run : /\ runs'[q].token = runs[q].token
                        /\ runs'[q].warm = runs[q].warm
                        /\ runs'[q].scenario = runs[q].scenario
                        /\ q # r => runs'[q] = runs[q]
  BY <1>1, <1>2, RunMoves
<1>4. r \in Awake /\ Shown(r)
  BY <1>1, <1>2 DEF Awake, BoardOK
<1>5. \A q \in Run : runs'[q].at \in Sleep <=> runs[q].at \in Sleep
  BY <1>1, <1>3
<1>6. Awake' = Awake
  BY <1>3, <1>5 DEF Awake, Current, Wake
<1>7. EngineTypeOK'
  <2>1. /\ UNCHANGED <<workspace, runToken, triggered, running, activeScenario, ledger>>
        /\ runs' \in Runs /\ stages' \in Board
    BY <1>3 DEF Wake, stored
  <2>2. runToken' \in Nat /\ triggered' \in 0 .. MaxRuns
    BY <1>2, <2>1 DEF EngineTypeOK
  <2> QED
    BY <1>2, <2>1, <2>2 DEF EngineTypeOK
<1>8. TokensOK'
  <2>1. \A q \in Run : q > triggered' => runs'[q].at = "none"
    <3>1. ~(r > triggered)
      BY <1>1, <1>2 DEF TokensOK, Sleep
    <3> QED
      BY <1>2, <1>3, <3>1 DEF TokensOK, Wake
  <2>2. \A q \in Run : runs'[q].at \in Sleep => runs'[q].token <= runToken'
    BY <1>2, <1>3, <1>5 DEF TokensOK, Wake
  <2> QED
    BY <1>2, <1>4, <1>6, <2>1, <2>2 DEF TokensOK, Wake
<1>9. BoardOK'
  <2>1. \A q \in Awake : q = r
    BY <1>2, <1>4 DEF TokensOK
  <2>2. ~Stranded'
    <3>1. r = triggered' /\ "unlearned" \notin Sleep /\ "unrecorded" \notin Sleep
      BY <1>2, <1>4 DEF TokensOK, Wake, Sleep
    <3> QED
      BY <1>3, <3>1 DEF Stranded
  <2> QED
    BY <1>4, <1>6, <2>1, <2>2 DEF BoardOK
<1>10. LedgerOK'
  <2>1. \A q \in Run : runs[q].at \in LearnedAt => runs'[q].at \in LearnedAt
    <3>1. \A at \in LearnedAt : at \notin Sleep
      BY DEF Sleep, LearnedAt
    <3> QED
      BY <1>1, <1>3, <3>1
  <2>2. ledger' = ledger
    BY DEF stored
  <2>3. \A q \in Run : /\ runs'[q].warm = runs[q].warm
                       /\ runs'[q].scenario = runs[q].scenario
                       /\ runs[q].at \in LearnedAt => runs'[q].at \in LearnedAt
    <3> SUFFICES ASSUME NEW q \in Run
                 PROVE  /\ runs'[q].warm = runs[q].warm
                        /\ runs'[q].scenario = runs[q].scenario
                        /\ runs[q].at \in LearnedAt => runs'[q].at \in LearnedAt
      OBVIOUS
    <3> QED
      BY <1>3, <2>1, Zenon
  <2> QED
    BY <1>2, <2>2, <2>3, LedgerStands
<1> QED
  BY <1>7, <1>8, <1>9, <1>10 DEF EngineInv

(* The move of a run, as its own record shows it. *)
LEMMA Moved ==
  ASSUME EngineInv, NEW r \in Run, NEW from, NEW to \in Sleep \union {"finished"},
         Wake(r, from, to)
  PROVE  /\ runs[r].at = from /\ runs'[r].at = to
         /\ runs'[r].warm = runs[r].warm /\ runs'[r].scenario = runs[r].scenario
         /\ Warm(r)' = Warm(r)
<1>1. /\ EngineTypeOK /\ runs' = [runs EXCEPT ![r].at = to]
      /\ runs[r].at = from
  BY DEF EngineInv, Wake
<1>2. /\ runs'[r].at = to
      /\ runs'[r].warm = runs[r].warm /\ runs'[r].scenario = runs[r].scenario
  BY <1>1, RunMoves
<1> QED
  BY <1>1, <1>2 DEF Warm

LEMMA DetectedKeeps ==
  ASSUME EngineInv, NEW r \in Run, Detected(r) PROVE EngineInv'
<1> DEFINE updates == [detect |-> "done", source |-> IF Warm(r) THEN "skipped" ELSE "active"]
<1>1. Wake(r, "detect", "source") /\ SetStages(updates) /\ UnchangedVendors
  BY DEF Detected
<1>2. stages' \in Board
  BY <1>1, StagesSet DEF EngineInv, StageStatus
<1>3. r \in Awake /\ Shown(r) => Shown(r)'
  <2> SUFFICES ASSUME Shown(r) PROVE Shown(r)'
    OBVIOUS
  <2>1. BoardIs(stages, "detect", Warm(r)) => BoardIs(stages', "source", Warm(r))
    BY <1>1, StagesSet, StageNames DEF EngineInv, StageStatus, BoardIs
  <2> QED
    BY <1>1, <2>1, Moved DEF Shown, UnchangedVendors, stored, WarmVendors, ColdVendors, Sleep
<1> QED
  BY <1>1, <1>2, <1>3, WakeKeeps DEF UnchangedVendors, Sleep

LEMMA SourceStatus ==
  ASSUME EngineInv PROVE stages["source"] \in StageStatus
BY StageNames DEF EngineInv, EngineTypeOK, Board

LEMMA SourcedKeeps ==
  ASSUME EngineInv, NEW r \in Run, Sourced(r) PROVE EngineInv'
<1> DEFINE updates == [source |-> IF Warm(r) THEN stages["source"] ELSE "done",
                       verify |-> "active"]
<1>1. Wake(r, "source", "verify") /\ SetStages(updates) /\ UnchangedVendors
  BY DEF Sourced
<1>2. stages' \in Board
  BY <1>1, SourceStatus, StagesSet DEF EngineInv, StageStatus
<1>3. r \in Awake /\ Shown(r) => Shown(r)'
  <2> SUFFICES ASSUME Shown(r) PROVE Shown(r)'
    OBVIOUS
  <2>1. BoardIs(stages, "source", Warm(r)) => BoardIs(stages', "verify", Warm(r))
    BY <1>1, <1>2, SourceStatus, StagesSet, StageNames DEF EngineInv, StageStatus, BoardIs
  <2> QED
    BY <1>1, <2>1, Moved DEF Shown, UnchangedVendors, stored, WarmVendors, ColdVendors, Sleep
<1> QED
  BY <1>1, <1>2, <1>3, WakeKeeps DEF UnchangedVendors, Sleep


LEMMA EvidenceReturnedKeeps ==
  ASSUME EngineInv, NEW r \in Run, EvidenceReturned(r) PROVE EngineInv'
<1> DEFINE updates == [verify |-> "done"]
<1>1. Wake(r, "verify", "verified") /\ SetStages(updates) /\ UnchangedVendors
  BY DEF EvidenceReturned
<1>2. stages' \in Board
  BY <1>1, StagesSet DEF EngineInv, EngineTypeOK, Board, StageStatus
<1>3. r \in Awake /\ Shown(r) => Shown(r)'
  <2> SUFFICES ASSUME Shown(r) PROVE Shown(r)'
    OBVIOUS
  <2>1. BoardIs(stages, "verify", Warm(r)) => BoardIs(stages', "verified", Warm(r))
    BY <1>1, StagesSet, StageNames DEF EngineInv, StageStatus, BoardIs
  <2> QED
    BY <1>1, <2>1, Moved DEF Shown, UnchangedVendors, stored, WarmVendors, ColdVendors, Sleep
<1> QED
  BY <1>1, <1>2, <1>3, WakeKeeps DEF UnchangedVendors, Sleep


LEMMA DeniedKeeps ==
  ASSUME EngineInv, NEW r \in Run, Denied(r) PROVE EngineInv'
<1> DEFINE updates == [guard |-> "denied"]
<1>1. Wake(r, "rejecting", "rerouting") /\ SetStages(updates) /\ UnchangedVendors
  BY DEF Denied
<1>2. stages' \in Board
  BY <1>1, StagesSet DEF EngineInv, EngineTypeOK, Board, StageStatus
<1>3. r \in Awake /\ Shown(r) => Shown(r)'
  <2> SUFFICES ASSUME Shown(r) PROVE Shown(r)'
    OBVIOUS
  <2>0. ~Warm(r)
    BY <1>1 DEF Wake, Shown, WarmVendors
  <2>1. BoardIs(stages, "rejecting", Warm(r)) => BoardIs(stages', "rerouting", Warm(r))
    BY <1>1, <2>0, StagesSet, StageNames DEF EngineInv, StageStatus, BoardIs
  <2> QED
    BY <1>1, <2>1, Moved DEF Shown, UnchangedVendors, stored, WarmVendors, ColdVendors, Sleep
<1> QED
  BY <1>1, <1>2, <1>3, WakeKeeps DEF UnchangedVendors, Sleep


LEMMA RerouteKeeps ==
  ASSUME EngineInv, NEW r \in Run, Reroute(r) PROVE EngineInv'
<1> DEFINE updates == [procure |-> "active"]
<1>1. Wake(r, "rerouting", "procure") /\ SetStages(updates) /\ UnchangedVendors
  BY DEF Reroute
<1>2. stages' \in Board
  BY <1>1, StagesSet DEF EngineInv, EngineTypeOK, Board, StageStatus
<1>3. r \in Awake /\ Shown(r) => Shown(r)'
  <2> SUFFICES ASSUME Shown(r) PROVE Shown(r)'
    OBVIOUS
  <2>1. BoardIs(stages, "rerouting", Warm(r)) => BoardIs(stages', "procure", Warm(r))
    BY <1>1, StagesSet, StageNames DEF EngineInv, StageStatus, BoardIs
  <2> QED
    BY <1>1, <2>1, Moved DEF Shown, UnchangedVendors, stored, WarmVendors, ColdVendors, Sleep
<1> QED
  BY <1>1, <1>2, <1>3, WakeKeeps DEF UnchangedVendors, Sleep


LEMMA PassedKeeps ==
  ASSUME EngineInv, NEW r \in Run, Passed(r) PROVE EngineInv'
<1> DEFINE updates == [guard |-> "done", procure |-> "active"]
<1>1. Wake(r, "checking", "procure") /\ SetStages(updates) /\ UnchangedVendors
  BY DEF Passed
<1>2. stages' \in Board
  BY <1>1, StagesSet DEF EngineInv, EngineTypeOK, Board, StageStatus
<1>3. r \in Awake /\ Shown(r) => Shown(r)'
  <2> SUFFICES ASSUME Shown(r) PROVE Shown(r)'
    OBVIOUS
  <2>0. Warm(r)
    BY <1>1 DEF Wake, Shown, ColdVendors
  <2>1. BoardIs(stages, "checking", Warm(r)) => BoardIs(stages', "procure", Warm(r))
    BY <1>1, <2>0, StagesSet, StageNames DEF EngineInv, StageStatus, BoardIs
  <2> QED
    BY <1>1, <2>1, Moved DEF Shown, UnchangedVendors, stored, WarmVendors, ColdVendors, Sleep
<1> QED
  BY <1>1, <1>2, <1>3, WakeKeeps DEF UnchangedVendors, Sleep


LEMMA ProcuredKeeps ==
  ASSUME EngineInv, NEW r \in Run, Procured(r) PROVE EngineInv'
<1> DEFINE updates == [procure |-> "done", learn |-> "active"]
<1>1. Wake(r, "procure", "learn") /\ SetStages(updates) /\ UnchangedVendors
  BY DEF Procured
<1>2. stages' \in Board
  BY <1>1, StagesSet DEF EngineInv, EngineTypeOK, Board, StageStatus
<1>3. r \in Awake /\ Shown(r) => Shown(r)'
  <2> SUFFICES ASSUME Shown(r) PROVE Shown(r)'
    OBVIOUS
  <2>1. BoardIs(stages, "procure", Warm(r)) => BoardIs(stages', "learn", Warm(r))
    BY <1>1, StagesSet, StageNames DEF EngineInv, StageStatus, BoardIs
  <2> QED
    BY <1>1, <2>1, Moved DEF Shown, UnchangedVendors, stored, WarmVendors, ColdVendors, Sleep
<1> QED
  BY <1>1, <1>2, <1>3, WakeKeeps DEF UnchangedVendors, Sleep

LEMMA ColdGuardKeeps ==
  ASSUME EngineInv, NEW r \in Run, ColdGuard(r) PROVE EngineInv'
<1> DEFINE updates == [guard |-> "active"]
<1>1. /\ Wake(r, "verified", "rejecting") /\ SetStages(updates)
      /\ UNCHANGED <<running, activeScenario, path, stored>> /\ path = "cold"
      /\ rejectedVendor' = IneligibleCandidate(runs[r].scenario)
      /\ selectedVendor' = VerifiedCandidate(runs[r].scenario)
  BY DEF ColdGuard
<1>2. stages' \in Board
  BY <1>1, StagesSet DEF EngineInv, EngineTypeOK, Board, StageStatus
<1>3. r \in Awake /\ Shown(r) => Shown(r)'
  <2> SUFFICES ASSUME Shown(r) PROVE Shown(r)'
    OBVIOUS
  <2>1. BoardIs(stages, "verified", Warm(r)) => BoardIs(stages', "rejecting", Warm(r))
    BY <1>1, StagesSet, StageNames DEF EngineInv, StageStatus, BoardIs
  <2>2. ~Warm(r)
    BY <1>1 DEF Shown
  <2>3. runs[r].scenario \in Scenario
    BY DEF EngineInv, EngineTypeOK, Runs, RunType
  <2>4. ColdVendors(runs'[r], selectedVendor', rejectedVendor')
    BY <1>1, <2>3, Moved, CandidatesFound DEF ColdVendors, Sleep
  <2> QED
    BY <1>1, <2>1, <2>2, <2>4, Moved DEF Shown, stored, Sleep
<1> QED
  BY <1>1, <1>2, <1>3, WakeKeeps DEF Sleep

LEMMA WarmGuardKeeps ==
  ASSUME EngineInv, NEW r \in Run, WarmGuard(r) PROVE EngineInv'
<1> DEFINE updates == [guard |-> "active"]
<1>1. /\ Wake(r, "verified", "checking") /\ SetStages(updates)
      /\ UNCHANGED <<running, activeScenario, path, rejectedVendor, stored>>
      /\ path = "warm" /\ selectedVendor' = runs[r].warm
  BY DEF WarmGuard
<1>2. stages' \in Board
  BY <1>1, StagesSet DEF EngineInv, EngineTypeOK, Board, StageStatus
<1>3. r \in Awake /\ Shown(r) => Shown(r)'
  <2> SUFFICES ASSUME Shown(r) PROVE Shown(r)'
    OBVIOUS
  <2>1. BoardIs(stages, "verified", Warm(r)) => BoardIs(stages', "checking", Warm(r))
    BY <1>1, StagesSet, StageNames DEF EngineInv, StageStatus, BoardIs
  <2>2. Warm(r)
    BY <1>1 DEF Shown
  <2>3. WarmVendors(runs'[r], selectedVendor', rejectedVendor',
                    ledger'[runs'[r].scenario].vendor)
    BY <1>1, <2>2, Moved DEF Shown, WarmVendors, stored, Sleep
  <2> QED
    BY <1>1, <2>1, <2>2, <2>3, Moved DEF Shown, stored, Sleep
<1> QED
  BY <1>1, <1>2, <1>3, WakeKeeps DEF Sleep

(* A stale run that wakes is nobody's. *)
LEMMA CancelKeeps ==
  ASSUME EngineInv, NEW r \in Run, Cancel(r) PROVE EngineInv'
<1>1. /\ runs' = [runs EXCEPT ![r].at = "cancelled"]
      /\ runs[r].at \in Sleep /\ ~Current(r)
      /\ UNCHANGED <<workspace, runToken, running, triggered, stages, ledger,
                     activeScenario, path, selectedVendor, rejectedVendor>>
  BY DEF Cancel, shownRun, stored
<1>2. EngineTypeOK /\ TokensOK /\ BoardOK /\ LedgerOK
  BY DEF EngineInv
<1>3. /\ runs' \in Runs /\ runs'[r].at = "cancelled"
      /\ \A q \in Run : /\ runs'[q].token = runs[q].token
                        /\ runs'[q].warm = runs[q].warm
                        /\ runs'[q].scenario = runs[q].scenario
                        /\ q # r => runs'[q] = runs[q]
  BY <1>1, <1>2, RunMoves
<1>4. /\ "cancelled" \notin Sleep /\ "none" \notin Sleep
      /\ \A at \in {"finished", "unlearned", "unrecorded"} : at \notin Sleep
  BY DEF Sleep
<1>5. Awake' = Awake /\ r \notin Awake
  BY <1>1, <1>3, <1>4 DEF Awake, Current
<1>6. Stranded' = Stranded
  <2>1. \A q \in Run : runs'[q].at \in {"unlearned", "unrecorded"}
                        <=> runs[q].at \in {"unlearned", "unrecorded"}
    BY <1>1, <1>3, <1>4
  <2> QED
    BY <1>1, <2>1 DEF Stranded
<1>7. EngineTypeOK'
  <2>1. runToken' \in Nat /\ triggered' \in 0 .. MaxRuns
    BY <1>1, <1>2 DEF EngineTypeOK
  <2> QED
    BY <1>1, <1>2, <1>3, <2>1 DEF EngineTypeOK
<1>8. TokensOK'
  <2>1. \A q \in Run : q > triggered' => runs'[q].at = "none"
    <3>1. ~(r > triggered)
      BY <1>1, <1>2, <1>4 DEF TokensOK
    <3> QED
      BY <1>1, <1>2, <1>3, <3>1 DEF TokensOK
  <2>2. \A q \in Run : runs'[q].at \in Sleep => runs'[q].token <= runToken'
    BY <1>1, <1>2, <1>3, <1>4 DEF TokensOK
  <2> QED
    BY <1>1, <1>2, <1>5, <1>6, <2>1, <2>2 DEF TokensOK
<1>9. BoardOK'
  <2>1. \A q \in Awake : Shown(q)'
    <3> SUFFICES ASSUME NEW q \in Awake PROVE Shown(q)'
      OBVIOUS
    <3>1. Shown(q) /\ q \in Run /\ q # r
      BY <1>2, <1>5 DEF BoardOK, Awake
    <3> QED
      BY <1>1, <1>3, <3>1 DEF Shown, Warm
  <2> QED
    BY <1>1, <1>2, <1>5, <1>6, <2>1 DEF BoardOK, BoughtAsAllowed
<1>10. LedgerOK'
  <2>1. \A q \in Run : /\ runs'[q].warm = runs[q].warm
                       /\ runs'[q].scenario = runs[q].scenario
                       /\ runs[q].at \in LearnedAt => runs'[q].at \in LearnedAt
    BY <1>1, <1>3, <1>4 DEF LearnedAt
  <2> QED
    BY <1>1, <1>2, <2>1, LedgerStands
<1> QED
  BY <1>7, <1>8, <1>9, <1>10 DEF EngineInv

(* trigger starts the only run that is awake. *)
LEMMA TriggerKeeps ==
  ASSUME EngineInv, NEW r \in Run, NEW s \in Scenario, trigger(r, s)
  PROVE  EngineInv'
<1> DEFINE new == [at |-> "detect", token |-> runToken', scenario |-> s,
                   warm |-> WarmVendor(s)]
<1>1. /\ ~running /\ r = triggered + 1 /\ triggered' = r /\ workspace' = s
      /\ runToken' = runToken + 1 /\ running' = TRUE /\ activeScenario' = s
      /\ stages' = [idleStages EXCEPT !["detect"] = "active"]
      /\ path' = IF WarmVendor(s) = None THEN "cold" ELSE "warm"
      /\ selectedVendor' = None /\ rejectedVendor' = None
      /\ runs' = [runs EXCEPT ![r] = new]
      /\ ledger' = ledger
  BY DEF trigger, stored
<1>2. EngineTypeOK /\ TokensOK /\ BoardOK /\ LedgerOK
  BY DEF EngineInv
<1>3. runToken \in Nat /\ triggered \in Nat /\ runToken' \in Nat
  BY <1>1, <1>2 DEF EngineTypeOK
<1>4. WarmVendor(s) # None =>
        /\ ledger[s].hits >= 1 /\ WarmVendor(s) = ledger[s].vendor
        /\ WarmVendor(s) \in Eligible(s)
  BY <1>2 DEF WarmVendor, findWarmPath, LedgerOK, Eligible
<1>5. WarmVendor(s) \in Vendor \union {None}
  <2>1. Candidates[s] \in Seq(Vendor)
    BY EngineAssumption
  <2> QED
    BY <2>1 DEF WarmVendor, CandidatesOf
<1>6. "detect" \in Sleep /\ "none" \notin Sleep
  BY DEF Sleep
<1>7. new \in RunType
  BY <1>3, <1>5, <1>6 DEF RunType
<1>8. /\ runs' \in Runs /\ runs'[r] = new
      /\ \A q \in Run : q # r => runs'[q] = runs[q]
      /\ runs[r].at = "none"
  <2>1. runs \in [Run -> RunType]
    BY <1>2 DEF EngineTypeOK, Runs
  <2>2. runs[r].at = "none"
    BY <1>1, <1>2, <1>3 DEF TokensOK
  <2> QED
    BY <1>1, <1>7, <2>1, <2>2 DEF Runs
<1>9. Awake' = {r}
  <2>1. r \in Awake'
    BY <1>6, <1>8 DEF Awake, Current
  <2>2. ASSUME NEW q \in Run, q # r, q \in Awake' PROVE FALSE
    <3>1. runs[q].at \in Sleep /\ runs[q].token = runToken + 1
      BY <1>1, <1>8, <2>2 DEF Awake, Current
    <3>2. runs[q].token <= runToken
      BY <1>2, <3>1 DEF TokensOK
    <3> QED
      BY <1>3, <3>1, <3>2
  <2> QED
    BY <2>1, <2>2 DEF Awake
<1>10. EngineTypeOK'
  <2>1. stages' \in Board
    BY <1>1 DEF idleStages, Board, StageStatus
  <2>2. triggered' \in 0 .. MaxRuns
    BY <1>1, <1>3, EngineAssumption DEF Run
  <2> QED
    BY <1>1, <1>2, <1>3, <1>8, <2>1, <2>2 DEF EngineTypeOK
<1>11. TokensOK'
  <2>1. \A q \in Run : q > triggered' => runs'[q].at = "none"
    <3> SUFFICES ASSUME NEW q \in Run, q > r PROVE runs'[q].at = "none"
      BY <1>1
    <3>1. q # r /\ q > triggered
      BY <1>1, <1>3, EngineAssumption DEF Run
    <3> QED
      BY <1>2, <1>8, <3>1 DEF TokensOK
  <2>2. \A q \in Run : runs'[q].at \in Sleep => runs'[q].token <= runToken'
    <3> SUFFICES ASSUME NEW q \in Run, runs'[q].at \in Sleep
                 PROVE  runs'[q].token <= runToken'
      OBVIOUS
    <3>1. CASE q = r
      BY <1>3, <1>8, <3>1
    <3>2. CASE q # r
      <4>1. runs[q].token <= runToken /\ runs'[q].token = runs[q].token
        BY <1>2, <1>8, <3>2 DEF TokensOK
      <4>2. runs[q].token \in Nat
        BY <1>2 DEF EngineTypeOK, Runs, RunType
      <4> QED
        BY <1>1, <1>3, <4>1, <4>2
    <3> QED
      BY <3>1, <3>2
  <2> QED
    BY <1>1, <1>9, <2>1, <2>2 DEF TokensOK
<1>12. BoardOK'
  <2>1. BoardIs(stages', "detect", WarmVendor(s) # None)
    BY <1>1, StageNames DEF BoardIs, idleStages
  <2>2. IF WarmVendor(s) # None
        THEN WarmVendors(new, selectedVendor', rejectedVendor', ledger'[s].vendor)
        ELSE ColdVendors(new, selectedVendor', rejectedVendor')
    BY <1>1, <1>4 DEF WarmVendors, ColdVendors
  <2>3. Shown(r)'
    BY <1>1, <1>8, <2>1, <2>2 DEF Shown, Warm
  <2>4. ~Stranded'
    BY <1>1, <1>8 DEF Stranded
  <2> QED
    BY <1>9, <2>3, <2>4 DEF BoardOK
<1>13. LedgerOK'
  <2>1. \A c \in Scenario : \A q \in Learned(c) : q \in Learned(c)' /\ q < r
    <3> SUFFICES ASSUME NEW c \in Scenario, NEW q \in Learned(c)
                 PROVE  q \in Learned(c)' /\ q < r
      OBVIOUS
    <3>1. q \in Run /\ q # r /\ runs[q].at \in LearnedAt
      BY <1>8 DEF Learned, LearnedAt
    <3>2. ~(q > triggered)
      BY <1>2, <3>1 DEF TokensOK, LearnedAt
    <3> QED
      BY <1>1, <1>3, <1>8, <3>1, <3>2, EngineAssumption DEF Learned, LearnedAt, Run
  <2>2. \A c \in Scenario : ledger'[c].hits >= 1 =>
          Learned(c)' # {} /\ ledger'[c].vendor \in Verified
    BY <1>1, <1>2, <2>1 DEF LedgerOK
  <2>3. \A q \in Run : runs'[q].warm # None =>
          \E p \in Learned(runs[q].scenario)' : p < q
    <3> SUFFICES ASSUME NEW q \in Run, runs'[q].warm # None
                 PROVE  \E p \in Learned(runs[q].scenario)' : p < q
      OBVIOUS
    <3>1. CASE q = r
      <4>1. PICK p \in Learned(s) : TRUE
        BY <1>2, <1>4, <1>8, <3>1 DEF LedgerOK
      <4>2. p \in Learned(s)' /\ p < r
        BY <2>1, <4>1
      <4>3. runs'[q].scenario = s
        BY <1>8, <3>1
      <4> QED
        BY <3>1, <4>2, <4>3 DEF Learned, LearnedAt
    <3>2. CASE q # r
      <4>1. runs'[q] = runs[q] /\ runs[q].scenario \in Scenario
        BY <1>2, <1>8, <3>2 DEF EngineTypeOK, Runs, RunType
      <4>2. PICK p \in Learned(runs[q].scenario) : p < q
        BY <1>2, <4>1 DEF LedgerOK
      <4>3. p \in Run /\ runs'[p].at \in LearnedAt /\ runs'[p].scenario = runs'[q].scenario
        <5>1. p \in Run /\ runs[p].at \in LearnedAt /\ runs[p].scenario = runs[q].scenario
          BY <4>2 DEF Learned, LearnedAt
        <5>2. p # r
          BY <1>8, <5>1 DEF LearnedAt
        <5> QED
          BY <1>8, <4>1, <5>1, <5>2
      <4> QED
        BY <4>2, <4>3 DEF Learned, LearnedAt
    <3> QED
      BY <3>1, <3>2
  <2> QED
    BY <2>2, <2>3 DEF LedgerOK
<1> QED
  BY <1>10, <1>11, <1>12, <1>13 DEF EngineInv

(* A run that wakes for the last time: nobody is awake any more.           *)
LEMMA LastWake ==
  ASSUME EngineInv, NEW r \in Run,
         NEW to \in {"finished", "unlearned", "unrecorded"}, Wake(r, "learn", to)
  PROVE  /\ r \in Awake /\ Shown(r) /\ running /\ r = triggered
         /\ runs[r].scenario \in Scenario /\ runs[r].at = "learn"
         /\ selectedVendor \in Eligible(runs[r].scenario)
         /\ runs' \in Runs /\ runs'[r].at = to
         /\ \A q \in Run : /\ runs'[q].token = runs[q].token
                           /\ runs'[q].warm = runs[q].warm
                           /\ runs'[q].scenario = runs[q].scenario
                           /\ q # r => runs'[q] = runs[q]
         /\ Awake' = {}
         /\ \A q \in Run : q > triggered' => runs'[q].at = "none"
         /\ \A q \in Run : runs'[q].at \in Sleep => runs'[q].token <= runToken'
<1>1. EngineTypeOK /\ TokensOK /\ BoardOK
  BY DEF EngineInv
<1>2. /\ runs' = [runs EXCEPT ![r].at = to]
      /\ runs[r].at = "learn" /\ Current(r)
      /\ UNCHANGED <<workspace, runToken, triggered>>
  BY DEF Wake
<1>3. /\ runs' \in Runs /\ runs'[r].at = to
      /\ \A q \in Run : /\ runs'[q].token = runs[q].token
                        /\ runs'[q].warm = runs[q].warm
                        /\ runs'[q].scenario = runs[q].scenario
                        /\ q # r => runs'[q] = runs[q]
  BY <1>1, <1>2, RunMoves
<1>4. "learn" \in Sleep /\ to \notin Sleep /\ "none" \notin Sleep
  BY DEF Sleep
<1>5. r \in Awake /\ Shown(r) /\ runs[r].scenario \in Scenario
  BY <1>1, <1>2, <1>4 DEF Awake, BoardOK, EngineTypeOK, Runs, RunType
<1>6. running /\ r = triggered /\ \A q \in Awake : q = r
  BY <1>1, <1>5 DEF TokensOK
<1>7. Awake' = {}
  BY <1>2, <1>3, <1>4, <1>6 DEF Awake, Current
<1>8. selectedVendor \in Eligible(runs[r].scenario)
  BY <1>2, <1>5 DEF Shown, WarmVendors, ColdVendors
<1>9. \A q \in Run : q > triggered' => runs'[q].at = "none"
  <2>1. ~(r > triggered)
    BY <1>1, <1>2, <1>4 DEF TokensOK
  <2> QED
    BY <1>1, <1>2, <1>3, <2>1 DEF TokensOK
<1>10. \A q \in Run : runs'[q].at \in Sleep => runs'[q].token <= runToken'
  BY <1>1, <1>2, <1>3, <1>4 DEF TokensOK
<1> QED
  BY <1>2, <1>3, <1>5, <1>6, <1>7, <1>8, <1>9, <1>10

(* What it writes to the ledger before it ends, or cannot go on. *)
LEMMA LedgerLearns ==
  ASSUME EngineInv, NEW r \in Run, NEW to \in LearnedAt, Wake(r, "learn", to),
         upsertLedgerEntry(runs[r].scenario, selectedVendor)
  PROVE  /\ ledger' \in Ledger /\ LedgerOK'
         /\ ledger'[runs[r].scenario].vendor = selectedVendor
<1> DEFINE s == runs[r].scenario
<1>1. EngineTypeOK /\ LedgerOK
  BY DEF EngineInv
<1>2. /\ s \in Scenario /\ selectedVendor \in Eligible(s)
      /\ runs[r].at = "learn" /\ runs'[r].at = to
      /\ \A q \in Run : /\ runs'[q].warm = runs[q].warm
                        /\ runs'[q].scenario = runs[q].scenario
                        /\ q # r => runs'[q] = runs[q]
  BY LastWake DEF LearnedAt
<1>3. ledger' \in Ledger
  <2>1. selectedVendor \in Vendor
    BY <1>2, EngineAssumption DEF Eligible
  <2>2. ledger[s].hits \in Nat
    BY <1>1, <1>2 DEF EngineTypeOK, Ledger
  <2>3. [vendor |-> selectedVendor, hits |-> ledger[s].hits + 1]
          \in [vendor : Vendor \union {None}, hits : Nat]
    BY <2>1, <2>2
  <2>4. ledger' = [ledger EXCEPT ![s] = [vendor |-> selectedVendor,
                                         hits |-> ledger[s].hits + 1]]
    BY DEF upsertLedgerEntry
  <2> QED
    BY <1>1, <2>3, <2>4 DEF EngineTypeOK, Ledger
<1>4. /\ \A c \in Scenario : c # s => ledger'[c] = ledger[c]
      /\ ledger'[s].vendor = selectedVendor
  BY <1>1, <1>2 DEF upsertLedgerEntry, EngineTypeOK, Ledger
<1>5. \A q \in Run : runs[q].at \in LearnedAt => runs'[q].at \in LearnedAt
  BY <1>2
<1>6. LedgerOK'
  <2>1. \A c \in Scenario : \A q \in Learned(c) : q \in Learned(c)'
    BY <1>2, <1>5 DEF Learned, LearnedAt
  <2>2. \A c \in Scenario : ledger'[c].hits >= 1 => Learned(c)' # {}
    <3> SUFFICES ASSUME NEW c \in Scenario, ledger'[c].hits >= 1 PROVE Learned(c)' # {}
      OBVIOUS
    <3>1. CASE c = s
      <4>1. r \in Run /\ runs'[r].at \in LearnedAt /\ runs'[r].scenario = c
        BY <1>2, <3>1
      <4> QED
        BY <4>1 DEF Learned, LearnedAt
    <3>2. CASE c # s
      BY <1>1, <1>4, <2>1, <3>2 DEF LedgerOK
    <3> QED
      BY <3>1, <3>2
  <2>3. \A c \in Scenario : ledger'[c].hits >= 1 => ledger'[c].vendor \in Verified
    BY <1>1, <1>2, <1>4 DEF LedgerOK, Eligible
  <2>4. \A q \in Run : runs'[q].warm # None =>
          \E p \in Learned(runs[q].scenario)' : p < q
    <3> SUFFICES ASSUME NEW q \in Run, runs'[q].warm # None
                 PROVE  \E p \in Learned(runs[q].scenario)' : p < q
      OBVIOUS
    <3>1. PICK p \in Learned(runs[q].scenario) : p < q
      BY <1>1, <1>2 DEF LedgerOK
    <3>2. p \in Run /\ runs[p].at \in LearnedAt /\ runs[p].scenario = runs[q].scenario
      BY <3>1 DEF Learned, LearnedAt
    <3>3. runs'[p].at \in LearnedAt /\ runs'[p].scenario = runs'[q].scenario
      BY <1>2, <1>5, <3>2
    <3> QED
      BY <3>1, <3>2, <3>3 DEF Learned, LearnedAt
  <2> QED
    BY <2>2, <2>3, <2>4 DEF LedgerOK
<1> QED
  BY <1>3, <1>4, <1>6

LEMMA LearnDone ==
  ASSUME EngineInv, NEW r \in Run, Shown(r), runs[r].at = "learn",
         SetStages([learn |-> "done"])
  PROVE  /\ stages' \in Board /\ BoardIs(stages', "finished", Warm(r))
         /\ stages'["guard"] = stages["guard"]
<1> DEFINE updates == [learn |-> "done"]
<1>1. EngineTypeOK /\ SetStages(updates) /\ BoardIs(stages, "learn", Warm(r))
  BY DEF EngineInv, Shown
<1>2. stages' \in Board
  BY <1>1, StagesSet DEF StageStatus
<1> QED
  BY <1>1, <1>2, StagesSet, StageNames DEF StageStatus, BoardIs

(* The run that ends fills the ledger, and nobody is awake.                *)
LEMMA FinishKeeps ==
  ASSUME EngineInv, NEW r \in Run, Finish(r) PROVE EngineInv'
<1>1. /\ Wake(r, "learn", "finished") /\ SetStages([learn |-> "done"])
      /\ upsertLedgerEntry(runs[r].scenario, selectedVendor)
      /\ running' = FALSE
      /\ UNCHANGED <<activeScenario, path, selectedVendor, rejectedVendor>>
  BY DEF Finish
<1>2. /\ Shown(r) /\ runs[r].at = "learn" /\ runs' \in Runs /\ Awake' = {}
      /\ \A q \in Run : q > triggered' => runs'[q].at = "none"
      /\ \A q \in Run : runs'[q].at \in Sleep => runs'[q].token <= runToken'
  BY <1>1, LastWake
<1>3. stages' \in Board /\ BoardIs(stages', "finished", Warm(r))
  BY <1>1, <1>2, LearnDone
<1>4. ledger' \in Ledger /\ LedgerOK'
  BY <1>1, LedgerLearns DEF LearnedAt
<1>5. EngineTypeOK'
  <2>1. /\ workspace' \in Scenario /\ runToken' \in Nat /\ triggered' \in 0 .. MaxRuns
        /\ activeScenario' \in Scenario \union {None}
    BY <1>1 DEF EngineInv, EngineTypeOK, Wake
  <2> QED
    BY <1>1, <1>2, <1>3, <1>4, <2>1 DEF EngineTypeOK
<1>6. TokensOK'
  BY <1>1, <1>2 DEF TokensOK
<1>7. BoardOK'
  BY <1>1, <1>2, <1>3 DEF BoardOK, Warm, Stranded
<1> QED
  BY <1>4, <1>5, <1>6, <1>7 DEF EngineInv

(* A refused write strands the run with what it has bought.                *)
LEMMA FinishThrowsKeeps ==
  ASSUME EngineInv, NEW r \in Run, FinishThrows(r) PROVE EngineInv'
<1>1. PICK to \in {"unlearned", "unrecorded"} : Wake(r, "learn", to)
  BY DEF FinishThrows
<1>2. UNCHANGED <<running, activeScenario, path, selectedVendor, rejectedVendor>>
  BY DEF FinishThrows
<1>3. /\ Shown(r) /\ running /\ r = triggered
      /\ runs[r].at = "learn" /\ runs[r].scenario \in Scenario
      /\ selectedVendor \in Eligible(runs[r].scenario)
      /\ runs' \in Runs /\ runs'[r].at = to /\ Awake' = {}
      /\ \A q \in Run : /\ runs'[q].token = runs[q].token
                        /\ runs'[q].warm = runs[q].warm
                        /\ runs'[q].scenario = runs[q].scenario
                        /\ q # r => runs'[q] = runs[q]
      /\ \A q \in Run : q > triggered' => runs'[q].at = "none"
      /\ \A q \in Run : runs'[q].at \in Sleep => runs'[q].token <= runToken'
  BY <1>1, LastWake
<1>4. /\ UNCHANGED <<workspace, runToken, triggered>>
      /\ EngineTypeOK /\ LedgerOK
  BY <1>1 DEF Wake, EngineInv
<1>5. Stranded'
  BY <1>1, <1>2, <1>3, <1>4 DEF Stranded
<1>6. /\ ledger' \in Ledger /\ LedgerOK' /\ stages' \in Board
      /\ Warm(r) => ledger'[runs[r].scenario].vendor = selectedVendor
      /\ stages'["guard"] = stages["guard"]
      /\ \E at \in {"learn", "finished"} : BoardIs(stages', at, Warm(r))
  <2>1. CASE Wake(r, "learn", "unlearned") /\ UNCHANGED <<stages, ledger>>
    <3>1. \A q \in Run : /\ runs'[q].warm = runs[q].warm
                         /\ runs'[q].scenario = runs[q].scenario
                         /\ runs[q].at \in LearnedAt => runs'[q].at \in LearnedAt
      BY <1>3 DEF LearnedAt
    <3>2. LedgerOK'
      BY <1>4, <2>1, <3>1, LedgerStands
    <3>3. Warm(r) => ledger[runs[r].scenario].vendor = selectedVendor
      BY <1>3 DEF Shown, WarmVendors
    <3>4. BoardIs(stages, "learn", Warm(r))
      BY <1>3 DEF Shown
    <3> QED
      BY <1>4, <2>1, <3>2, <3>3, <3>4 DEF EngineTypeOK
  <2>2. CASE /\ Wake(r, "learn", "unrecorded") /\ SetStages([learn |-> "done"])
             /\ upsertLedgerEntry(runs[r].scenario, selectedVendor)
    <3>1. /\ ledger' \in Ledger /\ LedgerOK'
          /\ ledger'[runs[r].scenario].vendor = selectedVendor
      BY <2>2, LedgerLearns DEF LearnedAt
    <3>2. /\ stages' \in Board /\ BoardIs(stages', "finished", Warm(r))
          /\ stages'["guard"] = stages["guard"]
      BY <1>3, <2>2, LearnDone
    <3> QED
      BY <3>1, <3>2
  <2> QED
    BY <2>1, <2>2 DEF FinishThrows
<1>7. EngineTypeOK'
  BY <1>2, <1>3, <1>4, <1>6 DEF EngineTypeOK
<1>8. TokensOK'
  BY <1>2, <1>3, <1>5 DEF TokensOK
<1>9. BoughtAsAllowed'
  <2>1. /\ activeScenario = runs[r].scenario
        /\ path = IF Warm(r) THEN "warm" ELSE "cold"
        /\ BoardIs(stages, "learn", Warm(r))
    BY <1>3 DEF Shown
  <2>2. (path = "cold") = (stages["guard"] = "denied")
    BY <2>1 DEF BoardIs
  <2>3. selectedVendor # rejectedVendor
    <3>1. rejectedVendor = None \/ rejectedVendor \notin Verified
      BY <1>3 DEF Shown, WarmVendors, ColdVendors
    <3> QED
      BY <1>3, <3>1, EngineAssumption DEF Eligible
  <2> QED
    BY <1>2, <1>3, <1>6, <2>1, <2>2, <2>3 DEF BoughtAsAllowed, Eligible
<1>10. BoardOK'
  BY <1>3, <1>6, <1>9 DEF BoardOK, Warm
<1> QED
  BY <1>6, <1>7, <1>8, <1>10 DEF EngineInv

LEMMA StepKeeps ==
  ASSUME EngineInv, NEW r \in Run, Step(r) PROVE EngineInv'
BY CancelKeeps, DetectedKeeps, SourcedKeeps, EvidenceReturnedKeeps, ColdGuardKeeps,
   DeniedKeeps, RerouteKeeps, WarmGuardKeeps, PassedKeeps, ProcuredKeeps,
   FinishKeeps, FinishThrowsKeeps DEF Step

LEMMA EngineKeeps ==
  ASSUME EngineInv, [EngineNext]_engineVars PROVE EngineInv'
<1>1. CASE \E r \in Run, s \in Scenario : trigger(r, s)
  BY <1>1, TriggerKeeps
<1>2. CASE Reset
  <2>1. workspace' \in Scenario
    BY <1>2 DEF Reset, EngineInv, EngineTypeOK
  <2> QED
    BY <1>2, <2>1, ResetEmpties DEF Reset
<1>3. CASE \E s \in Scenario : setWorkspace(s)
  BY <1>3, ResetEmpties DEF setWorkspace
<1>4. CASE \E s \in Scenario : Reload(s)
  BY <1>4, ReloadEmpties
<1>5. CASE \E r \in Run : Step(r)
  BY <1>5, StepKeeps
<1>6. CASE UNCHANGED engineVars
  <2>1. UNCHANGED <<workspace, runToken, running, activeScenario, stages, path,
                    selectedVendor, rejectedVendor, ledger, runs, triggered>>
    BY <1>6 DEF engineVars, shownRun, stored
  <2> QED
    BY <2>1 DEF EngineInv, EngineTypeOK, TokensOK, BoardOK, LedgerOK, Awake, Current,
                Shown, Warm, Learned, Stranded, BoughtAsAllowed
<1> QED
  BY <1>1, <1>2, <1>3, <1>4, <1>5, <1>6 DEF EngineNext

(* Whatever the pages do is an operation of the engine, or none of its     *)
(* business.                                                               *)
LEMMA PagesUseTheEngine ==
  ASSUME workspace \in Scenario, [Next]_storeVars PROVE [EngineNext]_engineVars
<1>1. CASE Poll \/ Listened
  BY <1>1 DEF Poll, Listened
<1>2. CASE \E c \in Scenario : Answered(c) \/ Failed(c)
  BY <1>2 DEF Answered, Failed
<1>3. CASE \E c \in Scenario : SelectWorkspace(c)
  BY <1>3 DEF SelectWorkspace, EngineNext
<1>4. CASE \E r \in Run : AutoStart(r)
  BY <1>4 DEF AutoStart, EngineNext
<1>5. CASE \E r \in Run : Start(r)
  BY <1>5 DEF Start, EngineNext
<1>6. CASE \E r \in Run : EngineSteps(r)
  BY <1>6 DEF EngineSteps, EngineNext
<1>7. CASE StartOver \/ ReloadPage
  BY <1>7 DEF StartOver, ReloadPage, EngineNext
<1>8. CASE UNCHANGED storeVars
  BY <1>8 DEF storeVars
<1> QED
  BY <1>1, <1>2, <1>3, <1>4, <1>5, <1>6, <1>7, <1>8 DEF Next

(* EngineInv is an invariant of the browser application.                   *)
THEOREM EngineInvariant == Spec => []EngineInv
<1>1. Init => EngineInv
  BY InitEngine DEF Init
<1>2. EngineInv /\ [Next]_storeVars => EngineInv'
  BY PagesUseTheEngine, EngineKeeps DEF EngineInv, EngineTypeOK
<1> QED
  BY <1>1, <1>2, PTL DEF Spec

(* The pages only act on the engine through its operations: the provider,  *)
(* with its polls and its theatre, implements the engine's specification.  *)
THEOREM StoreImplementsEngine == Spec => EngineSpec
<1>1. Init => EngineInit
  BY DEF Init
<1>2. EngineInv /\ [Next]_storeVars => [EngineNext]_engineVars
  BY PagesUseTheEngine DEF EngineInv, EngineTypeOK
<1> QED
  BY <1>1, <1>2, EngineInvariant, PTL DEF Spec, EngineSpec
-----------------------------------------------------------------------------
LEMMA BoardOrdered ==
  ASSUME NEW board, NEW at, NEW warm \in BOOLEAN, BoardIs(board, at, warm),
         NEW i \in 1 .. 6, NEW j \in 1 .. 6, i < j,
         board[STAGE_ORDER[j]] \notin {"idle", "skipped"}
  PROVE  board[STAGE_ORDER[i]] \in {"done", "skipped", "denied"}
<1>1. /\ STAGE_ORDER[1] = "detect" /\ STAGE_ORDER[2] = "source"
      /\ STAGE_ORDER[3] = "verify" /\ STAGE_ORDER[4] = "guard"
      /\ STAGE_ORDER[5] = "procure" /\ STAGE_ORDER[6] = "learn"
  BY DEF STAGE_ORDER
<1>2. i \in {1, 2, 3, 4, 5}
  OBVIOUS
<1>3. CASE j = 2
  BY <1>1, <1>2, <1>3 DEF BoardIs
<1>4. CASE j = 3
  BY <1>1, <1>2, <1>4 DEF BoardIs
<1>5. CASE j = 4
  BY <1>1, <1>2, <1>5 DEF BoardIs
<1>6. CASE j = 5
  BY <1>1, <1>2, <1>6 DEF BoardIs
<1>7. CASE j = 6
  BY <1>1, <1>2, <1>7 DEF BoardIs
<1> QED
  BY <1>3, <1>4, <1>5, <1>6, <1>7

(* The board is one run's, in order, however many stale runs still sleep   *)
(* on their timers.                                                        *)
THEOREM BoardInOrder == Spec => []BoardIsInOrder
<1>1. EngineInv => BoardIsInOrder
  <2> SUFFICES ASSUME EngineInv PROVE BoardIsInOrder
    OBVIOUS
  <2>1. /\ running <=> Awake # {} \/ Stranded
        /\ \A q, r \in Awake : q = r
        /\ \A r \in Awake : activeScenario = runs[r].scenario
    BY DEF EngineInv, TokensOK, BoardOK, Shown, Stranded
  <2>2. \/ stages = idleStages
        \/ \E at, warm : warm \in BOOLEAN /\ BoardIs(stages, at, warm)
    <3>1. CASE Awake = {}
      BY <3>1 DEF EngineInv, BoardOK
    <3>2. CASE Awake # {}
      BY <3>2 DEF EngineInv, BoardOK, Shown, Warm
    <3> QED
      BY <3>1, <3>2
  <2>3. ASSUME NEW i \in 1 .. 6, NEW j \in 1 .. 6, i < j,
               stages[STAGE_ORDER[j]] \notin {"idle", "skipped"}
        PROVE  stages[STAGE_ORDER[i]] \in {"done", "skipped", "denied"}
    <3>1. STAGE_ORDER[j] \in Stage
      BY DEF Stage
    <3>2. stages # idleStages
      BY <2>3, <3>1 DEF idleStages
    <3> QED
      BY <2>2, <2>3, <3>2, BoardOrdered
  <2> QED
    BY <2>1, <2>3 DEF BoardIsInOrder
<1> QED
  BY <1>1, EngineInvariant, PTL

(* What a warm run skips an earlier run has earned, and what is bought on  *)
(* either path comes from a verified vendor.                               *)
THEOREM WarmEarned == Spec => []WarmIsEarned
<1>1. EngineInv => WarmIsEarned
  <2> SUFFICES ASSUME EngineInv PROVE WarmIsEarned
    OBVIOUS
  <2>1. \A r \in Run : runs[r].warm # None =>
          \E q \in Learned(runs[r].scenario) : q < r
    BY DEF EngineInv, LedgerOK
  <2>2. CASE Awake = {}
    <3>1. running => BoughtAsAllowed
      BY <2>2 DEF EngineInv, TokensOK, BoardOK
    <3> QED
      BY <2>1, <3>1 DEF WarmIsEarned, BoughtAsAllowed, Eligible
  <2>3. ASSUME Awake # {}, stages["procure"] # "idle"
        PROVE  /\ selectedVendor \in CandidatesOf(activeScenario) \intersect Verified
               /\ selectedVendor # rejectedVendor
               /\ (path = "cold") = (stages["guard"] = "denied")
               /\ path = "warm" => selectedVendor = ledger[activeScenario].vendor
    <3>1. PICK r \in Awake : Shown(r)
      BY <2>3 DEF EngineInv, BoardOK
    <3>2. runs[r].at \in Sleep
      BY DEF Awake
    <3>3. runs[r].at \in {"procure", "learn"}
      BY <2>3, <3>1, <3>2 DEF Shown, BoardIs, Sleep
    <3>4. (path = "cold") = (stages["guard"] = "denied")
      BY <3>1, <3>3 DEF Shown, BoardIs
    <3>5. CASE Warm(r)
      <4>1. WarmVendors(runs[r], selectedVendor, rejectedVendor,
                        ledger[runs[r].scenario].vendor)
        BY <3>1, <3>5 DEF Shown
      <4>2. activeScenario = runs[r].scenario
        BY <3>1 DEF Shown
      <4> QED
        BY <3>3, <3>4, <4>1, <4>2, EngineAssumption DEF WarmVendors, Eligible
    <3>6. CASE ~Warm(r)
      <4>1. ColdVendors(runs[r], selectedVendor, rejectedVendor)
        BY <3>1, <3>6 DEF Shown
      <4>2. activeScenario = runs[r].scenario /\ path = "cold"
        BY <3>1, <3>6 DEF Shown
      <4> QED
        BY <3>3, <3>4, <4>1, <4>2 DEF ColdVendors, Eligible
    <3> QED
      BY <3>5, <3>6
  <2> QED
    BY <2>1, <2>2, <2>3 DEF WarmIsEarned
<1> QED
  BY <1>1, EngineInvariant, PTL
-----------------------------------------------------------------------------
(* The recovery in progress, as the lifecycle sees it. *)
InProgress == IF running THEN triggered ELSE 0

LEMMA RunningIsARun == EngineInv /\ running => triggered \in Run /\ triggered # 0
<1>1. EngineInv /\ running => \E r \in Run : r = triggered
  BY DEF EngineInv, TokensOK, Awake, Stranded
<1> QED
  BY <1>1, EngineAssumption DEF Run

Ended == {r \in Run : runs[r].at = "finished"}

LEMMA FinishedAtTheEnd == EngineInv => AllFinished = Ended
  BY DEF EngineInv, EngineTypeOK, Runs, RunType, AllFinished, Finished, Ended

(* What ends no run leaves the record alone. *)
LEMMA RecordStands ==
  ASSUME EngineInv, EngineInv',
         \A r \in Run : runs'[r].at = "finished" <=> runs[r].at = "finished"
  PROVE  AllFinished' = AllFinished
<1>1. (EngineInv => AllFinished = Ended)'
  BY FinishedAtTheEnd, PTL
<1> QED
  BY <1>1, FinishedAtTheEnd DEF Ended

(* A sleep that leads to another changes nothing that the lifecycle sees. *)
LEMMA StepIsInside ==
  ASSUME EngineInv, EngineInv', NEW r \in Run, Step(r), ~Finish(r)
  PROVE  InProgress' = InProgress /\ AllFinished' = AllFinished
<1>1. running' = running /\ triggered' = triggered
  BY DEF Step, Cancel, Wake, UnchangedVendors, Detected, Sourced, EvidenceReturned,
         ColdGuard, Denied, Reroute, WarmGuard, Passed, Procured, FinishThrows
<1>2. PICK to \in (Sleep \union {"unlearned", "unrecorded", "cancelled"}) :
        runs[r].at \in Sleep /\ runs' = [runs EXCEPT ![r].at = to]
  BY DEF Step, Cancel, Wake, Sleep, Detected, Sourced, EvidenceReturned, ColdGuard,
         Denied, Reroute, WarmGuard, Passed, Procured, FinishThrows
<1>3. runs'[r].at = to /\ \A q \in Run : q # r => runs'[q] = runs[q]
  BY <1>2, RunMoves DEF EngineInv
<1>4. "finished" \notin Sleep \union {"unlearned", "unrecorded", "cancelled"}
  BY DEF Sleep
<1>5. \A q \in Run : runs'[q].at = "finished" <=> runs[q].at = "finished"
  BY <1>2, <1>3, <1>4
<1> QED
  BY <1>1, <1>5, RecordStands DEF InProgress

LEMMA FinishConcludes ==
  ASSUME EngineInv, EngineInv', NEW r \in Run, Finish(r)
  PROVE  /\ InProgress = r /\ r # 0 /\ InProgress' = 0
         /\ AllFinished' = AllFinished \union {r}
<1>1. /\ Wake(r, "learn", "finished") /\ ~running'
  BY DEF Finish
<1>2. r \in Awake
  BY <1>1 DEF Wake, Awake, Sleep
<1>3. running /\ r = triggered /\ r # 0
  BY <1>2, RunningIsARun DEF EngineInv, TokensOK
<1>4. runs'[r].at = "finished" /\ \A q \in Run : q # r => runs'[q] = runs[q]
  BY <1>1, RunMoves DEF Wake, EngineInv
<1>5. (EngineInv => AllFinished = Ended)'
  BY FinishedAtTheEnd, PTL
<1> QED
  BY <1>1, <1>3, <1>4, <1>5, FinishedAtTheEnd DEF InProgress, Ended

LEMMA TriggerBegins ==
  ASSUME EngineInv, EngineInv', NEW r \in Run, NEW s \in Scenario, trigger(r, s)
  PROVE  /\ InProgress = 0 /\ InProgress' = r
         /\ r \notin AllFinished /\ AllFinished' = AllFinished
<1>1. /\ ~running /\ running' /\ triggered' = r /\ r > triggered
  BY DEF trigger, EngineInv, EngineTypeOK
<1>2. runs[r].at = "none"
  BY <1>1 DEF EngineInv, TokensOK
<1>3. runs'[r].at = "detect" /\ \A q \in Run : q # r => runs'[q] = runs[q]
  BY DEF trigger, EngineInv, EngineTypeOK, Runs
<1>4. AllFinished' = AllFinished
  BY <1>2, <1>3, RecordStands
<1> QED
  BY <1>1, <1>2, <1>4, FinishedAtTheEnd DEF InProgress, Ended

(* A reset, a switch or a load gives up the run in progress, if any. *)
LEMMA InterruptAbandons ==
  ASSUME EngineInv, EngineInv', Reset \/ \E s \in Scenario : setWorkspace(s) \/ Reload(s)
  PROVE  InProgress' = 0 /\ AllFinished' = AllFinished
<1>1. running' = FALSE
  BY DEF Reset, setWorkspace, Reload, reset
<1>2. \A r \in Run : runs'[r].at = "finished" <=> runs[r].at = "finished"
  BY DEF Reset, setWorkspace, Reload, EngineInv, EngineTypeOK, Runs, RunType, Sleep
<1> QED
  BY <1>1, <1>2, RecordStands DEF InProgress

LEMMA LifecycleStep ==
  ASSUME EngineInv, EngineInv', [EngineNext]_engineVars
  PROVE  [Lifecycle!Next]_<<InProgress, AllFinished>>
<1>1. ASSUME NEW r \in Run, NEW s \in Scenario, trigger(r, s) PROVE Lifecycle!Begin
  BY <1>1, TriggerBegins DEF Lifecycle!Begin, InProgress
<1>2. ASSUME NEW r \in Run, Finish(r) PROVE Lifecycle!Conclude
  BY <1>2, FinishConcludes DEF Lifecycle!Conclude, InProgress
<1>3. ASSUME Reset \/ \E s \in Scenario : setWorkspace(s) \/ Reload(s)
      PROVE  Lifecycle!Abandon \/ UNCHANGED <<InProgress, AllFinished>>
  BY <1>3, InterruptAbandons DEF Lifecycle!Abandon, InProgress
<1>4. ASSUME NEW r \in Run, Step(r), ~Finish(r)
      PROVE  UNCHANGED <<InProgress, AllFinished>>
  BY <1>4, StepIsInside
<1>5. ASSUME UNCHANGED engineVars PROVE UNCHANGED <<InProgress, AllFinished>>
  BY <1>5 DEF engineVars, InProgress, AllFinished, Finished
<1> QED
  BY <1>1, <1>2, <1>3, <1>4, <1>5 DEF EngineNext, Lifecycle!Next

(* The simulation implements the lifecycle of recoveries, which is also    *)
(* what the control plane implements: what the browser shows by itself and *)
(* what it shows of the live system follow the same rules.                 *)
THEOREM SimulationLifecycle == Spec => ImplementsLifecycle
<1>1. EngineInit => Lifecycle!Init
  BY DEF EngineInit, Lifecycle!Init, AllFinished, Finished, Unused
<1>2. Init => Lifecycle!Init
  BY <1>1 DEF Init
<1>3. EngineInv /\ EngineInv' /\ [Next]_storeVars
        => [Lifecycle!Next]_<<InProgress, AllFinished>>
  BY PagesUseTheEngine, LifecycleStep DEF EngineInv, EngineTypeOK
<1> QED
  BY <1>2, <1>3, EngineInvariant, PTL
  DEF Spec, ImplementsLifecycle, Lifecycle!Spec, InProgress
-----------------------------------------------------------------------------
(* What the steps of the run on the board need when it comes to them.      *)
NothingIsMissing ==
  \A r \in Awake :
    LET s == runs[r].scenario
    IN  /\ runs[r].at = "verified" =>
             \/ /\ path = "cold"
                /\ VerifiedCandidate(s) \in CandidatesOf(s) \intersect Verified
                /\ IneligibleCandidate(s) \in CandidatesOf(s) \ Verified
             \/ /\ path = "warm"
                /\ runs[r].warm \in CandidatesOf(s) \intersect Verified
        /\ runs[r].at \in {"procure", "learn"} => selectedVendor \in Verified

(* None of the throws and early returns for want of a vendor or a candidate*)
(* is ever reached (runColdGuard, runWarmGuard, runProcure, runLearn and   *)
(* finish in engine.ts): each of them would leave `running` set, and the   *)
(* buttons disabled, until a reset, as only a refused write does.          *)
THEOREM NoRunLacksItsVendor == Spec => []NothingIsMissing
<1>1. EngineInv => NothingIsMissing
  <2> SUFFICES ASSUME EngineInv, NEW r \in Awake
               PROVE  LET s == runs[r].scenario
                      IN  /\ runs[r].at = "verified" =>
                               \/ /\ path = "cold"
                                  /\ VerifiedCandidate(s) \in CandidatesOf(s) \intersect Verified
                                  /\ IneligibleCandidate(s) \in CandidatesOf(s) \ Verified
                               \/ /\ path = "warm"
                                  /\ runs[r].warm \in CandidatesOf(s) \intersect Verified
                          /\ runs[r].at \in {"procure", "learn"} => selectedVendor \in Verified
    BY DEF NothingIsMissing
  <2>1. Shown(r) /\ runs[r].scenario \in Scenario
    BY DEF EngineInv, EngineTypeOK, BoardOK, Awake, Runs, RunType
  <2>2. CASE Warm(r)
    <3>1. path = "warm"
          /\ WarmVendors(runs[r], selectedVendor, rejectedVendor,
                         ledger[runs[r].scenario].vendor)
      BY <2>1, <2>2 DEF Shown
    <3> QED
      BY <3>1 DEF WarmVendors, Eligible
  <2>3. CASE ~Warm(r)
    <3>1. path = "cold" /\ ColdVendors(runs[r], selectedVendor, rejectedVendor)
      BY <2>1, <2>3 DEF Shown
    <3>2. /\ VerifiedCandidate(runs[r].scenario) \in Eligible(runs[r].scenario)
          /\ IneligibleCandidate(runs[r].scenario)
               \in CandidatesOf(runs[r].scenario) \ Verified
      BY <2>1, CandidatesFound
    <3> QED
      BY <3>1, <3>2 DEF ColdVendors, Eligible
  <2> QED
    BY <2>2, <2>3
<1> QED
  BY <1>1, EngineInvariant, PTL
-----------------------------------------------------------------------------
(* The sleeps that a run has left, on either path. *)
Sleeps == [detect |-> 8, source |-> 7, verify |-> 6, verified |-> 5,
           rejecting |-> 4, rerouting |-> 3, checking |-> 3, procure |-> 2,
           learn |-> 1]

SleepsLeft(run) == IF run.at \in Sleep THEN Sleeps[run.at] ELSE 0

(* No sleep is slept twice, and no run that is over wakes again.           *)
RunsWindDown ==
  [][\A r \in Run : r <= triggered /\ runs'[r] # runs[r]
       => SleepsLeft(runs'[r]) < SleepsLeft(runs[r])]_storeVars

LEMMA RunWindsDown ==
  ASSUME EngineInv, [EngineNext]_engineVars, NEW r \in Run, r <= triggered,
         runs'[r] # runs[r]
  PROVE  SleepsLeft(runs'[r]) < SleepsLeft(runs[r])
<1> USE DEF SleepsLeft, Sleeps, Sleep
<1>1. EngineTypeOK /\ runs[r] \in RunType
  BY DEF EngineInv, EngineTypeOK, Runs
<1>2. ASSUME NEW q \in Run, NEW s \in Scenario, trigger(q, s)
      PROVE  FALSE
  <2>1. q > triggered /\ triggered \in Int
    BY <1>1, <1>2 DEF trigger, EngineTypeOK
  <2>2. runs'[r] = runs[r]
    BY <1>1, <1>2, <2>1 DEF trigger, EngineTypeOK, Runs
  <2> QED
    BY <2>2
<1>3. CASE Reset \/ \E s \in Scenario : setWorkspace(s)
  BY <1>3 DEF Reset, setWorkspace
<1>4. ASSUME NEW s \in Scenario, Reload(s)
      PROVE  SleepsLeft(runs'[r]) < SleepsLeft(runs[r])
  <2>1. runs[r].at \in Sleep /\ runs'[r].at = "gone"
    BY <1>1, <1>4 DEF Reload, RunType
  <2> QED
    BY <2>1
<1>5. ASSUME NEW q \in Run, Step(q)
      PROVE  SleepsLeft(runs'[r]) < SleepsLeft(runs[r])
  <2>1. PICK to \in Sleep \union {"finished", "unlearned", "unrecorded", "cancelled"} :
          /\ runs' = [runs EXCEPT ![q].at = to]
          /\ runs[q].at \in Sleep
          /\ to \in Sleep => Sleeps[to] < Sleeps[runs[q].at]
    BY <1>5 DEF Step, Cancel, Wake, Detected, Sourced, EvidenceReturned, ColdGuard,
       Denied, Reroute, WarmGuard, Passed, Procured, Finish, FinishThrows
  <2>2. r = q /\ runs'[r].at = to
    BY <1>1, <2>1, RunMoves
  <2> QED
    BY <2>1, <2>2
<1>6. CASE UNCHANGED engineVars
  BY <1>6 DEF engineVars
<1> QED
  BY <1>2, <1>3, <1>4, <1>5, <1>6 DEF EngineNext

(* A run goes through its sleeps once, on either path, whoever resets,     *)
(* switches or loads the page meanwhile (trigger and wait in engine.ts):   *)
(* what RunIsSettled leaves to fairness is that its timers fire.           *)
THEOREM SimulatedRunsWindDown == Spec => RunsWindDown
<1>1. EngineInv /\ [Next]_storeVars
        => \A r \in Run : r <= triggered /\ runs'[r] # runs[r]
             => SleepsLeft(runs'[r]) < SleepsLeft(runs[r])
  BY PagesUseTheEngine, RunWindsDown DEF EngineInv, EngineTypeOK
<1> QED
  BY <1>1, EngineInvariant, PTL DEF Spec, RunsWindDown
=============================================================================
