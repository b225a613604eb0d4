----------------------- MODULE IncidentRecordsProofs -----------------------
(***************************************************************************)
(* What the browser remembers of its simulated runs is what they earned:   *)
(* RecordsAreEarned, for any number of runs, interruptions and records.    *)
(***************************************************************************)
EXTENDS ContinuumStoreProofs, SequenceTheorems

Entry ==
  [run : {0}] \union [run : Run, scenario : Scenario, vendor : Vendor,
                      path : {"cold", "warm"}]

(* The record at i says of its run what it did, and is newer than those    *)
(* behind it.                                                              *)
RecordIsTrue(i) ==
  LET record == incidents[i]
  IN  record.run # 0 =>
        /\ record.scenario = runs[record.run].scenario
        /\ record.path = (IF Warm(record.run) THEN "warm" ELSE "cold")
        /\ record.vendor \in CandidatesOf(record.scenario) \intersect Verified
        /\ \A j \in DOMAIN incidents : i < j => incidents[j].run < record.run

Kept(all) == IF all < IncidentCap THEN all ELSE IncidentCap

RecordsInv == incidents \in Seq(Entry) /\ RecordsAreEarned

LEMMA RecordsParts ==
  RecordsAreEarned <=>
    /\ \A s \in Scenario : ledger[s].hits = Cardinality(Learned(s))
    /\ RecordedRuns \subseteq AllFinished
    /\ Len(incidents) = Kept(Len(Seeds) + Cardinality(AllFinished))
    /\ \A i \in DOMAIN incidents : RecordIsTrue(i)
BY DEF RecordsAreEarned, RecordIsTrue, Kept

LEMMA FinishedFinite ==
  /\ \A s \in Scenario : Learned(s) \subseteq Run /\ IsFiniteSet(Learned(s))
  /\ AllFinished \subseteq Run /\ IsFiniteSet(AllFinished)
<1>1. IsFiniteSet(Run)
  BY EngineAssumption, FS_Interval DEF Run
<1>2. \A s \in Scenario : Learned(s) \subseteq Run
  BY DEF Learned
<1>3. AllFinished \subseteq Run
  BY DEF AllFinished, Finished
<1> QED
  BY <1>1, <1>2, <1>3, FS_Subset

LEMMA InitRecords == EngineInit => RecordsInv
<1> SUFFICES ASSUME EngineInit PROVE RecordsInv
  OBVIOUS
<1>1. /\ incidents = Seeds /\ \A r \in Run : runs[r].at = "none"
      /\ \A s \in Scenario : ledger[s].hits = 0
  BY DEF EngineInit, Unused
<1>2. (\A s \in Scenario : Learned(s) = {}) /\ AllFinished = {}
  BY <1>1 DEF Learned, Finished, AllFinished
<1>3. /\ incidents \in Seq(Entry)
      /\ \A i \in DOMAIN incidents : incidents[i].run = 0
      /\ Len(incidents) \in Nat /\ Len(incidents) <= IncidentCap
  <2>1. Seeds \in Seq([run : {0}]) /\ Len(Seeds) <= IncidentCap
    BY SeedAssumption
  <2>2. \A i \in DOMAIN Seeds : Seeds[i] \in [run : {0}]
    BY <2>1, LenProperties
  <2> QED
    BY <1>1, <2>1, <2>2 DEF Entry
<1>4. Len(incidents) = Kept(Len(Seeds) + Cardinality(AllFinished))
  BY <1>1, <1>2, <1>3, FS_EmptySet, EngineAssumption DEF Kept
<1>5. RecordedRuns = {}
  BY <1>3 DEF RecordedRuns
<1> QED
  BY <1>1, <1>2, <1>3, <1>4, <1>5, FS_EmptySet, RecordsParts DEF RecordsInv, RecordIsTrue

(* The list of incidents stands while no run ends, and the ledger if it    *)
(* counts those that wrote it.                                             *)
LEMMA ListStands ==
  ASSUME RecordsInv, incidents' = incidents,
         \A s \in Scenario : ledger'[s].hits = Cardinality(Learned(s)'),
         \A r \in Run : /\ (runs'[r].at = "finished") <=> (runs[r].at = "finished")
                        /\ runs[r].at = "finished" => runs'[r] = runs[r]
  PROVE  RecordsInv'
<1>1. \A s \in Scenario : Finished(s)' = Finished(s)
  BY DEF Finished
<1>2. AllFinished' = AllFinished
  BY <1>1 DEF AllFinished
<1>3. RecordedRuns' = RecordedRuns
  BY DEF RecordedRuns
<1>4. \A i \in DOMAIN incidents : RecordIsTrue(i)'
  <2> SUFFICES ASSUME NEW i \in DOMAIN incidents, incidents[i].run # 0
               PROVE  RecordIsTrue(i)'
    BY DEF RecordIsTrue
  <2>1. incidents[i].run \in AllFinished
    BY RecordsParts DEF RecordsInv, RecordedRuns
  <2>2. runs'[incidents[i].run] = runs[incidents[i].run]
    BY <2>1 DEF AllFinished, Finished
  <2>3. RecordIsTrue(i)
    BY RecordsParts DEF RecordsInv
  <2> QED
    BY <2>2, <2>3 DEF RecordIsTrue, Warm
<1>5. /\ \A s \in Scenario : ledger'[s].hits = Cardinality(Learned(s))'
      /\ RecordedRuns' \subseteq AllFinished'
      /\ Len(incidents') = Kept(Len(Seeds) + Cardinality(AllFinished'))
      /\ \A i \in DOMAIN incidents' : RecordIsTrue(i)'
  BY <1>1, <1>2, <1>3, <1>4, RecordsParts DEF RecordsInv
<1> QED
  BY <1>5 DEF RecordsInv, RecordsAreEarned, RecordIsTrue, Kept

LEMMA RecordsStand ==
  ASSUME RecordsInv, UNCHANGED stored,
         \A r \in Run : /\ (runs'[r].at \in LearnedAt) <=> (runs[r].at \in LearnedAt)
                        /\ runs[r].at \in LearnedAt => runs'[r] = runs[r]
  PROVE  RecordsInv'
<1>1. \A s \in Scenario : Learned(s)' = Learned(s)
  BY DEF Learned, LearnedAt
<1>2. \A s \in Scenario : ledger'[s].hits = Cardinality(Learned(s)')
  BY <1>1, RecordsParts DEF RecordsInv, stored
<1>3. \A r \in Run : /\ (runs'[r].at = "finished") <=> (runs[r].at = "finished")
                     /\ runs[r].at = "finished" => runs'[r] = runs[r]
  BY DEF LearnedAt
<1> QED
  BY <1>2, <1>3, ListStands DEF stored

(* A run that writes the ledger is counted in it. *)
LEMMA HitCounted ==
  ASSUME EngineInv, RecordsInv, NEW r \in Run, NEW to \in LearnedAt,
         Wake(r, "learn", to), upsertLedgerEntry(runs[r].scenario, selectedVendor)
  PROVE  \A c \in Scenario : ledger'[c].hits = Cardinality(Learned(c)')
<1> DEFINE s == runs[r].scenario
<1>1. /\ s \in Scenario /\ runs[r].at = "learn" /\ runs'[r].at = to
      /\ \A q \in Run : /\ runs'[q].scenario = runs[q].scenario
                        /\ q # r => runs'[q] = runs[q]
  BY LastWake DEF LearnedAt
<1>2. ledger' = [ledger EXCEPT ![s] = [vendor |-> selectedVendor,
                                       hits |-> ledger[s].hits + 1]]
  BY DEF upsertLedgerEntry
<1>3. ledger \in Ledger
  BY DEF EngineInv, EngineTypeOK
<1>4. \A q \in Run : q # r =>
        ((runs'[q].at \in LearnedAt) <=> (runs[q].at \in LearnedAt))
  BY <1>1
<1> SUFFICES ASSUME NEW c \in Scenario
             PROVE  ledger'[c].hits = Cardinality(Learned(c)')
  OBVIOUS
<1>5. ledger[c].hits = Cardinality(Learned(c))
  BY RecordsParts DEF RecordsInv
<1>6. CASE c = s
  <2>1. Learned(c)' = Learned(c) \union {r} /\ r \notin Learned(c)
    BY <1>1, <1>4, <1>6 DEF Learned, LearnedAt
  <2>2. Cardinality(Learned(c) \union {r}) = Cardinality(Learned(c)) + 1
    BY <2>1, FinishedFinite, FS_AddElement
  <2>3. ledger'[c].hits = ledger[c].hits + 1
    BY <1>1, <1>2, <1>3, <1>6 DEF Ledger
  <2> QED
    BY <1>5, <2>1, <2>2, <2>3
<1>7. CASE c # s
  <2>1. Learned(c)' = Learned(c)
    BY <1>1, <1>4, <1>7 DEF Learned, LearnedAt
  <2>2. ledger'[c] = ledger[c]
    BY <1>1, <1>2, <1>3, <1>7 DEF Ledger
  <2> QED
    BY <1>5, <2>1, <2>2
<1> QED
  BY <1>6, <1>7

-----------------------------------------------------------------------------
(* The list with one more record in front, cut to its size. *)
LEMMA Appended ==
  ASSUME NEW record \in Entry, incidents \in Seq(Entry), Len(incidents) <= IncidentCap,
         appendIncident(record)
  PROVE  /\ incidents' \in Seq(Entry)
         /\ Len(incidents') = Kept(Len(incidents) + 1)
         /\ DOMAIN incidents' = 1 .. Len(incidents')
         /\ 1 \in DOMAIN incidents' /\ incidents'[1] = record
         /\ \A i \in DOMAIN incidents' :
              i # 1 => i - 1 \in DOMAIN incidents /\ incidents'[i] = incidents[i - 1]
<1> DEFINE all == <<record>> \o incidents
           n == Kept(Len(all))
<1>1. /\ <<record>> \in Seq(Entry) /\ Len(<<record>>) = 1 /\ <<record>>[1] = record
      /\ Len(incidents) \in Nat /\ DOMAIN incidents = 1 .. Len(incidents)
  OBVIOUS
<1>2. /\ all \in Seq(Entry) /\ Len(all) = Len(incidents) + 1
      /\ \A i \in 1 .. Len(incidents) + 1 :
           all[i] = IF i = 1 THEN record ELSE incidents[i - 1]
  <2>1. /\ all \in Seq(Entry) /\ Len(all) = 1 + Len(incidents)
        /\ \A i \in 1 .. 1 + Len(incidents) :
             all[i] = IF i <= 1 THEN <<record>>[i] ELSE incidents[i - 1]
    BY <1>1, ConcatProperties
  <2> QED
    BY <1>1, <2>1
<1>3. n \in 1 .. Len(all) /\ n <= IncidentCap
  BY <1>1, <1>2, EngineAssumption DEF Kept
<1>4. incidents' = SubSeq(all, 1, n)
  BY DEF appendIncident, Kept
<1> HIDE DEF all, n
<1>5. \A i \in 1 .. n : all[i] \in Entry
  BY <1>2, <1>3
<1>6. /\ SubSeq(all, 1, n) \in Seq(Entry) /\ Len(SubSeq(all, 1, n)) = n
      /\ \A i \in 1 .. n : SubSeq(all, 1, n)[i] = all[i]
  <2>1. n \in Int
    BY <1>3
  <2>2. /\ SubSeq(all, 1, n) \in Seq(Entry)
        /\ Len(SubSeq(all, 1, n)) = (IF 1 <= n THEN n - 1 + 1 ELSE 0)
        /\ \A i \in 1 .. n - 1 + 1 : SubSeq(all, 1, n)[i] = all[1 + i - 1]
    BY <1>5, <2>1, SubSeqProperties
  <2> QED
    BY <1>3, <2>2
<1>7. incidents' \in Seq(Entry) /\ Len(incidents') = n /\ DOMAIN incidents' = 1 .. n
  BY <1>4, <1>6
<1>8. incidents'[1] = record
  BY <1>2, <1>3, <1>4, <1>6
<1>9. ASSUME NEW i \in 1 .. n, i # 1
      PROVE  i - 1 \in DOMAIN incidents /\ incidents'[i] = incidents[i - 1]
  BY <1>1, <1>2, <1>3, <1>4, <1>6, <1>9
<1> QED
  BY <1>2, <1>3, <1>7, <1>8, <1>9 DEF n

(* What the run that ends has bought, from the run that is awake. *)
LEMMA FinishFacts ==
  ASSUME EngineInv, NEW r \in Run, Finish(r)
  PROVE  /\ runs[r].scenario \in Scenario
         /\ selectedVendor \in Eligible(runs[r].scenario)
         /\ path = (IF Warm(r) THEN "warm" ELSE "cold")
         /\ \A q \in Run : runs[q].at = "finished" => q < r
         /\ runs[r].at = "learn" /\ runs'[r].at = "finished"
         /\ \A q \in Run : /\ runs'[q].scenario = runs[q].scenario
                           /\ runs'[q].warm = runs[q].warm
                           /\ q # r => runs'[q] = runs[q]
<1>1. Wake(r, "learn", "finished")
  BY DEF Finish
<1>2. EngineTypeOK /\ TokensOK /\ BoardOK
  BY DEF EngineInv
<1>3. /\ runs'[r].at = "finished"
      /\ \A q \in Run : /\ runs'[q].scenario = runs[q].scenario
                        /\ runs'[q].warm = runs[q].warm
                        /\ q # r => runs'[q] = runs[q]
  BY <1>1, <1>2, RunMoves DEF Wake
<1>4. r \in Awake /\ Shown(r) /\ runs[r].at = "learn"
  BY <1>1, <1>2 DEF Wake, Awake, Sleep, BoardOK
<1>5. selectedVendor \in Eligible(runs[r].scenario)
  BY <1>4 DEF Shown, WarmVendors, ColdVendors
<1>6. \A q \in Run : runs[q].at = "finished" => q < r
  <2> SUFFICES ASSUME NEW q \in Run, runs[q].at = "finished" PROVE q < r
    OBVIOUS
  <2>1. r = triggered /\ ~(q > triggered) /\ q # r
    BY <1>2, <1>4 DEF TokensOK
  <2> QED
    BY <2>1, EngineAssumption DEF Run
<1>7. runs[r].scenario \in Scenario
  BY <1>2 DEF EngineTypeOK, Runs, RunType
<1> QED
  BY <1>3, <1>4, <1>5, <1>6, <1>7 DEF Shown

LEMMA FinishRecords ==
  ASSUME EngineInv, RecordsInv, NEW r \in Run, Finish(r)
  PROVE  RecordsInv'
<1> DEFINE s == runs[r].scenario
           record == Record(r)
<1>1. /\ s \in Scenario /\ selectedVendor \in Eligible(s)
      /\ path = (IF Warm(r) THEN "warm" ELSE "cold")
      /\ \A q \in Run : runs[q].at = "finished" => q < r
      /\ runs[r].at = "learn" /\ runs'[r].at = "finished"
      /\ \A q \in Run : /\ runs'[q].scenario = runs[q].scenario
                        /\ runs'[q].warm = runs[q].warm
                        /\ q # r => runs'[q] = runs[q]
  BY FinishFacts
<1>2. appendIncident(record)
  BY DEF Finish
<1>3. /\ record \in Entry /\ record.run = r /\ record.scenario = s
      /\ record.vendor = selectedVendor /\ record.path = path
  BY <1>1, EngineAssumption DEF Record, Entry, Eligible
<1>4. /\ \A c \in Scenario : c # s =>
           {q \in Run : runs'[q].at = "finished" /\ runs'[q].scenario = c} = Finished(c)
      /\ {q \in Run : runs'[q].at = "finished" /\ runs'[q].scenario = s} = Finished(s) \union {r}
      /\ r \notin AllFinished
  <2>1. \A q \in Run : q # r => ((runs'[q].at = "finished") <=> (runs[q].at = "finished"))
    BY <1>1
  <2>2. r \notin AllFinished
    BY <1>1 DEF AllFinished, Finished
  <2> QED
    BY <1>1, <2>1, <2>2 DEF Finished
<1> HIDE DEF s, record
<1>5. AllFinished' = AllFinished \union {r}
  <2>1. \A c \in Scenario : Finished(c)' = IF c = s THEN Finished(s) \union {r} ELSE Finished(c)
    BY <1>4 DEF Finished
  <2> QED
    BY <1>1, <2>1 DEF AllFinished
<1>6. Cardinality(AllFinished') = Cardinality(AllFinished) + 1
  BY <1>4, <1>5, FinishedFinite, FS_AddElement
<1>7. \A c \in Scenario : ledger'[c].hits = Cardinality(Learned(c)')
  BY HitCounted DEF Finish, LearnedAt
<1>8. /\ incidents \in Seq(Entry) /\ Len(Seeds) \in Nat
      /\ Len(incidents) = Kept(Len(Seeds) + Cardinality(AllFinished))
      /\ RecordedRuns \subseteq AllFinished
      /\ \A i \in DOMAIN incidents : RecordIsTrue(i)
      /\ Cardinality(AllFinished) \in Nat
  BY RecordsParts, SeedAssumption, FinishedFinite, FS_CardinalityType DEF RecordsInv
<1>9. Len(incidents) <= IncidentCap
  BY <1>8, EngineAssumption DEF Kept
<1>10. /\ incidents' \in Seq(Entry)
       /\ Len(incidents') = Kept(Len(incidents) + 1)
       /\ DOMAIN incidents' = 1 .. Len(incidents')
       /\ 1 \in DOMAIN incidents' /\ incidents'[1] = record
       /\ \A i \in DOMAIN incidents' :
            i # 1 => i - 1 \in DOMAIN incidents /\ incidents'[i] = incidents[i - 1]
  BY <1>2, <1>3, <1>8, <1>9, Appended
<1>11. Len(incidents') = Kept(Len(Seeds) + Cardinality(AllFinished'))
  BY <1>6, <1>8, <1>10, EngineAssumption DEF Kept
<1>12. \A i \in DOMAIN incidents : incidents[i].run # 0 => incidents[i].run \in AllFinished
  BY <1>8 DEF RecordedRuns
<1>13. RecordedRuns' \subseteq AllFinished'
  <2> SUFFICES ASSUME NEW i \in DOMAIN incidents', incidents'[i].run # 0
               PROVE  incidents'[i].run \in AllFinished'
    BY DEF RecordedRuns
  <2> QED
    BY <1>3, <1>5, <1>10, <1>12
<1>14. ASSUME NEW i \in DOMAIN incidents PROVE incidents[i].run < r
  <2>1. CASE incidents[i].run = 0
    BY <2>1, EngineAssumption DEF Run
  <2>2. CASE incidents[i].run # 0
    BY <1>1, <1>12, <2>2 DEF AllFinished, Finished
  <2> QED
    BY <2>1, <2>2
<1>15. \A i \in DOMAIN incidents' : RecordIsTrue(i)'
  <2> SUFFICES ASSUME NEW i \in DOMAIN incidents' PROVE RecordIsTrue(i)'
    OBVIOUS
  <2>1. CASE i = 1
    <3>1. \A j \in DOMAIN incidents' : i < j => incidents'[j].run < r
      BY <1>10, <1>14, <2>1
    <3>2. /\ s = runs'[r].scenario /\ (runs'[r].warm # None) = Warm(r)
      BY <1>1 DEF s, Warm
    <3> QED
      BY <1>1, <1>3, <1>10, <2>1, <3>1, <3>2 DEF RecordIsTrue, Warm, Eligible
  <2>2. CASE i # 1
    <3>1. i - 1 \in DOMAIN incidents /\ incidents'[i] = incidents[i - 1]
          /\ RecordIsTrue(i - 1)
      BY <1>8, <1>10, <2>2
    <3>2. incidents[i - 1].run # 0 => /\ incidents[i - 1].run \in Run
                                      /\ incidents[i - 1].run # r
      BY <1>4, <1>12, <3>1, FinishedFinite
    <3>3. \A j \in DOMAIN incidents' : i < j /\ incidents'[i].run # 0 =>
            incidents'[j].run < incidents'[i].run
      <4> SUFFICES ASSUME NEW j \in DOMAIN incidents', i < j, incidents'[i].run # 0
                   PROVE  incidents'[j].run < incidents'[i].run
        OBVIOUS
      <4>1. i \in Nat /\ j \in Nat /\ j # 1
        BY <1>10
      <4>2. /\ j - 1 \in DOMAIN incidents /\ incidents'[j] = incidents[j - 1]
            /\ i - 1 < j - 1
        BY <1>10, <4>1
      <4> QED
        BY <3>1, <4>2 DEF RecordIsTrue
    <3>4. incidents[i - 1].run # 0 =>
            /\ incidents[i - 1].scenario = runs[incidents[i - 1].run].scenario
            /\ incidents[i - 1].path = (IF Warm(incidents[i - 1].run) THEN "warm" ELSE "cold")
            /\ incidents[i - 1].vendor \in
                 CandidatesOf(incidents[i - 1].scenario) \intersect Verified
      BY <3>1 DEF RecordIsTrue
    <3>5. incidents[i - 1].run # 0 => runs'[incidents[i - 1].run] = runs[incidents[i - 1].run]
      BY <1>1, <3>2
    <3> QED
      BY <3>1, <3>3, <3>4, <3>5 DEF RecordIsTrue, Warm
  <2> QED
    BY <2>1, <2>2
<1> QED
  BY <1>7, <1>10, <1>11, <1>13, <1>15
  DEF RecordsInv, RecordsAreEarned, RecordIsTrue, Kept
-----------------------------------------------------------------------------
(* A refused write leaves the list alone, and the ledger or its count true. *)
LEMMA ThrowRecords ==
  ASSUME EngineInv, RecordsInv, NEW r \in Run, FinishThrows(r)
  PROVE  RecordsInv'
<1>1. PICK to \in {"unlearned", "unrecorded"} : Wake(r, "learn", to)
  BY DEF FinishThrows
<1>2. /\ runs[r].at = "learn" /\ runs'[r].at = to
      /\ \A q \in Run : q # r => runs'[q] = runs[q]
  BY <1>1, LastWake
<1>3. \A q \in Run : /\ (runs'[q].at = "finished") <=> (runs[q].at = "finished")
                     /\ runs[q].at = "finished" => runs'[q] = runs[q]
  BY <1>1, <1>2
<1>4. CASE Wake(r, "learn", "unlearned") /\ UNCHANGED ledger
  <2>1. runs'[r].at = "unlearned"
    BY <1>4, LastWake
  <2>2. \A q \in Run : /\ (runs'[q].at \in LearnedAt) <=> (runs[q].at \in LearnedAt)
                       /\ runs[q].at \in LearnedAt => runs'[q] = runs[q]
    BY <1>2, <2>1 DEF LearnedAt
  <2> QED
    BY <1>4, <2>2, RecordsStand DEF FinishThrows, stored
<1>5. CASE /\ Wake(r, "learn", "unrecorded")
           /\ upsertLedgerEntry(runs[r].scenario, selectedVendor)
  <2>1. \A c \in Scenario : ledger'[c].hits = Cardinality(Learned(c)')
    BY <1>5, HitCounted DEF LearnedAt
  <2> QED
    BY <1>3, <2>1, ListStands DEF FinishThrows
<1> QED
  BY <1>4, <1>5 DEF FinishThrows

(* Any other step of a run, as its own record shows it. *)
LEMMA WakeRecords ==
  ASSUME EngineInv, RecordsInv, NEW r \in Run, NEW to \in Sleep \union {"cancelled"},
         runs' = [runs EXCEPT ![r].at = to], runs[r].at \in Sleep, UNCHANGED stored
  PROVE  RecordsInv'
<1>1. /\ runs'[r].at = to /\ \A q \in Run : q # r => runs'[q] = runs[q]
  BY RunMoves DEF EngineInv
<1>2. \A at \in LearnedAt : at \notin Sleep \union {"cancelled"}
  BY DEF Sleep, LearnedAt
<1>3. \A q \in Run : /\ (runs'[q].at \in LearnedAt) <=> (runs[q].at \in LearnedAt)
                     /\ runs[q].at \in LearnedAt => runs'[q] = runs[q]
  <2> SUFFICES ASSUME NEW q \in Run
               PROVE  /\ (runs'[q].at \in LearnedAt) <=> (runs[q].at \in LearnedAt)
                      /\ runs[q].at \in LearnedAt => runs'[q] = runs[q]
    OBVIOUS
  <2>1. CASE q = r
    BY <1>1, <1>2, <2>1
  <2>2. CASE q # r
    BY <1>1, <2>2
  <2> QED
    BY <2>1, <2>2
<1> QED
  BY <1>3, RecordsStand

LEMMA StepRecords ==
  ASSUME EngineInv, RecordsInv, NEW r \in Run, Step(r)
  PROVE  RecordsInv'
<1>1. CASE Finish(r)
  BY <1>1, FinishRecords
<1>2. CASE Cancel(r)
  BY <1>2, WakeRecords DEF Cancel
<1>3. ASSUME NEW from \in Sleep, NEW to \in Sleep, Wake(r, from, to), UNCHANGED stored
      PROVE  RecordsInv'
  BY <1>3, WakeRecords DEF Wake
<1>4. CASE \/ Detected(r) \/ Sourced(r) \/ EvidenceReturned(r) \/ Denied(r)
           \/ Reroute(r) \/ Passed(r) \/ Procured(r)
  BY <1>3, <1>4 DEF Detected, Sourced, EvidenceReturned, Denied, Reroute, Passed,
                    Procured, UnchangedVendors, Sleep
<1>5. CASE ColdGuard(r) \/ WarmGuard(r)
  BY <1>3, <1>5 DEF ColdGuard, WarmGuard, Sleep
<1>6. CASE FinishThrows(r)
  BY <1>6, ThrowRecords
<1> QED
  BY <1>1, <1>2, <1>4, <1>5, <1>6 DEF Step

LEMMA EngineRecords ==
  ASSUME EngineInv, RecordsInv, [EngineNext]_engineVars
  PROVE  RecordsInv'
<1>1. CASE \E r \in Run, s \in Scenario : trigger(r, s)
  <2>1. PICK r \in Run, s \in Scenario : trigger(r, s)
    BY <1>1
  <2>2. /\ runs' = [runs EXCEPT ![r] = [at |-> "detect", token |-> runToken',
                                        scenario |-> s, warm |-> WarmVendor(s)]]
        /\ r = triggered + 1 /\ UNCHANGED stored
    BY <2>1 DEF trigger
  <2>3. runs \in [Run -> RunType] /\ triggered \in Nat
    BY DEF EngineInv, EngineTypeOK, Runs
  <2>4. runs[r].at = "none"
    BY <2>2, <2>3 DEF EngineInv, TokensOK
  <2>5. runs'[r].at = "detect" /\ \A q \in Run : q # r => runs'[q] = runs[q]
    BY <2>2, <2>3
  <2> QED
    BY <2>2, <2>4, <2>5, RecordsStand DEF LearnedAt
<1>2. CASE Reset \/ \E s \in Scenario : setWorkspace(s)
  <2>1. UNCHANGED <<stored, runs>>
    BY <1>2 DEF Reset, setWorkspace
  <2> QED
    BY <2>1, RecordsStand
<1>3. CASE \E s \in Scenario : Reload(s)
  <2>1. /\ runs' = [r \in Run |-> IF runs[r].at \in Sleep
                                  THEN [runs[r] EXCEPT !.at = "gone"] ELSE runs[r]]
        /\ UNCHANGED stored /\ runs \in [Run -> RunType]
    BY <1>3 DEF Reload, EngineInv, EngineTypeOK, Runs
  <2>2. "gone" \notin LearnedAt /\ \A at \in LearnedAt : at \notin Sleep
    BY DEF Sleep, LearnedAt
  <2>3. \A r \in Run : IF runs[r].at \in Sleep THEN runs'[r].at = "gone"
                                               ELSE runs'[r] = runs[r]
    BY <2>1 DEF RunType
  <2> QED
    BY <2>1, <2>2, <2>3, RecordsStand
<1>4. CASE \E r \in Run : Step(r)
  BY <1>4, StepRecords
<1>5. CASE UNCHANGED engineVars
  BY <1>5, RecordsStand DEF engineVars
<1> QED
  BY <1>1, <1>2, <1>3, <1>4, <1>5 DEF EngineNext

(* A run that is interrupted leaves no trace in what the browser remembers *)
(* and one that ends leaves exactly one.                                   *)
THEOREM RecordsEarned == Spec => []RecordsAreEarned
<1>1. Init => RecordsInv
  BY InitRecords DEF Init
<1>2. EngineInv /\ RecordsInv /\ [Next]_storeVars => RecordsInv'
  BY PagesUseTheEngine, EngineRecords DEF EngineInv, EngineTypeOK
<1>3. RecordsInv => RecordsAreEarned
  BY DEF RecordsInv
<1> QED
  BY <1>1, <1>2, <1>3, EngineInvariant, PTL DEF Spec
=============================================================================
