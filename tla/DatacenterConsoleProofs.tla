---------------------- MODULE DatacenterConsoleProofs -----------------------
(***************************************************************************)
(* The client console, for any number of faults and interruptions: the     *)
(* inductive invariant ConsoleInv, that an incident is handed over once    *)
(* and only when confirmed, that a review is shown only when the control   *)
(* plane has accepted the incident, and that the console and those around  *)
(* it do to the store what ClientStore allows.                             *)
(***************************************************************************)
EXTENDS DatacenterConsole, TLAPS

(* What a sample does to the detector's state: it meets either a known     *)
(* incident or the count of the breaches of its own fault (tick).          *)
SampleMeets(f, known, count) ==
  /\ f \in ActiveFault
  /\ known = None \/ known \in ClientIncident
  /\ count \in 0 .. 2
  /\ known = None => count = f.breaches /\ count < 2

LEMMA SampleKeepsTypes ==
  ASSUME TypeOK, NEW f, NEW known, NEW count,
         SampleMeets(f, known, count), Sample(f, known, count)
  PROVE  /\ activeFault' \in ActiveFault /\ activeFault'.id = f.id
         /\ breachCount' \in 0 .. 2
         /\ incident' = None \/ incident' \in ClientIncident
         /\ handoff' \in [Fault -> {"none", "sent", "accepted", "settled"}]
         /\ \A g \in Fault : g # f.id => handoff'[g] = handoff[g]
<1> DEFINE breach == evaluateNode(Metrics(f.type, f.elapsed))
           n == IF breach THEN count + 1 ELSE 0
<1>1. activeFault' \in ActiveFault /\ activeFault'.id = f.id
  BY DEF Sample, SampleMeets, ActiveFault
<1>2. CASE known # None
  BY <1>1, <1>2 DEF Sample, SampleMeets, TypeOK
<1>3. CASE known = None
  <2>1. /\ breachCount' = n
        /\ IF n >= 2 THEN openIncident(f) ELSE incident' = None /\ UNCHANGED handoff
    BY <1>3 DEF Sample
  <2>2. n \in 0 .. 2
    BY <1>3 DEF SampleMeets
  <2>3. f.id \in Fault
    BY DEF SampleMeets, ActiveFault
  <2> HIDE DEF n
  <2>4. CASE openIncident(f)
    BY <1>1, <2>1, <2>2, <2>3, <2>4 DEF openIncident, TypeOK, ClientIncident
  <2>5. CASE incident' = None /\ UNCHANGED handoff
    BY <1>1, <2>1, <2>2, <2>5 DEF TypeOK
  <2> QED
    BY <2>1, <2>4, <2>5
<1> QED
  BY <1>2, <1>3

(* A sample hands its fault over only without an incident, at the second   *)
(* breach in a row, and otherwise counts on.                               *)
LEMMA SampleConfirms ==
  ASSUME TypeOK, NEW f, NEW known, NEW count,
         SampleMeets(f, known, count), Sample(f, known, count)
  PROVE  /\ \/ handoff' = handoff
            \/ /\ known = None /\ activeFault'.breaches = 2
               /\ handoff' = [handoff EXCEPT ![f.id] = "sent"]
         /\ incident' = None =>
              /\ handoff' = handoff /\ known = None
              /\ breachCount' = activeFault'.breaches /\ breachCount' < 2
<1> DEFINE breach == evaluateNode(Metrics(f.type, f.elapsed))
           n == IF breach THEN count + 1 ELSE 0
<1>1. CASE known # None
  BY <1>1 DEF Sample
<1>2. CASE known = None
  <2>1. /\ breachCount' = n
        /\ IF n >= 2 THEN openIncident(f) ELSE incident' = None /\ UNCHANGED handoff
    BY <1>2 DEF Sample
  <2>2. activeFault'.breaches = n
    <3>1. f.breaches = count /\ count \in 0 .. 1
      BY <1>2 DEF SampleMeets
    <3>2. activeFault' =
            [f EXCEPT !.breaches = IF breach THEN IF f.breaches < 2 THEN f.breaches + 1 ELSE 2
                                             ELSE 0]
      BY DEF Sample
    <3> HIDE DEF breach
    <3> QED
      BY <3>1, <3>2 DEF SampleMeets, ActiveFault
  <2>3. n \in 0 .. 2
    BY <1>2 DEF SampleMeets
  <2> HIDE DEF n
  <2>4. CASE n >= 2
    <3>1. openIncident(f)
      BY <2>1, <2>4
    <3>2. incident' \in ClientIncident
      BY <3>1 DEF openIncident, ClientIncident, SampleMeets, ActiveFault
    <3> QED
      BY <1>2, <2>2, <2>3, <2>4, <3>1, <3>2, ConsoleAssumption DEF openIncident
  <2>5. CASE ~(n >= 2)
    BY <1>2, <2>1, <2>2, <2>3, <2>5
  <2> QED
    BY <2>4, <2>5
<1> QED
  BY <1>1, <1>2

-----------------------------------------------------------------------------
LEMMA IdleTypes == \A home \in BOOLEAN : Idle(home) \in DemoState
BY DEF Idle, DemoState, RunStatus

LEMMA InitConsole == Init => ConsoleInv
<1> SUFFICES ASSUME Init PROVE ConsoleInv
  OBVIOUS
<1>1. server \in Server
  BY IdleTypes, ConsoleAssumption DEF Init, Server
<1> QED
  BY <1>1, ConsoleAssumption DEF Init, ConsoleInv, TypeOK, WatchIsFresh, Fault

(* The samples of the timer. *)
Watched(e) == [activeFault EXCEPT !.elapsed = e, !.fullPeriod = TRUE]

LEMMA WatchMeets ==
  ASSUME ConsoleInv, activeFault # None, NEW e \in 0 .. 1
  PROVE  SampleMeets(Watched(e), incident, breachCount) /\ Watched(e).id = injected
BY DEF ConsoleInv, TypeOK, WatchIsFresh, SampleMeets, Watched, ActiveFault

LEMMA SampleKeepsInv ==
  ASSUME ConsoleInv, NEW f, NEW known, NEW count,
         SampleMeets(f, known, count), Sample(f, known, count),
         f.id = injected', injected' \in 0 .. MaxFaults, injected' >= injected,
         known = None => handoff[f.id] = "none",
         mounted' \in BOOLEAN, UNCHANGED <<polled, answers, resets, external>>,
         interruptions' = interruptions
  PROVE  ConsoleInv'
<1>1. TypeOK
  BY DEF ConsoleInv
<1>2. TypeOK'
  BY <1>1, SampleKeepsTypes DEF TypeOK, external
<1>3. WatchIsFresh'
  <2>1. activeFault'.id = injected' /\ f.id \in Fault
    BY <1>1, SampleKeepsTypes DEF SampleMeets, ActiveFault
  <2>2. \A g \in Fault : g > injected' => handoff'[g] = "none"
    <3> SUFFICES ASSUME NEW g \in Fault, g > injected' PROVE handoff'[g] = "none"
      OBVIOUS
    <3>1. handoff'[g] = handoff[g]
      BY <1>1, <2>1, SampleKeepsTypes DEF Fault, ConsoleAssumption
    <3>2. g > injected
      BY <1>1, ConsoleAssumption DEF Fault, TypeOK
    <3> QED
      BY <3>1, <3>2 DEF ConsoleInv, WatchIsFresh
  <2>3. incident' = None => /\ handoff'[activeFault'.id] = "none"
                            /\ breachCount' = activeFault'.breaches /\ breachCount' < 2
    BY <1>1, <2>1, SampleConfirms
  <2> QED
    BY <2>1, <2>2, <2>3 DEF WatchIsFresh
<1> QED
  BY <1>2, <1>3 DEF ConsoleInv

(* What the next step may do besides, without a fault to sample. *)
LEMMA TickKeepsInv == ASSUME ConsoleInv, Tick PROVE ConsoleInv'
<1>1. CASE activeFault = None
  BY <1>1 DEF Tick, NoSample, ConsoleInv, TypeOK, WatchIsFresh, hook, external
<1>2. CASE activeFault # None
  <2>1. PICK e \in (IF activeFault.fullPeriod THEN {1} ELSE activeFault.elapsed .. 1) :
          Sample(Watched(e), incident, breachCount)
    BY <1>2 DEF Tick, Watched
  <2>2. e \in 0 .. 1
    <3>1. activeFault.elapsed \in 0 .. 1
      BY <1>2 DEF ConsoleInv, TypeOK, ActiveFault
    <3> QED
      BY <2>1, <3>1
  <2>3. SampleMeets(Watched(e), incident, breachCount) /\ Watched(e).id = injected
    BY <1>2, <2>2, WatchMeets
  <2>4. incident = None => handoff[injected] = "none"
    BY <1>2 DEF ConsoleInv, WatchIsFresh
  <2>5. injected \in 0 .. MaxFaults /\ mounted \in BOOLEAN
    BY DEF ConsoleInv, TypeOK
  <2>6. /\ UNCHANGED <<injected, polled, answers, resets, external, interruptions>>
        /\ mounted' \in BOOLEAN
    BY <2>5 DEF Tick, hook
  <2> QED
    BY <2>1, <2>3, <2>4, <2>5, <2>6, SampleKeepsInv, ConsoleAssumption
<1> QED
  BY <1>1, <1>2

LEMMA InjectFaultKeepsInv ==
  ASSUME ConsoleInv, NEW type \in InjectedTypes, InjectFault(type)
  PROVE  ConsoleInv'
<1>1. injected' = injected + 1 /\ injected' \in Fault
  BY ConsoleAssumption DEF InjectFault, injectFault, ConsoleInv, TypeOK, Fault
<1>2. SampleMeets(NewFault(type), None, 0) /\ NewFault(type).id = injected'
  BY <1>1, ConsoleAssumption DEF SampleMeets, NewFault, ActiveFault
<1>3. handoff[injected'] = "none"
  BY <1>1, ConsoleAssumption DEF ConsoleInv, WatchIsFresh, TypeOK, Fault
<1> QED
  BY <1>1, <1>2, <1>3, ConsoleAssumption, SampleKeepsInv
  DEF InjectFault, injectFault, hook, ConsoleInv, TypeOK, Fault

LEMMA StartKeepsInv == ASSUME ConsoleInv, Start PROVE ConsoleInv'
<1>1. CASE activeFault = None
  BY <1>1 DEF Start, NoSample, ConsoleInv, TypeOK, WatchIsFresh, external
<1>2. CASE activeFault # None
  <2>1. PICK e \in activeFault.elapsed .. 1 :
          Sample(Watched(e), incident, breachCount)
    BY <1>2 DEF Start, Watched
  <2>2. e \in 0 .. 1
    <3>1. activeFault.elapsed \in 0 .. 1
      BY <1>2 DEF ConsoleInv, TypeOK, ActiveFault
    <3> QED
      BY <2>1, <3>1
  <2>3. SampleMeets(Watched(e), incident, breachCount) /\ Watched(e).id = injected
    BY <1>2, <2>2, WatchMeets
  <2>4. incident = None => handoff[injected] = "none"
    BY <1>2 DEF ConsoleInv, WatchIsFresh
  <2>5. injected \in 0 .. MaxFaults /\ mounted \in BOOLEAN
    BY DEF ConsoleInv, TypeOK
  <2>6. /\ UNCHANGED <<injected, polled, answers, resets, external, interruptions>>
        /\ mounted' \in BOOLEAN
    BY <2>5 DEF Start, hook
  <2> QED
    BY <2>1, <2>3, <2>4, <2>5, <2>6, SampleKeepsInv, ConsoleAssumption
<1> QED
  BY <1>1, <1>2

(* A button, another page or a page load takes the fault away, or changes  *)
(* nothing that the detector looks at.                                     *)
LEMMA ButtonKeepsInv ==
  ASSUME ConsoleInv, restoreAsset \/ reset \/ Stop \/ Refresh
  PROVE  ConsoleInv'
<1>1. CASE restoreAsset
  <2>1. incident' = None \/ incident' \in ClientIncident
    BY <1>1 DEF restoreAsset, ConsoleInv, TypeOK, ClientIncident
  <2> QED
    BY <1>1, <2>1, ConsoleAssumption
    DEF restoreAsset, Interrupt, hook, external, ConsoleInv, TypeOK, WatchIsFresh
<1>2. CASE reset
  BY <1>2, ConsoleAssumption
  DEF reset, Interrupt, hook, external, ConsoleInv, TypeOK, WatchIsFresh
<1>3. CASE Stop
  <2>1. /\ UNCHANGED <<activeFault, injected, breachCount, incident, handoff,
                       resets, server, others>>
        /\ mounted' = FALSE /\ polled' = None /\ answers' = {}
    BY <1>3 DEF Stop, runtime, external
  <2>2. interruptions' \in 0 .. MaxInterruptions
    BY <1>3, ConsoleAssumption DEF Stop, Interrupt, ConsoleInv, TypeOK
  <2> QED
    BY <2>1, <2>2 DEF ConsoleInv, TypeOK, WatchIsFresh
<1>4. CASE Refresh
  BY <1>4, ConsoleAssumption
  DEF Refresh, Interrupt, external, ConsoleInv, TypeOK, WatchIsFresh
<1> QED
  BY <1>1, <1>2, <1>3, <1>4

(* Reconciliation with a polled state may take the fault away or bring an  *)
(* incident; it never takes an incident from a fault that stays.           *)
LEMMA SyncKeepsWatch ==
  ASSUME ConsoleInv, NEW state, state = None \/ state \in DemoState,
         syncControlPlane(state)
  PROVE  /\ activeFault' = None \/ activeFault' = activeFault
         /\ incident' = None \/ incident' \in ClientIncident
         /\ activeFault' # None /\ incident' = None => incident = None
<1>1. CASE state = None
  BY <1>1 DEF syncControlPlane, ConsoleInv, TypeOK
<1>2. CASE state # None /\ ~state.home
  BY <1>2 DEF syncControlPlane
<1>3. CASE state # None /\ state.home
  <2>1. Reconcile(state)
    BY <1>3 DEF syncControlPlane
  <2>2. KnownIncident(state) = None \/ KnownIncident(state) \in ClientIncident
    BY <1>3 DEF KnownIncident, incidentFromControlPlane, ConsoleInv, TypeOK, ClientIncident, DemoState
  <2>3. StatusOf(state) \in {"detected", "agent_reviewing", "resolved"}
    BY <1>3 DEF StatusOf
  <2>4. KnownIncident(state) # None => incident' \in ClientIncident
    BY <2>1, <2>2, <2>3 DEF Reconcile, ClientIncident
  <2>5. incident # None => KnownIncident(state) # None
    BY DEF KnownIncident
  <2> QED
    BY <2>1, <2>4, <2>5, ConsoleAssumption DEF Reconcile
<1> QED
  BY <1>1, <1>2, <1>3

LEMMA ServerTypes ==
  ASSUME TypeOK
  PROVE  /\ server.state \in DemoState
         /\ server.inbound \in BOOLEAN /\ server.liveRuns \in Nat
         /\ server.state.status \in RunStatus /\ server.state.home \in BOOLEAN
         /\ server.state.incident \in Fault \union {None}
         /\ \A state \in DemoState : \A inbound \in BOOLEAN :
              [server EXCEPT !.state = state, !.inbound = inbound] \in Server
         /\ \A state \in DemoState : \A n \in Nat :
              \A inbound \in BOOLEAN :
                [state |-> state, inbound |-> inbound, liveRuns |-> n] \in Server
<1>1. server \in Server
  BY DEF TypeOK
<1>2. /\ server.state \in DemoState
      /\ server.inbound \in BOOLEAN /\ server.liveRuns \in Nat
  BY <1>1 DEF Server
<1>3. /\ server.state.status \in RunStatus /\ server.state.home \in BOOLEAN
      /\ server.state.incident \in Fault \union {None}
  BY <1>2 DEF DemoState
<1>4. /\ \A state \in DemoState : \A inbound \in BOOLEAN :
           [server EXCEPT !.state = state, !.inbound = inbound] \in Server
      /\ \A state \in DemoState : \A n \in Nat :
           \A inbound \in BOOLEAN :
             [state |-> state, inbound |-> inbound, liveRuns |-> n] \in Server
  BY <1>1 DEF Server
<1> QED
  BY <1>2, <1>3, <1>4

LEMMA PollKeepsInv ==
  ASSUME ConsoleInv, Poll \/ PollAnswered \/ PollFailed
  PROVE  ConsoleInv'
<1>1. CASE Poll
  <2>1. answers' \subseteq DemoState
    BY <1>1, ServerTypes DEF Poll, ConsoleInv, TypeOK
  <2> QED
    BY <1>1, <2>1 DEF Poll, runtime, hook, external, ConsoleInv, TypeOK, WatchIsFresh
<1>2. ASSUME NEW state \in answers, NEW seen, seen = None \/ seen \in DemoState,
             polled' = None \/ polled' \in DemoState,
             syncControlPlane(seen), answers' = answers \ {state},
             UNCHANGED <<injected, breachCount, mounted, handoff, resets, external,
                         interruptions>>
      PROVE  ConsoleInv'
  <2>1. /\ activeFault' = None \/ activeFault' = activeFault
        /\ incident' = None \/ incident' \in ClientIncident
        /\ activeFault' # None /\ incident' = None => incident = None
    BY <1>2, SyncKeepsWatch
  <2>2. TypeOK'
    BY <1>2, <2>1 DEF ConsoleInv, TypeOK, external
  <2>3. WatchIsFresh'
    BY <1>2, <2>1 DEF ConsoleInv, WatchIsFresh
  <2> QED
    BY <2>2, <2>3 DEF ConsoleInv
<1>3. CASE PollAnswered
  <2>1. PICK state \in answers :
          /\ answers' = answers \ {state} /\ polled' = state
          /\ syncControlPlane(state)
          /\ UNCHANGED <<injected, breachCount, mounted, handoff, resets, external,
                         interruptions>>
    BY <1>3 DEF PollAnswered
  <2>2. state \in DemoState
    BY DEF ConsoleInv, TypeOK
  <2> QED
    BY <1>2, <2>1, <2>2
<1>4. CASE PollFailed
  <2>1. PICK state \in answers :
          /\ answers' = answers \ {state} /\ polled' = None
          /\ syncControlPlane(polled)
          /\ UNCHANGED <<injected, breachCount, mounted, handoff, resets, external,
                         interruptions>>
    BY <1>4 DEF PollFailed
  <2>2. polled = None \/ polled \in DemoState
    BY DEF ConsoleInv, TypeOK
  <2> QED
    BY <1>2, <2>1, <2>2
<1> QED
  BY <1>1, <1>3, <1>4

LEMMA NewRunTypes ==
  ASSUME NEW state \in DemoState, NEW inbound \in BOOLEAN, server.liveRuns \in Nat
  PROVE  NewRun(state, inbound) \in Server
<1>1. [state EXCEPT !.status = "running"] \in DemoState
  BY DEF DemoState, RunStatus
<1> QED
  BY <1>1 DEF NewRun, Server

(* The answers to a hand-off only concern faults that were handed over.    *)
LEMMA AnswerKeepsWatch ==
  ASSUME ConsoleInv, NEW f \in Fault, handoff[f] # "none",
         NEW outcome \in {"accepted", "settled"}, Answer(f, outcome),
         UNCHANGED <<activeFault, injected, breachCount>>,
         incident' = None => incident = None
  PROVE  /\ handoff' \in [Fault -> {"none", "sent", "accepted", "settled"}]
         /\ WatchIsFresh'
<1>1. handoff' \in [Fault -> {"none", "sent", "accepted", "settled"}]
  BY DEF Answer, ConsoleInv, TypeOK
<1>2. \A g \in Fault : handoff[g] = "none" => handoff'[g] = "none"
  BY DEF Answer, ConsoleInv, TypeOK
<1>3. activeFault # None => activeFault.id \in Fault
  BY DEF ConsoleInv, TypeOK, ActiveFault
<1> QED
  BY <1>1, <1>2, <1>3 DEF ConsoleInv, WatchIsFresh

LEMMA HandoffKeepsInv ==
  ASSUME ConsoleInv, NEW f \in Fault,
         Accept(f) \/ Refuse(f) \/ HandoffAccepted(f) \/ HandoffFailed(f)
  PROVE  ConsoleInv'
<1>1. CASE Accept(f)
  <2>1. server' \in Server
    <3>1. [server.state EXCEPT !.home = TRUE, !.incident = f] \in DemoState
      BY ServerTypes DEF ConsoleInv, DemoState
    <3> QED
      BY <1>1, <3>1, NewRunTypes, ServerTypes DEF Accept, ConsoleInv
  <2>2. /\ handoff' \in [Fault -> {"none", "sent", "accepted", "settled"}]
        /\ WatchIsFresh'
    BY <1>1, AnswerKeepsWatch DEF Accept, runtime
  <2> QED
    BY <1>1, <2>1, <2>2 DEF Accept, runtime, hook, ConsoleInv, TypeOK
<1>2. CASE Refuse(f)
  <2>1. /\ handoff' \in [Fault -> {"none", "sent", "accepted", "settled"}]
        /\ WatchIsFresh'
    BY <1>2, AnswerKeepsWatch DEF Refuse, runtime
  <2> QED
    BY <1>2, <2>1 DEF Refuse, runtime, hook, external, ConsoleInv, TypeOK
<1>3. CASE HandoffAccepted(f)
  <2>1. /\ incident' = None \/ incident' \in ClientIncident
        /\ incident' = None => incident = None
    BY <1>3, ConsoleAssumption
    DEF HandoffAccepted, IsCurrent, ConsoleInv, TypeOK, ClientIncident
  <2>2. /\ handoff' \in [Fault -> {"none", "sent", "accepted", "settled"}]
        /\ WatchIsFresh'
    BY <1>3, <2>1, AnswerKeepsWatch DEF HandoffAccepted
  <2> QED
    BY <1>3, <2>1, <2>2 DEF HandoffAccepted, hook, external, ConsoleInv, TypeOK
<1>4. CASE HandoffFailed(f)
  <2>1. /\ handoff' \in [Fault -> {"none", "sent", "accepted", "settled"}]
        /\ WatchIsFresh'
    BY <1>4, AnswerKeepsWatch DEF HandoffFailed, runtime
  <2> QED
    BY <1>4, <2>1 DEF HandoffFailed, runtime, hook, external, ConsoleInv, TypeOK
<1> QED
  BY <1>1, <1>2, <1>3, <1>4

(* What happens at the control plane is not known to the console before    *)
(* it polls.                                                               *)
LEMMA ServerKeepsInv ==
  ASSUME ConsoleInv,
         \/ ResetArrives \/ ResetLost \/ RunEnds
         \/ OtherRun \/ OtherReset \/ ServerRestarts
  PROVE  ConsoleInv'
<1>0. /\ resets \in Nat /\ others \in 0 .. MaxOthers /\ server \in Server
      /\ TypeOK
  BY DEF ConsoleInv, TypeOK
<1>1. server' \in Server /\ resets' \in Nat /\ others' \in 0 .. MaxOthers
  <2>1. /\ \A state \in DemoState : \A inbound \in BOOLEAN :
             [server EXCEPT !.state = state, !.inbound = inbound] \in Server
        /\ \A state \in DemoState : \A n \in Nat :
             \A inbound \in BOOLEAN :
               [state |-> state, inbound |-> inbound, liveRuns |-> n] \in Server
        /\ server.inbound \in BOOLEAN /\ server.state \in DemoState /\ server.liveRuns \in Nat
        /\ server.state.home \in BOOLEAN
        /\ server.state.incident \in Fault \union {None}
    BY <1>0, ServerTypes
  <2>2. \A home \in BOOLEAN : Idle(home) \in DemoState
    BY IdleTypes
  <2>3. CASE ResetArrives
    <3>1. /\ server' = [server EXCEPT !.state = Idle(server.state.home), !.inbound = FALSE]
          /\ resets > 0 /\ resets' = resets - 1 /\ others' = others
      BY <2>3 DEF ResetArrives
    <3>2. server' \in Server
      BY <2>1, <2>2, <3>1
    <3> QED
      BY <1>0, <3>1, <3>2
  <2>4. CASE ResetLost
    BY <1>0, <2>4 DEF ResetLost, external
  <2>5. CASE RunEnds
    <3>1. server.liveRuns - 1 \in Nat
      <4>1. server.liveRuns \in Nat /\ server.liveRuns > 0
        BY <2>1, <2>5, Zenon DEF RunEnds
      <4> QED
        BY <4>1
    <3>2. \A status \in RunStatus : [server.state EXCEPT !.status = status] \in DemoState
      BY <2>1 DEF DemoState
    <3>3. \A status \in RunStatus, inbound \in BOOLEAN : Ended(status, inbound) \in Server
      BY <2>1, <3>1, <3>2 DEF Ended
    <3>4. server' \in Server
      BY <2>1, <2>5, <3>3 DEF RunEnds, RunStatus
    <3>5. resets' = resets /\ others' = others
      BY <2>5 DEF RunEnds, requests
    <3> QED
      BY <1>0, <3>4, <3>5
  <2>6. CASE OtherRun
    <3>1. server' \in Server
      BY <2>1, <2>2, <2>6, NewRunTypes DEF OtherRun
    <3>2. resets' = resets /\ others < MaxOthers /\ others' = others + 1
      BY <2>6 DEF OtherRun, Other, requests
    <3> QED
      BY <1>0, <3>1, <3>2, ConsoleAssumption
  <2>7. CASE OtherReset
    <3>1. PICK home \in BOOLEAN :
            server' = [server EXCEPT !.state = Idle(home), !.inbound = FALSE]
      BY <2>7 DEF OtherReset
    <3>2. server' \in Server
      BY <2>1, <2>2, <3>1
    <3>3. resets' = resets /\ others < MaxOthers /\ others' = others + 1
      BY <2>7 DEF OtherReset, Other, requests
    <3> QED
      BY <1>0, <3>2, <3>3, ConsoleAssumption
  <2>8. CASE ServerRestarts
    <3>1. [server EXCEPT !.liveRuns = 0] \in Server
      BY <1>0 DEF Server
    <3>2. server' \in Server
      BY <2>1, <2>2, <2>8, <3>1 DEF ServerRestarts
    <3>3. resets' = resets /\ others < MaxOthers /\ others' = others + 1
      BY <2>8 DEF ServerRestarts, Other, requests
    <3> QED
      BY <1>0, <3>2, <3>3, ConsoleAssumption
  <2> QED
    BY <2>3, <2>4, <2>5, <2>6, <2>7, <2>8
<1>2. UNCHANGED <<runtime, hook, answers, handoff, interruptions>>
  BY DEF ResetArrives, ResetLost, RunEnds, OtherRun, OtherReset, ServerRestarts,
         requests
<1> QED
  BY <1>1, <1>2 DEF runtime, hook, ConsoleInv, TypeOK, WatchIsFresh

(* ConsoleInv, for any number of faults, interruptions and other surfaces. *)
THEOREM ConsoleInvariant == Spec => []ConsoleInv
<1>1. ConsoleInv /\ [Next]_vars => ConsoleInv'
  <2> SUFFICES ASSUME ConsoleInv, [Next]_vars PROVE ConsoleInv'
    OBVIOUS
  <2>1. CASE UNCHANGED vars
    BY <2>1 DEF vars, runtime, hook, requests, external, ConsoleInv, TypeOK, WatchIsFresh
  <2>2. CASE Next
    BY <2>2, TickKeepsInv, StartKeepsInv, InjectFaultKeepsInv, ButtonKeepsInv,
       PollKeepsInv, HandoffKeepsInv, ServerKeepsInv DEF Next
  <2> QED
    BY <2>1, <2>2
<1> QED
  BY <1>1, InitConsole, PTL DEF Spec

-----------------------------------------------------------------------------
(* A step that hands an incident over is a sample that confirms its fault. *)
LEMMA OnlySamplesHandOver ==
  ASSUME ConsoleInv, [Next]_vars, NEW f \in Fault,
         handoff'[f] = "sent", handoff[f] # "sent"
  PROVE  \/ Tick /\ activeFault # None
         \/ Start /\ activeFault # None
         \/ \E type \in InjectedTypes : InjectFault(type)
<1>1. handoff' # handoff
  OBVIOUS
<1>2. ASSUME NEW g \in Fault, Accept(g) \/ Refuse(g) \/ HandoffAccepted(g) \/ HandoffFailed(g)
      PROVE  FALSE
  BY <1>2 DEF Accept, Refuse, HandoffAccepted, HandoffFailed, Answer, ConsoleInv, TypeOK
<1>3. ~UNCHANGED vars
  BY <1>1 DEF vars, requests
<1>4. ~(Stop \/ Refresh \/ restoreAsset \/ reset \/ Poll \/ PollAnswered \/ PollFailed
        \/ ResetArrives \/ ResetLost \/ RunEnds
        \/ OtherRun \/ OtherReset \/ ServerRestarts)
  BY <1>1 DEF Stop, Refresh, restoreAsset, reset, Poll, PollAnswered, PollFailed,
     ResetArrives, ResetLost, RunEnds, OtherRun, OtherReset, ServerRestarts, requests
<1>5. (Tick \/ Start) => activeFault # None
  BY <1>1 DEF Tick, Start, NoSample
<1> QED
  BY <1>2, <1>3, <1>4, <1>5 DEF Next

LEMMA SampleHandsOver ==
  ASSUME ConsoleInv, NEW s, NEW known, NEW count,
         SampleMeets(s, known, count), Sample(s, known, count),
         known = None => handoff[s.id] = "none",
         NEW f \in Fault, handoff'[f] = "sent", handoff[f] # "sent"
  PROVE  /\ handoff[f] = "none"
         /\ activeFault'.id = f /\ activeFault'.breaches = 2
<1>1. TypeOK
  BY DEF ConsoleInv
<1>2. f = s.id
  BY <1>1, SampleKeepsTypes
<1>3. known = None /\ activeFault'.breaches = 2
  BY <1>1, SampleConfirms
<1> QED
  BY <1>1, <1>2, <1>3, SampleKeepsTypes

(* DatacenterConsole.tsx:268: an incident is handed over once, after two   *)
(* samples in a row that show its fault.                                   *)
THEOREM HandoffConfirmed == Spec => HandoffIsConfirmed
<1>1. ASSUME ConsoleInv, [Next]_vars
      PROVE  \A f \in Fault : handoff'[f] = "sent" /\ handoff[f] # "sent" =>
               /\ handoff[f] = "none"
               /\ activeFault'.id = f /\ activeFault'.breaches = 2
  <2> SUFFICES ASSUME NEW f \in Fault, handoff'[f] = "sent", handoff[f] # "sent"
               PROVE  /\ handoff[f] = "none"
                      /\ activeFault'.id = f /\ activeFault'.breaches = 2
    OBVIOUS
  <2>1. CASE (Tick \/ Start) /\ activeFault # None
    <3>1. PICK e \in 0 .. 1 : Sample(Watched(e), incident, breachCount)
      <4>1. activeFault.elapsed \in 0 .. 1
        BY <1>1, <2>1 DEF ConsoleInv, TypeOK, ActiveFault
      <4>2. CASE Tick
        <5>1. PICK e \in (IF activeFault.fullPeriod THEN {1} ELSE activeFault.elapsed .. 1) :
                Sample(Watched(e), incident, breachCount)
          BY <2>1, <4>2 DEF Tick, Watched
        <5>2. e \in 0 .. 1
          BY <4>1, <5>1
        <5> QED
          BY <5>1, <5>2
      <4>3. CASE Start
        <5>1. PICK e \in activeFault.elapsed .. 1 :
                Sample(Watched(e), incident, breachCount)
          BY <2>1, <4>3 DEF Start, Watched
        <5>2. e \in 0 .. 1
          BY <4>1, <5>1
        <5> QED
          BY <5>1, <5>2
      <4> QED
        BY <2>1, <4>2, <4>3
    <3>2. SampleMeets(Watched(e), incident, breachCount) /\ Watched(e).id = injected
      BY <1>1, <2>1, WatchMeets
    <3>3. incident = None => handoff[injected] = "none"
      BY <1>1, <2>1 DEF ConsoleInv, WatchIsFresh
    <3> QED
      BY <1>1, <3>1, <3>2, <3>3, SampleHandsOver
  <2>2. ASSUME NEW type \in InjectedTypes, InjectFault(type)
        PROVE  /\ handoff[f] = "none"
               /\ activeFault'.id = f /\ activeFault'.breaches = 2
    <3>1. injected' = injected + 1 /\ injected' \in Fault
      BY <1>1, <2>2, ConsoleAssumption DEF InjectFault, injectFault, ConsoleInv, TypeOK, Fault
    <3>2. SampleMeets(NewFault(type), None, 0) /\ NewFault(type).id = injected'
      BY <3>1, ConsoleAssumption DEF SampleMeets, NewFault, ActiveFault
    <3>3. handoff[injected'] = "none"
      BY <1>1, <3>1, ConsoleAssumption DEF ConsoleInv, WatchIsFresh, TypeOK, Fault
    <3> QED
      BY <1>1, <2>2, <3>2, <3>3, SampleHandsOver DEF InjectFault, injectFault
  <2> QED
    BY <1>1, <2>1, <2>2, OnlySamplesHandOver
<1> QED
  BY <1>1, ConsoleInvariant, PTL DEF Spec, HandoffIsConfirmed

(* A late answer about an earlier fault never makes the present incident   *)
(* look accepted (the then of openIncident).                               *)
THEOREM ReviewEarned == Spec => ReviewIsEarned
<1>1. ASSUME ConsoleInv, [Next]_vars,
             incident # None, incident' # None, answers' = answers,
             incident.fault = incident'.fault,
             incident.status = "detected", incident'.status = "agent_reviewing"
      PROVE  handoff[incident.fault] = "accepted"
  <2>1. incident' # incident
    BY <1>1
  <2>2. ASSUME NEW s, NEW known, NEW count, Sample(s, known, count),
               known = None \/ known = incident
        PROVE  FALSE
    BY <1>1, <2>1, <2>2 DEF Sample, openIncident
  <2>3. ~(Tick \/ Start)
    BY <2>1, <2>2 DEF Tick, Start, NoSample
  <2>4. ~(\E type \in InjectedTypes : InjectFault(type))
    BY <2>2 DEF InjectFault, injectFault
  <2>5. ~(restoreAsset \/ reset \/ Refresh)
    BY <1>1 DEF restoreAsset, reset, Refresh, ConsoleInv, TypeOK, ClientIncident
  <2>6. ~(\/ Poll \/ Stop \/ ResetArrives \/ ResetLost \/ RunEnds
          \/ OtherRun \/ OtherReset \/ ServerRestarts)
    BY <2>1 DEF Poll, Stop, ResetArrives, ResetLost, RunEnds, OtherRun, OtherReset,
       ServerRestarts, runtime
  <2>7. ~(PollAnswered \/ PollFailed)
    BY <1>1 DEF PollAnswered, PollFailed
  <2>8. ASSUME NEW f \in Fault, Accept(f) \/ Refuse(f) \/ HandoffFailed(f)
        PROVE  FALSE
    BY <2>1, <2>8 DEF Accept, Refuse, HandoffFailed, runtime
  <2>9. ~UNCHANGED vars
    BY <2>1 DEF vars, runtime
  <2>10. PICK f \in Fault : HandoffAccepted(f)
    BY <1>1, <2>3, <2>4, <2>5, <2>6, <2>7, <2>8, <2>9 DEF Next
  <2> QED
    BY <2>1, <2>10 DEF HandoffAccepted, IsCurrent
<1> QED
  BY <1>1, ConsoleInvariant, PTL DEF Spec, ReviewIsEarned

-----------------------------------------------------------------------------
(* The refinement.  The console acts on the store through two handlers,    *)
(* and reads it by its polls.                                              *)
LEMMA StoreStep ==
  ASSUME ConsoleInv, [Next]_vars
  PROVE  [Store!Next]_<<server.state.status, server.state.home, server.inbound,
                        server.liveRuns>>
<1>1. /\ server \in [state : DemoState, inbound : BOOLEAN, liveRuns : Nat]
      /\ server.state \in [status : RunStatus, home : BOOLEAN,
                           incident : Fault \union {None}]
  BY ServerTypes DEF ConsoleInv, TypeOK, Server, DemoState
<1>2. CASE UNCHANGED server
  BY <1>2
<1>3. ASSUME NEW f \in Fault, Accept(f)
      PROVE  Store!Next
  BY <1>1, <1>3 DEF Accept, NewRun, Store!Next, Store!Begin, Store!Shows
<1>4. CASE ResetArrives
  BY <1>1, <1>4 DEF ResetArrives, Idle, Store!Next, Store!Reset, Store!Shows
<1>5. CASE RunEnds
  BY <1>1, <1>5 DEF RunEnds, Ended, Store!Next, Store!End, Store!Shows
<1>6. CASE OtherRun
  BY <1>1, <1>6 DEF OtherRun, NewRun, Idle, Store!Next, Store!Begin, Store!Shows
<1>7. CASE OtherReset
  <2>1. PICK home \in BOOLEAN :
          server' = [server EXCEPT !.state = Idle(home), !.inbound = FALSE]
    BY <1>7 DEF OtherReset
  <2>2. Store!Shows("idle", home, FALSE) /\ server.liveRuns' = server.liveRuns
    BY <1>1, <2>1 DEF Idle, Store!Shows
  <2> QED
    BY <2>2 DEF Store!Next, Store!Reset
<1>8. CASE ServerRestarts
  BY <1>1, <1>8 DEF ServerRestarts, Idle, Store!Next, Store!Restart, Store!Shows
<1>9. ASSUME NEW f \in Fault, Refuse(f) \/ HandoffAccepted(f) \/ HandoffFailed(f)
      PROVE  UNCHANGED server
  BY <1>9 DEF Refuse, HandoffAccepted, HandoffFailed, external
<1>10. CASE \/ UNCHANGED vars \/ Tick \/ Start \/ Stop \/ Refresh
            \/ \E type \in InjectedTypes : InjectFault(type)
            \/ restoreAsset \/ reset \/ Poll \/ PollAnswered \/ PollFailed
            \/ ResetLost
  <2>1. UNCHANGED external
    BY <1>10 DEF vars, Tick, Start, Stop, Refresh, InjectFault, restoreAsset, reset,
       Poll, PollAnswered, PollFailed, ResetLost
  <2> QED
    BY <1>2, <2>1 DEF external
<1> QED
  BY <1>2, <1>3, <1>4, <1>5, <1>6, <1>7, <1>8, <1>9, <1>10 DEF Next

(* What the console is proved against is no more than a control plane      *)
(* that keeps to ClientStore, as ControlPlane does.                        *)
THEOREM StoreRefinement == Spec => UsesTheStore
<1>1. Init => Store!Init
  <2> SUFFICES ASSUME Init PROVE Store!Init
    OBVIOUS
  <2>1. PICK home \in BOOLEAN :
          server = [state |-> Idle(home), inbound |-> FALSE, liveRuns |-> 0]
    BY ConsoleAssumption DEF Init
  <2> QED
    BY <2>1 DEF Store!Init, Idle
<1>2. ConsoleInv /\ [Next]_vars
        => [Store!Next]_<<server.state.status, server.state.home, server.inbound,
                          server.liveRuns>>
  BY StoreStep
<1> QED
  BY <1>1, <1>2, ConsoleInvariant, PTL DEF Spec, UsesTheStore, Store!Spec
=============================================================================
