------------------------- MODULE RecoveryLifecycle -------------------------
(***************************************************************************)
(* What the control plane promises of one client's recoveries, and the     *)
(* browser of the simulated ones: they run one at a time, and the ledger   *)
(* holds those that were run to their conclusion, each put there by itself.*)
(* Only a hard reset, between recoveries, forgets them; the browser never  *)
(* does.                                                                   *)
(***************************************************************************)
CONSTANTS Run, NoRun

VARIABLES
  active,  \* the recovery in progress, or NoRun
  ledger   \* the recoveries whose incident is on record

Init == active = NoRun /\ ledger = {}

Begin ==
  /\ active = NoRun
  /\ active' \in Run \ ledger
  /\ UNCHANGED ledger

(* A recovery that bought, or ran out of vendors, is put on record. *)
Conclude ==
  /\ active # NoRun
  /\ ledger' = ledger \union {active}
  /\ active' = NoRun

(* One that broke down is not. *)
Abandon ==
  /\ active # NoRun
  /\ active' = NoRun
  /\ UNCHANGED ledger

Forget ==
  /\ active = NoRun
  /\ ledger' = {}
  /\ UNCHANGED active

Next == Begin \/ Conclude \/ Abandon \/ Forget

Spec == Init /\ [][Next]_<<active, ledger>>
=============================================================================
