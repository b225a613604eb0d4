---------------------------- MODULE ClientStore ----------------------------
(***************************************************************************)
(* What a client's surfaces see of its store in the control plane, and all *)
(* that they may rely on: one record that whoever else uses the store may  *)
(* reset or start a recovery on, and that any recovery still alive may end *)
(* on, whether it is the one that is shown or not.                         *)
(***************************************************************************)
EXTENDS Naturals

VARIABLES
  status,
  home,      \* the store shows the scenario the client is routed to
  inbound,   \* an order is on its way
  liveRuns   \* the recoveries that have not ended

Init == status = "idle" /\ home \in BOOLEAN /\ inbound = FALSE /\ liveRuns = 0

Shows(s, h, i) == status' = s /\ home' = h /\ inbound' = i

(* As it was, or reset to the client's own scenario first. *)
Begin ==
  /\ status # "running"
  /\ \/ Shows("running", home, inbound)
     \/ ~home /\ Shows("running", TRUE, FALSE)
  /\ liveRuns' = liveRuns + 1

(* With an order, out of vendors, or in an error. *)
End ==
  /\ liveRuns > 0
  /\ \/ Shows("complete", home, TRUE)
     \/ Shows("failed", home, FALSE)
     \/ Shows("failed", home, inbound)
  /\ liveRuns' = liveRuns - 1

(* At any time, also of the scenario, as a switch may be late. *)
Reset == \E h \in BOOLEAN : Shows("idle", h, FALSE) /\ UNCHANGED liveRuns

(* The process starts again, on what it has stored, but at home. *)
Restart ==
  /\ \/ home /\ Shows(status, TRUE, inbound)
     \/ ~home /\ Shows("idle", TRUE, FALSE)
  /\ liveRuns' = 0

Next == Begin \/ End \/ Reset \/ Restart

Spec == Init /\ [][Next]_<<status, home, inbound, liveRuns>>
=============================================================================
