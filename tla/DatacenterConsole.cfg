\* One console, whose operator interferes, next to other surfaces.
SPECIFICATION FairSpec
CONSTANTS
  InjectedTypes = {"node_offline", "ecc_spike"}
  ShownAtFirst = {TRUE, FALSE}
  None = None
  MaxFaults = 2
  MaxInterruptions = 1
  MaxOthers = 1
  MaxAnswers = 1
INVARIANT ConsoleInv
PROPERTIES
  HandoffIsConfirmed
  ReviewIsEarned
  FaultIsReported
  ConsoleConverges
