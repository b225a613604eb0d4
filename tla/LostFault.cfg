\* Finding: a fault that nobody interferes with is never handed over.
SPECIFICATION FairSpec
CONSTANTS
  InjectedTypes = {"node_offline"}
  ShownAtFirst = {TRUE}
  None = None
  MaxFaults = 2
  MaxInterruptions = 0
  MaxOthers = 0
  MaxAnswers = 1
PROPERTY FaultIsHandedOff
CHECK_DEADLOCK FALSE
