CONSTANTS
  None = None
  Workflows <- MCWorkflows
  Statuses <- MCStatuses
  Skilled = {"implement"}
SPECIFICATION FairSpec
INVARIANTS ReachableIsExact ReachingIsExact VerdictIsRight RoutingIsTotal
PROPERTY Termination
CHECK_DEADLOCK FALSE
