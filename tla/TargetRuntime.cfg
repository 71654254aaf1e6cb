CONSTANTS
  None = None
  MaxEdits = 1
  Inputs <- MCInputs
  Unplannable = {"broken"}
  Plan <- MCPlan
  Trees <- MCTrees
  Settings <- MCSettings
SPECIFICATION Spec
INVARIANTS PassMeansEffective FailureHasReason
PROPERTY Termination
