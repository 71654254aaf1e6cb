CONSTANTS
  None = None
  Absent = Absent
  Broken = Broken
  Custom = Custom
  BundleTargets <- MCBundleTargets
  RegisteredTargets = {"opencode", "copilot"}
  Setups <- MCSetups
  Overrides <- MCOverrides
  MaxEdits = 1
SPECIFICATION Spec
INVARIANTS PlannedAsAnswered CommittedFilesAgree
PROPERTIES WritesAreAuthorized ProjectIsKept
