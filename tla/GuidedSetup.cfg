CONSTANTS
  None = None
  BundleTargets <- MCBundleTargets
  RegisteredTargets = {"opencode", "copilot"}
  Registries <- MCRegistries
  Values = {"x", "y", "z"}
  Classes = {"recommended", "compatible"}
  Patches <- MCPatches
  MaxChanges = 1
SPECIFICATION ProfileSpec
INVARIANTS MaterializedIsValid ValidIsMaterialized SelectableOptionWorks
CHECK_DEADLOCK FALSE
