CONSTANTS
  None = None
  BundleTargets <- MCBundleTargets
  RegisteredTargets = {"opencode", "copilot"}
  Registries <- MCRegistries
  Values = {"x", "y", "z"}
  Classes = {"recommended", "compatible"}
  Patches <- MCPatches
  MaxChanges = 1
SPECIFICATION ProfileSpec
INVARIANT DefaultsMaterialize
CHECK_DEADLOCK FALSE
