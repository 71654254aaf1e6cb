SPECIFICATION RenderSpec
CONSTANTS
  None = None
  Bundles <- MCBundles
  Selections <- MCSelections
  Registry <- MCRegistry
  Rank <- MCRank
  Settings <- MCBaseSetting
  Slug <- MCSlug
  Folded <- MCFolded
  Statuses <- MCStatuses
INVARIANT EveryInstanceIsRendered
CHECK_DEADLOCK FALSE
