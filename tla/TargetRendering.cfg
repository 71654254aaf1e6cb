SPECIFICATION MCSpec
CONSTANTS
  None = None
  Bundles <- MCBundles
  Selections <- MCSelections
  Registry <- MCRegistry
  Rank <- MCRank
  Settings <- MCAllSettings
  Slug <- MCSlug
  Folded <- MCFolded
  Statuses <- MCStatuses
INVARIANTS SearchIsExact AcceptedCompiles AuthorityResolved
INVARIANTS ValidatedIsRepresentable AuthorityIsPreserved TargetsAreApart SessionFollowsWorkflow
PROPERTY Termination
CHECK_DEADLOCK FALSE
