CONSTANTS
  Absent = Absent
  NotAFile = NotAFile
  Unreadable = Unreadable
  None = None
  Text = Text
  MaxEdits = 2
  Files <- MCFiles
  Implied <- MCImplied
  Contents <- MCContents
  Seed <- MCSeed
  Beside <- MCBeside
  Strip <- MCStrip
  Fold <- MCFold
SPECIFICATION Spec
INVARIANTS SnapshotIsClosed JudgedByDiagnostics CoverageFindsOnlyUnused ValidatorsSuffice
