CONSTANTS
  Absent = Absent
  Edited = Edited
  None = None
  Inputs <- MCInputs
  Content <- MCContent
  Valid = {"a", "b"}
  Size <- MCSize
  Outputs <- MCOutputs
  MaxEdits = 2
SPECIFICATION Spec
INVARIANTS PassedGenerationAgrees IdempotentWasGenerated StrictIsCommitted
PROPERTY AcceptedLockDescribes
