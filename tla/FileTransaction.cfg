CONSTANTS
  v1 = v1
  v2 = v2
  Content = {v1, v2}
  LinkContent = v1
  Absent = Absent
  Directory = Directory
  Link = Link
  Root = "root"
  Node <- MCNode
  Parent <- MCParent
  Ancestors <- MCAncestors
  Calls <- MCCalls
SPECIFICATION FairSpec
INVARIANTS OldOrNew AllOrNothing DamageNamed NothingLeftBehind
PROPERTIES ContractSpec Termination
