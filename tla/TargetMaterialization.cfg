CONSTANTS
  notes = notes
  agent = agent
  instructions = instructions
  settings = settings
  copilotAgent = copilotAgent
  full = full
  single = single
  small = small
  strange = strange
  a1 = a1
  i1 = i1
  i2 = i2
  s1 = s1
  k1 = k1
  user = user
  Absent = Absent
  Link = Link
  Drifted = Drifted
  Manifest = Manifest
  Obsolete = Obsolete
  Place <- MCPlace
  Linked = notes
  Root = {instructions, settings}
  Target = {"opencode", "copilot", "unknown"}
  Supported = {"opencode", "copilot"}
  Owned <- MCOwned
  Config = {full, single, small, strange}
  Enabled <- MCEnabled
  Render <- MCRender
  Foreign = {user}
  Linkable = {agent, instructions, settings, Manifest, Obsolete}
  MaxEdits = 2
SPECIFICATION Spec
INVARIANTS AcceptedIsExact CommitRepairs
PROPERTIES OnlyLinkedFilesLeadOut
