---------------------- MODULE MCTargetMaterialization ----------------------
(***************************************************************************)
(* Two targets as registered (agents in a directory, files that are owned  *)
(* paths themselves), a third the renderer does not know, and four         *)
(* compositions: both targets, one of them, one that renders fewer files,  *)
(* and one with the unknown target.                                        *)
(***************************************************************************)
EXTENDS TargetMaterialization

CONSTANTS notes, agent, instructions, settings, copilotAgent,
          full, single, small, strange, a1, i1, i2, s1, k1, user

MCPlace == {Manifest, Obsolete, notes, agent, instructions, settings, copilotAgent}

MCOwned == [t \in {"opencode", "copilot", "unknown"} |->
  CASE t = "opencode" -> {agent, instructions, settings}
    [] t = "copilot" -> {copilotAgent}
    [] OTHER -> {copilotAgent}]

MCEnabled == [c \in {full, single, small, strange} |->
  CASE c = full -> {"opencode", "copilot"}
    [] c = strange -> {"unknown"}
    [] OTHER -> {"opencode"}]

Opencode(c) == IF c = small
               THEN [p \in {instructions, settings} |-> IF p = settings THEN s1 ELSE i2]
               ELSE [p \in {agent, instructions, settings} |->
                       CASE p = agent -> a1 [] p = settings -> s1 [] OTHER -> i1]

MCRender == [c \in {full, single, small, strange} |-> [t \in MCEnabled[c] |->
  IF t = "opencode" THEN Opencode(c) ELSE [p \in {copilotAgent} |-> k1]]]
=============================================================================
