----------------------------- MODULE MCPipeline -----------------------------
(***************************************************************************)
(* Two inputs; two valid contents of different size, one of which gives an *)
(* additional target file, and an invalid one.                             *)
(***************************************************************************)
EXTENDS Pipeline

MCInputs == <<"agentic.json", "uv.lock">>
MCContent == {"a", "b", "bad"}
MCSize == [c \in MCContent |-> IF c = "b" THEN 2 ELSE 1]
MCOutputs == [c \in MCContent |->
  IF c = "b" THEN {"agent.md", "skill.md"} ELSE {"agent.md"}]
=============================================================================
