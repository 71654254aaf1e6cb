-------------------------- MODULE MCTargetRuntime --------------------------
(* Two agents, of which one has a model; the same registry without a       *)
(* model, with another path for agents, or with OpenCode not enabled.      *)
EXTENDS TargetRuntime

Agent(mode, model) == [mode |-> mode, model |-> model]

MCInputs == {"full", "plain", "moved", "copilot", "broken"}

FullTree == [default |-> "lead", agents |-> ("lead" :> Agent("primary", "big")) @@ ("dev" :> Agent("subagent", None)), skills |-> {"plan"}]
PlainTree == [FullTree EXCEPT !.agents["lead"].model = None]
MovedTree == [FullTree EXCEPT !.agents = <<>>]
EmptyTree == [default |-> None, agents |-> <<>>, skills |-> {}]
EditedTree == [FullTree EXCEPT !.agents["dev"].mode = "primary"]

MCPlan ==
  ("full" :> [opencode |-> TRUE, native |-> FullTree, skills |-> {"plan"}])
  @@ ("plain" :> [opencode |-> TRUE, native |-> PlainTree, skills |-> {"plan"}])
  @@ ("moved" :> [opencode |-> TRUE, native |-> MovedTree, skills |-> {"plan"}])
  @@ ("copilot" :> [opencode |-> FALSE, native |-> EmptyTree, skills |-> {"plan"}])

MCTrees == {FullTree, PlainTree, MovedTree, EmptyTree, EditedTree}

OwnSettings == [default |-> None, agents |-> <<>>, skills |-> {}, disabled |-> {}]

\* An own agent and model, another default, another mode, a disabled agent
\* and a disabled skill.
MCSettings ==
  {OwnSettings,
   [OwnSettings EXCEPT !.agents = ("dev" :> Agent("subagent", "small")) @@ ("own" :> Agent("primary", None)), !.skills = {"own"}],
   [OwnSettings EXCEPT !.default = "own"],
   [OwnSettings EXCEPT !.agents = "lead" :> Agent("primary", "small")],
   [OwnSettings EXCEPT !.agents = "dev" :> Agent("primary", None)],
   [OwnSettings EXCEPT !.disabled = {"dev"}],
   [OwnSettings EXCEPT !.disabled = {"plan"}]}
=============================================================================
