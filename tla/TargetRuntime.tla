--------------------------- MODULE TargetRuntime ---------------------------
(***************************************************************************)
(* validate-target-runtime (application/target_runtime_validation.py):     *)
(* after the generated output has been compared with the plan, the plan is *)
(* built again, what OpenCode has to find is read off the planned files,   *)
(* and `opencode debug config` and `opencode debug skill` are asked what   *)
(* they do find.  OpenCode merges the files with settings of the user that *)
(* lie outside the repository, may refuse, print something else, or hang.  *)
(* Inputs, output and settings may be edited between any two steps.        *)
(*                                                                         *)
(* Of a tree only what OpenCode reads at its own paths is distinguished:   *)
(* the default agent (None without an opencode.json), the agent files with *)
(* mode and model (None if not assigned), the skills.  An adapter whose    *)
(* output paths are others renders files that are found nowhere.           *)
(***************************************************************************)
EXTENDS Naturals, TLC

CONSTANTS Inputs,        \* states of the configuration and the registry
          Unplannable,   \* those for which no plan can be built
          Plan,          \* the others to [opencode, native, skills]
          Trees,         \* what OpenCode may find on disk
          Settings,      \* of the user, outside the repository
          None,
          MaxEdits

ASSUME UnplannableAssumption == Unplannable \subseteq Inputs
ASSUME PlanAssumption == DOMAIN Plan = Inputs \ Unplannable

VARIABLES inputs,
          outputs,       \* [for |-> composition in the manifest, native |-> a tree]
          settings,
          installed,     \* opencode is on the PATH
          pc,            \* the step of the command, "idle" between two
          tool,          \* "running" while opencode has not answered
          plan,
          diagnostics,
          result,
          fresh,         \* nothing was edited since the command began
          edits

surroundings == <<inputs, outputs, settings, installed, edits>>
vars == <<inputs, outputs, settings, installed, pc, tool, plan, diagnostics,
          result, fresh, edits>>

Init == /\ inputs \in Inputs
        /\ outputs \in [for : Inputs \union {None}, native : Trees]
        /\ settings \in Settings /\ installed \in BOOLEAN
        /\ pc = "idle" /\ tool = "idle" /\ plan = None /\ diagnostics = {}
        /\ result = "none" /\ fresh = FALSE /\ edits = 0
-----------------------------------------------------------------------------
(* What `opencode debug` reports.                                          *)
Effective ==
  LET seen == settings.agents @@ outputs.native.agents IN
  [default |-> IF settings.default = None THEN outputs.native.default ELSE settings.default,
   agents |-> [a \in DOMAIN seen \ settings.disabled |-> seen[a]],
   skills |-> (outputs.native.skills \union settings.skills) \ settings.disabled]

(* validate_target_output, of which TargetMaterialization has the details: *)
(* files of targets that are not enabled are not looked at.                *)
OutputDiffers == \/ outputs.for # inputs
                 \/ Plan[inputs].opencode /\ outputs.native # Plan[inputs].native

(* _planned_opencode_contract raises LookupError.                          *)
WithoutContract(p) == ~p.opencode \/ p.native.default = None \/ DOMAIN p.native.agents = {}

When(condition, diagnostic) == IF condition THEN {diagnostic} ELSE {}

\* Mutant: the model is compared although none is planned.
AgentDiagnosticsOfAnyModel(report, planned) ==
  UNION {IF a \notin DOMAIN report.agents THEN {<<"agent", a>>}
         ELSE When(report.agents[a].mode # planned.agents[a].mode, <<"mode", a>>)
              \union When(report.agents[a].model # planned.agents[a].model, <<"model", a>>)
         : a \in DOMAIN planned.agents}

(* _validate_effective_config, for an object that has an agent object.     *)
AgentDiagnostics(report, planned) ==
  UNION {IF a \notin DOMAIN report.agents THEN {<<"agent", a>>}
         ELSE LET expected == planned.agents[a]
                  found == report.agents[a]
              IN  When(found.mode # expected.mode, <<"mode", a>>)
                  \union When(expected.model # None /\ found.model # expected.model, <<"model", a>>)
         : a \in DOMAIN planned.agents}

ConfigDiagnostics(report, planned) ==
  When(report.default # planned.default, <<"default">>) \union AgentDiagnostics(report, planned)

(* Every other end of a run: what the tool prints is not JSON (a warning   *)
(* on stderr is enough), or JSON of another shape; or it rejects the files *)
(* with an exit code, or cannot be started or waited for.                  *)
Troubles == {"execution", "rejection", "invalidJson", "shape"}
-----------------------------------------------------------------------------
Go(step) == pc' = step /\ UNCHANGED <<diagnostics, result>>

Return(found) ==
  /\ pc' = "idle"
  /\ diagnostics' = found
  /\ result' = IF found = {} THEN "passed" ELSE "failed"

Begin == /\ pc = "idle"
         /\ pc' = "output" /\ result' = "running" /\ fresh' = TRUE
         /\ plan' = None /\ diagnostics' = {}
         /\ UNCHANGED <<surroundings, tool>>

ValidateOutput ==
  /\ pc = "output"
  /\ CASE inputs \in Unplannable -> Return({<<"command">>})
       [] inputs \notin Unplannable /\ OutputDiffers -> Return({<<"output">>})
       [] OTHER -> Go("plan")
  /\ UNCHANGED <<surroundings, tool, plan, fresh>>

(* build_target_materialization_plan once more, and the contract.          *)
BuildPlan ==
  /\ pc = "plan"
  /\ IF inputs \in Unplannable
       THEN Return({<<"command">>}) /\ UNCHANGED plan
       ELSE /\ plan' = Plan[inputs]
            /\ IF WithoutContract(plan') THEN Return({<<"target">>}) ELSE Go("which")
  /\ UNCHANGED <<surroundings, tool, fresh>>

Which ==
  /\ pc = "which"
  /\ IF installed THEN Go("config") ELSE Return({<<"executable">>})
  /\ UNCHANGED <<surroundings, tool, plan, fresh>>
-----------------------------------------------------------------------------
(* One of the two runs has ended, and `found` is against it.  What is      *)
(* found in the configuration is kept while the skills are asked for.      *)
\* Mutant: the last run decides.
LastFound(found) ==
  IF pc = "config" THEN /\ pc' = "skill" /\ diagnostics' = {} /\ UNCHANGED result
                   ELSE Return(found)

Found(found) ==
  IF pc = "config" THEN /\ pc' = "skill" /\ diagnostics' = found /\ UNCHANGED result
                   ELSE Return(diagnostics \union found)

(* subprocess.run: the tool starts, or OSError.                            *)
Launch ==
  /\ pc \in {"config", "skill"} /\ tool = "idle"
  /\ \/ installed /\ tool' = "running" /\ Go(pc)
     \/ Return(diagnostics \union {<<"execution", pc>>}) /\ UNCHANGED tool
  /\ UNCHANGED <<surroundings, plan, fresh>>

(* It answers with JSON, from the files and settings as they are now; the  *)
(* list of skills and of agents may be missing.                            *)
Answer ==
  /\ tool = "running" /\ tool' = "idle"
  /\ \/ /\ pc = "config"
        /\ \/ Found(ConfigDiagnostics(Effective, plan.native))
           \/ Found({<<"shape", "config">>})
     \/ /\ pc = "skill"
        /\ \/ Found(When(~(plan.skills \subseteq Effective.skills), <<"skills">>))
           \/ Found({<<"shape", "skill">>})
  /\ UNCHANGED <<surroundings, plan, fresh>>

(* An exit code, or output that is no JSON, ends the command as well.      *)
Reject ==
  /\ tool = "running" /\ tool' = "idle"
  /\ \E trouble \in {"rejection", "invalidJson"} :
       Return(diagnostics \union {<<trouble, pc>>})
  /\ UNCHANGED <<surroundings, plan, fresh>>

(* Output that is no text raises, and what was found before is lost.       *)
Garble ==
  /\ tool = "running" /\ tool' = "idle"
  /\ Return({<<"command">>})
  /\ UNCHANGED <<surroundings, plan, fresh>>

\* Mutant: subprocess.run waits as long as it takes.
NeverTimeOut == FALSE /\ UNCHANGED vars

(* TimeoutExpired after 30 seconds: the tool is killed.                    *)
TimeOut ==
  /\ tool = "running" /\ tool' = "idle"
  /\ Return(diagnostics \union {<<"execution", pc>>})
  /\ UNCHANGED <<surroundings, plan, fresh>>
-----------------------------------------------------------------------------
(* Somebody edits inputs, output or settings, or installs the tool.        *)
Edit ==
  /\ edits < MaxEdits
  /\ \/ inputs' \in Inputs /\ UNCHANGED <<outputs, settings, installed>>
     \/ outputs' \in [for : Inputs \union {None}, native : Trees] /\ UNCHANGED <<inputs, settings, installed>>
     \/ settings' \in Settings /\ UNCHANGED <<inputs, outputs, installed>>
     \/ installed' = ~installed /\ UNCHANGED <<inputs, outputs, settings>>
  /\ edits' = edits + 1
  /\ fresh' = FALSE
  /\ UNCHANGED <<pc, tool, plan, diagnostics, result>>

Step == ValidateOutput \/ BuildPlan \/ Which \/ Launch \/ TimeOut

Next == Begin \/ Step \/ Answer \/ Reject \/ Garble \/ Edit

(* The command goes on by itself; of the tool nothing is assumed.          *)
Spec == Init /\ [][Next]_vars /\ WF_vars(Step)
-----------------------------------------------------------------------------
(* OpenCode works with what the inputs describe.                           *)
Works(p) ==
  /\ Effective.default = p.native.default
  /\ \A a \in DOMAIN p.native.agents :
       /\ a \in DOMAIN Effective.agents
       /\ Effective.agents[a].mode = p.native.agents[a].mode
       /\ p.native.agents[a].model \in {None, Effective.agents[a].model}
  /\ p.skills \subseteq Effective.skills

(* cli/target_runtime.py line 28, "OpenCode runtime parsed canonical       *)
(* config, agents, and skills."  After a pass that nobody disturbed the    *)
(* generated output is current and OpenCode works with it as planned,      *)
(* whatever the user's own settings say.                                   *)
PassMeansEffective ==
  result = "passed" /\ fresh =>
    /\ inputs \notin Unplannable
    /\ Plan[inputs].opencode /\ ~OutputDiffers
    /\ Works(Plan[inputs])

(* Conversely, an undisturbed failure has a reason: the tool could not be  *)
(* run or read, or one of those things is not so.  Settings for agents     *)
(* nobody planned, or models for agents without one, are no reason.        *)
FailureHasReason ==
  result = "failed" /\ fresh =>
    \/ inputs \in Unplannable \/ ~installed
    \/ OutputDiffers \/ WithoutContract(Plan[inputs]) \/ ~Works(Plan[inputs])
    \/ \E d \in diagnostics : d[1] \in Troubles \union {"command"}

(* The command ends, although the tool may hang.                           *)
Termination == pc # "idle" ~> pc = "idle"
=============================================================================
