-------------------------- MODULE TargetRendering --------------------------
(***************************************************************************)
(* From an accepted bundle to agents that work: the registry snapshot      *)
(* (application/registry_snapshot.py) with the rules for targets and       *)
(* permission profiles (validation/targets.py, permission_profiles.py),    *)
(* the compiled composition (BundleComposition), the checks that a target  *)
(* can represent it and the files it gives                                 *)
(* (application/target_rendering.py), and a session in which the generated *)
(* controller dispatches the generated state owners.                       *)
(*                                                                         *)
(* A setting is what is registered besides the bundle: [workflow,          *)
(* adapters, permission, statuses, skills], in the order of the domains.   *)
(* An adapter is [outputs, owned, mapping]: paths are sequences of names,  *)
(* a mapping gives a permission profile its native settings; a setting of  *)
(* the wrong type is a missing one.  The files of a skill are [name, link].*)
(* Agents, skills and artifacts are valid, and what their schemas fix to   *)
(* one value (the evidence fields, the fail-closed invariants, a gate's    *)
(* nonempty lists) is left out.  Errors are collected where the code       *)
(* raises the first one.                                                   *)
(***************************************************************************)
EXTENDS BundleComposition, SequencesExt

CONSTANTS Settings,
          Slug,     \* instance id to its file name, None if nothing is left
          Folded,   \* a status as written to its folded form
          Statuses  \* artifact type to its folded statuses

ASSUME SettingsAssumption ==
  \A s \in Settings :
    /\ DOMAIN s.adapters = Registry.targets
    /\ DOMAIN s.permission = Registry.permissions
    /\ DOMAIN s.skills = DOMAIN Registry.skills
    /\ Statuses = [a \in Registry.artifacts |-> {Folded[status] : status \in s.statuses[a]}]
    /\ \A w \in DOMAIN Registry.workflows : Registry.workflows[w] = Elements(s.workflow.states)

\* What the schemas of workflows and permission profiles fix.
ASSUME FormsAssumption ==
  /\ None \notin {"pass", "fail", "blocked"}
  /\ \A s \in Settings :
       /\ \A t \in Elements(s.workflow.transitions) :
            t = [from |-> t.from, on |-> t.on, to |-> t.to]
       /\ \A p \in Elements(s.permission) :
            /\ {p.read, p.write, p.edit} \subseteq BOOLEAN
            /\ p.bash \in {"deny", "limited", "allow"}

\* Paths have names for parts; what is found in a directory, or made of
\* letters, digits and hyphens, is not "..".
Entries == STRING \ {".."}

ASSUME PathsAssumption ==
  /\ \A s \in Settings :
       /\ \A t \in Registry.targets :
            Elements(s.adapters[t].outputs) \union s.adapters[t].owned \subseteq Seq(STRING)
       /\ \A n \in DOMAIN s.skills : {n} \union {f.name : f \in s.skills[n]} \subseteq Entries
  /\ \A b \in Bundles : {i.id : i \in Elements(b.instances)} \subseteq DOMAIN Slug
  /\ Elements(Slug) \subseteq Entries \union {None}

VARIABLES setting,
          stage,     \* loading, compiling, then rendered or failed
          failures,  \* why nothing was rendered
          rendered,  \* target to its files: path to content
          session    \* [target, controller, state, worker], None before

renderVars == <<vars, setting, stage, failures, rendered, session>>
rendering == <<stage, failures, rendered>>

Adapter(t) == setting.adapters[t]
Permission(i) == setting.permission[i.permission]
Flow == setting.workflow

-----------------------------------------------------------------------------
(* What the snapshot establishes besides the bundle.                       *)
Overlap(p, q) == IsPrefix(p, q) \/ IsPrefix(q, p)

Safe(path) == path # <<>> /\ ".." \notin Elements(path)

\* Mutant: ownership is compared path by path.
SamePathOnly(t) ==
  LET a == Adapter(t) IN
  When(\E p \in Elements(a.outputs) \union a.owned : ~Safe(p), "unsafePath")
  \union When(\E m, n \in DOMAIN a.outputs : m # n /\ a.outputs[m] = a.outputs[n], "duplicateOutput")
  \union When(\E p \in Elements(a.outputs) : \A q \in a.owned : ~IsPrefix(q, p), "outsideOwned")
  \union When(DOMAIN a.mapping # Registry.permissions, "mapping")
  \union When(\E u \in Registry.targets \ {t} : a.owned \intersect Adapter(u).owned # {}, "crossOwnership")

(* _validate_target_semantics and _validate_cross_target_ownership.        *)
TargetDiagnostics(t) ==
  LET a == Adapter(t) IN
  When(\E p \in Elements(a.outputs) \union a.owned : ~Safe(p), "unsafePath")
  \union When(\E m, n \in DOMAIN a.outputs : m # n /\ a.outputs[m] = a.outputs[n], "duplicateOutput")
  \union When(\E p, q \in a.owned : p # q /\ Overlap(p, q), "ownedOverlap")
  \union When(\E p \in Elements(a.outputs) : \A q \in a.owned : ~IsPrefix(q, p), "outsideOwned")
  \union When(DOMAIN a.mapping # Registry.permissions, "mapping")
  \union When(\E u \in Registry.targets \ {t} : \E p \in a.owned, q \in Adapter(u).owned :
                Overlap(p, q), "crossOwnership")

(* validation/permission_profiles.py                                       *)
PermissionDiagnostics(p) ==
  When(p.write /\ ~p.read, "writeRead") \union When(p.edit /\ ~p.write, "editWrite")
  \union When(p.bash # "deny" /\ ~p.read, "bashRead")

Workflow == INSTANCE WorkflowValidation WITH
  Workflows <- {}, workflow <- Flow, phase <- "parsed", diagnostics <- {},
  reachable <- {}, reaching <- {}, stack <- <<>>, current <- None,
  Skilled <- Provided(DOMAIN Registry.skills)

(* What is wrong with the workflow, the result of its traversals included. *)
WorkflowDiagnostics ==
  LET names == Workflow!Names
      Closed(S) == Workflow!ClosedForward(S) /\ Flow.start \in S
      Left(S) == Workflow!ClosedBackward(S) /\ Workflow!Terminals \subseteq S
  IN  Workflow!RuleDiagnostics
      \union When(\E S \in SUBSET names \ {names} : Closed(S), "unreachable")
      \union When(\E S \in SUBSET names \ {names} : Left(S), "noTerminalPath")

(* load_validated_registry_snapshot, before it validates the bundles.      *)
SnapshotDiagnostics ==
  (UNION {PermissionDiagnostics(p) : p \in Elements(setting.permission)})
  \union (UNION {TargetDiagnostics(t) : t \in Registry.targets})
  \union WorkflowDiagnostics
-----------------------------------------------------------------------------
(* The composition as the renderer reads it.                               *)
Chosen == composition.targets
Ids == {i.id : i \in Instances}
Controller == (CHOOSE b \in Controllers : TRUE).instance
Ends == {s.name : s \in States \ Gated}
OwnersOf(state) == {o \in composition.ownership : o[1] = state}
Owner(state) == (CHOOSE o \in OwnersOf(state) : TRUE)[3]
Transitions == Elements(Flow.transitions)

(* _validate_routing_representation                                        *)
RoutingErrors ==
  When(Flow.start \notin {s.name : s \in Gated}, "start")
  \union When(Flow.failure \notin Ends, "failure")
  \union When(Controller \notin Ids, "controller")
  \union When(\E s \in Gated : Cardinality(OwnersOf(s.name)) # 1, "owner")
  \union When(\E o \in composition.ownership : o[3] \notin Ids \/ o[1] \in Ends, "ownership")
  \union When(\E t \in Transitions : \/ ~({t.from, t.to} \subseteq {s.name : s \in States})
                                     \/ t.from \in Ends, "endpoint")
  \union When(\E t \in Transitions : t.on = "blocked" /\ t.to # Flow.failure, "blocked")
  \union When(\E t \in Transitions : t.on = "pass" /\ t.to = Flow.failure, "pass")
  \union When(\E s \in Gated, r \in {"pass", "fail", "blocked"} :
                Cardinality({k \in DOMAIN Flow.transitions :
                  Flow.transitions[k].from = s.name /\ Flow.transitions[k].on = r}) # 1, "route")

Verdicts == {"PASS", "FAIL", "BLOCKED"}

(* A report lets its gate say each of the three verdicts, as they are      *)
(* written: the validation of the workflow compares them folded.           *)
StatusErrors(report) == When(~(Verdicts \subseteq setting.statuses[report]), "statuses")

(* _validate_test_evidence_representation                                  *)
TestErrors(g) ==
  IF "TestReport" \notin g.gate.artifacts
  THEN When(g.gate.evidence # <<>>, "evidenceWithoutReport")
  ELSE When(g.instance \notin Ids, "gateOwner")
       \union When(g.gate.evidence = <<>> \/ Twice(g.gate.evidence), "testEvidence")
       \union StatusErrors("TestReport")

BoundTo(role, instance) == {b \in Bindings : b.role = role /\ b.instance = instance}

ReadOnly == [read |-> TRUE, write |-> FALSE, edit |-> FALSE, bash |-> "deny"]

(* _validate_ai_evaluation_representation, for the owner of a gate         *)
OwnerErrors(g, owner) ==
  When(owner \notin Owners \/ owner.state # g.state \/ owner.gate # g.gate.name, "gateRelation")
  \union When(~(g.gate.capabilities \subseteq owner.capabilities), "ownerCapabilities")
  \union When(~({"ImplementationReport", "Requirements"} \subseteq
                {p[1] : p \in composition.inputs[owner.role]}), "evaluationInputs")

(* and for the gate.                                                       *)
EvaluationErrors(g) ==
  IF "AIEvaluationReport" \notin g.gate.artifacts THEN {}
  ELSE When(Cardinality(BoundTo(g.role, g.instance)) # 1, "gateOwner")
       \union (UNION {OwnerErrors(g, b) : b \in BoundTo(g.role, g.instance)})
       \union When(<<"AIEvaluationReport", g.role, g.instance>> \notin composition.production, "evaluationProduct")
       \union StatusErrors("AIEvaluationReport")
       \union When(\A i \in Instances : i.id = g.instance => Permission(i) # ReadOnly, "evaluationPermission")

(* _validate_artifact_materialization_representation                       *)
ProductionErrors(p) ==
  LET producers == BoundTo(p[2], p[3]) IN
  When(p[3] \notin Ids, "producer")
  \union When(Cardinality(producers) # 1, "producingRole")
  \union When(\E b \in producers : b \notin Owners \/ p[1] \notin b.produces, "production")

Native == [deny |-> "deny", limited |-> "ask", allow |-> "allow"]
ReadTools == {"search", "readFile"}
Tools == ReadTools \union {"editFiles", "runInTerminal", "testFailure"}

\* Mutant: a limited shell is shown as an allowed one.
OpencodeErrorsShell(native, p) ==
  When(~(DOMAIN native \subseteq {"edit", "bash"}), "unknownSetting")
  \union When(~p.read \/ p.write # p.edit, "unrepresentable")
  \union (IF ~({"edit", "bash"} \subseteq DOMAIN native) THEN {"missingSetting"} ELSE
            When(native.edit # IF p.edit THEN "allow" ELSE "deny", "edit")
            \union When((native.bash = "deny") # (p.bash = "deny"), "bash"))

(* _validate_opencode_permission_profile and                               *)
(* _validate_vscode_permission_profile.                                    *)
OpencodeErrors(native, p) ==
  When(~(DOMAIN native \subseteq {"edit", "bash"}), "unknownSetting")
  \union When(~p.read \/ p.write # p.edit, "unrepresentable")
  \union (IF ~({"edit", "bash"} \subseteq DOMAIN native) THEN {"missingSetting"} ELSE
            When(native.edit # IF p.edit THEN "allow" ELSE "deny", "edit")
            \union When(native.bash # Native[p.bash], "bash"))

CopilotErrors(native, p) ==
  When(~(DOMAIN native \subseteq {"tools", "notes"}), "unknownSetting")
  \union When(~p.read \/ p.write # p.edit, "unrepresentable")
  \union (IF "tools" \notin DOMAIN native THEN {"missingSetting"} ELSE
            When(~(ReadTools \subseteq native.tools /\ native.tools \subseteq Tools), "tools")
            \union When(("editFiles" \in native.tools) # p.edit, "edit")
            \union When(("runInTerminal" \in native.tools) # (p.bash # "deny"), "bash"))

NativeErrors(t, i) ==
  IF i.permission \notin DOMAIN Adapter(t).mapping THEN {"mapping"}
  ELSE LET native == Adapter(t).mapping[i.permission] IN
       CASE t = "opencode" -> OpencodeErrors(native, Permission(i))
         [] t = "vscode-copilot" -> CopilotErrors(native, Permission(i))
         [] OTHER -> {}

RepresentationErrors ==
  RoutingErrors
  \union (UNION {TestErrors(g) \union EvaluationErrors(g) : g \in composition.gates})
  \union (UNION {ProductionErrors(p) : p \in composition.production})
  \union UNION {NativeErrors(t, i) : t \in Chosen, i \in Instances}
-----------------------------------------------------------------------------
\* Mutant: the handoff names the owner of the state that is left.
HandoffsToSource ==
  {[from |-> None, on |-> None, to |-> Flow.start, agent |-> Slug[Owner(Flow.start)]]}
  \union {[from |-> t.from, on |-> t.on, to |-> t.to, agent |-> Slug[Owner(t.from)]] :
            t \in {u \in Transitions : u.to \notin Ends}}

(* _handoffs_for_instance of the controller: where to begin, and one for   *)
(* each route to a state that has an owner.                                *)
Handoffs ==
  {[from |-> None, on |-> None, to |-> Flow.start, agent |-> Slug[Owner(Flow.start)]]}
  \union {[from |-> t.from, on |-> t.on, to |-> t.to, agent |-> Slug[Owner(t.to)]] :
            t \in {u \in Transitions : u.to \notin Ends}}

(* An agent file: who it is, what it may do natively, what it is told.     *)
Agent(t, i) ==
  [kind     |-> "agent", instance |-> i.id,
   native   |-> Adapter(t).mapping[i.permission],
   prerequisite |-> t = "vscode-copilot" /\ Permission(i).bash = "limited",
   handoffs |-> IF t = "vscode-copilot" /\ i.id = Controller THEN Handoffs ELSE {},
   routes   |-> IF i.id = Controller THEN Transitions ELSE {}]

AgentPath(t, id) == Append(Adapter(t).outputs["agents"], Slug[id])
SkillPath(t, skill, file) == Adapter(t).outputs["skills"] \o <<skill, file>>

(* _render_opencode and _render_vscode_copilot fill one dictionary: agents *)
(* in the order of the instances, then skills, instructions, configuration.*)
AgentFiles(t) ==
  [p \in {AgentPath(t, id) : id \in Ids} |->
     Agent(t, bundle.instances[CHOOSE k \in DOMAIN bundle.instances :
       LET Writes(j) == AgentPath(t, bundle.instances[j].id) = p
       IN  Writes(k) /\ \A j \in DOMAIN bundle.instances : Writes(j) => j <= k])]

SkillFiles(t) ==
  [p \in UNION {{SkillPath(t, s, f.name) : f \in setting.skills[s]} : s \in bundle.skills} |-> [kind |-> "skill"]]

Rest(t) == [p \in {Adapter(t).outputs[n] : n \in DOMAIN Adapter(t).outputs \ {"agents", "skills"}} |-> [kind |-> "text"]]

Over(f, g) == [p \in DOMAIN f \union DOMAIN g |-> IF p \in DOMAIN g THEN g[p] ELSE f[p]]

Files(t) == Over(Over(AgentFiles(t), SkillFiles(t)), Rest(t))

Outputs == [t \in {"opencode", "vscode-copilot"} |->
  {"agents", "skills", "instructions"} \union IF t = "opencode" THEN {"config"} ELSE {}]

(* What else rendering one target can stop at.                             *)
FileErrors(t) ==
  IF t \notin DOMAIN Outputs THEN {"unsupportedTarget"}
  ELSE IF DOMAIN Adapter(t).outputs # Outputs[t] THEN {"outputPaths"}
  ELSE When(\E id \in Ids : Slug[id] = None, "slug")
       \union When(\E s \in bundle.skills : \E f \in setting.skills[s] : f.link, "skillFiles")
       \union (IF \E id \in Ids : Slug[id] = None THEN {} ELSE
                 When(\E p \in DOMAIN Files(t) :
                        ~Safe(p) \/ \A owned \in Adapter(t).owned : ~IsPrefix(owned, p), "outsideOwned"))

RenderInit ==
  /\ Init
  /\ setting \in Settings
  /\ stage = "loading" /\ failures = {}
  /\ rendered = None /\ session = None

(* load_validated_registry_snapshot                                        *)
Load ==
  /\ stage = "loading"
  /\ failures' = When(SnapshotDiagnostics # {}, "registry")
  /\ stage' = IF failures' = {} THEN "compiling" ELSE "failed"
  /\ UNCHANGED <<vars, setting, rendered, session>>

Prepare == Next /\ stage = "compiling" /\ UNCHANGED <<setting, rendering, session>>

(* render_enabled_targets                                                  *)
Render ==
  /\ stage = "compiling" /\ composition # None
  /\ failures' = IF RepresentationErrors # {} THEN RepresentationErrors
                 ELSE UNION {FileErrors(t) : t \in Chosen}
  /\ stage' = IF failures' = {} THEN "rendered" ELSE "failed"
  /\ rendered' = IF failures' = {} THEN [t \in Chosen |-> Files(t)] ELSE None
  /\ UNCHANGED <<vars, setting, session>>
-----------------------------------------------------------------------------
(* The host opens the agent a name stands for.                             *)
Opened(t, name) == rendered[t][Append(Adapter(t).outputs["agents"], name)]

(* The user picks the controller and follows its first handoff.            *)
Begin ==
  /\ stage = "rendered" /\ session = None
  /\ \E t \in Chosen \intersect {"vscode-copilot"} :
       LET controller == Opened(t, Slug[Controller]) IN
       \E h \in controller.handoffs :
         /\ h.from = None
         /\ session' = [target |-> t, controller |-> controller, state |-> h.to,
                        worker |-> Opened(t, h.agent)]
  /\ UNCHANGED <<vars, setting, rendering>>

(* What the controller may do with result r of the present state: follow a *)
(* handoff, or end by a route of its table that has none.                  *)
Ways(r) ==
  {[to |-> h.to, worker |-> Opened(session.target, h.agent)] :
     h \in {g \in session.controller.handoffs : g.from = session.state /\ g.on = r}}
  \union {[to |-> u.to, worker |-> None] :
     u \in {v \in session.controller.routes : v.from = session.state /\ v.on = r /\ v.to \in Ends}}

Dispatch ==
  /\ session # None
  /\ \E r \in {"pass", "fail", "blocked"} : \E way \in Ways(r) :
       session' = [session EXCEPT !.state = way.to, !.worker = way.worker]
  /\ UNCHANGED <<vars, setting, rendering>>

RenderNext == Load \/ Prepare \/ Render \/ Begin \/ Dispatch

RenderSpec == RenderInit /\ [][RenderNext]_renderVars
-----------------------------------------------------------------------------
(* The renderer repeats rules of the validators, each in its own terms.    *)
(* For what they accept only those it adds can fail: what a target cannot  *)
(* express and what a report must contain.                                 *)
ValidatedIsRepresentable ==
  failures \subseteq
    {"registry", "statuses", "evaluationInputs", "evaluationPermission", "unknownSetting",
     "missingSetting", "unrepresentable", "edit", "bash", "tools", "unsupportedTarget",
     "outputPaths", "slug", "skillFiles"}

\* The direct actions a profile authorizes, and those an agent file gives
\* its agent: editing includes creating, an unmentioned shell asks nobody.
Authorized(p) ==
  When(p.read, "read") \union When(p.write, "write") \union When(p.edit, "edit")
  \union When(p.bash = "limited", "askedShell") \union When(p.bash = "allow", "shell")

Granted(t, agent) ==
  {"read"} \union
  IF t = "opencode"
  THEN (IF agent.native.edit = "deny" THEN {} ELSE {"write", "edit"})
       \union When(agent.native.bash = "ask", "askedShell")
       \union When(agent.native.bash = "allow", "shell")
  ELSE (IF "editFiles" \in agent.native.tools THEN {"write", "edit"} ELSE {})
       \union When("runInTerminal" \in agent.native.tools,
                   IF agent.prerequisite THEN "askedShell" ELSE "shell")

\* Every instance has a file name of its own, and no output path of a
\* target lies within another one.
Distinguishable ==
  /\ \A i, j \in Ids : i # j => Slug[i] # Slug[j]
  /\ \A t \in Chosen : \A m, n \in DOMAIN Adapter(t).outputs :
       m # n => ~Overlap(Adapter(t).outputs[m], Adapter(t).outputs[n])

(* core-domain-model.md, "Permission profile": no agent file of any target *)
(* grants an action the profile of its instance denies, or withholds one   *)
(* it permits, whatever the mapping said.                                  *)
AuthorityIsPreserved ==
  rendered # None /\ Distinguishable =>
    \A t \in Chosen, i \in Instances :
      Granted(t, rendered[t][AgentPath(t, i.id)]) = Authorized(Permission(i))

(* Each target writes below its own paths only, and never below those of   *)
(* another one.                                                            *)
TargetsAreApart ==
  rendered # None =>
    \A t, u \in Chosen : \A p \in DOMAIN rendered[t] :
      (\E owned \in Adapter(u).owned : IsPrefix(owned, p)) <=> t = u

(* adr/0011 through all layers: wherever the controller of an accepted and *)
(* rendered workflow gets, each result leads one way, the compiled one,    *)
(* and whoever is dispatched is the owner of the state.                    *)
SessionFollowsWorkflow ==
  session # None /\ Distinguishable /\ session.state \notin Ends =>
    /\ \E b \in Owners : b.state = session.state /\ b.instance = session.worker.instance
    /\ \A r \in {"pass", "fail", "blocked"} :
         /\ Cardinality(Ways(r)) = 1
         /\ \E way \in Ways(r) : [from |-> session.state, on |-> r, to |-> way.to] \in Transitions

(* docs/architecture.md line 166: a target "must fail explicitly" or "not  *)
(* weaken, omit or independently reinterpret canonical semantics".  Every  *)
(* instance has its agent in every rendered target.                        *)
EveryInstanceIsRendered ==
  rendered # None =>
    \A t \in Chosen, id \in Ids : \E p \in DOMAIN rendered[t] :
      rendered[t][p].kind = "agent" /\ rendered[t][p].instance = id
=============================================================================
