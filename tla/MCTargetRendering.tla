------------------------- MODULE MCTargetRendering -------------------------
(***************************************************************************)
(* Three states with gates (work, test with test evidence, AI evaluation), *)
(* three owners and a controller, two supported targets and one that no    *)
(* renderer knows.  Bundles and settings that vary one thing each (paths,  *)
(* mappings, profiles, statuses, routes) are combined.  For the validation *)
(* alone there is every relation of inputs among the owners, and           *)
(* variations of one binding, of the instances and of the bundle's lists   *)
(* that break the rules for bundles.                                       *)
(***************************************************************************)
EXTENDS TargetRendering

Roles4 == {"work", "test", "judge", "lead"}
Reports == {"ImplementationReport", "Requirements", "TestReport", "AIEvaluationReport"}

Gate(n, artifacts, evidence) ==
  [name |-> n, artifacts |-> artifacts, capabilities |-> {n}, evidence |-> evidence]

MCStates ==
  <<[name |-> "Work", gate |-> Gate("work", {"ImplementationReport"}, <<>>)],
    [name |-> "Test", gate |-> Gate("test", {"TestReport"}, <<"suite">>)],
    [name |-> "Judge", gate |-> Gate("judge", {"AIEvaluationReport"}, <<>>)],
    [name |-> "Done", gate |-> None], [name |-> "Blocked", gate |-> None]>>

Row(s, p, f) == <<[from |-> s, on |-> "pass", to |-> p], [from |-> s, on |-> "fail", to |-> f],
                  [from |-> s, on |-> "blocked", to |-> "Blocked"]>>

Flow3(transitions) ==
  [start |-> "Work", terminals |-> {"Done", "Blocked"}, failure |-> "Blocked", failClosed |-> TRUE,
   states |-> MCStates, transitions |-> transitions]

Rows == Row("Work", "Test", "Blocked") \o Row("Test", "Judge", "Work") \o Row("Judge", "Done", "Work")

MCRegistry ==
  [profiles |-> {"web"}, agents |-> {"worker"}, permissions |-> {"writer", "reader"},
   targets |-> {"opencode", "vscode-copilot", "cursor"},
   skills |-> [s \in Roles4 |-> [provides |-> {s}, requires |-> IF s = "judge" THEN {"test"} ELSE {}]],
   artifacts |-> Reports,
   workflows |-> [w \in {"flow"} |-> Elements(MCStates)]]

MCRank == [r \in Roles4 |-> CASE r = "judge" -> 1 [] r = "lead" -> 2 [] r = "test" -> 3 [] r = "work" -> 4]

\* "tester" and "Tester" have one file name, "---" has none.
MCSlug == [id \in {"dev", "tester", "Tester", "critic", "lead", "idle", "---"} |->
  IF id = "---" THEN None ELSE IF id = "Tester" THEN "tester" ELSE id]

MCFolded == [s \in {"PASS", "FAIL", "BLOCKED", "Pass"} |->
  CASE s \in {"PASS", "Pass"} -> "pass" [] s = "FAIL" -> "fail" [] s = "BLOCKED" -> "blocked"]
MCStatuses == [a \in Reports |-> {"pass", "fail", "blocked"}]

Owner4(role, instance, state, gate, products, inputs) ==
  [role |-> role, type |-> "state-owner", instance |-> instance, state |-> state, gate |-> gate,
   capabilities |-> {gate}, skills |-> {role} \union (IF role = "judge" THEN {"test"} ELSE {}), produces |-> products,
   inputs |-> {[artifact |-> a, role |-> "work"] : a \in inputs}]

Lead == [role |-> "lead", type |-> "workflow-controller", instance |-> "lead", state |-> None, gate |-> None,
         capabilities |-> {"lead"}, skills |-> {"lead"}, produces |-> {}, inputs |-> {}]

Instance(id, permission) == [id |-> id, profile |-> "worker", permission |-> permission, model |-> None]

BundleOf(dev, tester, critic) ==
  [profile |-> "web", workflow |-> "flow",
   instances |-> <<Instance(dev, "writer"), Instance(tester, "reader"), Instance(critic, "reader"),
                   Instance("lead", "reader")>>,
   bindings |-> <<Owner4("work", dev, "Work", "work", {"ImplementationReport", "Requirements"}, {}),
                  Owner4("test", tester, "Test", "test", {"TestReport"}, {"ImplementationReport"}),
                  Owner4("judge", critic, "Judge", "judge", {"AIEvaluationReport"},
                         {"ImplementationReport", "Requirements"}), Lead>>,
   policies |-> <<[id |-> "independent", roles |-> {"work", "test"}]>>,
   skills |-> Roles4, artifacts |-> Reports, targets |-> {"opencode", "vscode-copilot"}]

BaseBundle == BundleOf("dev", "tester", "critic")

Rendered ==
  {BaseBundle, BundleOf("Tester", "tester", "critic"), BundleOf("dev", "---", "critic"),
   [BaseBundle EXCEPT !.targets = {"opencode"}],
   [BaseBundle EXCEPT !.targets = @ \union {"cursor"}],
   [BaseBundle EXCEPT !.instances[3].permission = "writer"],
   [BaseBundle EXCEPT !.bindings[3].inputs = {}],
   [BaseBundle EXCEPT !.bindings[3].capabilities = {"test"}, !.bindings[3].skills = {"test"}],
   [BaseBundle EXCEPT !.bindings[1].instance = "lead", !.instances = Tail(@)],
   [BaseBundle EXCEPT !.bindings[2].produces = {}]}
-----------------------------------------------------------------------------
Roles3 == Roles4 \ {"lead"}
Report == [r \in Roles3 |-> CASE r = "work" -> "ImplementationReport" [] r = "test" -> "TestReport"
                              [] r = "judge" -> "AIEvaluationReport"]

\* Owners that produce one report each, and take those of their sources.
Linked(sources) ==
  [BaseBundle EXCEPT
     !.bindings = [k \in DOMAIN @ |->
        LET b == @[k] IN
        IF b = Lead THEN b
        ELSE [b EXCEPT !.produces = {Report[b.role]},
                       !.inputs = {[artifact |-> Report[q], role |-> q] : q \in sources[b.role]}]],
     !.policies[1].roles = {"test", "judge"},
     !.artifacts = Elements(Report)]

\* Every relation of inputs, references of a role to itself included.
Graphs == {Linked(sources) : sources \in [Roles3 -> SUBSET Roles3]}

Chain == Linked([r \in Roles3 |-> IF r = "test" THEN {"work"} ELSE IF r = "judge" THEN {"test"} ELSE {}])

\* Variations of the second binding, the policy's roles along with it.
Rebound ==
  {[Chain EXCEPT !.bindings[2].role = r, !.bindings[2].instance = i, !.bindings[2].state = s,
                 !.bindings[2].skills = k, !.bindings[2].produces = a, !.policies[1].roles = p] :
     r \in {"test", "work"}, i \in {"tester", "critic", "gone"}, s \in {"Test", "Work", "Done"},
     k \in {{"test"}, {"work", "gone"}}, a \in {{}, {"TestReport"}, {"TestReport", "ImplementationReport"}},
     p \in {{"test", "judge"}, {"work", "gone"}}}

Dependent ==
  {[Chain EXCEPT !.bindings[3].inputs = {[artifact |-> a, role |-> r]},
                 !.bindings[2].produces = @ \union more, !.artifacts = @ \union more] :
     a \in Reports \union {"gone"}, r \in Roles4 \union {"gone"},
     more \in {{}, {"Requirements"}, {"ImplementationReport"}}}

Variations ==
  {[Chain EXCEPT !.profile = "gone"], [Chain EXCEPT !.workflow = "gone"],
   [Chain EXCEPT !.skills = @ \union {"gone"}], [Chain EXCEPT !.skills = @ \ {"test"}],
   [Chain EXCEPT !.artifacts = @ \union {"gone"}], [Chain EXCEPT !.artifacts = @ \ {"AIEvaluationReport"}],
   [Chain EXCEPT !.artifacts = @ \union {"Requirements"}],
   [Chain EXCEPT !.targets = {"opencode", "gone"}], [Chain EXCEPT !.targets = {"opencode"}],
   [Chain EXCEPT !.instances[1].model = "large"], [Chain EXCEPT !.instances[1].id = "tester"],
   [Chain EXCEPT !.instances[1].profile = "gone"], [Chain EXCEPT !.instances[1].permission = "gone"],
   [Chain EXCEPT !.instances = Append(@, Instance("idle", "reader"))],
   [Chain EXCEPT !.bindings[2].gate = "work"], [Chain EXCEPT !.bindings[2].capabilities = {"work"}],
   [Chain EXCEPT !.bindings[2].capabilities = {"test", "work"}],
   [Chain EXCEPT !.bindings[2].capabilities = {}],
   [Chain EXCEPT !.bindings[2].capabilities = {"work"}, !.bindings[2].skills = {"work"}],
   [Chain EXCEPT !.bindings[3].skills = {"judge"}],
   [Chain EXCEPT !.bindings[4].produces = {"ImplementationReport"}],
   [Chain EXCEPT !.bindings = SubSeq(@, 1, 3)], [Chain EXCEPT !.bindings = Append(@, Lead)],
   [Chain EXCEPT !.bindings = <<@[1], @[3], @[4]>>],
   [Chain EXCEPT !.policies = @ \o @],
   [Chain EXCEPT !.policies[1].roles = {"work", "test", "judge"}]}

MCBundles == Rendered \union Graphs \union Rebound \union Dependent \union Variations
-----------------------------------------------------------------------------

Opencode == [outputs |-> [n \in {"agents", "skills", "instructions", "config"} |->
                CASE n = "agents" -> <<".opencode", "agents">> [] n = "skills" -> <<".opencode", "skills">>
                  [] n = "instructions" -> <<"AGENTS.md">> [] n = "config" -> <<"opencode.json">>],
             owned |-> {<<".opencode">>, <<"AGENTS.md">>, <<"opencode.json">>},
             mapping |-> [p \in {"writer", "reader"} |->
                IF p = "writer" THEN [edit |-> "allow", bash |-> "ask"] ELSE [edit |-> "deny", bash |-> "deny"]]]

Copilot == [outputs |-> [n \in {"agents", "skills", "instructions"} |->
                CASE n = "agents" -> <<".github", "agents">> [] n = "skills" -> <<".github", "skills">>
                  [] n = "instructions" -> <<".github", "instructions.md">>],
            owned |-> {<<".github">>},
            mapping |-> [p \in {"writer", "reader"} |->
                IF p = "writer" THEN [tools |-> Tools] ELSE [tools |-> ReadTools]]]

Cursor == [Copilot EXCEPT !.outputs = [n \in {"rules"} |-> <<".cursor">>], !.owned = {<<".cursor">>}]

BaseSetting ==
  [workflow |-> Flow3(Rows),
   adapters |-> [t \in MCRegistry.targets |->
     CASE t = "opencode" -> Opencode [] t = "vscode-copilot" -> Copilot [] t = "cursor" -> Cursor],
   permission |-> [p \in {"writer", "reader"} |->
     IF p = "writer" THEN [read |-> TRUE, write |-> TRUE, edit |-> TRUE, bash |-> "limited"]
     ELSE [read |-> TRUE, write |-> FALSE, edit |-> FALSE, bash |-> "deny"]],
   statuses |-> [a \in Reports |-> {"PASS", "FAIL", "BLOCKED"}],
   skills |-> [s \in Roles4 |-> {[name |-> "SKILL.md", link |-> FALSE]}]]

\* Paths: of the adapters, below or beside each other's.
Placed ==
  {[BaseSetting EXCEPT !.adapters["vscode-copilot"].owned = o] :
     o \in {{<<".github">>, <<".github", "agents">>}, {<<".github">>, <<".opencode", "agents">>},
            {<<".github">>, <<".opencode">>}, {<<".github">>, <<"..", "x">>}, {<<".github", "agents">>}}}
  \union {[BaseSetting EXCEPT !.adapters["vscode-copilot"].outputs["instructions"] = p] :
     p \in {<<".github", "agents">>, <<".github", "agents", "dev">>, <<".opencode", "dev">>}}
  \union {[BaseSetting EXCEPT !.adapters["opencode"].outputs =
             [n \in {"agents", "skills", "instructions"} |-> Opencode.outputs[n]]]}

\* Every native setting for the writer, for every profile it may have.
Profiles == {[read |-> TRUE, write |-> w, edit |-> e, bash |-> b] :
               w, e \in BOOLEAN, b \in {"deny", "limited", "allow"}}
            \union {[read |-> FALSE, write |-> FALSE, edit |-> FALSE, bash |-> "deny"]}
OpencodeSettings == [edit : {"allow", "deny"}, bash : {"allow", "ask", "deny"}]
                    \union {[edit |-> "allow"], [edit |-> "allow", bash |-> "ask", web |-> "deny"]}
CopilotSettings == {[tools |-> ReadTools \union s] :
                      s \in {{}, {"editFiles"}, {"runInTerminal"}, {"editFiles", "runInTerminal"}, {"fetch"}}}
                   \union {[tools |-> {"search", "editFiles", "runInTerminal"}], [notes |-> "none"]}

Permitted ==
  {[BaseSetting EXCEPT !.permission["writer"] = p, !.adapters["opencode"].mapping["writer"] = o,
                       !.adapters["vscode-copilot"].mapping["writer"] = c] :
     p \in Profiles, o \in OpencodeSettings, c \in CopilotSettings}

Routed ==
  {[BaseSetting EXCEPT !.workflow = Flow3(x)] :
     x \in {SubSeq(Rows, 1, 8), SubSeq(Rows, 4, 9), Append(Rows, Rows[1]),
            Row("Work", "Judge", "Test") \o Row("Test", "Judge", "Done") \o Row("Judge", "Done", "Test"),
            Row("Work", "Judge", "Blocked") \o Row("Test", "Judge", "Work") \o Row("Judge", "Done", "Work"),
            Row("Work", "Test", "Work") \o Row("Test", "Judge", "Work") \o Row("Judge", "Done", "Test"),
            [Rows EXCEPT ![3].to = "Done"], [Rows EXCEPT ![1].to = "Blocked"]}}

Written ==
  {[BaseSetting EXCEPT !.statuses[a] = {"Pass", "FAIL", "BLOCKED"}] : a \in Reports}
  \union {[BaseSetting EXCEPT !.skills["test"] = @ \union {[name |-> "notes", link |-> TRUE]}],
          [BaseSetting EXCEPT !.adapters["opencode"].mapping = [p \in {"writer"} |-> @["writer"]]]}

MCSettings == {BaseSetting} \union Placed \union Routed \union Written

\* Every setting for the bundles to render, the permissions for the first
\* one, and one setting for the bundles to validate.
MCInit ==
  /\ RenderInit
  /\ setting \in Permitted => bundle = BaseBundle
  /\ setting # BaseSetting => bundle \in Rendered
MCAllSettings == MCSettings \union Permitted
MCSelections == {None, <<>>, <<"opencode">>, <<"vscode-copilot", "opencode">>,
                 <<"opencode", "opencode">>, <<"cursor">>}

\* The one setting of the run on omitted agents.
MCBaseSetting == {BaseSetting}

\* Loading, validating and compiling are one call that does not wait.
MCSpec == MCInit /\ [][RenderNext]_renderVars /\ WF_renderVars(Prepare)
=============================================================================
