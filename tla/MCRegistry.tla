----------------------------- MODULE MCRegistry -----------------------------
(***************************************************************************)
(* A small registry with a file of every kind, two skills, and a second    *)
(* artifact and permission profile that can appear.  What may be written   *)
(* to a file breaks one rule each, or makes a name untrimmed or blank.     *)
(***************************************************************************)
EXTENDS Registry, TLC

CONSTANT Text  \* the content of a file that exists

Agent == [name |-> "coder", form |-> "sound", capabilities |-> {"code"}, permission |-> "rw"]
Plan(name) == [name |-> name, form |-> "sound", statuses |-> {"PASS", "FAIL"},
               headings |-> {"Status", "Provenance", "Revision", "Evidence"},
               pattern |-> {"PASS", "FAIL"}]
Binding == [owner |-> TRUE, capabilities |-> {"code"}, skills |-> {"coding"}, produces |-> {"Plan"}]
Bundle == [name |-> "web", form |-> "sound", profile |-> "default", workflow |-> "flow",
           agents |-> {"coder"}, permissions |-> {"rw"}, skills |-> {"coding", "testing"},
           targets |-> {"tool"},
           bindings |-> {Binding, [Binding EXCEPT !.capabilities = {"test"}, !.skills = {"testing", "coding"}]}]
Permission(name) == [name |-> name, form |-> "sound"]
Profile == [name |-> "default", form |-> "sound", workflow |-> "flow", agents |-> {"coder"},
            capabilities |-> {"test"}]
Setup == [name |-> "guided", form |-> "sound"]
Coding == [name |-> "coding", form |-> "sound", provides |-> {"code"}, requires |-> {},
           agents |-> {"coder"}, content |-> "skills/coding/SKILL.md"]
Testing == [name |-> "testing", form |-> "sound", provides |-> {"test"}, requires |-> {"code"},
            agents |-> {}, content |-> "skills/coding/SKILL.md"]
Target == [name |-> "tool", form |-> "sound", mapped |-> {"rw"}]
Gate == [state |-> "building", name |-> "review", capabilities |-> {"code"}, artifacts |-> {"Plan"}, results |-> {"pass", "fail"}]
Workflow == [name |-> "flow", form |-> "sound", states |-> {"building", "done"}, gates |-> {Gate}]

MCFiles == [k \in Elements(Kinds) |->
  CASE k = "agents" -> <<"agents/coder">>
    [] k = "artifacts" -> <<"artifacts/Plan", "artifacts/Report">>
    [] k = "bundles" -> <<"bundles/web">>
    [] k = "permission-profiles" -> <<"permissions/ro", "permissions/rw">>
    [] k = "profiles" -> <<"profiles/default">>
    [] k = "setups" -> <<"setups/guided">>
    [] k = "skills" -> <<"skills/coding", "skills/testing">>
    [] k = "targets" -> <<"targets/tool">>
    [] k = "workflows" -> <<"workflows/flow">>]

MCImplied == [p \in UNION {Elements(MCFiles[k]) : k \in DOMAIN MCFiles} |->
  CASE p = "agents/coder" -> "coder"
    [] p = "artifacts/Plan" -> "Plan" [] p = "artifacts/Report" -> "Report"
    [] p = "bundles/web" -> "web"
    [] p = "permissions/ro" -> "ro" [] p = "permissions/rw" -> "rw"
    [] p = "profiles/default" -> "default" [] p = "setups/guided" -> "guided"
    [] p = "skills/coding" -> "coding" [] p = "skills/testing" -> "testing"
    [] p = "targets/tool" -> "tool" [] p = "workflows/flow" -> "flow"]

MCBeside == [p \in {"artifacts/Plan", "artifacts/Report"} |->
               IF p = "artifacts/Plan" THEN "artifacts/Plan.schema" ELSE "artifacts/Report.schema"]

Variants(d) == {d, [d EXCEPT !.form = "malformed"], [d EXCEPT !.form = "unsound"]}
Malformed(d) == [d EXCEPT !.form = "malformed"]

MCContents == [p \in DOMAIN MCImplied \union {MCBeside[a] : a \in DOMAIN MCBeside} \union {Coding.content} |->
  CASE p = "agents/coder" -> {Agent, Malformed([Agent EXCEPT !.name = None]),
                              [Agent EXCEPT !.name = " coder"],
                              [Agent EXCEPT !.capabilities = {" test"}],
                              [Agent EXCEPT !.permission = "ro"], Absent, Unreadable}
    [] p = "artifacts/Plan" -> {Plan("Plan"), Plan(" Plan"), Malformed([Plan("Plan") EXCEPT !.statuses = None]),
                                [Plan("Plan") EXCEPT !.statuses = {"PASS", " "}, !.pattern = {"PASS", " "}],
                                [Plan("Plan") EXCEPT !.pattern = {"PASS"}],
                                [Plan("Plan") EXCEPT !.pattern = None, !.headings = {"Status"}]}
    [] p = "artifacts/Report" -> {Absent, Plan("Report"), Plan("Plan")}
    [] p = "artifacts/Plan.schema" -> {ExpectedSchema(Plan("Plan")), Absent, Unreadable,
                                ExpectedSchema([Plan("Plan") EXCEPT !.pattern = {"PASS"}]),
                                ExpectedSchema([Plan("Plan") EXCEPT !.statuses = {"PASS", " "}, !.pattern = {"PASS", " "}])}
    [] p = "artifacts/Report.schema" -> {Absent, ExpectedSchema(Plan("Report"))}
    [] p = "bundles/web" -> {Bundle, Malformed(Bundle), [Bundle EXCEPT !.permissions = {"ro"}],
                             [Bundle EXCEPT !.bindings = {Binding}],
                             [Bundle EXCEPT !.bindings = {[Binding EXCEPT !.owner = FALSE]}]}
    [] p = "permissions/ro" -> {Absent, Permission("ro"), Permission("rw"), NotAFile}
    [] p = "permissions/rw" -> Variants(Permission("rw"))
    [] p = "profiles/default" -> {Profile, [Profile EXCEPT !.capabilities = {"code"}], [Profile EXCEPT !.workflow = "coder"], Malformed(Profile)}
    [] p = "setups/guided" -> {Setup, [Setup EXCEPT !.name = " guided"]}
    [] p = "skills/coding" -> {Coding, Malformed([Coding EXCEPT !.provides = None]),
                               [Coding EXCEPT !.provides = {"code", " "}],
                               [Coding EXCEPT !.provides = {"code", "test"}],
                               [Coding EXCEPT !.requires = {"code"}]}
    [] p = "skills/testing" -> {Testing, [Testing EXCEPT !.provides = {" test"}],
                                [Testing EXCEPT !.agents = {"tool"}], Absent}
    [] p = "skills/coding/SKILL.md" -> {Text, Absent}
    [] p = "targets/tool" -> {Target, [Target EXCEPT !.mapped = {"rw", "ro"}], Malformed(Target)}
    [] p = "workflows/flow" -> {Workflow, Malformed([Workflow EXCEPT !.gates = None]),
                                [Workflow EXCEPT !.states = {"building", " "}],
                                [Workflow EXCEPT !.gates = {[Gate EXCEPT !.name = " "]}],
                                [Workflow EXCEPT !.gates = {[Gate EXCEPT !.capabilities = {"test"}]}],
                                [Workflow EXCEPT !.gates = {[Gate EXCEPT !.results = {"pass", "blocked"}]}]}]

MCSeed == [p \in DOMAIN MCContents |->
  CASE p = "agents/coder" -> Agent
    [] p = "artifacts/Plan" -> Plan("Plan") [] p = "artifacts/Report" -> Absent
    [] p = "artifacts/Plan.schema" -> ExpectedSchema(Plan("Plan"))
    [] p = "artifacts/Report.schema" -> Absent
    [] p = "bundles/web" -> Bundle
    [] p = "permissions/ro" -> Absent [] p = "permissions/rw" -> Permission("rw")
    [] p = "profiles/default" -> Profile [] p = "setups/guided" -> Setup
    [] p = "skills/coding" -> Coding [] p = "skills/testing" -> Testing
    [] p = "skills/coding/SKILL.md" -> Text
    [] p = "targets/tool" -> Target [] p = "workflows/flow" -> Workflow]

Padded == " coder" :> "coder" @@ " guided" :> "guided" @@ " test" :> "test" @@ " Plan" :> "Plan" @@ " " :> ""
MCStrip == [n \in {"coder", "code", "test", "rw", "ro", "web", "default", "flow", "coding", "testing",
                   "tool", "guided", "building", "done", "review", "Plan", "Report", "PASS", "FAIL",
                   "Status", "Provenance", "Revision", "Evidence", Coding.content, ""} |-> n] @@ Padded
MCFold == [n \in DOMAIN MCStrip |-> IF n = "PASS" THEN "pass" ELSE IF n = "FAIL" THEN "fail" ELSE n]
=============================================================================
