------------------------------ MODULE Registry ------------------------------
(***************************************************************************)
(* The registry: JSON files of nine kinds, discovered and read one by one  *)
(* (registry/loader.py), indexed by identity (registry/index.py) and       *)
(* judged kind by kind (validation/*.py), either all of them for the       *)
(* snapshot the other services work from                                   *)
(* (application/registry_snapshot.py, application/capability_coverage.py), *)
(* or by the commands that judge one kind each (cli/*.py), which load what *)
(* they need on their own.  The developer may edit a file at any time.     *)
(*                                                                         *)
(* A validator reads the kinds judged before and after its own as they     *)
(* are: a projection raises for what it cannot read.  Some projections     *)
(* strip the names, others take them as written.  A diagnostic about a     *)
(* name that is empty or not trimmed, or about the same name twice, cannot *)
(* be made and raises as well.                                             *)
(*                                                                         *)
(* A source is [path, data].  Its data have a name, and a form: malformed  *)
(* if they have an obsolete field or contradict the schema, unsound if     *)
(* they break a rule that concerns that source alone and is modelled       *)
(* elsewhere (WorkflowValidation, BundleComposition, TargetRendering).     *)
(* The other fields are the names it uses; None is a field that is missing *)
(* or has the wrong type.  The schema files themselves are always there.   *)
(***************************************************************************)
EXTENDS Naturals, Sequences

CONSTANTS Files,     \* kind to its paths in the order of discovery
          Implied,   \* path to the name its folder or file name tells
          Contents,  \* path to what the developer may write there
          Seed,      \* path to its content at the beginning
          Beside,    \* path of an artifact to that of its generated schema
          Strip,     \* name to the name without surrounding whitespace
          Fold,      \* stripped status to the result it is compared with
          MaxEdits, Absent, NotAFile, Unreadable, None

Kinds == <<"agents", "artifacts", "bundles", "permission-profiles", "profiles",
           "setups", "skills", "targets", "workflows">>

\* Mutant: the kinds are judged in the order in which they are loaded.
LoadOrder == <<"agents", "artifacts", "bundles", "permission-profiles", "profiles",
               "skills", "targets", "workflows">>

(* The order in which the snapshot judges the kinds.                       *)
DependencyOrder == <<"permission-profiles", "targets", "skills", "agents",
                     "artifacts", "workflows", "profiles", "bundles">>

Elements(seq) == {seq[i] : i \in DOMAIN seq}

ASSUME FilesAssumption == DOMAIN Files = Elements(Kinds)

\* What is malformed besides by its form: a missing name, list or state.
ASSUME FormAssumption ==
  \A kind \in Elements(Kinds) : \A p \in Elements(Files[kind]) :
    \A c \in Contents[p] \ {Absent, NotAFile, Unreadable} :
      c.form # "malformed" =>
        /\ c.name # None /\ c.name \in DOMAIN Strip
        /\ kind = "skills" => c.provides \notin {None, {}} /\ None \notin c.provides \union c.requires
        /\ kind = "artifacts" => c.statuses \notin {None, {}} /\ None \notin c.statuses
        /\ kind = "workflows" =>
             /\ c.gates # None /\ None \notin c.states
             /\ \A g \in c.gates : g.name # None /\ \A names \in {g.capabilities, g.artifacts} :
                  names \notin {None, {}} /\ None \notin names

ASSUME SeedAssumption ==
  /\ DOMAIN Contents = DOMAIN Seed
  /\ \A p \in DOMAIN Seed : Seed[p] \in Contents[p]
  /\ \A kind \in DOMAIN Files : Elements(Files[kind]) \subseteq DOMAIN Seed
  /\ Elements(Files["artifacts"]) \subseteq DOMAIN Beside

\* A path has a last component, which names the source.
ASSUME ImpliedAssumption ==
  \A kind \in DOMAIN Files : \A p \in Elements(Files[kind]) : Implied[p] # ""

ASSUME NoneAssumption == None # {}

VARIABLES disk,
          command,  \* the command run last
          plan,     \* its passes that are left: [load, judge, anew]
          loaded,   \* how many kinds of the first pass are loaded
          judged,   \* and how many are judged
          found,    \* paths of the kind being loaded that are left to be read,
                    \* None before discovery
          sources,  \* kind to the sources that have been read
          result,   \* none, running, passed, rejected (by a validator), refused
          reason,   \* the kind whose validator rejected, or why it was refused
          fresh,    \* no edit since the command began
          edits

vars == <<disk, command, plan, loaded, judged, found, sources, result, reason, fresh, edits>>

position == <<plan, loaded, judged, found, sources>>

-----------------------------------------------------------------------------
(* Reading names.                                                          *)
Data(kind, S) == {s.data : s \in S[kind]}
Parsed(kind, S) == {s \in S[kind] : s.data.form # "malformed"}

Blank(name) == name = None \/ Strip[name] = ""
Names(kind, S) == {d.name : d \in Data(kind, S)}
Stripped(names) == {Strip[n] : n \in names}

(* Two sources whose names, seen through f, are the same.                  *)
Repeated(kind, S, f) ==
  \E s, t \in S[kind] : s # t /\ f[s.data.name] = f[t.data.name]

AsWritten == [n \in DOMAIN Strip |-> n]

(* RegistryIndex: every identity is a trimmed nonempty string, used once.  *)
Indexed(kind, S) ==
  /\ \A n \in Names(kind, S) : ~Blank(n) /\ Strip[n] = n
  /\ ~Repeated(kind, S, AsWritten)

Unlisted(names) == names = None \/ names = {} \/ \E n \in names : Blank(n)

(* project_skill_capabilities and _project_string_list for skills          *)
CapabilitiesFail(S) == \E d \in Data("skills", S) : Unlisted(d.provides)

NamesFail(kind, S) == \E n \in Names(kind, S) : Blank(n)
OnceFails(kind, S, f) == NamesFail(kind, S) \/ Repeated(kind, S, f)

StatusesFail(S) == \E d \in Data("artifacts", S) : Unlisted(d.statuses)

(* project_workflows                                                       *)
StatesFail(S) ==
  \E d \in Data("workflows", S) :
    \/ d.gates = None \/ \E n \in d.states : Blank(n)
    \/ \E g \in d.gates : Blank(g.name) \/ Unlisted(g.capabilities) \/ Unlisted(g.artifacts)

RequirementsFail(S) == \E d \in Data("skills", S) : \E n \in d.requires : Blank(n)

(* What the validator of a kind projects from the other kinds.             *)
ProjectionFails(kind, S) ==
  \/ kind = "skills" /\ NamesFail("agents", S)
  \/ kind = "agents" /\ (CapabilitiesFail(S) \/ NamesFail("permission-profiles", S))
  \/ /\ kind = "workflows"
     /\ CapabilitiesFail(S) \/ OnceFails("artifacts", S, Strip) \/ StatusesFail(S)
  \/ /\ kind = "profiles"
     /\ \/ OnceFails("workflows", S, AsWritten) \/ OnceFails("agents", S, AsWritten)
        \/ CapabilitiesFail(S)
  \/ /\ kind = "bundles"
     /\ \/ \E other \in {"profiles", "workflows", "agents", "skills", "artifacts",
                         "permission-profiles", "targets"} : OnceFails(other, S, Strip)
        \/ StatesFail(S) \/ CapabilitiesFail(S) \/ RequirementsFail(S)

-----------------------------------------------------------------------------
(* Diagnostics: the rule that is broken and the names it is about.         *)
D(rule, about) == [rule |-> rule, about |-> about]

Reportable(d) ==
  /\ \A i \in DOMAIN d.about : d.about[i] # "" /\ Strip[d.about[i]] = d.about[i]
  /\ \A i, j \in DOMAIN d.about : d.about[i] = d.about[j] => i = j

Unresolved(rule, used, known) == {D(rule, <<n>>) : n \in used \ known}
Unknown(rule, d, used, known) == {D(rule, <<d.name, n>>) : n \in used \ known}

(* validate_and_parse_sources, the name of the folder or file, and         *)
(* duplicate_name_diagnostics.                                             *)
CommonDiagnostics(kind, S) ==
  {D("malformed", <<>>) : s \in S[kind] \ Parsed(kind, S)}
  \union {D("unsound", <<>>) : s \in {t \in Parsed(kind, S) : t.data.form = "unsound"}}
  \union {D("name", <<s.data.name, Implied[s.path]>>) :
            s \in {t \in Parsed(kind, S) : t.data.name # Implied[t.path]}}
  \union {D("duplicate", <<s.data.name>>) :
            s \in {t \in Parsed(kind, S) : \E u \in Parsed(kind, S) :
                     u # t /\ u.data.name = t.data.name}}

Capabilities(S) == UNION {d.provides : d \in Data("skills", S)}
ParsedData(kind, S) == {s.data : s \in Parsed(kind, S)}

(* _validate_skill_semantics and _project_capability_providers: only what  *)
(* was parsed provides anything.                                           *)
Provided(S) == UNION {d.provides : d \in ParsedData("skills", S)}

SkillRules(d, S) ==
  Unknown("agent", d, d.agents, Names("agents", S))
  \union {D("ownCapability", <<d.name, c>>) : c \in d.requires \intersect d.provides}
  \union Unknown("capability", d, d.requires, Provided(S))

\* Mutant: a second provider of a capability is not reported.
AnyProvider(S) == UNION {SkillRules(d, S) : d \in ParsedData("skills", S)}

ProvidedAgain(S) ==
  {c \in Provided(S) : \E s, t \in Parsed("skills", S) :
     s # t /\ c \in s.data.provides \intersect t.data.provides}

SkillDiagnostics(S) ==
  (UNION {SkillRules(d, S) : d \in ParsedData("skills", S)})
  \union {D("provider", <<c>>) : c \in ProvidedAgain(S)}

(* _validate_agent_semantics                                               *)
AgentRules(d, S) ==
  Unknown("capability", d, d.capabilities, Capabilities(S))
  \union Unknown("permission", d, {d.permission}, Names("permission-profiles", S))

\* Mutant: the pattern need only compile.
PatternCompiles(d) ==
  {D("heading", <<d.name, h>>) : h \in {"Status", "Provenance", "Revision", "Evidence"} \ d.headings}
  \union (IF d.pattern = None THEN {D("pattern", <<d.name>>)} ELSE {})

(* _validate_artifact_semantics: the headings of a report, and a pattern   *)
(* that compiles and matches every status.                                 *)
ArtifactRules(d) ==
  {D("heading", <<d.name, h>>) : h \in {"Status", "Provenance", "Revision", "Evidence"} \ d.headings}
  \union (IF d.pattern = None THEN {D("pattern", <<d.name>>)}
          ELSE {D("status", <<d.name, n>>) : n \in d.statuses \ d.pattern})

(* project_artifact_statuses                                               *)
Allowed(artifact, S) ==
  UNION {{Fold[Strip[n]] : n \in d.statuses} :
           d \in {e \in Data("artifacts", S) : Strip[e.name] = artifact}}

(* The rules of _validate_workflow_semantics that look at other kinds.     *)
(* _unique_identities names each state, gate and artifact only once.       *)
Unsayable(g, S) == {a \in g.artifacts : ~(g.results \subseteq Allowed(a, S))}

GateRules(g, S) ==
  LET types == Stripped(Names("artifacts", S))
  IN  {D("capability", <<g.state, g.name, c>>) : c \in g.capabilities \ Capabilities(S)}
      \union {D("artifact", <<g.state, g.name, a>>) : a \in g.artifacts \ types}
      \union {D("statusEvent", <<n>>) :
                n \in UNION {{g.state, g.name, a} : a \in Unsayable(g, S) \intersect types}}

GatesOf(S) == UNION {d.gates : d \in ParsedData("workflows", S)}

(* _validate_profile_semantics                                             *)
ProfileRules(d, S) ==
  Unknown("workflow", d, {d.workflow}, Names("workflows", S))
  \union Unknown("agent", d, d.agents, Names("agents", S))
  \union Unknown("capability", d, d.capabilities, Capabilities(S))

(* The mapping of _validate_target_semantics                               *)
Profiled(S) == {d.name : d \in ParsedData("permission-profiles", S)}

TargetRules(d, S) ==
  Unknown("unknownMapping", d, d.mapped, Profiled(S))
  \union Unknown("missingMapping", d, Profiled(S), d.mapped)

(* project_skills: what the skills of these names provide, stripped.       *)
Selected(names, S) == {d \in Data("skills", S) : Strip[d.name] \in names}
ProvidedBy(names, S) == UNION {Stripped(d.provides) : d \in Selected(names, S)}
RequiredBy(names, S) == UNION {Stripped(d.requires) : d \in Selected(names, S)}

(* The rules of _validate_role_bindings for what a binding selects.        *)
BindingRules(bundle, b, S) ==
  LET provided == ProvidedBy(b.skills, S)
  IN  Unresolved("skillOutsideBundle", b.skills, bundle.skills)
      \union Unresolved("selectedSkill", b.skills, Stripped(Names("skills", S)))
      \union Unresolved("unprovided", b.capabilities, provided)
      \union Unresolved("unsatisfied", RequiredBy(b.skills, S), provided)
      \union Unresolved("produced", b.produces, Stripped(Names("artifacts", S)))

(* _validate_global_artifact_production, once every bundle was parsed.     *)
Produced(S) ==
  UNION {UNION {b.produces : b \in {c \in d.bindings : c.owner}} : d \in Data("bundles", S)}

UnproducedArtifacts(S) ==
  {D("unproduced", <<a>>) : a \in
     IF Parsed("bundles", S) # S["bundles"] THEN {} ELSE Stripped(Names("artifacts", S)) \ Produced(S)}

(* _validate_bundle_references and the references of the instances.        *)
BundleRules(d, S) ==
  Unresolved("profile", {d.profile}, Stripped(Names("profiles", S)))
  \union Unresolved("workflow", {d.workflow}, Stripped(Names("workflows", S)))
  \union Unresolved("target", d.targets, Stripped(Names("targets", S)))
  \union Unresolved("agent", d.agents, Stripped(Names("agents", S)))
  \union Unresolved("permission", d.permissions, Stripped(Names("permission-profiles", S)))
  \union UNION {BindingRules(d, b, S) : b \in d.bindings}

(* What the validator of a kind finds in the sources,                      *)
RuleDiagnostics(kind, S) ==
  CASE kind = "skills" -> SkillDiagnostics(S)
    [] kind = "agents" -> UNION {AgentRules(d, S) : d \in ParsedData("agents", S)}
    [] kind = "artifacts" -> UNION {ArtifactRules(d) : d \in ParsedData("artifacts", S)}
    [] kind = "workflows" -> UNION {GateRules(g, S) : g \in GatesOf(S)}
    [] kind = "profiles" -> UNION {ProfileRules(d, S) : d \in ParsedData("profiles", S)}
    [] kind = "targets" -> UNION {TargetRules(d, S) : d \in ParsedData("targets", S)}
    [] kind = "bundles" -> (UNION {BundleRules(d, S) : d \in ParsedData("bundles", S)})
                           \union UnproducedArtifacts(S)
    [] OTHER -> {}

SourceDiagnostics(kind, S) == CommonDiagnostics(kind, S) \union RuleDiagnostics(kind, S)

(* and in the files beside them.  A generated schema has every field of    *)
(* the contract as a constant.                                             *)
ExpectedSchema(d) ==
  [type |-> d.name, statuses |-> d.statuses, headings |-> d.headings, pattern |-> d.pattern]

Schemas == {Beside[p] : p \in DOMAIN Beside}

FileDiagnostics(kind, S, tree) ==
  IF kind = "skills"
  THEN {D("content", <<d.name, d.content>>) :
          d \in {e \in ParsedData("skills", S) : tree[e.content] \in {Absent, NotAFile}}}
  ELSE IF kind = "artifacts"
  THEN {D("generatedSchema", <<s.data.name>>) :
          s \in {t \in Parsed("artifacts", S) : tree[Beside[t.path]] # ExpectedSchema(t.data)}}
       \union {D("orphan", <<>>) :
          p \in {q \in Schemas : tree[q] # Absent} \ {Beside[s.path] : s \in Parsed("artifacts", S)}}
  ELSE {}

-----------------------------------------------------------------------------
(* What each command loads and judges.  The commands for one kind start    *)
(* from nothing, except that validate-targets judges the permissions it    *)
(* has loaded before it loads the targets.                                 *)
Pass(load, judge) == [load |-> load, judge |-> judge, anew |-> TRUE]
Further(load, judge) == [load |-> load, judge |-> judge, anew |-> FALSE]

Snapshot == <<Pass(Kinds, DependencyOrder)>>

\* Mutant: validate-skills is not among them.
WithoutSkills ==
  <<Pass(<<"permission-profiles">>, <<"permission-profiles">>),
    Further(<<"targets">>, <<"targets">>),
    Pass(<<"workflows", "skills", "artifacts">>, <<"workflows">>),
    Pass(<<"profiles", "workflows", "agents", "skills">>, <<"profiles">>),
    Pass(<<"bundles", "profiles", "workflows", "agents", "skills", "artifacts",
           "permission-profiles", "targets">>, <<"bundles">>),
    Pass(<<"permission-profiles">>, <<"permission-profiles">>),
    Pass(<<"artifacts">>, <<"artifacts">>),
    Pass(<<"agents", "skills", "permission-profiles">>, <<"agents">>)>>

(* The validate-* commands in the order in which the pipelines run them.   *)
Validators ==
  <<Pass(<<"permission-profiles">>, <<"permission-profiles">>),
    Further(<<"targets">>, <<"targets">>),
    Pass(<<"skills", "agents">>, <<"skills">>),
    Pass(<<"workflows", "skills", "artifacts">>, <<"workflows">>),
    Pass(<<"profiles", "workflows", "agents", "skills">>, <<"profiles">>),
    Pass(<<"bundles", "profiles", "workflows", "agents", "skills", "artifacts",
           "permission-profiles", "targets">>, <<"bundles">>),
    Pass(<<"permission-profiles">>, <<"permission-profiles">>),
    Pass(<<"artifacts">>, <<"artifacts">>),
    Pass(<<"agents", "skills", "permission-profiles">>, <<"agents">>)>>

Nothing == [kind \in Elements(Kinds) |-> {}]

Init ==
  /\ disk = Seed
  /\ command = "none" /\ plan = <<>> /\ loaded = 0 /\ judged = 0
  /\ found = None /\ sources = Nothing
  /\ result = "none" /\ reason = None
  /\ fresh = TRUE /\ edits = 0

Run ==
  /\ result # "running"
  /\ \/ command' = "snapshot" /\ plan' = Snapshot
     \/ command' = "validators" /\ plan' = Validators
  /\ loaded' = 0 /\ judged' = 0 /\ found' = None /\ sources' = Nothing
  /\ result' = "running" /\ reason' = None
  /\ fresh' = TRUE
  /\ UNCHANGED <<disk, edits>>

Refuse(why) ==
  /\ result' = "refused" /\ reason' = why
  /\ UNCHANGED position

Load == Head(plan).load
Judge == Head(plan).judge
Loading == result = "running" /\ loaded < Len(Load)
Kind == Load[loaded + 1]

(* RegistryLoader.discover: the folder, what is in it, and that all of it  *)
(* are files of the repository.                                            *)
Discover ==
  LET present == {p \in Elements(Files[Kind]) : disk[p] # Absent}
  IN  /\ Loading /\ found = None
      /\ IF present = {} \/ \E p \in present : disk[p] = NotAFile
         THEN Refuse("discovery")
         ELSE /\ found' = present
              /\ sources' = [sources EXCEPT ![Kind] = {}]
              /\ UNCHANGED <<plan, loaded, judged, result, reason>>
      /\ UNCHANGED <<disk, command, fresh, edits>>

(* RegistryLoader.load: read_json_object for the next path.                *)
Read ==
  /\ Loading /\ found # None
  /\ \E i \in DOMAIN Files[Kind] :
       LET p == Files[Kind][i]
       IN  /\ p \in found /\ \A j \in 1 .. i - 1 : Files[Kind][j] \notin found
           /\ IF disk[p] \in {Absent, NotAFile, Unreadable}
              THEN Refuse("read")
              ELSE /\ sources' = [sources EXCEPT ![Kind] = @ \union {[path |-> p, data |-> disk[p]]}]
                   /\ found' = found \ {p}
                   /\ UNCHANGED <<plan, loaded, judged, result, reason>>
  /\ UNCHANGED <<disk, command, fresh, edits>>

(* The kind is loaded; for the snapshot it goes into the index.            *)
Loaded ==
  /\ Loading /\ found = {}
  /\ IF command = "snapshot" /\ ~Indexed(Kind, sources)
     THEN Refuse("index")
     ELSE /\ loaded' = loaded + 1 /\ found' = None
          /\ UNCHANGED <<plan, judged, sources, result, reason>>
  /\ UNCHANGED <<disk, command, fresh, edits>>

SchemasFail(kind, tree) ==
  kind = "artifacts" /\ \E p \in Schemas : tree[p] \in {NotAFile, Unreadable}

(* One validator: what it reads on disk, the projections, the diagnostics. *)
Validate ==
  LET kind == Judge[judged + 1]
      diagnostics == SourceDiagnostics(kind, sources) \union FileDiagnostics(kind, sources, disk)
  IN  /\ result = "running" /\ loaded = Len(Load) /\ judged < Len(Judge)
      /\ IF SchemasFail(kind, disk) THEN Refuse("read")
         ELSE IF ProjectionFails(kind, sources) THEN Refuse("projection")
         ELSE IF \E d \in diagnostics : ~Reportable(d) THEN Refuse("report")
         ELSE IF diagnostics # {}
         THEN result' = "rejected" /\ reason' = kind /\ UNCHANGED position
         ELSE judged' = judged + 1 /\ UNCHANGED <<plan, loaded, found, sources, result, reason>>
      /\ UNCHANGED <<disk, command, fresh, edits>>

Finish ==
  /\ result = "running" /\ loaded = Len(Load) /\ judged = Len(Judge)
  /\ IF Len(plan) = 1
     THEN result' = "passed" /\ UNCHANGED <<plan, loaded, judged, sources>>
     ELSE /\ plan' = Tail(plan) /\ loaded' = 0 /\ judged' = 0
          /\ sources' = IF plan[2].anew THEN Nothing ELSE sources
          /\ UNCHANGED result
  /\ UNCHANGED <<disk, command, found, reason, fresh, edits>>

(* validate_capability_coverage, on a snapshot that was just loaded.       *)
Required(S) == UNION {UNION {b.capabilities : b \in d.bindings} : d \in Data("bundles", S)}
Missing(S) == Required(S) \ Capabilities(S)
Unused(S) == Capabilities(S) \ Required(S)
Duplicates(S) ==
  {c \in Capabilities(S) : \E d, e \in Data("skills", S) :
     d.name # e.name /\ c \in d.provides \intersect e.provides}

Cover ==
  LET reported == Missing(sources) \union Unused(sources) \union Duplicates(sources)
  IN  /\ result = "passed" /\ command = "snapshot"
      /\ command' = "coverage"
      /\ IF reported = {}
         THEN UNCHANGED <<result, reason>>
         ELSE IF \E c \in reported : Strip[c] # c
         THEN result' = "refused" /\ reason' = "report"
         ELSE result' = "rejected" /\ reason' = "coverage"
      /\ UNCHANGED <<disk, position, fresh, edits>>

Edit ==
  /\ edits < MaxEdits
  /\ \E p \in DOMAIN disk : \E c \in Contents[p] \ {disk[p]} :
       disk' = [disk EXCEPT ![p] = c]
  /\ edits' = edits + 1
  /\ fresh' = FALSE
  /\ UNCHANGED <<command, position, result, reason>>

Next ==
  \/ Run \/ Discover \/ Read \/ Loaded \/ Validate \/ Finish \/ Cover \/ Edit

Spec == Init /\ [][Next]_vars

-----------------------------------------------------------------------------
(* Properties.                                                             *)
Accepted == command = "coverage" \/ (command = "snapshot" /\ result = "passed")

BindingsOf(S) == UNION {d.bindings : d \in Data("bundles", S)}

Mentioned(S) ==
  UNION ({d.capabilities : d \in Data("agents", S) \union Data("profiles", S)}
         \union {g.capabilities : g \in GatesOf(S)} \union {d.requires : d \in Data("skills", S)})

Granted(S) ==
  {d.permission : d \in Data("agents", S)} \union UNION {d.permissions : d \in Data("bundles", S)}

(* What the services rely on, across the kinds: a capability anyone asks   *)
(* for is provided by one skill; every target maps every permission        *)
(* anyone is given; every artifact is produced; and a report can say every *)
(* result its gate routes, in a form the report's own pattern admits.      *)
Closed(S) ==
  /\ \A c \in Mentioned(S) : \E s \in S["skills"] :
       {t \in S["skills"] : c \in t.data.provides} = {s}
  /\ \A n \in Granted(S) : \A d \in Data("targets", S) : n \in d.mapped
  /\ \A d \in Data("artifacts", S) : \E b \in BindingsOf(S) : b.owner /\ d.name \in b.produces
  /\ \A g \in GatesOf(S) : \A a \in g.artifacts : \A r \in g.results :
       \E d \in Data("artifacts", S) : \E n \in d.statuses \intersect d.pattern :
         d.name = a /\ Fold[Strip[n]] = r

(* A snapshot is closed, whatever is edited while it is being loaded: all  *)
(* validators judge the same sources, and each rule that links two kinds   *)
(* is in one of them (registry_snapshot.py:222).                           *)
SnapshotIsClosed == Accepted => Closed(sources)

BlankUsed(S) ==
  \E names \in {d.provides : d \in ParsedData("skills", S)} \union {d.requires : d \in ParsedData("skills", S)}
                \union {d.statuses : d \in ParsedData("artifacts", S)}
                \union {d.states : d \in ParsedData("workflows", S)}
                \union UNION {{{g.name}, g.capabilities, g.artifacts} : g \in GatesOf(S)} :
    \E n \in names : Strip[n] = ""

(* The order of the validators spares the user exceptions: a projection of *)
(* the snapshot raises only for a name of whitespace, which the schemas    *)
(* allow; whatever else it cannot read was rejected with diagnostics       *)
(* before (registry_snapshot.py:258).                                      *)
JudgedByDiagnostics ==
  (command = "snapshot" /\ result = "refused" /\ reason = "projection") => BlankUsed(sources)

(* If all names are trimmed, an accepted registry has no capability that   *)
(* is missing or provided twice: all that remains for the coverage command *)
(* to find are those nobody requires (capability_coverage.py:99).          *)
CoverageFindsOnlyUnused ==
  Accepted /\ (\A c \in Capabilities(sources) : Strip[c] = c)
    => Missing(sources) = {} /\ Duplicates(sources) = {}

(* What the loader would read from the disk as it is.                      *)
Registered(tree) ==
  [kind \in Elements(Kinds) |->
     {[path |-> p, data |-> tree[p]] : p \in {q \in Elements(Files[kind]) : tree[q] # Absent}}]

SetupsLoad(tree) ==
  LET present == {p \in Elements(Files["setups"]) : tree[p] # Absent}
  IN  present # {} /\ \A p \in present : tree[p] \notin {NotAFile, Unreadable}

(* When the commands for single kinds have all passed and nothing was      *)
(* edited, the snapshot loads, although none of them sees the index or the *)
(* other validators: unless a name is not trimmed or a setup is at fault,  *)
(* which only the index looks at (cli/skills.py:31).                       *)
ValidatorsSuffice ==
  command = "validators" /\ result = "passed" /\ fresh /\ SetupsLoad(disk) =>
    LET S == Registered(disk)
    IN  Indexed("setups", S) /\ (\A kind \in Elements(Kinds) : \A n \in Names(kind, S) : Strip[n] = n)
        => /\ \A kind \in Elements(Kinds) : Indexed(kind, S)
           /\ \A kind \in Elements(DependencyOrder) :
                /\ ~SchemasFail(kind, disk) /\ ~ProjectionFails(kind, S)
                /\ SourceDiagnostics(kind, S) \union FileDiagnostics(kind, S, disk) = {}
=============================================================================
