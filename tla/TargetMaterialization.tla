----------------------- MODULE TargetMaterialization -----------------------
(***************************************************************************)
(* application/target_materialization.py and target_output_validation.py:  *)
(* the output tree of the enabled targets, its manifest, and the check     *)
(* that compares both with the active composition.  The commit is one      *)
(* AtomicUpdate (FileTransaction implements it); between planning and      *)
(* committing, and between two commands, anybody may edit the files.       *)
(*                                                                         *)
(* Abstractions: a composition is an opaque value, rendering is a function *)
(* of it, a hash is the content it is taken of.  Loading and validating    *)
(* the registry are left to the modules about them.  Owned paths that name *)
(* a directory stand for the files in it; that such a directory itself is  *)
(* a link is left out.                                                     *)
(***************************************************************************)
EXTENDS Naturals

CONSTANTS
  Place,      \* repository files
  Manifest,   \* .agentic/generated/output-manifest.json
  Obsolete,   \* .agentic/generated/resolution.json
  Linked,     \* the file every symbolic link leads to
  Root,       \* places that are themselves owned paths (AGENTS.md)
  Target,     \* registered targets
  Supported,  \* targets the renderer knows
  Owned,      \* the places under each target's owned paths
  Config,     \* canonical compositions
  Enabled,    \* the targets of a composition
  Render,     \* Render[c][t]: the files of target t, place to content
  Foreign,    \* contents an editor can put into a place
  Linkable,   \* places at which an editor may put a link
  Absent, Link, Drifted,
  MaxEdits    \* edits by others that a behaviour may contain

Rendered(c) == UNION {DOMAIN Render[c][t] : t \in Enabled[c]}

ASSUME RenderAssumption ==
  /\ {Manifest, Obsolete, Linked} \subseteq Place
  /\ Manifest # Obsolete /\ Linked \notin {Manifest, Obsolete}
  /\ Linkable \subseteq Place \ {Linked}
  /\ \A c \in Config : Enabled[c] \subseteq Target
  /\ \A t \in Target : Owned[t] \subseteq Place \ {Manifest, Obsolete, Linked}
  /\ \A c \in Config : \A t \in Enabled[c] :  \* _require_owned_file
       DOMAIN Render[c][t] \subseteq Owned[t] /\ DOMAIN Render[c][t] # {}

\* As in the registered adapters: an owned path that is a file is an output.
ASSUME RootAssumption ==
  \A c \in Config : \A t \in Enabled[c] : Owned[t] \intersect Root \subseteq DOMAIN Render[c][t]

ASSUME EditsAssumption == MaxEdits \in Nat

VARIABLES
  config,  \* .agentic/agentic.json: a composition, Drifted or Absent
  disk,    \* the content of each place
  plan,    \* the plan a running command holds, or Absent
  goal,    \* the tree the running commit works towards
  result,  \* how the last commit ended, "running" during one
  fresh,   \* nobody has edited anything since the plan was built
  edits

vars == <<config, disk, plan, goal, result, fresh, edits>>

Files(c) == [p \in Rendered(c) |->
  Render[c][CHOOSE t \in Enabled[c] : p \in DOMAIN Render[c][t]][p]]

OwnedBy(c) == UNION {Owned[t] : t \in Enabled[c]}

(* ProjectPaths.repository_path: a path is resolved each time it is used.  *)
Where(p) == IF disk[p] = Link THEN Linked ELSE p

Seen(p) == disk[Where(p)]

(* _build_output_manifest: the composition and every file with its hash.   *)
ManifestOf(p) == [composition |-> p.config, files |-> p.files]

(* _collect_stale_files: what lies under the owned paths of the enabled    *)
(* targets and is not planned, and resolution.json.                        *)
StaleUnder(c, owned) ==
  {p \in {Where(q) : q \in owned} \ {Where(q) : q \in Rendered(c)} : disk[p] # Absent}
  \union {p \in {Obsolete} : disk[p] # Absent}

Stale(c) == StaleUnder(c, OwnedBy(c))

\* Mutant: links inside owned directories are not refused.
PlannableWithLinks ==
  /\ config \in Config
  /\ Enabled[config] \subseteq Supported
  /\ \A t, u \in Enabled[config] : t # u => Owned[t] \intersect Owned[u] = {}
  /\ disk[Obsolete] # Link

(* build_target_materialization_plan does not raise: the configuration is  *)
(* canonical, its targets are known and own disjoint paths, and no link    *)
(* lies inside an owned directory.                                         *)
Plannable ==
  /\ config \in Config
  /\ Enabled[config] \subseteq Supported
  /\ \A t, u \in Enabled[config] : t # u => Owned[t] \intersect Owned[u] = {}
  /\ disk[Obsolete] # Link
  /\ \A p \in OwnedBy(config) \ Root : disk[p] # Link

BuiltPlan == [config |-> config, files |-> Files(config), stale |-> Stale(config)]

(* What stands for a link, for no file, or for a configuration that cannot *)
(* be compiled is no content, manifest, plan or composition.               *)
ASSUME ContentAssumption ==
  /\ Absent # Link /\ {Absent, Drifted} \intersect Config = {}
  /\ \A c \in Config : \A p \in Rendered(c) : Files(c)[p] \notin {Absent, Link}
  /\ \A c \in Config, s \in SUBSET Place :
       LET p == [config |-> c, files |-> Files(c), stale |-> s]
       IN  p # Absent /\ ManifestOf(p) \notin {Absent, Link}

(* commit_target_materialization resolves the planned paths again.         *)
WritesOf(p) == {Where(q) : q \in DOMAIN p.files}

\* Mutant: stale files are collected but not removed.
RemovalsForgotten(p) == {}

RemovalsOf(p) == {Where(q) : q \in p.stale}

Committed(p) == [q \in Place |->
  IF q = Manifest THEN ManifestOf(p)
  ELSE IF q \in WritesOf(p) THEN p.files[CHOOSE r \in DOMAIN p.files : Where(r) = q]
  ELSE IF q \in RemovalsOf(p) THEN Absent
  ELSE disk[q]]

(* The commit, or the argument checks of the transaction, raise before the *)
(* first write: two of its paths resolve to one file, or the manifest is a *)
(* link.                                                                   *)
Clashes(p) ==
  \/ \E q, r \in DOMAIN p.files \union p.stale : q # r /\ Where(q) = Where(r)
  \/ disk[Manifest] = Link

Init == /\ config \in Config \union {Absent}
        /\ disk = [p \in Place |-> Absent]
        /\ plan = Absent /\ goal = disk /\ result = "none"
        /\ fresh = FALSE /\ edits = 0
-----------------------------------------------------------------------------
Idle == plan = Absent
Ready == plan # Absent /\ result # "running"

(* materialize_targets, first half: read everything, write nothing.        *)
BuildPlan == /\ Idle /\ Plannable
             /\ plan' = BuiltPlan
             /\ result' = "none"
             /\ fresh' = TRUE
             /\ UNCHANGED <<config, disk, goal, edits>>

RefusePlan == /\ Idle /\ ~Plannable
              /\ result' = "failed"
              /\ UNCHANGED <<config, disk, plan, goal, fresh, edits>>

(* materialize_targets, second half.                                       *)
BeginCommit ==
  /\ Ready
  /\ IF Clashes(plan)
       THEN /\ result' = "failed" /\ plan' = Absent /\ goal' = goal
       ELSE /\ result' = "running" /\ plan' = plan /\ goal' = Committed(plan)
  /\ UNCHANGED <<config, disk, fresh, edits>>

Transaction == INSTANCE AtomicUpdate WITH
  Path <- Place, Content <- Foreign

EndsPlan == plan' = Absent /\ UNCHANGED <<config, fresh, edits>>

CommitSucceeds == Transaction!Commit /\ EndsPlan

CommitFails == Transaction!Refuse /\ EndsPlan

(* The rollback failed or the process was interrupted.                     *)
CommitTears == Transaction!Tear /\ EndsPlan
-----------------------------------------------------------------------------
(* init, or an editor, replaces or removes the configuration.              *)
ReplaceConfig == /\ edits < MaxEdits /\ result # "running"
                 /\ config' \in (Config \union {Drifted, Absent}) \ {config}
                 /\ fresh' = FALSE
                 /\ edits' = edits + 1
                 /\ UNCHANGED <<disk, plan, goal, result>>

(* Somebody changes, adds or removes a file.                               *)
EditFile == /\ edits < MaxEdits /\ result # "running"
            /\ \E p \in Place, v \in Foreign \union {Absent, Link} :
                 /\ v = Link => p \in Linkable
                 /\ disk' = [disk EXCEPT ![p] = v]
            /\ fresh' = FALSE
            /\ edits' = edits + 1
            /\ UNCHANGED <<config, plan, goal, result>>

Tool == BuildPlan \/ RefusePlan \/ BeginCommit \/ CommitSucceeds
        \/ CommitFails \/ CommitTears

Others == ReplaceConfig \/ EditFile

Next == Tool \/ Others

Spec == Init /\ [][Next]_vars

-----------------------------------------------------------------------------
(* _validate_file: expected against what lies at place p.                  *)
FileDiagnostics(p, expected) ==
  CASE disk[p] = Link -> {"invalid"}
    [] disk[p] = Absent -> {"missing"}
    [] disk[p] = expected -> {}
    [] OTHER -> {"drift"}

\* Mutant: unmanaged files are not reported.
DiagnosticsOfPlannedFiles ==
  (UNION {FileDiagnostics(Where(p), Files(config)[p]) : p \in Rendered(config)})
  \union FileDiagnostics(Manifest, ManifestOf(BuiltPlan))

(* validate_target_output: the diagnostics on the current state.           *)
Diagnostics ==
  (UNION {FileDiagnostics(Where(p), Files(config)[p]) : p \in Rendered(config)})
  \union {"unmanaged" : p \in Stale(config)}
  \union FileDiagnostics(Manifest, ManifestOf(BuiltPlan))
  \union {"obsolete" : p \in {q \in {Obsolete} : disk[q] # Absent}}

(* The validate-generated command passes.                                  *)
Accepted == Plannable /\ Diagnostics = {}
-----------------------------------------------------------------------------
(* Types: the configuration may have been replaced by one that cannot be   *)
(* read, but a plan is only ever built for one that can.                   *)
TypeOK ==
  /\ config \in Config \union {Drifted, Absent}
  /\ DOMAIN disk = Place /\ DOMAIN goal = Place
  /\ plan # Absent => /\ plan.config \in Config
                      /\ plan.stale \subseteq Place /\ DOMAIN plan.files \subseteq Place
  /\ result \in {"none", "running", "ok", "failed", "torn"}
  /\ fresh \in BOOLEAN /\ edits \in 0 .. MaxEdits

(* ADR 0001 line 113: no "accepted partial generated state".  Whatever     *)
(* commits were torn and whatever was edited on the way, when validation   *)
(* reports nothing the enabled targets' trees read exactly as the          *)
(* rendering of the configuration, and the manifest describes them.        *)
AcceptedIsExact ==
  Accepted =>
    /\ \A t \in Enabled[config] : \A p \in Owned[t] :
         Seen(p) = IF p \in DOMAIN Render[config][t] THEN Render[config][t][p] ELSE Absent
    /\ disk[Manifest].composition = config
    /\ \A p \in DOMAIN disk[Manifest].files : Seen(p) = disk[Manifest].files[p]
    /\ disk[Obsolete] = Absent

(* A commit that succeeds on files nobody touched since it was planned     *)
(* leaves a tree that validation accepts, from every earlier state: torn,  *)
(* edited, or rendered for another configuration.                          *)
CommitRepairs == result = "ok" /\ fresh => Accepted

OwnedWhenPlanned(p) ==
  p \in {Manifest, Obsolete} \/ \E t \in Enabled[plan.config] : p \in Owned[t]

(* core-domain-model.md:684: "target output remains inside declared owned   *)
(* paths".  The code looks for an owned path that is a link ("Target owned *)
(* path must not be a symlink"), but at the path it resolved before: what  *)
(* a plan carried out undisturbed writes where such a link leads refutes   *)
(* the claim.                                                              *)
OutputStaysOwned ==
  [][Tool /\ fresh => \A p \in Place : disk'[p] # disk[p] => OwnedWhenPlanned(p)]_vars

(* What holds instead.  The tool changes a file outside the owned paths of *)
(* the targets it planned for only where a planned path is a link at the   *)
(* commit.  Undisturbed, only an output that is an owned path itself can   *)
(* be that link, the links in owned directories having been refused, and   *)
(* the file it leads to gets that output and is never removed.             *)
OnlyLinkedFilesLeadOut ==
  [][Tool => \A p \in Place : disk'[p] # disk[p] /\ ~OwnedWhenPlanned(p) =>
       \E q \in DOMAIN plan.files \union plan.stale :
         /\ disk[q] = Link /\ p = Linked
         /\ fresh => /\ q \in Root \intersect DOMAIN plan.files
                     /\ disk'[p] = plan.files[q]]_vars
=============================================================================
