----------------------------- MODULE GuidedInit -----------------------------
(***************************************************************************)
(* The init command (cli/init.py, application/initialization.py): direct   *)
(* initialization from a bundle, guided initialization from overrides, and *)
(* the interactive dialogue, up to the transactional write of              *)
(* .agentic/agentic.json and .agentic/setup-profile.json.  Somebody may    *)
(* edit the files while a user is answering.                               *)
(*                                                                         *)
(* Abstractions: a configuration is its bundle, targets and project        *)
(* metadata; default metadata of a bundle is named by the bundle; the      *)
(* registry is valid and does not change; what is typed is the option it   *)
(* selects, a number or a value; unusable input, q, end of file and        *)
(* interrupt all leave the command.                                        *)
(***************************************************************************)
EXTENDS SetupRules

CONSTANTS Setups,     \* the registered setups, sorted by name
          Overrides,  \* the --answer options of non-interactive runs
          Custom,     \* project metadata written by the user
          Absent, Broken,
          MaxEdits    \* edits by others that a behaviour may contain

ASSUME SetupsAssumption ==
  /\ Setups # <<>> /\ Setups \in Seq(ToSet(Setups))
  /\ \A s \in ToSet(Setups) : s.questions # <<>> /\ s.questions \in Seq(ToSet(s.questions))
  /\ RegistryDiagnostics(Setups) = {}

VARIABLES
  disk,     \* content of the two files
  stage,    \* what the command does next
  mode,     \* how it was called: [interactive, dry]
  chosen,   \* the setup
  at,       \* question_index, from 1
  answers,  \* question id to option value
  said,     \* what the user last picked for each question id
  reply,    \* the answer to the confirmation
  plan,     \* InitializationPlan: [config, profile]
  goal,     \* the files the running commit works towards
  result,
  fresh,    \* nobody has edited a file since the plan read them
  edits

vars == <<disk, stage, mode, chosen, at, answers, said, reply, plan, goal,
          result, fresh, edits>>

Files == {"config", "profile"}
dialogue == <<mode, chosen, at, answers, said, reply>>
files == <<disk, goal, edits>>

\* Mutant: the metadata are those of the bundle whenever it changes.
MetadataOfBundle(b) ==
  IF disk["config"] = Absent \/ disk["config"].bundle # b THEN b ELSE disk["config"].project

(* load_project_metadata                                                   *)
Metadata(b) == IF disk["config"] = Absent THEN b ELSE disk["config"].project

CanCompile(b, targets) ==
  /\ disk["config"] # Broken
  /\ b \in DOMAIN BundleTargets
  /\ ToSet(targets) \subseteq ToSet(BundleTargets[b])

Compiled(b, targets) == [bundle |-> b, targets |-> targets, project |-> Metadata(b)]

Init == /\ disk = [f \in Files |-> Absent]
        /\ stage = "idle" /\ result = "none"
        /\ mode = [interactive |-> FALSE, dry |-> FALSE]
        /\ chosen = Setups[1] /\ at = 1
        /\ answers = <<>> /\ said = <<>> /\ reply = ""
        /\ plan = None /\ goal = disk
        /\ fresh = FALSE /\ edits = 0

(* The command ends without having written anything.                       *)
Fail == stage' = "idle" /\ result' = "failed" /\ plan' = None
-----------------------------------------------------------------------------
(* init --bundle: plan_bundle, with the targets of the bundle.             *)
RunDirect ==
  /\ stage = "idle"
  /\ \E b \in DOMAIN BundleTargets :
       IF CanCompile(b, BundleTargets[b])
         THEN /\ plan' = [config |-> Compiled(b, BundleTargets[b]), profile |-> None]
              /\ stage' = "commit" /\ result' = "none"
         ELSE Fail
  /\ mode' = [interactive |-> FALSE, dry |-> FALSE]
  /\ at' = 1 /\ said' = <<>> /\ reply' = ""
  /\ fresh' = TRUE
  /\ UNCHANGED <<chosen, answers, files>>

(* init --guided --setup s --answer ... [--dry-run]                        *)
RunSetup ==
  /\ stage = "idle"
  /\ \E s \in ToSet(Setups), given \in Overrides, dry \in BOOLEAN :
       /\ chosen' = s /\ answers' = given
       /\ mode' = [interactive |-> FALSE, dry |-> dry]
  /\ stage' = "planning" /\ result' = "none" /\ plan' = None
  /\ at' = 1 /\ said' = <<>> /\ reply' = ""
  /\ UNCHANGED <<fresh, files>>

(* init --guided [--dry-run]; without a terminal it fails at once.         *)
RunInteractive ==
  /\ stage = "idle"
  /\ \/ \E dry \in BOOLEAN : mode' = [interactive |-> TRUE, dry |-> dry]
        /\ stage' = "choose" /\ result' = "none" /\ plan' = None
     \/ Fail /\ UNCHANGED mode
  /\ at' = 1 /\ said' = <<>> /\ reply' = ""
  /\ UNCHANGED <<chosen, answers, fresh, files>>

ChooseSetup ==
  /\ stage = "choose"
  /\ chosen' \in ToSet(Setups)
  /\ stage' = "ask" /\ at' = 1 /\ answers' = <<>>
  /\ UNCHANGED <<mode, said, reply, plan, result, fresh, files>>

Question == chosen.questions[at]

Update(f, x, y) == [z \in DOMAIN f \union {x} |-> IF z = x THEN y ELSE f[z]]

(* What the user sees: Enter (0) is the default, n the n-th option shown.  *)
Shown(q, n) == IF n = 0 THEN q.default ELSE q.options[n].value

\* Mutant: the number typed is used as a zero-based index.
SelectedBefore(q, n) ==
  IF n = 0 THEN q.default ELSE q.options[IF n = 1 THEN Len(q.options) ELSE n - 1].value

(* _interactive_question_selection                                         *)
Selected(q, n) == IF n = 0 THEN q.default ELSE q.options[n].value

AnswerQuestion ==
  /\ stage = "ask"
  /\ \E n \in 0 .. Len(Question.options) :
       /\ said' = Update(said, Question.id, Shown(Question, n))
       /\ IF \E o \in OptionsOf(Question, Selected(Question, n)) : o.class = "blocked"
            THEN Fail /\ UNCHANGED <<at, answers>>
            ELSE /\ answers' = Update(answers, Question.id, Selected(Question, n))
                 /\ at' = at + 1
                 /\ stage' = IF at = Len(chosen.questions) THEN "planning" ELSE "ask"
                 /\ UNCHANGED <<plan, result>>
  /\ UNCHANGED <<mode, chosen, reply, fresh, files>>

(* b: the previous question is asked again, or the setup chosen anew.      *)
Back ==
  /\ stage = "ask"
  /\ IF at = 1
       THEN stage' = "choose" /\ UNCHANGED <<at, answers>>
       ELSE /\ LET popped == chosen.questions[at - 1].id
               IN  answers' = [id \in DOMAIN answers \ {popped} |-> answers[id]]
            /\ at' = at - 1
            /\ UNCHANGED stage
  /\ UNCHANGED <<mode, chosen, said, reply, plan, result, fresh, files>>

(* q, unusable input, end of file or an interrupt; anything but a consent  *)
(* at the confirmation.                                                    *)
Leave ==
  /\ stage \in {"choose", "ask", "review"}
  /\ Fail
  /\ UNCHANGED <<dialogue, fresh, files>>
-----------------------------------------------------------------------------
\* Mutant: the dry run returns after the confirmation only.
StageAfterConfirmation(m) == IF m.interactive THEN "review" ELSE "commit"

(* _run_guided after plan_setup                                            *)
StageAfterPlanning(m) ==
  IF m.dry THEN "idle" ELSE IF m.interactive THEN "review" ELSE "commit"

(* plan_setup: materialize, validate, compile.                             *)
PlanSetup ==
  /\ stage = "planning"
  /\ IF /\ Materializes(chosen, answers)
        /\ ProfileDiagnostics(Materialized(chosen, answers), Setups) = {}
        /\ LET s == Materialized(chosen, answers).selected IN CanCompile(s.bundle, s.targets)
       THEN LET p == Materialized(chosen, answers) IN
            /\ plan' = [config  |-> Compiled(p.selected.bundle, p.selected.targets),
                        profile |-> p]
            /\ stage' = StageAfterPlanning(mode)
            /\ UNCHANGED result
       ELSE Fail
  /\ reply' = ""
  /\ fresh' = TRUE
  /\ UNCHANGED <<mode, chosen, at, answers, said, files>>

Confirm ==
  /\ stage = "review"
  /\ reply' \in {"y", "yes"}
  /\ stage' = "commit"
  /\ UNCHANGED <<mode, chosen, at, answers, said, plan, result, fresh, files>>

\* Mutant: when the configuration is unchanged nothing is written.
ChangedWithConfig(p) == IF p.config = disk["config"] THEN disk ELSE
  [f \in Files |-> IF f = "config" THEN p.config
                   ELSE IF p.profile = None THEN disk[f] ELSE p.profile]

(* InitializationService.commit: the planned outputs; a file that holds    *)
(* its output already is not written.                                      *)
Outputs(p) == [f \in Files |-> IF f = "config" THEN p.config
                               ELSE IF p.profile = None THEN disk[f] ELSE p.profile]

BeginCommit ==
  /\ stage = "commit" /\ result # "running"
  /\ goal' = Outputs(plan)
  /\ IF goal' = disk THEN stage' = "idle" /\ result' = "ok"
                     ELSE result' = "running" /\ UNCHANGED stage
  /\ UNCHANGED <<dialogue, disk, plan, fresh, edits>>

Transaction == INSTANCE AtomicUpdate WITH Path <- Files, Content <- {}

EndCommit == stage' = "idle" /\ UNCHANGED <<dialogue, plan, fresh, edits>>

CommitSucceeds == Transaction!Commit /\ EndCommit
CommitFails == Transaction!Refuse /\ EndCommit
CommitTears == Transaction!Tear /\ EndCommit
-----------------------------------------------------------------------------
(* Somebody edits the project metadata, damages the configuration, or      *)
(* removes a file.                                                         *)
EditFile ==
  /\ edits < MaxEdits /\ result # "running"
  /\ \/ /\ disk["config"] \notin {Absent, Broken}
        /\ disk' = [disk EXCEPT !["config"].project = Custom]
     \/ disk' = [disk EXCEPT !["config"] = Broken]
     \/ \E f \in Files : disk' = [disk EXCEPT ![f] = Absent]
  /\ fresh' = FALSE
  /\ edits' = edits + 1
  /\ UNCHANGED <<dialogue, stage, plan, goal, result>>

Commit == BeginCommit \/ CommitSucceeds \/ CommitFails \/ CommitTears

Next == RunDirect \/ RunSetup \/ RunInteractive \/ ChooseSetup \/ AnswerQuestion
        \/ Back \/ Leave \/ PlanSetup \/ Confirm \/ Commit \/ EditFile

Spec == Init /\ [][Next]_vars
-----------------------------------------------------------------------------
(* The plan put before the user for confirmation, and committed, holds for *)
(* every question what he picked last, however often he went back, chose   *)
(* another setup or pressed Enter.                                         *)
PlannedAsAnswered ==
  mode.interactive /\ stage \in {"review", "commit"} =>
    \A a \in ToSet(plan.profile.answers) : a.selected = said[a.question]

(* The command changes a file only after the user consented to this plan,  *)
(* or gave it on the command line, and never in a dry run.                 *)
WritesAreAuthorized ==
  [][result = "running" /\ disk' # disk =>
       ~mode.dry /\ (mode.interactive => reply # "")]_vars

(* After a guided commit nobody interfered with, both files describe one   *)
(* and the same setup, also when one of them already held its content or   *)
(* an earlier commit was torn.                                             *)
CommittedFilesAgree ==
  result = "ok" /\ fresh /\ plan.profile # None =>
    /\ disk["profile"] = plan.profile
    /\ disk["profile"].selected.bundle = disk["config"].bundle
    /\ disk["profile"].selected.targets = disk["config"].targets

(* Initializing again, for whatever bundle, keeps the project metadata     *)
(* that were there when the plan was made.                                 *)
ProjectIsKept ==
  [][result = "running" /\ result' = "ok" /\ fresh /\ disk["config"] # Absent =>
       disk'["config"].project = disk["config"].project]_vars
=============================================================================
