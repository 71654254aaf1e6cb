----------------------------- MODULE SetupRules -----------------------------
(***************************************************************************)
(* Guided setups as data: what validate-setups accepts                     *)
(* (validation/setups.py), the profile an answered setup gives             *)
(* (application/setup_materialization.py), and the independent check of    *)
(* such a profile (validation/setup_profiles.py).                          *)
(*                                                                         *)
(* A setup is [name, selection, questions]; a question is [id, default,    *)
(* options]; an option is [value, class, patch]; a selection or patch is   *)
(* [bundle, targets], where a patch may leave either field None.  Texts,   *)
(* reasons and the mode are left out: they are copied and compared like    *)
(* the classification.                                                     *)
(***************************************************************************)
EXTENDS Naturals, SequencesExt

CONSTANTS BundleTargets,      \* registered bundle to its sequence of targets
          RegisteredTargets,
          None

ASSUME BundleAssumption == None \notin DOMAIN BundleTargets

NoPatch == [bundle |-> None, targets |-> None]  \* selection left out

When(condition, diagnostic) == IF condition THEN {diagnostic} ELSE {}

HasTwice(keys) == ~IsInjective(keys)

(* _option_by_value, which the materializer and the validator both have.   *)
OptionsOf(q, value) == {q.options[k] : k \in {j \in DOMAIN q.options :
  /\ q.options[j].value = value
  /\ \A i \in 1 .. j - 1 : q.options[i].value # value}}

SelectionDiagnostics(s) ==
  LET known == s.bundle \in DOMAIN BundleTargets
      named == ToSet(s.targets)
  IN  When(~known, "unknownBundle")
      \union When(~(named \subseteq RegisteredTargets), "unknownTarget")
      \union When(known /\ ~(named \intersect RegisteredTargets
                               \subseteq ToSet(BundleTargets[s.bundle])), "outsideBundle")
-----------------------------------------------------------------------------
(* validate_setup_registry                                                 *)
Effective(setup, o) ==
  [bundle  |-> IF o.patch.bundle = None THEN setup.selection.bundle ELSE o.patch.bundle,
   targets |-> IF o.patch.targets = None THEN setup.selection.targets ELSE o.patch.targets]

SameSelection(a, b) == a.bundle = b.bundle /\ ToSet(a.targets) = ToSet(b.targets)

\* Mutant: the selection of an option is not checked against the bundles.
QuestionShapeOnly(setup, q) ==
  LET options == ToSet(q.options)
      default == {o \in options : o.value = q.default}
  IN  When(HasTwice([k \in DOMAIN q.options |-> q.options[k].value]), "duplicateOption")
      \union When(\E o \in options : o.class = "blocked" /\ o.patch # NoPatch,
                  "blockedSelection")
      \union When(default = {}, "unknownDefault")
      \union When(\E o \in default : o.class # "recommended", "defaultClass")

QuestionDiagnostics(setup, q) ==
  LET options == ToSet(q.options)
      default == {o \in options : o.value = q.default}
  IN  When(HasTwice([k \in DOMAIN q.options |-> q.options[k].value]), "duplicateOption")
      \union When(\E o \in options : o.class = "blocked" /\ o.patch # NoPatch,
                  "blockedSelection")
      \union (UNION {SelectionDiagnostics(Effective(setup, o)) :
                       o \in {p \in options : p.patch # NoPatch}})
      \union When(default = {}, "unknownDefault")
      \union When(\E o \in default : o.class # "recommended", "defaultClass")
      \union When(/\ \E o \in default : o.class = "recommended"
                  /\ \E o \in options \ default :
                       o.class # "blocked" /\ SameSelection(Effective(setup, o), setup.selection),
                  "noEffect")

SetupDiagnostics(setup) ==
  SelectionDiagnostics(setup.selection)
  \union When(HasTwice([k \in DOMAIN setup.questions |-> setup.questions[k].id]), "duplicateQuestion")
  \union (UNION {QuestionDiagnostics(setup, q) : q \in ToSet(setup.questions)})

RegistryDiagnostics(setups) ==
  (UNION {SetupDiagnostics(s) : s \in ToSet(setups)})
  \union When(HasTwice([k \in DOMAIN setups |-> setups[k].name]), "duplicateName")
-----------------------------------------------------------------------------
(* materialize_setup_profile                                               *)
Answered(q, overrides) == IF q.id \in DOMAIN overrides THEN overrides[q.id] ELSE q.default

ChosenOptions(q, overrides) == OptionsOf(q, Answered(q, overrides))

Refused(setup, overrides) ==
  \/ ~(DOMAIN overrides \subseteq {q.id : q \in ToSet(setup.questions)})
  \/ \E q \in ToSet(setup.questions) :
       ~\E o \in ChosenOptions(q, overrides) : o.class # "blocked"

Chosen(setup, overrides, k) ==
  CHOOSE o \in ChosenOptions(setup.questions[k], overrides) : TRUE

\* Mutant: a later patch silently wins.
SetFieldLast(acc, field, value) ==
  IF value = None THEN acc
  ELSE [acc EXCEPT !.selection[field] = value, !.sources = @ \union {field}]

(* _materialize_selection: a field is set by the first patch that names    *)
(* it, and a later patch may only name the same value.                     *)
SetField(acc, field, value) ==
  IF value = None \/ acc.conflict THEN acc
  ELSE IF field \in acc.sources /\ acc.selection[field] # value
       THEN [acc EXCEPT !.conflict = TRUE]
       ELSE [acc EXCEPT !.selection[field] = value, !.sources = @ \union {field}]

Unpatched(setup) ==
  [selection |-> [bundle |-> setup.selection.bundle, targets |-> setup.selection.targets],
   sources   |-> {},
   conflict  |-> FALSE]

\* What the first k patches make of the selection.
Merging(setup, patches) ==
  LET merged[k \in 0 .. Len(patches)] ==
        IF k = 0 THEN Unpatched(setup)
        ELSE SetField(SetField(merged[k - 1], "bundle", patches[k].bundle),
                      "targets", patches[k].targets)
  IN  merged

Merged(setup, overrides) ==
  Merging(setup, [k \in DOMAIN setup.questions |-> Chosen(setup, overrides, k).patch])
    [Len(setup.questions)]

Materializes(setup, overrides) ==
  ~Refused(setup, overrides) /\ ~Merged(setup, overrides).conflict

Materialized(setup, overrides) ==
  [setup    |-> setup.name,
   answers  |-> [k \in DOMAIN setup.questions |->
                   [question |-> setup.questions[k].id,
                    selected |-> Chosen(setup, overrides, k).value,
                    class    |-> Chosen(setup, overrides, k).class]],
   selected |-> Merged(setup, overrides).selection]
-----------------------------------------------------------------------------
(* validate_setup_profile.  Of two answers to a question the first counts. *)
AnswersTo(profile, id) == {profile.answers[k] : k \in {j \in DOMAIN profile.answers :
  /\ profile.answers[j].question = id
  /\ \A i \in 1 .. j - 1 : profile.answers[i].question # id}}

\* Mutant: the classification of an answer is not compared.
AnswerClassIgnored(setup, a) ==
  LET questions == {q \in ToSet(setup.questions) : q.id = a.question}
      options == UNION {OptionsOf(q, a.selected) : q \in questions}
  IN  When(questions = {}, "unknownQuestion")
      \union When(questions # {} /\ options = {}, "unknownOption")
      \union When(\E o \in options : o.class = "blocked", "blocked")

AnswerDiagnostics(setup, a) ==
  LET questions == {q \in ToSet(setup.questions) : q.id = a.question}
      options == UNION {OptionsOf(q, a.selected) : q \in questions}
  IN  When(questions = {}, "unknownQuestion")
      \union When(questions # {} /\ options = {}, "unknownOption")
      \union (UNION {IF o.class = "blocked" THEN {"blocked"}
                     ELSE When(a.class # o.class, "classification") : o \in options})

(* _expected_selection: like _materialize_selection, but a conflicting     *)
(* patch is reported and skipped.                                          *)
ExpectField(acc, field, value) ==
  IF value = None THEN acc
  ELSE IF field \in acc.sources /\ value # acc.selection[field]
       THEN [acc EXCEPT !.conflict = TRUE]
       ELSE [acc EXCEPT !.selection[field] = value, !.sources = @ \union {field}]

PatchTo(setup, profile, k) ==
  LET q == setup.questions[k]
      options == UNION {OptionsOf(q, a.selected) : a \in AnswersTo(profile, q.id)}
  IN  IF options = {} THEN NoPatch ELSE (CHOOSE o \in options : TRUE).patch

Expecting(setup, patches) ==
  LET expected[k \in 0 .. Len(patches)] ==
        IF k = 0 THEN Unpatched(setup)
        ELSE ExpectField(ExpectField(expected[k - 1], "bundle", patches[k].bundle),
                         "targets", patches[k].targets)
  IN  expected

Expected(setup, profile) ==
  Expecting(setup, [k \in DOMAIN setup.questions |-> PatchTo(setup, profile, k)])
    [Len(setup.questions)]

DiagnosticsAgainst(setup, profile) ==
  LET asked == {q.id : q \in ToSet(setup.questions)}
      expected == Expected(setup, profile)
  IN  When(HasTwice([k \in DOMAIN profile.answers |-> profile.answers[k].question]), "duplicateAnswer")
      \union (UNION {AnswerDiagnostics(setup, a) :
                       a \in UNION {AnswersTo(profile, b.question) : b \in ToSet(profile.answers)}})
      \union When(\E id \in asked : AnswersTo(profile, id) = {}, "missingAnswer")
      \union When(expected.conflict, "conflict")
      \union When(~expected.conflict /\ profile.selected # expected.selection, "mismatch")
      \union SelectionDiagnostics(profile.selected)

ProfileDiagnostics(profile, setups) ==
  LET found == {s \in ToSet(setups) : s.name = profile.setup} IN
  IF found = {} THEN {"unknownSetup"}
  ELSE DiagnosticsAgainst(CHOOSE s \in found : TRUE, profile)
=============================================================================
