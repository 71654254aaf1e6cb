---------------------------- MODULE GuidedSetup ----------------------------
(***************************************************************************)
(* The life of a setup profile: the registry is loaded, a profile is       *)
(* materialized from a setup and overrides, somebody may edit the file,    *)
(* and it is validated (application/guided_init.py and the                 *)
(* validate-setup-profile command).                                        *)
(***************************************************************************)
EXTENDS SetupRules

CONSTANTS Registries,  \* setup registries, valid or not
          Values,      \* option values an override or an editor may name
          Classes, Patches,
          MaxChanges   \* edits of one profile

ASSUME RegistriesAssumption ==
  \A r \in Registries :
    /\ r \in Seq(ToSet(r))
    /\ \A s \in ToSet(r) :
         /\ s.questions \in Seq(ToSet(s.questions))
         /\ \A q \in ToSet(s.questions) : q.options \in Seq(ToSet(q.options))

VARIABLES setups,    \* the registered setups
          phase,     \* registered, accepted, materialized, valid, or where it failed
          overrides, \* what the profile was materialized with
          profile,   \* the profile, or None
          changes

profileVars == <<setups, phase, overrides, profile, changes>>

ProfileInit == /\ setups \in Registries
               /\ phase = "registered"
               /\ overrides = <<>> /\ profile = None /\ changes = 0

(* load_guided_init_service                                                *)
LoadRegistry ==
  /\ phase = "registered"
  /\ phase' = IF RegistryDiagnostics(setups) = {} THEN "accepted" ELSE "rejected"
  /\ UNCHANGED <<setups, overrides, profile, changes>>

Questions(setup) == {q.id : q \in ToSet(setup.questions)}

(* GuidedInitService.materialize, up to its validation.                    *)
Materialize ==
  /\ phase = "accepted"
  /\ \E setup \in ToSet(setups) : \E asked \in SUBSET (Questions(setup) \union {"unknown"}) :
     \E given \in [asked -> Values] :
       /\ overrides' = given
       /\ IF Materializes(setup, given)
            THEN phase' = "materialized" /\ profile' = Materialized(setup, given)
            ELSE phase' = "refused" /\ profile' = None
  /\ UNCHANGED <<setups, changes>>

Validate ==
  /\ phase = "materialized"
  /\ phase' = IF ProfileDiagnostics(profile, setups) = {} THEN "valid" ELSE "invalid"
  /\ UNCHANGED <<setups, overrides, profile, changes>>

(* Somebody edits .agentic/setup-profile.json, keeping to its schema.      *)
Edited(p) ==
  {[p EXCEPT !.setup = "unknown"]}
  \union {[p EXCEPT !.selected = [bundle |-> s.bundle, targets |-> s.targets]] :
            s \in {t \in Patches : t.bundle # None /\ t.targets # None}}
  \union UNION {{[p EXCEPT !.answers[k].selected = v] : v \in Values}
                \union {[p EXCEPT !.answers[k].class = c] : c \in Classes}
                \union {[p EXCEPT !.answers = RemoveAt(@, k)],
                        [p EXCEPT !.answers = Append(@, @[k])],
                        [p EXCEPT !.answers[k].question = "unknown"]} :
                  k \in DOMAIN p.answers}

EditProfile ==
  /\ phase = "materialized" /\ changes < MaxChanges
  /\ profile' \in Edited(profile)
  /\ changes' = changes + 1
  /\ UNCHANGED <<setups, phase, overrides>>

ProfileNext == LoadRegistry \/ Materialize \/ Validate \/ EditProfile

ProfileSpec == ProfileInit /\ [][ProfileNext]_profileVars
-----------------------------------------------------------------------------
(* The materializer and the validator fold the same patches in two         *)
(* implementations: a profile as materialized can only be rejected because *)
(* the answers together ask the bundle for a target it does not have,      *)
(* which the registry checks for one option at a time.                     *)
MaterializedIsValid ==
  phase = "materialized" /\ changes = 0 =>
    ProfileDiagnostics(profile, setups) \subseteq {"outsideBundle"}

(* What validate-setup-profile passes, whoever wrote it, is what the       *)
(* materializer would give for the same answers, in any order.             *)
ValidIsMaterialized ==
  phase = "valid" =>
    \E setup \in ToSet(setups) :
      LET given == [id \in {a.question : a \in ToSet(profile.answers)} |->
                      (CHOOSE a \in ToSet(profile.answers) : a.question = id).selected]
      IN  /\ setup.name = profile.setup
          /\ Materializes(setup, given)
          /\ ToSet(profile.answers) = ToSet(Materialized(setup, given).answers)
          /\ profile.selected = Materialized(setup, given).selected

(* Every selectable option of an accepted setup can be used: chosen where  *)
(* no other answer touches the selection, it gives a valid profile.        *)
SelectableOptionWorks ==
  phase = "materialized" /\ changes = 0 =>
    \A s \in ToSet(setups) :
      /\ s.name = profile.setup
      /\ Cardinality({k \in DOMAIN s.questions : Chosen(s, overrides, k).patch # NoPatch}) <= 1
      => ProfileDiagnostics(profile, setups) = {}

(* docs/guided-init.md line 158: "A recommended option is fully            *)
(* represented by the current registered setup and is the default          *)
(* selection."  The defaults of an accepted setup give a profile.          *)
DefaultsMaterialize ==
  phase = "accepted" => \A s \in ToSet(setups) : Materializes(s, <<>>)
=============================================================================
