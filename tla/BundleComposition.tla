------------------------- MODULE BundleComposition -------------------------
(***************************************************************************)
(* Validation of a bundle (validation/bundles.py) and the composition      *)
(* compiled from an accepted one (compiler/composition.py).  The rules are *)
(* sets of diagnostics; the depth-first search for a cycle of input        *)
(* artifacts runs step by step as its recursion does.                      *)
(*                                                                         *)
(* A bundle is [profile, workflow, instances, bindings, policies, skills,  *)
(* artifacts, targets]; an instance is [id, profile, permission, model]; a *)
(* binding is [role, type, instance, state, gate, capabilities, skills,    *)
(* produces, inputs], an input being [artifact, role]; a policy is         *)
(* [id, roles].  Lists the schema declares unique are sets.                *)
(***************************************************************************)
EXTENDS Naturals, Sequences, FiniteSets

CONSTANTS Bundles,     \* the bundles to validate
          Selections,  \* the target lists to compile for, None for all
          Registry,    \* what is registered: [profiles, agents, permissions,
                       \* skills, artifacts, targets, workflows]
          Rank,        \* place of a role name in the order of the names
          None

\* What the schema and the validation of the workflows established before.
ASSUME BundlesAssumption ==
  \A b \in Bundles :
    /\ DOMAIN b.bindings = 1 .. Len(b.bindings)
    /\ DOMAIN b.instances = 1 .. Len(b.instances)
    /\ \A k \in DOMAIN b.bindings :
         b.bindings[k].type = "state-owner" => b.bindings[k].state # None

\* An input says no more than its artifact and its role.
ASSUME InputsAssumption ==
  \A b \in Bundles : \A k \in DOMAIN b.bindings :
    /\ IsFiniteSet(b.bindings[k].inputs)
    /\ \A i \in b.bindings[k].inputs : i = [artifact |-> i.artifact, role |-> i.role]

ASSUME WorkflowsAssumption ==
  \A w \in DOMAIN Registry.workflows : \A s, t \in Registry.workflows[w] :
    s.name = t.name => s = t

VARIABLES bundle,
          phase,        \* parsed, search, then rejected, accepted or compiled
          diagnostics,
          colour,       \* of the roles: white, then grey, then black
          calls,        \* calls of visit: [role, left], left to look at
          cycle,        \* what the search returns, empty for none
          errors,       \* why the composition was not compiled
          composition   \* what is compiled, None before and on an error

vars == <<bundle, phase, diagnostics, colour, calls, cycle, errors, composition>>

Elements(seq) == {seq[k] : k \in DOMAIN seq}
Twice(keys) == \E j, k \in DOMAIN keys : j # k /\ keys[j] = keys[k]
When(condition, diagnostic) == IF condition THEN {diagnostic} ELSE {}

Bindings == Elements(bundle.bindings)
Instances == Elements(bundle.instances)
Policies == Elements(bundle.policies)
Owners == {b \in Bindings : b.type = "state-owner"}
Controllers == Bindings \ Owners
Roles == {b.role : b \in Bindings}

(* The binding a role name stands for: the first one that has it.          *)
BindingOf(role) ==
  bundle.bindings[CHOOSE k \in DOMAIN bundle.bindings :
    /\ bundle.bindings[k].role = role
    /\ \A j \in 1 .. k - 1 : bundle.bindings[j].role # role]

Workflows == Registry.workflows
States == IF bundle.workflow \in DOMAIN Workflows THEN Workflows[bundle.workflow] ELSE {}
Gated == {s \in States : s.gate # None}

Provided(names) == UNION {Registry.skills[n].provides : n \in names \intersect DOMAIN Registry.skills}
Required(names) == UNION {Registry.skills[n].requires : n \in names \intersect DOMAIN Registry.skills}

(* _validate_bundle_references and the references of the instances.        *)
ReferenceDiagnostics ==
  When(bundle.profile \notin Registry.profiles, "unknownProfile")
  \union When(bundle.workflow \notin DOMAIN Workflows, "unknownWorkflow")
  \union When(\E i, j \in Instances : i.model = None /\ j.model # None, "modelAdoption")
  \union When(~(bundle.skills \subseteq DOMAIN Registry.skills), "unknownSkill")
  \union When(~(bundle.artifacts \subseteq Registry.artifacts), "unknownArtifact")
  \union When(~(bundle.targets \subseteq Registry.targets), "unknownTarget")
  \union When(Twice([k \in DOMAIN bundle.instances |-> bundle.instances[k].id]), "duplicateInstance")
  \union When(\E i \in Instances : i.profile \notin Registry.agents, "unknownAgentProfile")
  \union When(\E i \in Instances : i.permission \notin Registry.permissions, "unknownPermission")

(* _validate_role_bindings, the rules for any one binding.                 *)
BindingDiagnostics(b) ==
  When(b.instance \notin {i.id : i \in Instances}, "unknownInstance")
  \union When(~(b.skills \subseteq bundle.skills), "skillOutsideBundle")
  \union When(~(b.skills \subseteq DOMAIN Registry.skills), "unknownSelectedSkill")
  \union When(~(b.capabilities \subseteq Provided(b.skills)), "unprovidedCapability")
  \union When(~(Required(b.skills) \subseteq Provided(b.skills)), "unsatisfiedRequirement")
  \union When(~(b.produces \subseteq bundle.artifacts), "artifactOutsideBundle")
  \union When(~(b.produces \subseteq Registry.artifacts), "unknownProduced")
  \union When(b \in Controllers /\ b.produces # {}, "controller")

\* Mutant: the gate's capabilities need not be required by its owner.
GateOfStateOnly(b) ==
  LET state == CHOOSE s \in Gated : s.name = b.state
  IN  IF b.state \notin {s.name : s \in Gated} THEN {"workflowState"}
      ELSE When(b.gate # state.gate.name, "workflowGate")
           \union When(~(state.gate.artifacts \subseteq b.produces), "gateArtifact")

(* _validate_state_owner.                                                  *)
OwnerDiagnostics(b) ==
  LET state == CHOOSE s \in Gated : s.name = b.state
  IN  IF b.state \notin {s.name : s \in Gated} THEN {"workflowState"}
      ELSE When(b.gate # state.gate.name, "workflowGate")
           \union When(~(state.gate.capabilities \subseteq b.capabilities), "gateCapability")
           \union When(~(state.gate.artifacts \subseteq b.produces), "gateArtifact")

(* The rules for the bindings together: on their names and lists,          *)
CollectionDiagnostics ==
  When(Twice([k \in DOMAIN bundle.bindings |-> bundle.bindings[k].role]), "duplicateRole")
  \union When(Cardinality({k \in DOMAIN bundle.bindings :
                bundle.bindings[k] \in Controllers}) # 1, "controllers")
  \union When(\E i \in Instances : i.id \notin {b.instance : b \in Bindings}, "unassignedInstance")
  \union When(~(bundle.artifacts \intersect Registry.artifacts \subseteq
                UNION {b.produces : b \in Owners}), "unproducedArtifact")

(* and on the states of the workflow.                                      *)
OwnershipDiagnostics ==
  When(\E j, k \in DOMAIN bundle.bindings :
         /\ j # k
         /\ bundle.bindings[j] \in Owners /\ bundle.bindings[k] \in Owners
         /\ bundle.bindings[j].state = bundle.bindings[k].state
         /\ bundle.bindings[k].state \in {s.name : s \in Gated}, "duplicateOwner")
  \union When(\E s \in Gated : s.name \notin {b.state : b \in Owners}, "missingOwner")
  \union (IF bundle.workflow \in DOMAIN Workflows
          THEN UNION {OwnerDiagnostics(b) : b \in Owners} ELSE {})

\* Mutant: any other owner will do as the producer.
InputsOfAnyOwner(b, input) ==
  When(~({input.artifact} \subseteq Registry.artifacts \intersect bundle.artifacts), "unknownInput")
  \union IF input.role \notin Roles THEN {"unknownInputRole"}
         ELSE When(input.role = b.role, "selfReference")
              \union When(BindingOf(input.role) \in Controllers, "inputOfController")

(* _validate_input_artifacts.                                              *)
InputDiagnostics(b, input) ==
  LET producer == BindingOf(input.role)
  IN  When(input.artifact \notin Registry.artifacts, "unknownInput")
      \union When(input.artifact \notin bundle.artifacts, "inputOutsideBundle")
      \union IF input.role \notin Roles THEN {"unknownInputRole"}
             ELSE When(input.role = b.role, "selfReference")
                  \union When(producer \in Controllers, "inputOfController")
                  \union When(input.artifact \notin producer.produces, "producerMismatch")

InputsDiagnostics(b) == UNION {InputDiagnostics(b, input) : input \in b.inputs}

IsDependency(b, input) ==
  /\ input.role \in Roles
  /\ BindingOf(input.role) \in Owners
  /\ input.role # b.role
  /\ input.artifact \in BindingOf(input.role).produces

\* From the role that produces to the role that consumes.
Edges == UNION {{<<input.role, b.role>> : input \in {x \in b.inputs : IsDependency(b, x)}} : b \in Bindings}
Consumers(role) == {e[2] : e \in {d \in Edges : d[1] = role}}

(* _validate_separation_policies.                                          *)
SharesInstance(policy) ==
  \E r, q \in policy.roles \intersect Roles :
    r # q /\ BindingOf(r).instance = BindingOf(q).instance

SeparationDiagnostics ==
  When(Twice([k \in DOMAIN bundle.policies |-> bundle.policies[k].id]), "duplicatePolicy")
  \union When(\E p \in Policies : ~(p.roles \subseteq Roles), "unknownSeparated")
  \union When(\E p \in Policies : SharesInstance(p), "sharedInstance")

RuleDiagnostics ==
  ReferenceDiagnostics \union CollectionDiagnostics \union OwnershipDiagnostics
  \union SeparationDiagnostics
  \union (UNION {BindingDiagnostics(b) : b \in Bindings})
  \union (UNION {InputsDiagnostics(b) : b \in Bindings})
-----------------------------------------------------------------------------
(* What the compiler looks up in the accepted bundle; its dictionaries     *)
(* keep the last of the bindings with one key.                             *)
Production == UNION {{<<a, b.role, b.instance>> : a \in b.produces} : b \in Owners}
Matches(input) ==
  {k \in DOMAIN bundle.bindings : /\ bundle.bindings[k] \in Owners
                                  /\ bundle.bindings[k].role = input.role
                                  /\ input.artifact \in bundle.bindings[k].produces}
OwnerOf(state) ==
  bundle.bindings[CHOOSE k \in DOMAIN bundle.bindings :
    LET Owns(j) == bundle.bindings[j] \in Owners /\ bundle.bindings[j].state = state
    IN  Owns(k) /\ \A j \in DOMAIN bundle.bindings : Owns(j) => j <= k]
Targets(selected) == IF selected = None THEN bundle.targets ELSE Elements(selected)

\* The target errors: only they depend on the caller's choice.
SelectionErrors(selected) ==
  When(Targets(selected) = {}, "noTarget")
  \union When(selected # None /\ Twice(selected), "duplicateTarget")
  \union When(~(Targets(selected) \subseteq bundle.targets), "targetOutsideBundle")

\* What a registry snapshot does not have.
LookupErrors(selected) ==
  When(~(Targets(selected) \intersect bundle.targets \subseteq Registry.targets), "target")
  \union When(bundle.profile \notin Registry.profiles, "profile")
  \union When(bundle.workflow \notin DOMAIN Workflows, "workflow")
  \union When(~(bundle.skills \union (UNION {b.skills : b \in Bindings}) \subseteq DOMAIN Registry.skills), "skill")
  \union When(~(bundle.artifacts \union (UNION {b.produces : b \in Bindings}) \subseteq Registry.artifacts), "artifact")
  \union When(~((UNION {s.gate.artifacts : s \in Gated}) \subseteq Registry.artifacts), "gateArtifact")
  \union When(\E i \in Instances : i.profile \notin Registry.agents, "agent")
  \union When(\E i \in Instances : i.permission \notin Registry.permissions, "permission")

CompositionErrors ==
  When(\E b \in Bindings : \E i \in b.inputs : Cardinality(Matches(i)) # 1, "input")
  \union When(\E i \in Instances : i.id \notin {b.instance : b \in Bindings}, "instance")
  \union When(\E b \in Owners : b.state = None, "workflowState")
  \union When(Cardinality({k \in DOMAIN bundle.bindings : bundle.bindings[k] \in Controllers}) # 1, "controller")
  \union When(\E s \in Gated : s.name \notin {b.state : b \in Owners}, "owner")
  \union When(\E p \in Policies : ~(p.roles \subseteq Roles), "separatedRole")
  \union When(\E p \in Policies : SharesInstance(p), "separation")

(* compile_bundle_composition, as far as its parts depend on each other.   *)
Composition(selected) ==
  [targets    |-> Targets(selected),
   production |-> Production,
   inputs     |-> [r \in Roles |-> {p \in Production : \E i \in BindingOf(r).inputs :
                                      p[1] = i.artifact /\ p[2] = i.role}],
   ownership  |-> {<<b.state, b.role, b.instance>> : b \in Owners},
   gates      |-> {[state |-> s.name, gate |-> s.gate, role |-> OwnerOf(s.name).role,
                    instance |-> OwnerOf(s.name).instance] : s \in Gated},
   provided   |-> [r \in Roles |-> Provided(BindingOf(r).skills)],
   controller |-> (CHOOSE b \in Controllers : TRUE).role]
-----------------------------------------------------------------------------
Top == calls[Len(calls)]
Returned == SubSeq(calls, 1, Len(calls) - 1)
Least(S) == {r \in S : \A q \in S : Rank[r] <= Rank[q]}
Unvisited == {r \in Roles : colour[r] = "white"}

\* Mutant: a role is done as soon as it is entered.
VisitOnce(role, callers) ==
  /\ colour' = [colour EXCEPT ![role] = "black"]
  /\ calls' = Append(callers, [role |-> role, left |-> Consumers(role)])

\* Entering visit(role): the stack of the code is the roles of the calls.
Visit(role, callers) ==
  /\ colour' = [colour EXCEPT ![role] = "grey"]
  /\ calls' = Append(callers, [role |-> role, left |-> Consumers(role)])

\* Mutant: the loop stays at a consumer it has looked at.
LookedAgain(consumer) == [calls EXCEPT ![Len(calls)].left = @ \union {consumer}]

Looked(consumer) == [calls EXCEPT ![Len(calls)].left = @ \ {consumer}]

Init ==
  /\ bundle \in Bundles
  /\ phase = "parsed"
  /\ diagnostics = {}
  /\ colour = <<>> /\ calls = <<>> /\ cycle = <<>>
  /\ errors = {} /\ composition = None

Judge ==
  /\ phase = "parsed"
  /\ phase' = "search"
  /\ diagnostics' = RuleDiagnostics
  /\ colour' = [r \in Roles |-> "white"]
  /\ UNCHANGED <<bundle, calls, cycle, errors, composition>>

StartVisit ==
  /\ phase = "search" /\ calls = <<>> /\ cycle = <<>>
  /\ \E role \in Least(Unvisited) : Visit(role, <<>>)
  /\ UNCHANGED <<bundle, phase, diagnostics, cycle, errors, composition>>

LookAtConsumer ==
  /\ phase = "search" /\ calls # <<>> /\ cycle = <<>>
  /\ \E consumer \in Least(Top.left) :
       \/ /\ colour[consumer] = "white"
          /\ Visit(consumer, Looked(consumer))
          /\ UNCHANGED cycle
       \/ /\ colour[consumer] = "grey"
          /\ LET start == CHOOSE k \in DOMAIN calls : calls[k].role = consumer
             IN  cycle' = [k \in 1 .. Len(calls) - start + 2 |->
                             IF k <= Len(calls) - start + 1 THEN calls[start + k - 1].role
                                                            ELSE consumer]
          /\ UNCHANGED <<colour, calls>>
       \/ /\ colour[consumer] = "black"
          /\ calls' = Looked(consumer)
          /\ UNCHANGED <<colour, cycle>>
  /\ UNCHANGED <<bundle, phase, diagnostics, errors, composition>>

ReturnFromVisit ==
  /\ phase = "search" /\ calls # <<>> /\ cycle = <<>>
  /\ Top.left = {}
  /\ colour' = [colour EXCEPT ![Top.role] = "black"]
  /\ calls' = Returned
  /\ UNCHANGED <<bundle, phase, diagnostics, cycle, errors, composition>>

Conclude ==
  /\ phase = "search"
  /\ cycle # <<>> \/ (calls = <<>> /\ Unvisited = {})
  /\ diagnostics' = diagnostics \union When(cycle # <<>>, "inputCycle")
  /\ phase' = IF diagnostics' = {} THEN "accepted" ELSE "rejected"
  /\ UNCHANGED <<bundle, colour, calls, cycle, errors, composition>>

Validate == Judge \/ StartVisit \/ LookAtConsumer \/ ReturnFromVisit \/ Conclude

Compile(selected) ==
  /\ phase = "accepted"
  /\ phase' = "compiled"
  /\ errors' = SelectionErrors(selected) \union LookupErrors(selected) \union CompositionErrors
  /\ composition' = IF errors' = {} THEN Composition(selected) ELSE None
  /\ UNCHANGED <<bundle, diagnostics, colour, calls, cycle>>

Next == Validate \/ \E selected \in Selections : Compile(selected)

Spec == Init /\ [][Next]_vars /\ WF_vars(Validate)
-----------------------------------------------------------------------------
(* Types: the colours belong to the roles, the stack is the grey roles in  *)
(* the order they were entered, and nothing is compiled unless accepted.   *)
TypeOK ==
  /\ phase \in {"parsed", "search", "rejected", "accepted", "compiled"}
  /\ phase # "parsed" => colour \in [Roles -> {"white", "grey", "black"}]
  /\ \A k \in DOMAIN calls : /\ calls[k].role \in Roles /\ calls[k].left \subseteq Roles
                             /\ colour[calls[k].role] = "grey"
  /\ phase # "parsed" => \A r \in Roles : colour[r] = "grey" => \E k \in DOMAIN calls : calls[k].role = r
  /\ composition # None => phase = "compiled" /\ errors = {}

\* A relation on the roles is free of cycles: in every set of roles there
\* is one that none of the set consumes from.
Acyclic(relation) ==
  \A S \in (SUBSET Roles) \ {{}} : \E r \in S : \A q \in S : <<r, q>> \notin relation

ClosedWalk(walk) ==
  /\ Len(walk) > 2 /\ walk[1] = walk[Len(walk)]
  /\ \A k \in 1 .. Len(walk) - 1 : <<walk[k], walk[k + 1]>> \in Edges

(* _find_input_artifact_cycle returns a cycle of the graph when it has one *)
(* and nothing when it has none, for every order of its visits.            *)
SearchIsExact ==
  phase \notin {"parsed", "search"} =>
    IF cycle = <<>> THEN Acyclic(Edges) ELSE ClosedWalk(cycle)

(* The errors compile_bundle_composition and its lookups raise guard what  *)
(* validation established: for an accepted bundle only the caller's choice *)
(* of targets can fail (init and materialization compile after validating).*)
AcceptedCompiles ==
  errors \subseteq {"noTarget", "duplicateTarget", "targetOutsideBundle"}

(* In what is compiled every gate of the workflow has one owner, which     *)
(* produces what the gate requires and whose skills provide the            *)
(* capabilities; every input is produced by the owner of another state,    *)
(* and the states' owners can be ordered so that inputs come first.        *)
AuthorityResolved ==
  composition # None =>
    /\ \A s \in Gated : \E g \in composition.gates :
         /\ g.gate = s.gate
         /\ {o \in composition.ownership : o[1] = s.name} = {<<s.name, g.role, g.instance>>}
         /\ \A a \in s.gate.artifacts : <<a, g.role, g.instance>> \in composition.production
         /\ s.gate.capabilities \subseteq composition.provided[g.role]
    /\ \A r \in Roles : Cardinality(composition.inputs[r]) = Cardinality(BindingOf(r).inputs)
    /\ Acyclic({<<x[1][2], x[2]>> : x \in {y \in composition.production \X Roles :
                                                   y[1] \in composition.inputs[y[2]]}})

(* Validation of a bundle, once it began, ends: cycles or not.             *)
Termination == phase = "search" ~> phase \in {"rejected", "accepted"}
=============================================================================
