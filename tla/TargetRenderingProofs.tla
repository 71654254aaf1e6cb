----------------------- MODULE TargetRenderingProofs -----------------------
(***************************************************************************)
(* From a bundle to its agents, for every registry, every set of bundles   *)
(* and of settings.  First the bundle (BundleComposition): the search for  *)
(* a cycle of inputs is exact, an accepted bundle compiles for every       *)
(* choice of its targets, and what is compiled has one able owner for each *)
(* gate.  Then what is rendered from it (TargetRendering): only what a     *)
(* target cannot express stops it, targets stay apart, agents have the     *)
(* authority of their profiles, and a session of them follows the workflow.*)
(***************************************************************************)
EXTENDS TargetRendering, FiniteSetTheorems, FunctionTheorems, SequenceTheorems, TLAPS

Call == [role : Roles, left : SUBSET Roles]
Black == {r \in Roles : colour[r] = "black"}

TypeInv ==
  /\ bundle \in Bundles
  /\ phase \in {"parsed", "search", "rejected", "accepted", "compiled"}
  /\ calls \in Seq(Call)
  /\ phase = "parsed" => calls = <<>> /\ cycle = <<>>
  /\ phase # "parsed" => colour \in [Roles -> {"white", "grey", "black"}]
  /\ composition # None => phase = "compiled" /\ errors = {}

(* The stack is a path of the graph and holds each grey role once.         *)
StackInv ==
  phase # "parsed" =>
    /\ \A k \in 1 .. Len(calls) : colour[calls[k].role] = "grey"
    /\ \A j, k \in 1 .. Len(calls) : calls[j].role = calls[k].role => j = k
    /\ \A r \in Roles : colour[r] = "grey" => \E k \in 1 .. Len(calls) : calls[k].role = r
    /\ \A k \in 1 .. Len(calls) - 1 : <<calls[k].role, calls[k + 1].role>> \in Edges
    /\ \A k \in 1 .. Len(calls) : calls[k].left \subseteq Consumers(calls[k].role)

(* A consumer of a role on the stack is finished, about to be looked at,   *)
(* or the next on the stack.                                               *)
LookedInv ==
  phase # "parsed" =>
    \A k \in 1 .. Len(calls) : \A c \in Consumers(calls[k].role) :
      c \in calls[k].left \/ colour[c] = "black" \/ (k < Len(calls) /\ c = calls[k + 1].role)

(* Finished roles have finished consumers, and no cycle among them.        *)
BlackInv ==
  phase # "parsed" =>
    /\ \A r \in Black : Consumers(r) \subseteq Black
    /\ \A S \in (SUBSET Black) \ {{}} : \E r \in S : \A q \in S : <<r, q>> \notin Edges

(* What is returned is a cycle; nothing is returned only at the end.       *)
ResultInv ==
  /\ cycle # <<>> => ClosedWalk(cycle)
  /\ phase \notin {"parsed", "search"} /\ cycle = <<>> => calls = <<>> /\ Unvisited = {}

(* Accepted bundles have no diagnostics, errors are those of Compile, and  *)
(* what is compiled is for targets that may be selected.                   *)
VerdictInv ==
  /\ phase # "parsed" => RuleDiagnostics \subseteq diagnostics
  /\ phase \in {"accepted", "compiled"} => diagnostics = {} /\ cycle = <<>>
  /\ errors # {} => /\ phase = "compiled"
                    /\ \E selected \in Selections :
                         errors = SelectionErrors(selected) \union LookupErrors(selected)
                                    \union CompositionErrors
  /\ composition # None =>
       \E selected \in Selections : composition = Composition(selected) /\ SelectionErrors(selected) = {}

IInv == TypeInv /\ StackInv /\ LookedInv /\ BlackInv /\ ResultInv /\ VerdictInv
-----------------------------------------------------------------------------
(* Edges run between different roles, and consumers are roles.             *)
LEMMA EdgesBetweenRoles ==
  /\ \A e \in Edges : e \in Roles \X Roles /\ e[1] # e[2]
  /\ \A r, c : c \in Consumers(r) <=> <<r, c>> \in Edges
  /\ \A r, c : c \in Consumers(r) => r \in Roles /\ c \in Roles /\ r # c
<1>1. ASSUME NEW e \in Edges
      PROVE  /\ e \in Roles \X Roles /\ e[1] # e[2]
             /\ e = <<e[1], e[2]>>
  <2>1. PICK b \in Bindings : e \in {<<input.role, b.role>> : input \in {x \in b.inputs : IsDependency(b, x)}}
    BY DEF Edges
  <2>2. PICK input \in b.inputs : IsDependency(b, input) /\ e = <<input.role, b.role>>
    BY <2>1
  <2> QED
    BY <2>2 DEF IsDependency, Roles
<1>2. ASSUME NEW r, NEW c
      PROVE  c \in Consumers(r) <=> <<r, c>> \in Edges
  <2>1. ASSUME c \in Consumers(r) PROVE <<r, c>> \in Edges
    <3>1. PICK e \in Edges : e[1] = r /\ e[2] = c
      BY <2>1 DEF Consumers
    <3> QED
      BY <3>1, <1>1
  <2>2. ASSUME <<r, c>> \in Edges PROVE c \in Consumers(r)
    <3>1. <<r, c>>[1] = r /\ <<r, c>>[2] = c
      OBVIOUS
    <3> QED
      BY <2>2, <3>1 DEF Consumers
  <2> QED
    BY <2>1, <2>2
<1>3. ASSUME NEW r, NEW c, c \in Consumers(r)
      PROVE  r \in Roles /\ c \in Roles /\ r # c
  <2>1. <<r, c>> \in Edges
    BY <1>2, <1>3
  <2>2. <<r, c>> \in Roles \X Roles /\ <<r, c>>[1] # <<r, c>>[2]
    BY <1>1, <2>1
  <2> QED
    BY <2>2
<1> QED
  BY <1>1, <1>2, <1>3

(* What depends on the bundle alone stays while the bundle does.           *)
LEMMA BundleFixed ==
  ASSUME bundle' = bundle
  PROVE  /\ Roles' = Roles /\ Edges' = Edges /\ RuleDiagnostics' = RuleDiagnostics
         /\ CompositionErrors' = CompositionErrors
         /\ \A r : Consumers(r)' = Consumers(r)
         /\ \A s : SelectionErrors(s)' = SelectionErrors(s) /\ LookupErrors(s)' = LookupErrors(s)
         /\ \A s : Composition(s)' = Composition(s)
<1>1. Bindings' = Bindings /\ Roles' = Roles /\ Instances' = Instances /\ Policies' = Policies
      /\ Owners' = Owners /\ Controllers' = Controllers /\ States' = States /\ Gated' = Gated
  BY DEF Bindings, Roles, Instances, Policies, Owners, Controllers, States, Gated
<1>2. \A r : BindingOf(r)' = BindingOf(r)
  BY DEF BindingOf
<1>3. \A b, i : IsDependency(b, i)' = IsDependency(b, i)
  BY <1>1, <1>2 DEF IsDependency
<1>4. Edges' = Edges /\ \A r : Consumers(r)' = Consumers(r)
  BY <1>1, <1>3 DEF Edges, Consumers
<1>5. \A p : SharesInstance(p)' = SharesInstance(p)
  BY <1>1, <1>2 DEF SharesInstance
<1>6. \A b : OwnerDiagnostics(b)' = OwnerDiagnostics(b) /\ BindingDiagnostics(b)' = BindingDiagnostics(b)
  BY <1>1 DEF OwnerDiagnostics, BindingDiagnostics, When
<1>7. \A b : InputsDiagnostics(b)' = InputsDiagnostics(b)
  BY <1>1, <1>2 DEF InputsDiagnostics, InputDiagnostics, When
<1>8. ReferenceDiagnostics' = ReferenceDiagnostics
  BY <1>1 DEF ReferenceDiagnostics, When, Twice
<1>9. CollectionDiagnostics' = CollectionDiagnostics /\ OwnershipDiagnostics' = OwnershipDiagnostics
  <2>1. CollectionDiagnostics' = CollectionDiagnostics
    BY <1>1 DEF CollectionDiagnostics, When, Twice
  <2>2. OwnershipDiagnostics' = OwnershipDiagnostics
    BY <1>1, <1>6 DEF OwnershipDiagnostics, When
  <2> QED
    BY <2>1, <2>2
<1>10. SeparationDiagnostics' = SeparationDiagnostics
  BY <1>1, <1>5 DEF SeparationDiagnostics, When, Twice
<1>11. RuleDiagnostics' = RuleDiagnostics
  BY <1>1, <1>6, <1>7, <1>8, <1>9, <1>10 DEF RuleDiagnostics
<1>12. \A i : Matches(i)' = Matches(i)
  BY <1>1 DEF Matches
<1>13. CompositionErrors' = CompositionErrors
  BY <1>1, <1>5, <1>12 DEF CompositionErrors, When
<1>14. \A s : SelectionErrors(s)' = SelectionErrors(s) /\ LookupErrors(s)' = LookupErrors(s)
  BY <1>1 DEF SelectionErrors, LookupErrors, Targets, When, Twice
<1>15. \A s : OwnerOf(s)' = OwnerOf(s)
  BY <1>1 DEF OwnerOf
<1>16. \A s : Composition(s)' = Composition(s)
  BY <1>1, <1>2, <1>15 DEF Composition, Targets, Production
<1> QED
  BY <1>1, <1>4, <1>11, <1>13, <1>14, <1>16
-----------------------------------------------------------------------------
(* A bundle without diagnostics gives the compiler nothing to refuse: each *)
(* of its errors has a rule that comes before it.                          *)
LEMMA NoDiagnosticsNoErrors ==
  ASSUME bundle \in Bundles, RuleDiagnostics = {}
  PROVE  CompositionErrors = {} /\ \A selected : LookupErrors(selected) = {}
<1>1. /\ ReferenceDiagnostics = {} /\ CollectionDiagnostics = {} /\ OwnershipDiagnostics = {}
      /\ SeparationDiagnostics = {}
  BY DEF RuleDiagnostics
<1>2. \A b \in Bindings : BindingDiagnostics(b) = {} /\ InputsDiagnostics(b) = {}
  BY DEF RuleDiagnostics
<1>3. \A b \in Bindings : \A i \in b.inputs : InputDiagnostics(b, i) = {}
  BY <1>2 DEF InputsDiagnostics
<1>4. /\ bundle.profile \in Registry.profiles /\ bundle.workflow \in DOMAIN Workflows
      /\ bundle.skills \subseteq DOMAIN Registry.skills /\ bundle.artifacts \subseteq Registry.artifacts
      /\ bundle.targets \subseteq Registry.targets
      /\ \A i \in Instances : i.profile \in Registry.agents /\ i.permission \in Registry.permissions
  BY <1>1 DEF ReferenceDiagnostics, When
<1>5. /\ \A j, k \in DOMAIN bundle.bindings :
           bundle.bindings[j].role = bundle.bindings[k].role => j = k
      /\ Cardinality({k \in DOMAIN bundle.bindings : bundle.bindings[k] \in Controllers}) = 1
      /\ \A i \in Instances : i.id \in {b.instance : b \in Bindings}
  BY <1>1 DEF CollectionDiagnostics, When, Twice
<1>6. \A s \in Gated : \E b \in Owners : b.state = s.name
  BY <1>1 DEF OwnershipDiagnostics, When
<1>7. \A b \in Owners : OwnerDiagnostics(b) = {}
  BY <1>1, <1>4 DEF OwnershipDiagnostics
<1>8. /\ \A p \in Policies : p.roles \subseteq Roles
      /\ ~\E p \in Policies : SharesInstance(p)
  BY <1>1 DEF SeparationDiagnostics, When
<1>9. \A b \in Bindings : b.skills \subseteq DOMAIN Registry.skills /\ b.produces \subseteq Registry.artifacts
  BY <1>2 DEF BindingDiagnostics, When
<1>10. ASSUME NEW s \in Gated
       PROVE  s.gate.artifacts \subseteq Registry.artifacts
  <2>1. PICK b \in Owners : b.state = s.name
    BY <1>6
  <2> DEFINE state == CHOOSE q \in Gated : q.name = b.state
  <2>2. b.state \in {q.name : q \in Gated}
    BY <2>1
  <2>3. state \in Gated /\ state.name = s.name
    BY <2>1
  <2>4. state = s
    BY <1>4, <2>3, WorkflowsAssumption DEF Gated, States, Workflows
  <2>5. state.gate.artifacts \subseteq b.produces
    BY <1>7, <2>1, <2>2 DEF OwnerDiagnostics, When
  <2> QED
    BY <1>9, <2>4, <2>5 DEF Owners
<1>11. ASSUME NEW b \in Bindings, NEW i \in b.inputs
       PROVE  Cardinality(Matches(i)) = 1
  <2>1. i.role \in Roles /\ BindingOf(i.role) \notin Controllers /\ i.artifact \in BindingOf(i.role).produces
    BY <1>3 DEF InputDiagnostics, When
  <2>2. PICK k \in DOMAIN bundle.bindings : bundle.bindings[k].role = i.role
    BY <2>1 DEF Roles, Bindings, Elements
  <2>3. DOMAIN bundle.bindings = 1 .. Len(bundle.bindings)
    BY BundlesAssumption
  <2>4. \A j \in 1 .. k - 1 : bundle.bindings[j].role # i.role
    <3> SUFFICES ASSUME NEW j \in 1 .. k - 1 PROVE bundle.bindings[j].role # i.role
      OBVIOUS
    <3>1. k \in Int /\ j \in Int /\ j < k /\ j \in DOMAIN bundle.bindings
      BY <2>3
    <3> QED
      BY <1>5, <2>2, <3>1
  <2>5. BindingOf(i.role) = bundle.bindings[k]
    BY <1>5, <2>2, <2>4 DEF BindingOf
  <2>6. bundle.bindings[k] \in Owners
    BY <2>1, <2>5 DEF Controllers, Bindings, Elements
  <2>7. Matches(i) = {k}
    BY <1>5, <2>1, <2>2, <2>5, <2>6 DEF Matches
  <2> QED
    BY <2>7, FS_Singleton
<1>12. \A b \in Owners : b.state # None
  BY BundlesAssumption DEF Owners, Bindings, Elements
<1>13. CompositionErrors = {}
  BY <1>5, <1>6, <1>8, <1>11, <1>12 DEF CompositionErrors, When
<1>14. \A selected : LookupErrors(selected) = {}
  BY <1>4, <1>9, <1>10 DEF LookupErrors, When
<1> QED
  BY <1>13, <1>14
-----------------------------------------------------------------------------
(* Entering a role that was not entered before, from the start or from the *)
(* loop of the role on top of the stack.                                   *)
LEMMA VisitStep ==
  ASSUME IInv, phase = "search", cycle = <<>>, bundle' = bundle, phase' = phase, cycle' = cycle,
         errors' = errors, composition' = composition,
         NEW role \in Roles, colour[role] = "white",
         NEW callers \in Seq(Call), Len(callers) = Len(calls),
         \A k \in 1 .. Len(calls) :
           /\ callers[k].role = calls[k].role
           /\ callers[k].left \subseteq calls[k].left
           /\ \A c \in calls[k].left \ callers[k].left : k = Len(calls) /\ c = role,
         calls # <<>> => <<Top.role, role>> \in Edges,
         Visit(role, callers)
  PROVE  TypeInv' /\ StackInv' /\ LookedInv' /\ BlackInv' /\ ResultInv'
<1> DEFINE n == Len(calls)
<1>0. /\ Roles' = Roles /\ Edges' = Edges /\ \A r : Consumers(r)' = Consumers(r)
  BY BundleFixed
<1>1. /\ calls \in Seq(Call) /\ n \in Nat /\ colour \in [Roles -> {"white", "grey", "black"}]
      /\ phase' = "search" /\ composition = None
  BY DEF IInv, TypeInv
<1>2. Consumers(role) \subseteq Roles /\ \A r : \A c \in Consumers(r) : <<r, c>> \in Edges /\ c \in Roles
  BY EdgesBetweenRoles
<1>a. /\ \A k \in 1 .. n : colour[calls[k].role] = "grey"
      /\ \A j, k \in 1 .. n : calls[j].role = calls[k].role => j = k
      /\ \A r \in Roles : colour[r] = "grey" => \E k \in 1 .. n : calls[k].role = r
      /\ \A k \in 1 .. n - 1 : <<calls[k].role, calls[k + 1].role>> \in Edges
      /\ \A k \in 1 .. n : calls[k].left \subseteq Consumers(calls[k].role)
  BY <1>1 DEF IInv, StackInv
<1>3. /\ colour' = [colour EXCEPT ![role] = "grey"]
      /\ calls' = Append(callers, [role |-> role, left |-> Consumers(role)])
  BY DEF Visit
<1>4. /\ calls' \in Seq(Call) /\ Len(calls') = n + 1
      /\ \A k \in 1 .. n : calls'[k] = callers[k]
      /\ calls'[n + 1] = [role |-> role, left |-> Consumers(role)]
  BY <1>1, <1>2, <1>3 DEF Call
<1>5. /\ \A k \in 1 .. n : calls'[k].role = calls[k].role /\ calls'[k].left \subseteq calls[k].left
      /\ calls'[n + 1].role = role /\ calls'[n + 1].left = Consumers(role)
  BY <1>4
<1>6. /\ \A r \in Roles \ {role} : colour'[r] = colour[r]
      /\ colour'[role] = "grey"
      /\ Black' = Black
  <2>1. /\ \A r \in Roles \ {role} : colour'[r] = colour[r]
        /\ colour'[role] = "grey"
    BY <1>1, <1>3
  <2> QED
    BY <1>0, <2>1 DEF Black
<1>7. \A k \in 1 .. n : calls[k] \in Call /\ calls[k].role \in Roles /\ calls[k].role # role
  <2> SUFFICES ASSUME NEW k \in 1 .. n
               PROVE  calls[k] \in Call /\ calls[k].role \in Roles /\ calls[k].role # role
    OBVIOUS
  <2>1. calls[k] \in Call
    BY <1>1
  <2> QED
    BY <1>a, <2>1 DEF Call
<1>8. TypeInv'
  BY <1>0, <1>1, <1>3, <1>4 DEF IInv, TypeInv, Call
<1>9. StackInv'
  <2>1. \A k \in 1 .. n + 1 : colour'[calls'[k].role] = "grey"
    <3> SUFFICES ASSUME NEW k \in 1 .. n + 1 PROVE colour'[calls'[k].role] = "grey"
      OBVIOUS
    <3>1. CASE k = n + 1
      BY <1>5, <1>6, <3>1
    <3>2. CASE k \in 1 .. n
      <4>1. calls'[k].role = calls[k].role /\ calls[k].role \in Roles \ {role}
        BY <1>5, <1>7, <3>2
      <4> QED
        BY <1>6, <1>a, <3>2, <4>1
    <3>3. k = n + 1 \/ k \in 1 .. n
      <4> HIDE DEF n
      <4> QED
        BY <1>1
    <3> QED
      BY <3>1, <3>2, <3>3
  <2>2. \A j, k \in 1 .. n + 1 : calls'[j].role = calls'[k].role => j = k
    <3> SUFFICES ASSUME NEW j \in 1 .. n + 1, NEW k \in 1 .. n + 1,
                        calls'[j].role = calls'[k].role, j # k
                 PROVE  FALSE
      OBVIOUS
    <3>1. CASE j = n + 1
      <4>1. k \in 1 .. n
        BY <1>1, <3>1
      <4> QED
        BY <1>5, <1>7, <3>1, <4>1
    <3>2. CASE k = n + 1
      <4>1. j \in 1 .. n
        BY <1>1, <3>2
      <4> QED
        <5>1. calls'[j].role = calls[j].role /\ calls[j].role # role /\ calls'[k].role = role
          BY <1>5, <1>7, <3>2, <4>1
        <5> QED
          BY <5>1
    <3>3. CASE j \in 1 .. n /\ k \in 1 .. n
      BY <1>a, <1>5, <3>3
    <3>4. j = n + 1 \/ k = n + 1 \/ (j \in 1 .. n /\ k \in 1 .. n)
      <4> HIDE DEF n
      <4> QED
        BY <1>1
    <3> QED
      BY <3>1, <3>2, <3>3, <3>4
  <2>3. \A r \in Roles : colour'[r] = "grey" => \E k \in 1 .. n + 1 : calls'[k].role = r
    <3> SUFFICES ASSUME NEW r \in Roles, colour'[r] = "grey"
                 PROVE  \E k \in 1 .. n + 1 : calls'[k].role = r
      OBVIOUS
    <3>1. CASE r = role
      BY <1>1, <1>5, <3>1
    <3>2. CASE r # role
      <4>1. PICK k \in 1 .. n : calls[k].role = r
        BY <1>a, <1>6, <3>2
      <4> QED
        BY <1>1, <1>5, <4>1
    <3> QED
      BY <3>1, <3>2
  <2>4. \A k \in 1 .. n : <<calls'[k].role, calls'[k + 1].role>> \in Edges
    <3> SUFFICES ASSUME NEW k \in 1 .. n PROVE <<calls'[k].role, calls'[k + 1].role>> \in Edges
      OBVIOUS
    <3>1. CASE k = n
      <4>1. calls'[k].role = Top.role /\ calls'[k + 1].role = role /\ calls # <<>>
        BY <1>1, <1>5, <3>1 DEF Top
      <4> QED
        BY <4>1
    <3>2. CASE k < n
      <4>1. k \in 1 .. n - 1 /\ k + 1 \in 1 .. n
        BY <1>1, <3>2
      <4> QED
        BY <1>a, <1>5, <4>1
    <3> QED
      BY <1>1, <3>1, <3>2
  <2>5. \A k \in 1 .. n + 1 : calls'[k].left \subseteq Consumers(calls'[k].role)
    <3> SUFFICES ASSUME NEW k \in 1 .. n + 1
                 PROVE  calls'[k].left \subseteq Consumers(calls'[k].role)
      OBVIOUS
    <3>1. CASE k = n + 1
      BY <1>5, <3>1
    <3>2. CASE k \in 1 .. n
      <4>1. calls[k].left \subseteq Consumers(calls[k].role)
        BY <1>a, <3>2
      <4>2. calls'[k].role = calls[k].role /\ calls'[k].left \subseteq calls[k].left
        BY <1>5, <3>2
      <4> QED
        BY <4>1, <4>2
    <3> QED
      BY <1>1, <3>1, <3>2
  <2> QED
    BY <1>0, <1>1, <1>4, <2>1, <2>2, <2>3, <2>4, <2>5 DEF StackInv
<1>10. LookedInv'
  <2> SUFFICES ASSUME NEW k \in 1 .. n + 1, NEW c \in Consumers(calls'[k].role)
               PROVE  c \in calls'[k].left \/ colour'[c] = "black"
                        \/ (k < n + 1 /\ c = calls'[k + 1].role)
    BY <1>0, <1>1, <1>4 DEF LookedInv
  <2>1. CASE k = n + 1
    BY <1>1, <1>5, <2>1
  <2>2. CASE k \in 1 .. n
    <3>1. c \in Consumers(calls[k].role)
      BY <1>5, <2>2
    <3>2. c \in calls[k].left \/ colour[c] = "black" \/ (k < n /\ c = calls[k + 1].role)
      BY <1>1, <2>2, <3>1 DEF IInv, LookedInv
    <3>3. CASE c \in calls[k].left
      BY <1>1, <1>4, <1>5, <2>2, <3>3
    <3>4. CASE colour[c] = "black"
      BY <1>2, <1>6, <3>4
    <3>5. CASE k < n /\ c = calls[k + 1].role
      BY <1>1, <1>5, <2>2, <3>5
    <3> QED
      BY <3>2, <3>3, <3>4, <3>5
  <2> QED
    BY <1>1, <2>1, <2>2
<1>11. BlackInv'
  BY <1>0, <1>1, <1>6 DEF IInv, BlackInv
<1>12. ResultInv'
  BY <1>1 DEF ResultInv
<1> QED
  BY <1>8, <1>9, <1>10, <1>11, <1>12

LEMMA StartVisitStep ==
  ASSUME IInv, StartVisit
  PROVE  TypeInv' /\ StackInv' /\ LookedInv' /\ BlackInv' /\ ResultInv'
<1>1. PICK role \in Least(Unvisited) : Visit(role, <<>>)
  BY DEF StartVisit
<1>2. role \in Roles /\ colour[role] = "white"
  BY DEF Least, Unvisited
<1>3. <<>> \in Seq(Call) /\ Len(<<>>) = 0
  OBVIOUS
<1> QED
  BY <1>1, <1>2, <1>3, VisitStep DEF StartVisit

(* The loop goes on past a finished consumer.                              *)
LEMMA SkipStep ==
  ASSUME IInv, phase = "search", calls # <<>>, cycle = <<>>, bundle' = bundle, phase' = phase,
         cycle' = cycle, colour' = colour, errors' = errors, composition' = composition,
         NEW consumer \in Top.left, colour[consumer] = "black",
         calls' = Looked(consumer)
  PROVE  TypeInv' /\ StackInv' /\ LookedInv' /\ BlackInv' /\ ResultInv'
<1> DEFINE n == Len(calls)
<1>0. /\ Roles' = Roles /\ Edges' = Edges /\ \A r : Consumers(r)' = Consumers(r)
  BY BundleFixed
<1>1. /\ calls \in Seq(Call) /\ n \in Nat \ {0}
      /\ phase' = "search" /\ composition = None
  BY DEF IInv, TypeInv
<1>2. \A k \in 1 .. n : calls[k] \in Call
  BY <1>1
<1>3. /\ calls' \in Seq(Call) /\ Len(calls') = n
      /\ \A k \in 1 .. n : /\ calls'[k].role = calls[k].role
                           /\ calls'[k].left \subseteq calls[k].left
                           /\ calls[k].left \subseteq calls'[k].left \union {consumer}
  BY <1>1, <1>2 DEF Looked, Call
<1>4. Black' = Black
  BY <1>0 DEF Black
<1>5. TypeInv'
  BY <1>0, <1>1, <1>3 DEF IInv, TypeInv, Call
<1>6. StackInv'
  BY <1>0, <1>1, <1>3 DEF IInv, StackInv
<1>7. LookedInv'
  <2> SUFFICES ASSUME NEW k \in 1 .. n, NEW c \in Consumers(calls[k].role)
               PROVE  c \in calls'[k].left \/ colour[c] = "black"
                        \/ (k < n /\ c = calls'[k + 1].role)
    BY <1>0, <1>1, <1>3 DEF LookedInv
  <2>1. c \in calls[k].left \/ colour[c] = "black" \/ (k < n /\ c = calls[k + 1].role)
    BY <1>1 DEF IInv, LookedInv
  <2>2. CASE c \in calls[k].left
    BY <1>3, <2>2
  <2>3. CASE k < n /\ c = calls[k + 1].role
    BY <1>1, <1>3, <2>3
  <2> QED
    BY <2>1, <2>2, <2>3
<1>8. BlackInv'
  BY <1>0, <1>1, <1>4 DEF IInv, BlackInv
<1>9. ResultInv'
  BY <1>1 DEF ResultInv
<1> QED
  BY <1>5, <1>6, <1>7, <1>8, <1>9

(* A consumer on the stack closes a cycle.                                 *)
LEMMA CycleStep ==
  ASSUME IInv, phase = "search", calls # <<>>, NEW consumer \in Top.left,
         colour[consumer] = "grey",
         NEW start, start = CHOOSE k \in DOMAIN calls : calls[k].role = consumer,
         NEW walk, walk = [k \in 1 .. Len(calls) - start + 2 |->
                             IF k <= Len(calls) - start + 1 THEN calls[start + k - 1].role
                                                            ELSE consumer]
  PROVE  ClosedWalk(walk)
<1> DEFINE n == Len(calls)
<1>1. /\ calls \in Seq(Call) /\ n \in Nat \ {0} /\ DOMAIN calls = 1 .. n
  BY DEF IInv, TypeInv
<1>2. /\ \A r \in Roles : colour[r] = "grey" => \E k \in 1 .. n : calls[k].role = r
      /\ \A k \in 1 .. n - 1 : <<calls[k].role, calls[k + 1].role>> \in Edges
      /\ calls[n].left \subseteq Consumers(calls[n].role)
  BY <1>1 DEF IInv, StackInv
<1>3. consumer \in Roles /\ <<calls[n].role, consumer>> \in Edges /\ calls[n].role # consumer
  BY <1>2, EdgesBetweenRoles DEF Top
<1>4. start \in 1 .. n /\ calls[start].role = consumer
  BY <1>1, <1>2, <1>3
<1>5. start < n
  BY <1>1, <1>3, <1>4
<1> DEFINE m == n - start + 1
<1>6. /\ m \in Nat /\ m > 1 /\ Len(walk) = m + 1
      /\ \A k \in 1 .. m : walk[k] = calls[start + k - 1].role
      /\ walk[m + 1] = consumer
  BY <1>1, <1>4, <1>5
<1>7. walk[1] = consumer
  BY <1>4, <1>6
<1>8. ASSUME NEW k \in 1 .. m PROVE <<walk[k], walk[k + 1]>> \in Edges
  <2>1. CASE k = m
    <3>1. walk[k] = calls[n].role /\ walk[k + 1] = consumer
      <4>1. start + k - 1 = n
        <5> HIDE DEF n
        <5> QED
          BY <1>1, <1>4, <2>1
      <4> QED
        BY <1>6, <2>1, <4>1
    <3> QED
      BY <1>3, <3>1
  <2>2. CASE k < m
    <3> DEFINE j == start + k - 1
    <3>1. j \in 1 .. n - 1 /\ walk[k] = calls[j].role /\ walk[k + 1] = calls[j + 1].role
      <4>1. n \in Nat \ {0} /\ start \in 1 .. n /\ k \in Nat \ {0} /\ k < n - start + 1
        BY <1>1, <1>4, <1>6, <2>2
      <4>2. /\ k + 1 \in 1 .. m /\ start + (k + 1) - 1 = j + 1
            /\ j \in 1 .. n - 1
        <5> HIDE DEF n
        <5> QED
          BY <4>1
      <4> QED
        BY <1>6, <4>2
    <3> QED
      BY <1>2, <3>1
  <2> QED
    BY <1>6, <2>1, <2>2
<1> QED
  <2> HIDE DEF m, n
  <2>0. m \in Nat /\ m > 1 /\ Len(walk) = m + 1
    BY <1>6
  <2>1. Len(walk) > 2 /\ Len(walk) - 1 = m
    <3> DEFINE l == Len(walk)
    <3>1. l = m + 1
      BY <2>0
    <3> HIDE DEF l
    <3>2. l > 2 /\ l - 1 = m
      BY <2>0, <3>1
    <3> QED
      BY <3>2 DEF l
  <2>2. walk[1] = walk[Len(walk)]
    BY <1>6, <1>7, Zenon
  <2> QED
    BY <1>8, <2>1, <2>2 DEF ClosedWalk

LEMMA LookAtConsumerStep ==
  ASSUME IInv, LookAtConsumer
  PROVE  TypeInv' /\ StackInv' /\ LookedInv' /\ BlackInv' /\ ResultInv'
<1> DEFINE n == Len(calls)
<1>0. /\ phase = "search" /\ calls # <<>> /\ cycle = <<>> /\ bundle' = bundle /\ phase' = phase
      /\ errors' = errors /\ composition' = composition
  BY DEF LookAtConsumer
<1>1. /\ calls \in Seq(Call) /\ n \in Nat \ {0}
      /\ \A k \in 1 .. n : calls[k] \in Call
      /\ calls[n].left \subseteq Consumers(calls[n].role)
  BY <1>0 DEF IInv, TypeInv, StackInv
<1>2. PICK consumer \in Least(Top.left) :
       \/ /\ colour[consumer] = "white"
          /\ Visit(consumer, Looked(consumer))
          /\ UNCHANGED cycle
       \/ /\ colour[consumer] = "grey"
          /\ LET start == CHOOSE k \in DOMAIN calls : calls[k].role = consumer
             IN  cycle' = [k \in 1 .. Len(calls) - start + 2 |->
                             IF k <= Len(calls) - start + 1 THEN calls[start + k - 1].role
                                                            ELSE consumer]
          /\ UNCHANGED <<colour, calls>>
       \/ /\ colour[consumer] = "black"
          /\ calls' = Looked(consumer)
          /\ UNCHANGED <<colour, cycle>>
  BY DEF LookAtConsumer
<1>3. /\ consumer \in Top.left /\ consumer \in Roles /\ <<Top.role, consumer>> \in Edges
  BY <1>1, EdgesBetweenRoles DEF Least, Top
<1>4. CASE colour[consumer] = "white" /\ Visit(consumer, Looked(consumer)) /\ UNCHANGED cycle
  <2> DEFINE callers == Looked(consumer)
  <2>1. /\ callers \in Seq(Call) /\ Len(callers) = n
        /\ \A k \in 1 .. n : /\ callers[k].role = calls[k].role
                             /\ callers[k].left \subseteq calls[k].left
                             /\ \A c \in calls[k].left \ callers[k].left : k = n /\ c = consumer
    BY <1>1 DEF Looked, Call
  <2> HIDE DEF callers
  <2>2. Visit(consumer, callers)
    BY <1>4 DEF callers
  <2> QED
    BY <1>0, <1>3, <1>4, <2>1, <2>2, VisitStep
<1>5. CASE /\ colour[consumer] = "grey"
           /\ LET start == CHOOSE k \in DOMAIN calls : calls[k].role = consumer
              IN  cycle' = [k \in 1 .. Len(calls) - start + 2 |->
                              IF k <= Len(calls) - start + 1 THEN calls[start + k - 1].role
                                                             ELSE consumer]
           /\ UNCHANGED <<colour, calls>>
  <2>1. ClosedWalk(cycle')
    BY <1>0, <1>3, <1>5, CycleStep
  <2>2. Roles' = Roles /\ Edges' = Edges /\ \A r : Consumers(r)' = Consumers(r)
    BY <1>0, BundleFixed
  <2>3. TypeInv' /\ StackInv' /\ LookedInv'
    BY <1>0, <1>5, <2>2 DEF IInv, TypeInv, StackInv, LookedInv, Call
  <2>4. BlackInv'
    BY <1>0, <1>5, <2>2 DEF IInv, BlackInv, Black
  <2>5. ResultInv'
    BY <1>0, <2>1, <2>2 DEF ResultInv, ClosedWalk
  <2> QED
    BY <2>3, <2>4, <2>5
<1>6. CASE colour[consumer] = "black" /\ calls' = Looked(consumer) /\ UNCHANGED <<colour, cycle>>
  BY <1>0, <1>3, <1>6, SkipStep
<1> QED
  BY <1>2, <1>4, <1>5, <1>6

(* A role whose consumers were all looked at is finished; with it no cycle *)
(* can come up among the finished ones, because none of them leads to it.  *)
LEMMA ReturnStep ==
  ASSUME IInv, ReturnFromVisit
  PROVE  TypeInv' /\ StackInv' /\ LookedInv' /\ BlackInv' /\ ResultInv'
<1> DEFINE n == Len(calls)
           done == calls[n].role
<1>0. /\ phase = "search" /\ calls # <<>> /\ cycle = <<>> /\ bundle' = bundle /\ phase' = phase
      /\ cycle' = cycle /\ errors' = errors /\ composition' = composition
      /\ colour' = [colour EXCEPT ![done] = "black"] /\ calls' = SubSeq(calls, 1, n - 1)
      /\ calls[n].left = {}
  BY DEF ReturnFromVisit, Returned, Top
<1>1. /\ Roles' = Roles /\ Edges' = Edges /\ \A r : Consumers(r)' = Consumers(r)
  BY <1>0, BundleFixed
<1>2. /\ calls \in Seq(Call) /\ n \in Nat \ {0} /\ colour \in [Roles -> {"white", "grey", "black"}]
      /\ \A k \in 1 .. n : calls[k] \in Call
  BY <1>0 DEF IInv, TypeInv
<1>3. /\ \A k \in 1 .. n : colour[calls[k].role] = "grey"
      /\ \A j, k \in 1 .. n : calls[j].role = calls[k].role => j = k
      /\ \A r \in Roles : colour[r] = "grey" => \E k \in 1 .. n : calls[k].role = r
      /\ \A k \in 1 .. n - 1 : <<calls[k].role, calls[k + 1].role>> \in Edges
      /\ \A k \in 1 .. n : calls[k].left \subseteq Consumers(calls[k].role)
  BY <1>0, <1>2 DEF IInv, StackInv
<1>4. /\ calls' \in Seq(Call) /\ Len(calls') = n - 1
      /\ \A k \in 1 .. n - 1 : calls'[k] = calls[k]
  <2>1. /\ SubSeq(calls, 1, n - 1) \in Seq(Call)
        /\ Len(SubSeq(calls, 1, n - 1)) = IF 1 <= n - 1 THEN (n - 1) - 1 + 1 ELSE 0
        /\ \A i \in 1 .. (n - 1) - 1 + 1 : SubSeq(calls, 1, n - 1)[i] = calls[1 + i - 1]
    BY <1>2, SubSeqProperties
  <2>2. Len(SubSeq(calls, 1, n - 1)) = n - 1
    <3> DEFINE l == Len(SubSeq(calls, 1, n - 1))
    <3>1. n \in Nat \ {0} /\ l = IF 1 <= n - 1 THEN (n - 1) - 1 + 1 ELSE 0
      BY <1>2, <2>1
    <3> HIDE DEF l, n
    <3>2. l = n - 1
      BY <3>1
    <3> QED
      BY <3>2 DEF l, n
  <2>3. \A i \in 1 .. n - 1 : SubSeq(calls, 1, n - 1)[i] = calls[i]
    BY <1>2, <2>1
  <2> QED
    BY <1>0, <2>1, <2>2, <2>3
<1>5. done \in Roles /\ colour[done] = "grey"
  BY <1>2, <1>3 DEF Call
<1>6. /\ \A r \in Roles \ {done} : colour'[r] = colour[r]
      /\ colour'[done] = "black"
      /\ colour' \in [Roles -> {"white", "grey", "black"}]
  BY <1>0, <1>2, <1>5
<1>7. Black' = Black \union {done} /\ done \notin Black
  BY <1>1, <1>5, <1>6 DEF Black
<1>8. Consumers(done) \subseteq Black
  <2> SUFFICES ASSUME NEW c \in Consumers(done) PROVE c \in Black
    OBVIOUS
  <2>1. c \in calls[n].left \/ colour[c] = "black" \/ (n < n /\ c = calls[n + 1].role)
    BY <1>0, <1>2 DEF IInv, LookedInv
  <2>2. c \in Roles
    BY EdgesBetweenRoles
  <2> QED
    BY <1>0, <1>2, <2>1, <2>2 DEF Black
<1>9. TypeInv'
  BY <1>0, <1>1, <1>4, <1>6 DEF IInv, TypeInv, Call
<1>10. StackInv'
  <2>1. \A k \in 1 .. n - 1 : calls[k].role \in Roles \ {done}
    BY <1>2, <1>3 DEF Call
  <2>2. \A k \in 1 .. n - 1 : colour'[calls'[k].role] = "grey"
    BY <1>2, <1>3, <1>4, <1>6, <2>1
  <2>3. \A r \in Roles : colour'[r] = "grey" => \E k \in 1 .. n - 1 : calls'[k].role = r
    <3> SUFFICES ASSUME NEW r \in Roles, colour'[r] = "grey"
                 PROVE  \E k \in 1 .. n - 1 : calls'[k].role = r
      OBVIOUS
    <3>1. r # done /\ colour[r] = "grey"
      BY <1>6
    <3>2. PICK k \in 1 .. n : calls[k].role = r
      BY <1>3, <3>1
    <3>3. k \in 1 .. n - 1
      BY <1>2, <3>1, <3>2
    <3> QED
      BY <1>4, <3>2, <3>3
  <2>4. \A k \in 1 .. n - 2 : <<calls'[k].role, calls'[k + 1].role>> \in Edges
    <3> SUFFICES ASSUME NEW k \in 1 .. n - 2
                 PROVE  <<calls'[k].role, calls'[k + 1].role>> \in Edges
      OBVIOUS
    <3>1. k \in 1 .. n - 1 /\ k + 1 \in 1 .. n - 1
      BY <1>2
    <3> QED
      BY <1>3, <1>4, <3>1
  <2>5. /\ \A j, k \in 1 .. n - 1 : calls'[j].role = calls'[k].role => j = k
        /\ \A k \in 1 .. n - 1 : calls'[k].left \subseteq Consumers(calls'[k].role)
    <3>1. \A k \in 1 .. n - 1 : k \in 1 .. n /\ calls'[k] = calls[k]
      <4>1. \A k \in 1 .. n - 1 : k \in 1 .. n
        <5> HIDE DEF n
        <5> QED
          BY <1>2
      <4> QED
        BY <1>4, <4>1
    <3> QED
      BY <1>3, <3>1
  <2>6. Len(calls') - 1 = n - 2
    BY <1>2, <1>4
  <2> QED
    BY <1>1, <1>4, <2>2, <2>3, <2>4, <2>5, <2>6 DEF StackInv
<1>11. LookedInv'
  <2> SUFFICES ASSUME NEW k \in 1 .. n - 1, NEW c \in Consumers(calls[k].role)
               PROVE  c \in calls'[k].left \/ colour'[c] = "black"
                        \/ (k < n - 1 /\ c = calls'[k + 1].role)
    BY <1>1, <1>4 DEF LookedInv
  <2>1. c \in calls[k].left \/ colour[c] = "black" \/ (k < n /\ c = calls[k + 1].role)
    BY <1>0, <1>2 DEF IInv, LookedInv
  <2>2. c \in Roles
    BY EdgesBetweenRoles
  <2>3. CASE k = n - 1 /\ c = calls[k + 1].role
    BY <1>2, <1>6, <2>3
  <2>4. CASE k < n - 1 /\ c = calls[k + 1].role
    BY <1>2, <1>4, <2>4
  <2> QED
    BY <1>2, <1>4, <1>6, <2>1, <2>2, <2>3, <2>4
<1>12. BlackInv'
  <2>1. /\ \A r \in Black : Consumers(r) \subseteq Black
        /\ \A S \in (SUBSET Black) \ {{}} : \E r \in S : \A q \in S : <<r, q>> \notin Edges
    BY <1>0 DEF IInv, BlackInv
  <2>2. \A r \in Black \union {done} : Consumers(r) \subseteq Black
    BY <1>8, <2>1
  <2>3. ASSUME NEW S \in (SUBSET (Black \union {done})) \ {{}}
        PROVE  \E r \in S : \A q \in S : <<r, q>> \notin Edges
    <3>1. \A r \in Black \union {done} : <<r, done>> \notin Edges
      BY <1>7, <2>2, EdgesBetweenRoles
    <3>2. CASE S \subseteq {done}
      BY <3>1, <3>2
    <3>3. CASE S \ {done} # {}
      <4>0. S \ {done} \in (SUBSET Black) \ {{}}
        BY <3>3
      <4>1. PICK r \in S \ {done} : \A q \in S \ {done} : <<r, q>> \notin Edges
        BY <2>1, <4>0
      <4> QED
        BY <3>1, <4>1
    <3> QED
      BY <3>2, <3>3
  <2> QED
    BY <1>1, <1>7, <2>2, <2>3 DEF BlackInv
<1>13. ResultInv'
  BY <1>0 DEF ResultInv
<1> QED
  BY <1>9, <1>10, <1>11, <1>12, <1>13
-----------------------------------------------------------------------------
LEMMA JudgeStep ==
  ASSUME IInv, Judge
  PROVE  IInv'
<1>0. /\ phase = "parsed" /\ phase' = "search" /\ diagnostics' = RuleDiagnostics
      /\ colour' = [r \in Roles |-> "white"] /\ bundle' = bundle /\ calls' = calls /\ cycle' = cycle
      /\ errors' = errors /\ composition' = composition
  BY DEF Judge
<1>1. /\ Roles' = Roles /\ Edges' = Edges /\ RuleDiagnostics' = RuleDiagnostics
      /\ \A r : Consumers(r)' = Consumers(r)
  BY <1>0, BundleFixed
<1>2. calls = <<>> /\ cycle = <<>> /\ Len(calls) = 0 /\ composition = None /\ errors = {}
  BY <1>0 DEF IInv, TypeInv, VerdictInv
<1>3. TypeInv'
  BY <1>0, <1>1, <1>2 DEF IInv, TypeInv, Call
<1>4. StackInv' /\ LookedInv'
  BY <1>0, <1>1, <1>2 DEF StackInv, LookedInv
<1>5. Black' = {}
  BY <1>0, <1>1 DEF Black
<1>6. BlackInv'
  BY <1>1, <1>5 DEF BlackInv
<1>7. ResultInv' /\ VerdictInv'
  BY <1>0, <1>1, <1>2 DEF ResultInv, VerdictInv
<1> QED
  BY <1>3, <1>4, <1>6, <1>7 DEF IInv

(* The steps that end the search, compile or change nothing keep what the  *)
(* search has built.                                                       *)
LEMMA SearchKept ==
  ASSUME IInv, phase # "parsed", phase' \in {"search", "rejected", "accepted", "compiled"},
         bundle' = bundle, colour' = colour, calls' = calls, cycle' = cycle
  PROVE  StackInv' /\ LookedInv' /\ BlackInv'
<1>1. Roles' = Roles /\ Edges' = Edges /\ \A r : Consumers(r)' = Consumers(r)
  BY BundleFixed
<1>2. Black' = Black
  BY <1>1 DEF Black
<1> QED
  BY <1>1, <1>2 DEF IInv, StackInv, LookedInv, BlackInv

LEMMA ConcludeStep ==
  ASSUME IInv, Conclude
  PROVE  IInv'
<1>0. /\ phase = "search" /\ bundle' = bundle /\ colour' = colour /\ calls' = calls /\ cycle' = cycle
      /\ errors' = errors /\ composition' = composition
      /\ cycle # <<>> \/ (calls = <<>> /\ Unvisited = {})
      /\ diagnostics' = diagnostics \union When(cycle # <<>>, "inputCycle")
      /\ phase' = IF diagnostics' = {} THEN "accepted" ELSE "rejected"
  BY DEF Conclude
<1>1. /\ Roles' = Roles /\ Edges' = Edges /\ RuleDiagnostics' = RuleDiagnostics
  BY <1>0, BundleFixed
<1>2. StackInv' /\ LookedInv' /\ BlackInv'
  BY <1>0, SearchKept
<1>3. composition = None /\ errors = {}
  BY <1>0 DEF IInv, TypeInv, VerdictInv
<1>4. TypeInv'
  BY <1>0, <1>1, <1>3 DEF IInv, TypeInv, Call
<1>5. ResultInv'
  BY <1>0, <1>1 DEF IInv, ResultInv, ClosedWalk, Unvisited
<1>6. VerdictInv'
  BY <1>0, <1>1, <1>3 DEF IInv, VerdictInv, When
<1> QED
  BY <1>2, <1>4, <1>5, <1>6 DEF IInv

LEMMA CompileStep ==
  ASSUME IInv, NEW selected \in Selections, Compile(selected)
  PROVE  IInv'
<1>0. /\ phase = "accepted" /\ phase' = "compiled" /\ bundle' = bundle /\ diagnostics' = diagnostics
      /\ colour' = colour /\ calls' = calls /\ cycle' = cycle
      /\ errors' = SelectionErrors(selected) \union LookupErrors(selected) \union CompositionErrors
      /\ composition' = IF errors' = {} THEN Composition(selected) ELSE None
  BY DEF Compile
<1>1. /\ Roles' = Roles /\ Edges' = Edges /\ RuleDiagnostics' = RuleDiagnostics
      /\ CompositionErrors' = CompositionErrors
      /\ SelectionErrors(selected)' = SelectionErrors(selected)
      /\ LookupErrors(selected)' = LookupErrors(selected)
      /\ Composition(selected)' = Composition(selected)
  BY <1>0, BundleFixed
<1>2. StackInv' /\ LookedInv' /\ BlackInv'
  BY <1>0, SearchKept
<1>3. TypeInv'
  BY <1>0, <1>1 DEF IInv, TypeInv, Call
<1>4. ResultInv'
  BY <1>0, <1>1 DEF IInv, ResultInv, ClosedWalk, Unvisited
<1>5. VerdictInv'
  <2>1. RuleDiagnostics \subseteq diagnostics /\ diagnostics = {} /\ cycle = <<>>
    BY <1>0 DEF IInv, VerdictInv
  <2>2. \E s \in Selections :
          errors' = SelectionErrors(s)' \union LookupErrors(s)' \union CompositionErrors'
    BY <1>0, <1>1
  <2>3. composition' # None =>
          \E s \in Selections : composition' = Composition(s)' /\ SelectionErrors(s)' = {}
    BY <1>0, <1>1
  <2> QED
    BY <1>0, <1>1, <2>1, <2>2, <2>3 DEF VerdictInv
<1> QED
  BY <1>2, <1>3, <1>4, <1>5 DEF IInv

LEMMA SearchVerdict ==
  ASSUME IInv, phase = "search", phase' = "search", bundle' = bundle, diagnostics' = diagnostics,
         errors' = errors, composition' = composition
  PROVE  VerdictInv'
<1>1. RuleDiagnostics' = RuleDiagnostics
  BY BundleFixed
<1>2. composition = None /\ errors = {}
  BY DEF IInv, TypeInv, VerdictInv
<1> QED
  BY <1>1, <1>2 DEF IInv, VerdictInv

LEMMA StutterStep ==
  ASSUME IInv, UNCHANGED vars
  PROVE  IInv'
<1>0. /\ bundle' = bundle /\ phase' = phase /\ diagnostics' = diagnostics /\ colour' = colour
      /\ calls' = calls /\ cycle' = cycle /\ errors' = errors /\ composition' = composition
  BY DEF vars
<1>1. /\ Roles' = Roles /\ Edges' = Edges /\ RuleDiagnostics' = RuleDiagnostics
      /\ CompositionErrors' = CompositionErrors
      /\ \A r : Consumers(r)' = Consumers(r)
      /\ \A s : SelectionErrors(s)' = SelectionErrors(s) /\ LookupErrors(s)' = LookupErrors(s)
      /\ \A s : Composition(s)' = Composition(s)
  BY <1>0, BundleFixed
<1>2. Black' = Black
  BY <1>0, <1>1 DEF Black
<1>3. TypeInv'
  BY <1>0, <1>1 DEF IInv, TypeInv, Call
<1>4. StackInv' /\ LookedInv' /\ BlackInv'
  BY <1>0, <1>1, <1>2 DEF IInv, StackInv, LookedInv, BlackInv
<1>5. ResultInv'
  BY <1>0, <1>1 DEF IInv, ResultInv, ClosedWalk, Unvisited
<1>6. VerdictInv'
  <2>1. /\ phase # "parsed" => RuleDiagnostics \subseteq diagnostics
        /\ phase \in {"accepted", "compiled"} => diagnostics = {} /\ cycle = <<>>
        /\ errors # {} => phase = "compiled"
    BY DEF IInv, VerdictInv
  <2>2. errors' # {} => \E s \in Selections :
          errors' = SelectionErrors(s)' \union LookupErrors(s)' \union CompositionErrors'
    BY <1>0, <1>1 DEF IInv, VerdictInv
  <2>3. composition' # None =>
          \E s \in Selections : composition' = Composition(s)' /\ SelectionErrors(s)' = {}
    BY <1>0, <1>1 DEF IInv, VerdictInv
  <2> QED
    BY <1>0, <1>1, <2>1, <2>2, <2>3 DEF VerdictInv
<1> QED
  BY <1>3, <1>4, <1>5, <1>6 DEF IInv
-----------------------------------------------------------------------------
LEMMA InitHolds == Init => IInv
<1> SUFFICES ASSUME Init PROVE IInv
  OBVIOUS
<1>1. TypeInv
  BY DEF Init, TypeInv
<1>2. StackInv /\ LookedInv /\ BlackInv /\ ResultInv /\ VerdictInv
  BY DEF Init, StackInv, LookedInv, BlackInv, ResultInv, VerdictInv
<1> QED
  BY <1>1, <1>2 DEF IInv

LEMMA Inductive == IInv /\ [Next]_vars => IInv'
<1> SUFFICES ASSUME IInv, [Next]_vars PROVE IInv'
  OBVIOUS
<1>1. CASE Judge
  BY <1>1, JudgeStep
<1>2. CASE StartVisit
  BY <1>2, StartVisitStep, SearchVerdict DEF IInv, StartVisit
<1>3. CASE LookAtConsumer
  BY <1>3, LookAtConsumerStep, SearchVerdict DEF IInv, LookAtConsumer
<1>4. CASE ReturnFromVisit
  BY <1>4, ReturnStep, SearchVerdict DEF IInv, ReturnFromVisit
<1>5. CASE Conclude
  BY <1>5, ConcludeStep
<1>6. CASE \E selected \in Selections : Compile(selected)
  BY <1>6, CompileStep
<1>7. CASE UNCHANGED vars
  BY <1>7, StutterStep
<1> QED
  BY <1>1, <1>2, <1>3, <1>4, <1>5, <1>6, <1>7 DEF Next, Validate

(* The invariant of the search and of the verdict holds in every state.    *)
THEOREM Invariance == Spec => []IInv
BY InitHolds, Inductive, PTL DEF Spec

LEMMA InvType == IInv => TypeOK
<1> SUFFICES ASSUME IInv PROVE TypeOK
  OBVIOUS
<1>1. calls \in Seq(Call) /\ DOMAIN calls = 1 .. Len(calls)
      /\ \A k \in 1 .. Len(calls) : calls[k] \in Call
  BY DEF IInv, TypeInv
<1>2. /\ phase \in {"parsed", "search", "rejected", "accepted", "compiled"}
      /\ phase = "parsed" => calls = <<>>
      /\ phase # "parsed" => colour \in [Roles -> {"white", "grey", "black"}]
      /\ composition # None => phase = "compiled" /\ errors = {}
  BY DEF IInv, TypeInv
<1>3. \A k \in DOMAIN calls : /\ calls[k].role \in Roles /\ calls[k].left \subseteq Roles
                              /\ colour[calls[k].role] = "grey"
  BY <1>1, <1>2 DEF IInv, StackInv, Call
<1>4. phase # "parsed" =>
        \A r \in Roles : colour[r] = "grey" => \E k \in DOMAIN calls : calls[k].role = r
  BY <1>1 DEF IInv, StackInv
<1> QED
  BY <1>2, <1>3, <1>4 DEF TypeOK

(* Types, the stack being exactly the grey roles (TypeOK): every recursion *)
(* of visit marks what it enters and leaves (bundles.py 1465).             *)
THEOREM TypeCorrect == Spec => []TypeOK
BY Invariance, InvType, PTL

LEMMA InvSearch == IInv => SearchIsExact
<1> SUFFICES ASSUME IInv, phase \notin {"parsed", "search"}
             PROVE  IF cycle = <<>> THEN Acyclic(Edges) ELSE ClosedWalk(cycle)
  BY DEF SearchIsExact
<1>1. CASE cycle = <<>>
  <2>1. calls = <<>> /\ Unvisited = {} /\ Len(calls) = 0
    BY <1>1 DEF IInv, ResultInv
  <2>2. colour \in [Roles -> {"white", "grey", "black"}]
    BY DEF IInv, TypeInv
  <2>3. \A r \in Roles : colour[r] # "grey"
    BY <2>1 DEF IInv, StackInv
  <2>4. Black = Roles
    BY <2>1, <2>2, <2>3 DEF Black, Unvisited
  <2>5. \A S \in (SUBSET Black) \ {{}} : \E r \in S : \A q \in S : <<r, q>> \notin Edges
    BY DEF IInv, BlackInv
  <2>6. Acyclic(Edges)
    BY <2>4, <2>5 DEF Acyclic
  <2> QED
    BY <1>1, <2>6
<1>2. CASE cycle # <<>>
  BY <1>2 DEF IInv, ResultInv
<1> QED
  BY <1>1, <1>2

(* The search of bundles.py returns a cycle of the input artifacts if and  *)
(* only if there is one, whatever the order of the names.                  *)
THEOREM CycleSearchExact == Spec => []SearchIsExact
BY Invariance, InvSearch, PTL

LEMMA InvCompiles == IInv => AcceptedCompiles
<1> SUFFICES ASSUME IInv, errors # {} PROVE AcceptedCompiles
  BY DEF AcceptedCompiles
<1>1. PICK selected \in Selections :
        errors = SelectionErrors(selected) \union LookupErrors(selected) \union CompositionErrors
  BY DEF IInv, VerdictInv
<1>2. bundle \in Bundles /\ RuleDiagnostics = {}
  BY DEF IInv, TypeInv, VerdictInv
<1>3. CompositionErrors = {} /\ LookupErrors(selected) = {}
  BY <1>2, NoDiagnosticsNoErrors
<1>4. SelectionErrors(selected) \subseteq {"noTarget", "duplicateTarget", "targetOutsideBundle"}
  BY DEF SelectionErrors, When
<1> QED
  BY <1>1, <1>3, <1>4 DEF AcceptedCompiles

(* Whatever the registry, a bundle the validator accepts compiles unless   *)
(* the caller selects targets it does not have (composition.py 184).       *)
THEOREM AcceptedBundlesCompile == Spec => []AcceptedCompiles
BY Invariance, InvCompiles, PTL
-----------------------------------------------------------------------------
(* In a bundle without diagnostics a role names one binding, and each      *)
(* input is a dependency: an artifact that the owner of another state      *)
(* produces.                                                               *)
LEMMA BindingFacts ==
  ASSUME bundle \in Bundles, RuleDiagnostics = {}
  PROVE  /\ \A b \in Bindings : BindingOf(b.role) = b
         /\ \A r \in Roles : BindingOf(r) \in Bindings /\ BindingOf(r).role = r
         /\ \A b \in Bindings : \A i \in b.inputs :
              IsDependency(b, i) /\ i.role # b.role
              /\ i = [artifact |-> i.artifact, role |-> i.role]
         /\ \A b \in Bindings : IsFiniteSet(b.inputs)
<1>1. \A j, k \in DOMAIN bundle.bindings :
        bundle.bindings[j].role = bundle.bindings[k].role => j = k
  BY DEF RuleDiagnostics, CollectionDiagnostics, When, Twice
<1>2. DOMAIN bundle.bindings = 1 .. Len(bundle.bindings)
  BY BundlesAssumption
<1>3. ASSUME NEW b \in Bindings
      PROVE  BindingOf(b.role) = b
  <2>1. PICK k \in DOMAIN bundle.bindings : b = bundle.bindings[k]
    BY DEF Bindings, Elements
  <2>2. \A j \in 1 .. k - 1 : bundle.bindings[j].role # b.role
    <3> SUFFICES ASSUME NEW j \in 1 .. k - 1 PROVE bundle.bindings[j].role # b.role
      OBVIOUS
    <3>1. k \in Int /\ j \in Int /\ j < k /\ j \in DOMAIN bundle.bindings
      BY <1>2
    <3> QED
      BY <1>1, <2>1, <3>1
  <2> QED
    BY <1>1, <2>1, <2>2 DEF BindingOf
<1>4. \A r \in Roles : BindingOf(r) \in Bindings /\ BindingOf(r).role = r
  BY <1>3 DEF Roles
<1>5. ASSUME NEW b \in Bindings, NEW i \in b.inputs
      PROVE  /\ IsDependency(b, i) /\ i.role # b.role
             /\ i = [artifact |-> i.artifact, role |-> i.role]
  <2>1. InputDiagnostics(b, i) = {}
    BY DEF RuleDiagnostics, InputsDiagnostics
  <2>2. /\ i.role \in Roles /\ i.role # b.role /\ BindingOf(i.role) \notin Controllers
        /\ i.artifact \in BindingOf(i.role).produces
    BY <2>1 DEF InputDiagnostics, When
  <2>3. IsDependency(b, i)
    BY <1>4, <2>2 DEF IsDependency, Controllers
  <2> QED
    BY <2>2, <2>3, InputsAssumption DEF Bindings, Elements
<1>6. \A b \in Bindings : IsFiniteSet(b.inputs)
  BY InputsAssumption DEF Bindings, Elements
<1> QED
  BY <1>3, <1>4, <1>5, <1>6

(* The owner of a gated state: one, with all that the gate asks for.       *)
LEMMA GateOwner ==
  ASSUME bundle \in Bundles, RuleDiagnostics = {}, NEW s \in Gated
  PROVE  LET o == OwnerOf(s.name) IN
         /\ o \in Owners /\ o.state = s.name
         /\ \A b \in Owners : b.state = s.name => b = o
         /\ o.gate = s.gate.name /\ s.gate.artifacts \subseteq o.produces
         /\ s.gate.capabilities \subseteq o.capabilities
         /\ s.gate.capabilities \subseteq Provided(o.skills)
<1>1. /\ ReferenceDiagnostics = {} /\ OwnershipDiagnostics = {}
      /\ \A b \in Bindings : BindingDiagnostics(b) = {}
  BY DEF RuleDiagnostics
<1>2. bundle.workflow \in DOMAIN Workflows
  BY <1>1 DEF ReferenceDiagnostics, When
<1>3. PICK k \in DOMAIN bundle.bindings : bundle.bindings[k] \in Owners /\ bundle.bindings[k].state = s.name
  <2>1. PICK b \in Owners : b.state = s.name
    BY <1>1 DEF OwnershipDiagnostics, When
  <2> QED
    BY <2>1 DEF Owners, Bindings, Elements
<1>4. \A j \in DOMAIN bundle.bindings :
        bundle.bindings[j] \in Owners /\ bundle.bindings[j].state = s.name => j = k
  <2>1. \A i, j \in DOMAIN bundle.bindings :
          /\ bundle.bindings[i] \in Owners /\ bundle.bindings[j] \in Owners
          /\ bundle.bindings[i].state = bundle.bindings[j].state
          /\ bundle.bindings[j].state \in {q.name : q \in Gated}
          => i = j
    BY <1>1 DEF OwnershipDiagnostics, When
  <2> QED
    BY <1>3, <2>1
<1>5. OwnerOf(s.name) = bundle.bindings[k]
  <2>1. k \in Int /\ k <= k
    BY BundlesAssumption
  <2> QED
    BY <1>3, <1>4, <2>1 DEF OwnerOf
<1> DEFINE o == bundle.bindings[k]
<1>6. \A b \in Owners : b.state = s.name => b = o
  BY <1>4 DEF Owners, Bindings, Elements
<1>7. OwnerDiagnostics(o) = {}
  BY <1>1, <1>2, <1>3 DEF OwnershipDiagnostics
<1> DEFINE state == CHOOSE q \in Gated : q.name = o.state
<1>8. state = s
  <2>1. state \in Gated /\ state.name = s.name
    BY <1>3
  <2> QED
    BY <1>2, <2>1, WorkflowsAssumption DEF Gated, States, Workflows
<1>9. /\ o.gate = s.gate.name
      /\ s.gate.capabilities \subseteq o.capabilities /\ s.gate.artifacts \subseteq o.produces
  BY <1>3, <1>7, <1>8 DEF OwnerDiagnostics, When
<1>10. o.capabilities \subseteq Provided(o.skills)
  <2>1. BindingDiagnostics(o) = {}
    BY <1>1, <1>3 DEF Owners
  <2> QED
    BY <2>1 DEF BindingDiagnostics, When
<1> QED
  BY <1>3, <1>5, <1>6, <1>9, <1>10

(* The inputs of a role, each with the one owner that produces it.         *)
LEMMA InputsResolved ==
  ASSUME bundle \in Bundles, RuleDiagnostics = {}, NEW selected, NEW r \in Roles
  PROVE  Cardinality(Composition(selected).inputs[r]) = Cardinality(BindingOf(r).inputs)
<1> DEFINE b == BindingOf(r)
           resolved == {p \in Production : \E i \in b.inputs : p[1] = i.artifact /\ p[2] = i.role}
           f == [i \in b.inputs |-> <<i.artifact, i.role, BindingOf(i.role).instance>>]
<1>1. Composition(selected).inputs[r] = resolved
  BY DEF Composition
<1>2. b \in Bindings /\ IsFiniteSet(b.inputs)
  BY BindingFacts
<1>3. f \in [b.inputs -> resolved]
  <2>1. SUFFICES ASSUME NEW i \in b.inputs PROVE f[i] \in resolved
    OBVIOUS
  <2>2. /\ i.role \in Roles /\ BindingOf(i.role) \in Owners /\ BindingOf(i.role).role = i.role
        /\ i.artifact \in BindingOf(i.role).produces
    BY <1>2, BindingFacts DEF IsDependency
  <2>3. f[i] \in Production
    BY <2>2 DEF Production
  <2>4. f[i][1] = i.artifact /\ f[i][2] = i.role
    OBVIOUS
  <2> QED
    BY <2>3, <2>4
<1>4. ASSUME NEW i \in b.inputs, NEW j \in b.inputs, f[i] = f[j]
      PROVE  i = j
  <2>1. i.artifact = j.artifact /\ i.role = j.role
    BY <1>4
  <2>2. i = [artifact |-> i.artifact, role |-> i.role] /\ j = [artifact |-> j.artifact, role |-> j.role]
    BY <1>2, BindingFacts
  <2> QED
    BY <2>1, <2>2
<1>5. ASSUME NEW p \in resolved
      PROVE  \E i \in b.inputs : f[i] = p
  <2>1. PICK q \in Owners : \E a \in q.produces : p = <<a, q.role, q.instance>>
    BY DEF Production
  <2>2. PICK i \in b.inputs : p[1] = i.artifact /\ p[2] = i.role
    OBVIOUS
  <2>3. p = <<i.artifact, i.role, q.instance>> /\ q.role = i.role
    BY <2>1, <2>2
  <2>4. BindingOf(i.role) = q
    BY <2>3, BindingFacts DEF Owners
  <2>5. f[i] = <<i.artifact, i.role, q.instance>>
    BY <2>4
  <2> QED
    BY <2>3, <2>5
<1>6. f \in Bijection(b.inputs, resolved)
  <2> HIDE DEF f, resolved
  <2> QED
    BY <1>3, <1>4, <1>5, Fun_IsBij
<1>7. Cardinality(resolved) = Cardinality(b.inputs)
  <2>1. ExistsBijection(b.inputs, resolved)
    BY <1>6 DEF ExistsBijection
  <2> QED
    BY <1>2, <2>1, FS_Bijection
<1> QED
  BY <1>1, <1>7

(* Who supplies whom, in the composition, is a part of the relation that   *)
(* was searched for cycles.                                                *)
LEMMA SupplyIsAcyclic ==
  ASSUME bundle \in Bundles, RuleDiagnostics = {}, Acyclic(Edges), NEW selected
  PROVE  LET c == Composition(selected) IN
         Acyclic({<<x[1][2], x[2]>> : x \in {y \in c.production \X Roles : y[1] \in c.inputs[y[2]]}})
<1> DEFINE c == Composition(selected)
           supply == {<<x[1][2], x[2]>> : x \in {y \in c.production \X Roles : y[1] \in c.inputs[y[2]]}}
<1>1. ASSUME NEW x \in c.production \X Roles, x[1] \in c.inputs[x[2]]
      PROVE  <<x[1][2], x[2]>> \in Edges
  <2> DEFINE r == x[2]
             b == BindingOf(r)
  <2>1. r \in Roles /\ b \in Bindings /\ b.role = r
    BY BindingFacts
  <2>2. c.inputs[r] = {p \in Production : \E i \in b.inputs : p[1] = i.artifact /\ p[2] = i.role}
    BY <2>1 DEF Composition
  <2>3. PICK i \in b.inputs : x[1][2] = i.role
    BY <1>1, <2>2
  <2>4. IsDependency(b, i)
    BY <2>1, BindingFacts
  <2>5. <<i.role, b.role>> \in Edges
    BY <2>1, <2>4 DEF Edges
  <2> QED
    BY <2>1, <2>3, <2>5
<1>2. supply \subseteq Edges
  BY <1>1
<1>3. Acyclic(supply)
  <2> HIDE DEF supply
  <2> QED
    BY <1>2 DEF Acyclic
<1> QED
  BY <1>3

LEMMA InvAuthority == IInv => AuthorityResolved
<1> SUFFICES ASSUME IInv, composition # None PROVE AuthorityResolved
  BY DEF AuthorityResolved
<1>1. PICK selected \in Selections : composition = Composition(selected)
  BY DEF IInv, VerdictInv
<1>2. bundle \in Bundles /\ RuleDiagnostics = {} /\ phase = "compiled" /\ cycle = <<>>
  BY DEF IInv, TypeInv, VerdictInv
<1>3. Acyclic(Edges)
  BY <1>2, InvSearch DEF SearchIsExact
<1>4. ASSUME NEW s \in Gated
      PROVE  \E g \in composition.gates :
               /\ g.gate = s.gate
               /\ {o \in composition.ownership : o[1] = s.name} = {<<s.name, g.role, g.instance>>}
               /\ \A a \in s.gate.artifacts : <<a, g.role, g.instance>> \in composition.production
               /\ s.gate.capabilities \subseteq composition.provided[g.role]
  <2> DEFINE o == OwnerOf(s.name)
             g == [state |-> s.name, gate |-> s.gate, role |-> o.role, instance |-> o.instance]
  <2>1. /\ o \in Owners /\ o.state = s.name
        /\ \A b \in Owners : b.state = s.name => b = o
        /\ s.gate.artifacts \subseteq o.produces
        /\ s.gate.capabilities \subseteq Provided(o.skills)
    BY <1>2, GateOwner
  <2>2. g \in composition.gates /\ g.gate = s.gate /\ g.role = o.role /\ g.instance = o.instance
    BY <1>1 DEF Composition
  <2>3. composition.ownership = {<<b.state, b.role, b.instance>> : b \in Owners}
    BY <1>1 DEF Composition
  <2>4. {w \in composition.ownership : w[1] = s.name} = {<<s.name, o.role, o.instance>>}
    <3> HIDE DEF o
    <3> QED
      BY <2>1, <2>3
  <2>5. composition.production = Production
    BY <1>1 DEF Composition
  <2>6. \A a \in s.gate.artifacts : <<a, o.role, o.instance>> \in Production
    BY <2>1 DEF Production
  <2>7. composition.provided[o.role] = Provided(o.skills)
    <3>1. o.role \in Roles /\ BindingOf(o.role) = o
      BY <1>2, <2>1, BindingFacts DEF Owners, Roles
    <3> QED
      BY <1>1, <3>1 DEF Composition
  <2> HIDE DEF o, g
  <2> QED
    BY <2>1, <2>2, <2>4, <2>5, <2>6, <2>7
<1>5. \A r \in Roles : Cardinality(composition.inputs[r]) = Cardinality(BindingOf(r).inputs)
  BY <1>1, <1>2, InputsResolved
<1>6. Acyclic({<<x[1][2], x[2]>> : x \in {y \in composition.production \X Roles :
                                                  y[1] \in composition.inputs[y[2]]}})
  BY <1>1, <1>2, <1>3, SupplyIsAcyclic
<1> QED
  BY <1>4, <1>5, <1>6 DEF AuthorityResolved

(* What the compiler makes of an accepted bundle names one owner for each  *)
(* gate, able to satisfy it, and resolves every input without going in     *)
(* circles (composition.py 184).                                           *)
THEOREM CompiledAuthorityIsResolved == Spec => []AuthorityResolved
BY Invariance, InvAuthority, PTL
-----------------------------------------------------------------------------
(* What the stages stand for: past loading the snapshot has no diagnostics *)
(* and past compiling there is a composition.                              *)
StageInv ==
  /\ setting \in Settings
  /\ stage \in {"loading", "compiling", "rendered", "failed"}
  /\ stage \in {"compiling", "rendered"} => SnapshotDiagnostics = {}
  /\ stage # "failed" => failures = {}
  /\ stage = "failed" /\ failures # {"registry"} =>
       /\ SnapshotDiagnostics = {} /\ composition # None
       /\ \/ failures = RepresentationErrors
          \/ failures = UNION {FileErrors(t) : t \in Chosen}

(* What is rendered, and what did not stop it.                             *)
RenderedInv ==
  /\ rendered # None \/ session # None => stage = "rendered"
  /\ stage = "rendered" =>
       /\ composition # None /\ RepresentationErrors = {}
       /\ \A t \in Chosen : FileErrors(t) = {}
       /\ rendered = [t \in Chosen |-> Files(t)]

(* The controller of a session is the one of the composition; while the    *)
(* workflow goes on, the agent at work is the one of the state's owner.    *)
SessionInv ==
  session # None /\ Distinguishable =>
    /\ session = [target |-> session.target, controller |-> session.controller,
                  state |-> session.state, worker |-> session.worker]
    /\ session.target \in Chosen \intersect {"vscode-copilot"}
    /\ session.controller = rendered[session.target][AgentPath(session.target, Controller)]
    /\ session.state \notin Ends =>
         /\ session.state \in {s.name : s \in Gated}
         /\ session.worker = rendered[session.target][AgentPath(session.target, Owner(session.state))]

RInv == IInv /\ StageInv /\ RenderedInv /\ SessionInv
-----------------------------------------------------------------------------
(* Paths: a prefix means that the names agree.                             *)
LEMMA PrefixNames ==
  ASSUME NEW p \in Seq(STRING), NEW q \in Seq(STRING)
  PROVE  IsPrefix(p, q) <=> Len(p) <= Len(q) /\ \A k \in 1 .. Len(p) : p[k] = q[k]
<1>1. Len(p) \in Nat /\ Len(q) \in Nat /\ SubSeq(p, 1, Len(p)) = p
  BY SubSeqFull
<1>2. CASE Len(p) <= Len(q)
  <2>1. /\ SubSeq(q, 1, Len(p)) \in Seq(STRING) /\ Len(SubSeq(q, 1, Len(p))) = Len(p)
        /\ \A k \in 1 .. Len(p) : SubSeq(q, 1, Len(p))[k] = q[k]
    BY <1>1, <1>2
  <2>2. p = SubSeq(q, 1, Len(p)) <=> \A k \in 1 .. Len(p) : p[k] = SubSeq(q, 1, Len(p))[k]
    BY <2>1, SeqEqual
  <2> QED
    BY <1>1, <1>2, <2>1, <2>2 DEF IsPrefix
<1>3. CASE ~(Len(p) <= Len(q))
  BY <1>3 DEF IsPrefix
<1> QED
  BY <1>2, <1>3

(* Two prefixes of one path are prefixes of each other.                    *)
LEMMA PrefixesOverlap ==
  ASSUME NEW p \in Seq(STRING), NEW q \in Seq(STRING), NEW r \in Seq(STRING),
         IsPrefix(p, r), IsPrefix(q, r)
  PROVE  Overlap(p, q)
<1>1. Len(p) \in Nat /\ Len(q) \in Nat /\ Len(r) \in Nat
  OBVIOUS
<1>2. /\ Len(p) <= Len(r) /\ \A k \in 1 .. Len(p) : p[k] = r[k]
      /\ Len(q) <= Len(r) /\ \A k \in 1 .. Len(q) : q[k] = r[k]
  BY PrefixNames
<1>3. CASE Len(p) <= Len(q)
  BY <1>1, <1>2, <1>3, PrefixNames DEF Overlap
<1>4. CASE Len(q) <= Len(p)
  BY <1>1, <1>2, <1>4, PrefixNames DEF Overlap
<1> QED
  BY <1>1, <1>3, <1>4

LEMMA PrefixTransitive ==
  ASSUME NEW p \in Seq(STRING), NEW q \in Seq(STRING), NEW r \in Seq(STRING),
         IsPrefix(p, q), IsPrefix(q, r)
  PROVE  IsPrefix(p, r)
<1>1. Len(p) \in Nat /\ Len(q) \in Nat /\ Len(r) \in Nat
  OBVIOUS
<1>2. /\ Len(p) <= Len(q) /\ \A k \in 1 .. Len(p) : p[k] = q[k]
      /\ Len(q) <= Len(r) /\ \A k \in 1 .. Len(q) : q[k] = r[k]
  BY PrefixNames
<1> QED
  BY <1>1, <1>2, PrefixNames

(* What is written below a safe path is safe, and below it.                *)
LEMMA Below ==
  ASSUME NEW p \in Seq(STRING), NEW n \in Seq(STRING), n # <<>>
  PROVE  /\ p \o n \in Seq(STRING) /\ IsPrefix(p, p \o n)
         /\ Safe(p) /\ ".." \notin Elements(n) => Safe(p \o n)
<1>1. /\ p \o n \in Seq(STRING) /\ Len(p \o n) = Len(p) + Len(n)
      /\ \A k \in 1 .. Len(p \o n) : (p \o n)[k] = IF k <= Len(p) THEN p[k] ELSE n[k - Len(p)]
  BY ConcatProperties
<1>2. Len(p) \in Nat /\ Len(n) \in Nat /\ Len(n) > 0
  BY EmptySeq
<1>3. IsPrefix(p, p \o n)
  <2> DEFINE r == p \o n
  <2>1. r \in Seq(STRING) /\ Len(p) <= Len(r) /\ \A k \in 1 .. Len(p) : p[k] = r[k]
    BY <1>1, <1>2
  <2> HIDE DEF r
  <2>2. IsPrefix(p, r)
    BY <2>1, PrefixNames
  <2> QED
    BY <2>2 DEF r
<1>4. ASSUME Safe(p), ".." \notin Elements(n)
      PROVE  Safe(p \o n)
  <2>1. p \o n # <<>>
    BY <1>1, <1>2
  <2>2. ASSUME NEW k \in DOMAIN (p \o n)
        PROVE  (p \o n)[k] # ".."
    <3>1. k \in 1 .. Len(p \o n)
      BY <1>1
    <3>2. CASE k <= Len(p)
      BY <1>1, <1>2, <1>4, <3>1, <3>2 DEF Safe, Elements
    <3>3. CASE ~(k <= Len(p))
      <4>1. k - Len(p) \in 1 .. Len(n)
        BY <1>1, <1>2, <3>1, <3>3
      <4>2. k - Len(p) \in DOMAIN n
        BY <4>1
      <4> QED
        BY <1>1, <1>4, <3>1, <3>3, <4>2 DEF Elements
    <3> QED
      BY <3>2, <3>3
  <2> QED
    BY <2>1, <2>2 DEF Safe, Elements
<1> QED
  BY <1>1, <1>3, <1>4
-----------------------------------------------------------------------------
(* What a registered setting is.                                           *)
LEMMA SettingFacts ==
  ASSUME setting \in Settings
  PROVE  /\ \A t \in Registry.targets :
              /\ Adapter(t).owned \subseteq Seq(STRING)
              /\ \A n \in DOMAIN Adapter(t).outputs : Adapter(t).outputs[n] \in Seq(STRING)
         /\ DOMAIN setting.permission = Registry.permissions
         /\ DOMAIN setting.skills = DOMAIN Registry.skills
         /\ \A n \in DOMAIN setting.skills :
              n \in Entries /\ \A f \in setting.skills[n] : f.name \in Entries
<1>1. DOMAIN setting.permission = Registry.permissions /\ DOMAIN setting.skills = DOMAIN Registry.skills
  BY SettingsAssumption
<1>2. ASSUME NEW t \in Registry.targets
      PROVE  /\ Adapter(t).owned \subseteq Seq(STRING)
             /\ \A n \in DOMAIN Adapter(t).outputs : Adapter(t).outputs[n] \in Seq(STRING)
  <2>1. Elements(Adapter(t).outputs) \union Adapter(t).owned \subseteq Seq(STRING)
    BY PathsAssumption DEF Adapter
  <2> QED
    BY <2>1 DEF Elements
<1>3. ASSUME NEW n \in DOMAIN setting.skills
      PROVE  n \in Entries /\ \A f \in setting.skills[n] : f.name \in Entries
  BY PathsAssumption
<1> QED
  BY <1>1, <1>2, <1>3

(* A compiled composition comes from a bundle without diagnostics, for     *)
(* targets that are registered.                                            *)
LEMMA CompiledFacts ==
  ASSUME IInv, composition # None
  PROVE  /\ bundle \in Bundles /\ RuleDiagnostics = {}
         /\ Chosen \subseteq Registry.targets
         /\ composition.ownership = {<<b.state, b.role, b.instance>> : b \in Owners}
         /\ composition.production = Production
         /\ composition.gates = {[state |-> s.name, gate |-> s.gate, role |-> OwnerOf(s.name).role,
                                  instance |-> OwnerOf(s.name).instance] : s \in Gated}
<1>1. PICK selected \in Selections : composition = Composition(selected) /\ SelectionErrors(selected) = {}
  BY DEF IInv, VerdictInv
<1>2. bundle \in Bundles /\ RuleDiagnostics = {}
  BY DEF IInv, TypeInv, VerdictInv
<1>3. ReferenceDiagnostics = {}
  BY <1>2 DEF RuleDiagnostics
<1>4. bundle.targets \subseteq Registry.targets
  BY <1>3 DEF ReferenceDiagnostics, When
<1>5. Targets(selected) \subseteq bundle.targets
  BY <1>1 DEF SelectionErrors, When
<1>6. Chosen = Targets(selected)
  BY <1>1 DEF Composition, Chosen
<1>7. /\ composition.ownership = {<<b.state, b.role, b.instance>> : b \in Owners}
      /\ composition.production = Production
      /\ composition.gates = {[state |-> s.name, gate |-> s.gate, role |-> OwnerOf(s.name).role,
                                instance |-> OwnerOf(s.name).instance] : s \in Gated}
  BY <1>1 DEF Composition
<1> QED
  BY <1>2, <1>4, <1>5, <1>6, <1>7

(* The instances of an accepted bundle have ids of their own, registered   *)
(* permissions, and every binding names one of them.                       *)
LEMMA InstanceFacts ==
  ASSUME bundle \in Bundles, RuleDiagnostics = {}
  PROVE  /\ DOMAIN bundle.instances \subseteq Int
         /\ \A j, k \in DOMAIN bundle.instances :
              bundle.instances[j].id = bundle.instances[k].id => j = k
         /\ \A i \in Instances : i.permission \in Registry.permissions
         /\ \A b \in Bindings : b.instance \in Ids
         /\ bundle.skills \subseteq DOMAIN Registry.skills
         /\ Controller \in Ids
         /\ \A id \in Ids : Slug[id] \in Entries \union {None}
<1>1. ReferenceDiagnostics = {} /\ CollectionDiagnostics = {}
      /\ \A b \in Bindings : BindingDiagnostics(b) = {}
  BY DEF RuleDiagnostics
<1>2. DOMAIN bundle.instances \subseteq Int
  BY BundlesAssumption
<1>3. ASSUME NEW j \in DOMAIN bundle.instances, NEW k \in DOMAIN bundle.instances,
             bundle.instances[j].id = bundle.instances[k].id
      PROVE  j = k
  BY <1>1, <1>3 DEF ReferenceDiagnostics, When, Twice
<1>4. /\ \A i \in Instances : i.permission \in Registry.permissions
      /\ bundle.skills \subseteq DOMAIN Registry.skills
  BY <1>1 DEF ReferenceDiagnostics, When
<1>5. \A b \in Bindings : b.instance \in Ids
  BY <1>1 DEF BindingDiagnostics, When, Ids
<1>6. Controller \in Ids
  <2>1. Cardinality({k \in DOMAIN bundle.bindings : bundle.bindings[k] \in Controllers}) = 1
    BY <1>1 DEF CollectionDiagnostics, When
  <2>2. {k \in DOMAIN bundle.bindings : bundle.bindings[k] \in Controllers} # {}
    BY <2>1, FS_EmptySet
  <2>3. PICK b \in Controllers : TRUE
    BY <2>2
  <2>4. (CHOOSE c \in Controllers : TRUE) \in Controllers
    BY <2>3
  <2> QED
    BY <1>5, <2>4 DEF Controller, Controllers
<1>7. ASSUME NEW id \in Ids
      PROVE  Slug[id] \in Entries \union {None}
  <2>1. id \in DOMAIN Slug
    BY PathsAssumption DEF Ids, Instances
  <2> QED
    BY <2>1, PathsAssumption DEF Elements
<1> QED
  BY <1>2, <1>3, <1>4, <1>5, <1>6, <1>7

(* A name or two below an output path.                                     *)
LEMMA BelowOutput ==
  ASSUME NEW p \in Seq(STRING), NEW m \in Entries, NEW n \in Entries
  PROVE  /\ Append(p, m) \in Seq(STRING) /\ IsPrefix(p, Append(p, m))
         /\ Safe(p) => Safe(Append(p, m))
         /\ p \o <<m, n>> \in Seq(STRING) /\ IsPrefix(p, p \o <<m, n>>)
         /\ Safe(p) => Safe(p \o <<m, n>>)
<1>1. m \in STRING /\ n \in STRING /\ m # ".." /\ n # ".."
  BY DEF Entries
<1>2. Append(p, m) = p \o <<m>>
  BY <1>1, AppendIsConcat
<1>3. <<m>> \in Seq(STRING) /\ <<m>> # <<>> /\ ".." \notin Elements(<<m>>)
  BY <1>1 DEF Elements
<1>4. <<m, n>> \in Seq(STRING) /\ <<m, n>> # <<>> /\ ".." \notin Elements(<<m, n>>)
  BY <1>1 DEF Elements
<1>5. /\ p \o <<m>> \in Seq(STRING) /\ IsPrefix(p, p \o <<m>>)
      /\ Safe(p) => Safe(p \o <<m>>)
  BY <1>3, Below
<1>6. /\ p \o <<m, n>> \in Seq(STRING) /\ IsPrefix(p, p \o <<m, n>>)
      /\ Safe(p) => Safe(p \o <<m, n>>)
  BY <1>4, Below
<1> QED
  BY <1>2, <1>5, <1>6

(* A target is rendered only if its output paths are the expected ones and *)
(* every instance has a file name.                                         *)
LEMMA RenderedFacts ==
  ASSUME NEW t, FileErrors(t) = {}
  PROVE  /\ t \in {"opencode", "vscode-copilot"}
         /\ {"agents", "skills"} \subseteq DOMAIN Adapter(t).outputs
         /\ \A id \in Ids : Slug[id] # None
         /\ \A p \in DOMAIN Files(t) : \E owned \in Adapter(t).owned : IsPrefix(owned, p)
<1>1. t \in DOMAIN Outputs /\ DOMAIN Adapter(t).outputs = Outputs[t]
  BY DEF FileErrors
<1>2. \A id \in Ids : Slug[id] # None
  BY <1>1 DEF FileErrors, When
<1>3. \A p \in DOMAIN Files(t) : \E owned \in Adapter(t).owned : IsPrefix(owned, p)
  BY <1>1, <1>2 DEF FileErrors, When
<1> QED
  BY <1>1, <1>2, <1>3 DEF Outputs

(* Every file is written below one of the output paths of its target.      *)
LEMMA FilePaths ==
  ASSUME bundle \in Bundles, RuleDiagnostics = {}, setting \in Settings,
         NEW t \in Registry.targets, {"agents", "skills"} \subseteq DOMAIN Adapter(t).outputs,
         \A id \in Ids : Slug[id] # None, NEW p \in DOMAIN Files(t)
  PROVE  /\ p \in Seq(STRING)
         /\ \E n \in DOMAIN Adapter(t).outputs :
              IsPrefix(Adapter(t).outputs[n], p) /\ (Safe(Adapter(t).outputs[n]) => Safe(p))
<1> DEFINE out == Adapter(t).outputs
<1>1. \A n \in DOMAIN out : out[n] \in Seq(STRING)
  BY SettingFacts
<1>2. CASE p \in DOMAIN AgentFiles(t)
  <2>1. PICK id \in Ids : p = Append(out["agents"], Slug[id])
    BY <1>2 DEF AgentFiles, AgentPath
  <2>2. Slug[id] \in Entries
    BY InstanceFacts
  <2> QED
    BY <1>1, <2>1, <2>2, BelowOutput
<1>3. CASE p \in DOMAIN SkillFiles(t)
  <2>1. PICK s \in bundle.skills : \E f \in setting.skills[s] : p = out["skills"] \o <<s, f.name>>
    BY <1>3 DEF SkillFiles, SkillPath
  <2>2. PICK f \in setting.skills[s] : p = out["skills"] \o <<s, f.name>>
    BY <2>1
  <2>3. s \in Entries /\ f.name \in Entries
    BY SettingFacts, InstanceFacts
  <2> QED
    BY <1>1, <2>2, <2>3, BelowOutput
<1>4. CASE p \in DOMAIN Rest(t)
  <2>1. PICK n \in DOMAIN out : p = out[n]
    BY <1>4 DEF Rest
  <2>2. IsPrefix(p, p)
    BY <1>1, <2>1, PrefixNames
  <2> QED
    BY <1>1, <2>1, <2>2
<1>5. DOMAIN Files(t) = DOMAIN AgentFiles(t) \union DOMAIN SkillFiles(t) \union DOMAIN Rest(t)
  BY DEF Files, Over
<1> QED
  BY <1>2, <1>3, <1>4, <1>5

(* Each target writes below its own paths and nobody else's: the renderer  *)
(* looks at the first, the registry at the owned paths of all pairs.       *)
LEMMA InvApart ==
  ASSUME IInv, StageInv, RenderedInv
  PROVE  TargetsAreApart
<1> SUFFICES ASSUME rendered # None, NEW t \in Chosen, NEW u \in Chosen, NEW p \in DOMAIN rendered[t]
             PROVE  (\E owned \in Adapter(u).owned : IsPrefix(owned, p)) <=> t = u
  BY DEF TargetsAreApart
<1>1. /\ stage = "rendered" /\ composition # None /\ FileErrors(t) = {} /\ SnapshotDiagnostics = {}
      /\ setting \in Settings /\ rendered[t] = Files(t)
  BY DEF RenderedInv, StageInv
<1>2. bundle \in Bundles /\ RuleDiagnostics = {} /\ {t, u} \subseteq Registry.targets
  BY <1>1, CompiledFacts
<1>3. PICK mine \in Adapter(t).owned : IsPrefix(mine, p)
  BY <1>1, RenderedFacts
<1>4. p \in Seq(STRING)
  BY <1>1, <1>2, RenderedFacts, FilePaths
<1>5. ASSUME t # u, NEW owned \in Adapter(u).owned, IsPrefix(owned, p)
      PROVE  FALSE
  <2>1. mine \in Seq(STRING) /\ owned \in Seq(STRING)
    BY <1>1, <1>2, SettingFacts
  <2>2. Overlap(mine, owned)
    BY <1>3, <1>4, <1>5, <2>1, PrefixesOverlap
  <2>3. TargetDiagnostics(t) = {}
    BY <1>1, <1>2 DEF SnapshotDiagnostics
  <2>4. u \in Registry.targets \ {t}
    BY <1>2, <1>5
  <2>5. ~\E v \in Registry.targets \ {t} : \E q \in Adapter(t).owned, r \in Adapter(v).owned : Overlap(q, r)
    BY <2>3 DEF TargetDiagnostics, When
  <2> QED
    BY <2>2, <2>4, <2>5
<1> QED
  BY <1>3, <1>5
-----------------------------------------------------------------------------
(* No skill and no other output takes the place of an agent file, and the  *)
(* agents do not take each other's.                                        *)
LEMMA AgentFileFacts ==
  ASSUME bundle \in Bundles, RuleDiagnostics = {}, setting \in Settings, Distinguishable,
         NEW t \in Chosen, t \in Registry.targets,
         {"agents", "skills"} \subseteq DOMAIN Adapter(t).outputs,
         \A id \in Ids : Slug[id] # None, NEW i \in Instances
  PROVE  Files(t)[AgentPath(t, i.id)] = Agent(t, i)
<1> DEFINE out == Adapter(t).outputs
           path == AgentPath(t, i.id)
<1>1. /\ \A n \in DOMAIN out : out[n] \in Seq(STRING)
      /\ \A id \in Ids : Slug[id] \in Entries
  BY SettingFacts, InstanceFacts
<1>2. i.id \in Ids
  BY DEF Ids
<1>3. path \in Seq(STRING) /\ IsPrefix(out["agents"], path)
  BY <1>1, <1>2, BelowOutput DEF AgentPath
<1>4. \A m, n \in DOMAIN out : m # n => ~Overlap(out[m], out[n])
  BY DEF Distinguishable
<1>5. path \notin DOMAIN Rest(t)
  <2> SUFFICES ASSUME path \in DOMAIN Rest(t) PROVE FALSE
    OBVIOUS
  <2>1. PICK n \in DOMAIN out \ {"agents", "skills"} : path = out[n]
    BY DEF Rest
  <2>2. Overlap(out["agents"], out[n])
    BY <1>3, <2>1 DEF Overlap
  <2> QED
    BY <1>4, <2>1, <2>2
<1>6. path \notin DOMAIN SkillFiles(t)
  <2> SUFFICES ASSUME path \in DOMAIN SkillFiles(t) PROVE FALSE
    OBVIOUS
  <2>1. PICK s \in bundle.skills : \E f \in setting.skills[s] : path = out["skills"] \o <<s, f.name>>
    BY DEF SkillFiles, SkillPath
  <2>2. PICK f \in setting.skills[s] : path = out["skills"] \o <<s, f.name>>
    BY <2>1
  <2>3. s \in Entries /\ f.name \in Entries
    BY SettingFacts, InstanceFacts
  <2>4. IsPrefix(out["skills"], path)
    BY <1>1, <2>2, <2>3, BelowOutput
  <2>5. Overlap(out["agents"], out["skills"])
    BY <1>1, <1>3, <2>4, PrefixesOverlap
  <2> QED
    BY <1>4, <2>5
<1>7. path \in DOMAIN AgentFiles(t)
  BY <1>2 DEF AgentFiles
<1>8. Files(t)[path] = AgentFiles(t)[path]
  BY <1>5, <1>6, <1>7 DEF Files, Over
<1>9. PICK k \in DOMAIN bundle.instances : i = bundle.instances[k]
  BY DEF Instances, Elements
<1> DEFINE Writes(j) == AgentPath(t, bundle.instances[j].id) = path
           Final(j) == Writes(j) /\ \A l \in DOMAIN bundle.instances : Writes(l) => l <= j
<1>10. ASSUME NEW j \in DOMAIN bundle.instances, Writes(j)
       PROVE  j = k
  <2> DEFINE id == bundle.instances[j].id
  <2>1. id \in Ids
    BY DEF Ids, Instances, Elements
  <2>2. Append(out["agents"], Slug[id]) = Append(out["agents"], Slug[i.id])
    BY <1>10 DEF AgentPath
  <2>3. Slug[id] \in STRING /\ Slug[i.id] \in STRING
    BY <1>1, <1>2, <2>1 DEF Entries
  <2>4. Slug[id] = Slug[i.id]
    BY <1>1, <2>2, <2>3, AppendInjective
  <2>5. id = i.id
    BY <1>2, <2>1, <2>4 DEF Distinguishable
  <2> QED
    BY <1>9, <2>5, InstanceFacts
<1>11. Writes(k) /\ k <= k
  BY <1>9, InstanceFacts
<1>12. (CHOOSE j \in DOMAIN bundle.instances : Final(j)) = k
  <2>1. Final(k) /\ \A j \in DOMAIN bundle.instances : Final(j) => j = k
    BY <1>10, <1>11
  <2> QED
    BY <1>9, <2>1
<1>13. AgentFiles(t)[path] = Agent(t, bundle.instances[CHOOSE j \in DOMAIN bundle.instances : Final(j)])
  BY <1>7 DEF AgentFiles
<1> QED
  BY <1>8, <1>9, <1>12, <1>13

(* What a profile may be, and what the renderer has asked of its mapping.  *)
LEMMA NativeFacts ==
  ASSUME setting \in Settings, NEW t \in {"opencode", "vscode-copilot"}, NEW i \in Instances,
         i.permission \in Registry.permissions, NativeErrors(t, i) = {}
  PROVE  LET p == Permission(i)
             native == Adapter(t).mapping[i.permission]
         IN  /\ {p.read, p.write, p.edit} \subseteq BOOLEAN
             /\ p.bash \in {"deny", "limited", "allow"}
             /\ p.read /\ p.write = p.edit
             /\ t = "opencode" => /\ native.edit = IF p.edit THEN "allow" ELSE "deny"
                                  /\ native.bash = Native[p.bash]
             /\ t = "vscode-copilot" => /\ ("editFiles" \in native.tools) = p.edit
                                        /\ ("runInTerminal" \in native.tools) = (p.bash # "deny")
<1> DEFINE p == Permission(i)
           native == Adapter(t).mapping[i.permission]
<1>1. p \in Elements(setting.permission)
  BY SettingFacts DEF Permission, Elements
<1>2. {p.read, p.write, p.edit} \subseteq BOOLEAN /\ p.bash \in {"deny", "limited", "allow"}
  BY <1>1, FormsAssumption
<1>3. CASE t = "opencode"
  <2>1. OpencodeErrors(native, p) = {}
    BY <1>3 DEF NativeErrors
  <2> HIDE DEF p, native
  <2> QED
    BY <1>2, <1>3, <2>1 DEF OpencodeErrors, When, p, native
<1>4. CASE t = "vscode-copilot"
  <2>1. CopilotErrors(native, p) = {}
    BY <1>4 DEF NativeErrors
  <2> QED
    BY <1>2, <1>4, <2>1 DEF CopilotErrors, When
<1> QED
  BY <1>3, <1>4

LEMMA InvGranted ==
  ASSUME IInv, StageInv, RenderedInv
  PROVE  AuthorityIsPreserved
<1> SUFFICES ASSUME rendered # None, Distinguishable, NEW t \in Chosen, NEW i \in Instances
             PROVE  Granted(t, rendered[t][AgentPath(t, i.id)]) = Authorized(Permission(i))
  BY DEF AuthorityIsPreserved
<1> DEFINE p == Permission(i)
           native == Adapter(t).mapping[i.permission]
           agent == rendered[t][AgentPath(t, i.id)]
<1>1. /\ stage = "rendered" /\ composition # None /\ FileErrors(t) = {}
      /\ RepresentationErrors = {} /\ setting \in Settings /\ rendered[t] = Files(t)
  BY DEF RenderedInv, StageInv
<1>2. bundle \in Bundles /\ RuleDiagnostics = {} /\ t \in Registry.targets
  BY <1>1, CompiledFacts
<1>3. agent = Agent(t, i)
  BY <1>1, <1>2, RenderedFacts, AgentFileFacts
<1>4. agent.native = native /\ agent.prerequisite = (t = "vscode-copilot" /\ p.bash = "limited")
  BY <1>3 DEF Agent
<1>5. NativeErrors(t, i) = {}
  BY <1>1 DEF RepresentationErrors
<1>6. t \in {"opencode", "vscode-copilot"} /\ i.permission \in Registry.permissions
  BY <1>1, <1>2, RenderedFacts, InstanceFacts
<1>7. /\ {p.read, p.write, p.edit} \subseteq BOOLEAN /\ p.bash \in {"deny", "limited", "allow"}
      /\ p.read /\ p.write = p.edit
      /\ t = "opencode" => /\ native.edit = IF p.edit THEN "allow" ELSE "deny"
                           /\ native.bash = Native[p.bash]
      /\ t = "vscode-copilot" => /\ ("editFiles" \in native.tools) = p.edit
                                 /\ ("runInTerminal" \in native.tools) = (p.bash # "deny")
  BY <1>1, <1>5, <1>6, NativeFacts
<1> HIDE DEF agent, native, p
<1>8. Granted(t, agent) = Authorized(p)
  <2>1. CASE t = "opencode"
    BY <1>4, <1>7, <2>1 DEF Granted, Authorized, Native, When
  <2>2. CASE t = "vscode-copilot"
    BY <1>4, <1>7, <2>2 DEF Granted, Authorized, When
  <2> QED
    BY <1>6, <2>1, <2>2
<1> QED
  BY <1>8 DEF agent, p
-----------------------------------------------------------------------------
(* The states of the registered workflow are those of the bundle's, and    *)
(* their names are apart.                                                  *)
LEMMA FlowStates ==
  ASSUME bundle \in Bundles, RuleDiagnostics = {}, setting \in Settings
  PROVE  /\ Workflow!States = States /\ Workflow!Gated = Gated
         /\ Workflow!Names = {s.name : s \in States}
         /\ Workflow!Terminals = Ends
         /\ \A s, q \in States : s.name = q.name => s = q
         /\ \A s \in Gated : s.name \notin Ends
         /\ {s.name : s \in States} \ Ends = {s.name : s \in Gated}
<1>1. bundle.workflow \in DOMAIN Workflows
  BY DEF RuleDiagnostics, ReferenceDiagnostics, When
<1>2. States = Elements(Flow.states)
  BY <1>1, SettingsAssumption DEF States, Workflows, Flow
<1>3. Workflow!States = States
  BY <1>2 DEF Workflow!States, Workflow!Elements, Elements
<1>4. Workflow!Gated = Gated
  BY <1>3 DEF Workflow!Gated, Gated
<1>5. Workflow!Names = {s.name : s \in States} /\ Workflow!Terminals = Ends
  BY <1>3, <1>4 DEF Workflow!Names, Workflow!Terminals, Ends
<1>6. \A s, q \in States : s.name = q.name => s = q
  BY <1>1, WorkflowsAssumption DEF States, Workflows
<1>7. \A s \in Gated : s.name \notin Ends
  BY <1>6 DEF Gated, Ends
<1>8. {s.name : s \in States} \ Ends = {s.name : s \in Gated}
  BY <1>7 DEF Gated, Ends
<1> QED
  BY <1>3, <1>4, <1>5, <1>6, <1>7, <1>8

(* What the rules for workflows leave of an accepted one.                  *)
LEMMA FlowFacts ==
  ASSUME bundle \in Bundles, RuleDiagnostics = {}, setting \in Settings, SnapshotDiagnostics = {}
  PROVE  /\ Flow.start \in {s.name : s \in Gated}
         /\ Flow.failure \in Ends
         /\ \A t \in Transitions :
              /\ {t.from, t.to} \subseteq {s.name : s \in States} /\ t.from \notin Ends
              /\ t.on = "blocked" => t.to = Flow.failure
              /\ t.on = "pass" => t.to # Flow.failure
              /\ t = [from |-> t.from, on |-> t.on, to |-> t.to]
         /\ \A s \in Gated : /\ "TestReport" \in s.gate.artifacts <=> s.gate.evidence # <<>>
                             /\ ~Twice(s.gate.evidence)
<1>1. Workflow!RuleDiagnostics = {}
  BY DEF SnapshotDiagnostics, WorkflowDiagnostics
<1>2. /\ Workflow!StateDiagnostics = {} /\ Workflow!EndpointDiagnostics = {}
      /\ \A s \in Gated : Workflow!GateDiagnostics(s.gate) = {}
  BY <1>1, FlowStates DEF Workflow!RuleDiagnostics
<1>3. Workflow!Routes = Transitions
  BY DEF Workflow!Routes, Workflow!Elements, Transitions, Elements
<1>4. /\ Flow.start \in Workflow!Names \ Workflow!Terminals
      /\ Flow.failure \in Workflow!Terminals
  BY <1>2 DEF Workflow!StateDiagnostics, Workflow!When
<1>5. \A t \in Transitions :
        /\ {t.from, t.to} \subseteq {s.name : s \in States} /\ t.from \notin Ends
        /\ t.on = "blocked" => t.to = Flow.failure
        /\ t.on = "pass" => t.to # Flow.failure
  BY <1>2, <1>3, FlowStates DEF Workflow!EndpointDiagnostics, Workflow!When
<1>6. \A t \in Transitions : t = [from |-> t.from, on |-> t.on, to |-> t.to]
  BY FormsAssumption DEF Transitions, Flow
<1>7. \A s \in Gated : /\ "TestReport" \in s.gate.artifacts <=> s.gate.evidence # <<>>
                       /\ ~Twice(s.gate.evidence)
  BY <1>2 DEF Workflow!GateDiagnostics, Workflow!When, Workflow!Twice, Twice
<1>8. Flow.start \in {s.name : s \in Gated} /\ Flow.failure \in Ends
  BY <1>4, FlowStates
<1> QED
  BY <1>5, <1>6, <1>7, <1>8

(* Each result of a state with a gate is routed once.                      *)
LEMMA RouteFacts ==
  ASSUME bundle \in Bundles, RuleDiagnostics = {}, setting \in Settings, SnapshotDiagnostics = {},
         NEW s \in Gated, NEW r \in {"pass", "fail", "blocked"}
  PROVE  \E k \in DOMAIN Flow.transitions :
           {j \in DOMAIN Flow.transitions :
              Flow.transitions[j].from = s.name /\ Flow.transitions[j].on = r} = {k}
<1>1. Workflow!ResultDiagnostics = {}
  BY DEF SnapshotDiagnostics, WorkflowDiagnostics, Workflow!RuleDiagnostics
<1>2. Workflow!Results \subseteq Workflow!Declared(s.name)
  BY <1>1, FlowStates DEF Workflow!ResultDiagnostics, Workflow!When
<1>3. PICK t \in Transitions : t.from = s.name /\ t.on = r
  BY <1>2 DEF Workflow!Results, Workflow!Declared, Workflow!Routes, Workflow!Elements,
              Transitions, Elements
<1>4. PICK k \in DOMAIN Flow.transitions : t = Flow.transitions[k]
  BY DEF Transitions, Elements
<1>5. ASSUME NEW j \in DOMAIN Flow.transitions,
             Flow.transitions[j].from = s.name, Flow.transitions[j].on = r
      PROVE  j = k
  <2> DEFINE keys == [l \in DOMAIN Flow.transitions |-> <<Flow.transitions[l].from, Flow.transitions[l].on>>]
  <2>1. ~Workflow!Twice(keys)
    BY <1>1 DEF Workflow!ResultDiagnostics, Workflow!When
  <2>2. keys[j] = keys[k]
    BY <1>3, <1>4, <1>5
  <2> QED
    BY <2>1, <2>2 DEF Workflow!Twice
<1> QED
  BY <1>3, <1>4, <1>5

(* No rule for routes of the renderer can fail.                            *)
LEMMA RoutingRepresentable ==
  ASSUME IInv, composition # None, setting \in Settings, SnapshotDiagnostics = {}
  PROVE  RoutingErrors = {}
<1>1. bundle \in Bundles /\ RuleDiagnostics = {}
  BY CompiledFacts
<1>2. composition.ownership = {<<b.state, b.role, b.instance>> : b \in Owners}
  BY CompiledFacts
<1>3. ASSUME NEW s \in Gated
      PROVE  Cardinality(OwnersOf(s.name)) = 1
  <2> DEFINE o == OwnerOf(s.name)
  <2>1. o \in Owners /\ o.state = s.name /\ \A b \in Owners : b.state = s.name => b = o
    BY <1>1, GateOwner
  <2> HIDE DEF o
  <2>2. OwnersOf(s.name) = {<<o.state, o.role, o.instance>>}
    BY <1>2, <2>1 DEF OwnersOf
  <2> QED
    BY <2>2, FS_Singleton
<1>4. ASSUME NEW b \in Owners
      PROVE  b.instance \in Ids /\ b.state \in {s.name : s \in Gated}
  <2>1. b \in Bindings /\ b.instance \in Ids
    BY <1>1, InstanceFacts DEF Owners
  <2>2. OwnershipDiagnostics = {} /\ ReferenceDiagnostics = {}
    BY <1>1 DEF RuleDiagnostics
  <2>3. bundle.workflow \in DOMAIN Workflows
    BY <2>2 DEF ReferenceDiagnostics, When
  <2>4. OwnerDiagnostics(b) = {}
    BY <2>2, <2>3 DEF OwnershipDiagnostics
  <2> QED
    BY <2>1, <2>4 DEF OwnerDiagnostics
<1>5. \A o \in composition.ownership : o[3] \in Ids /\ o[1] \notin Ends
  BY <1>1, <1>2, <1>4, FlowStates
<1>6. ASSUME NEW s \in Gated, NEW r \in {"pass", "fail", "blocked"}
      PROVE  Cardinality({k \in DOMAIN Flow.transitions :
               Flow.transitions[k].from = s.name /\ Flow.transitions[k].on = r}) = 1
  <2> DEFINE same == {k \in DOMAIN Flow.transitions :
                        Flow.transitions[k].from = s.name /\ Flow.transitions[k].on = r}
  <2>1. PICK k \in DOMAIN Flow.transitions : same = {k}
    BY <1>1, RouteFacts
  <2> HIDE DEF same
  <2>2. Cardinality(same) = 1
    BY <2>1, FS_Singleton
  <2> QED
    BY <2>2 DEF same
<1>7. Controller \in Ids
  BY <1>1, InstanceFacts
<1> QED
  BY <1>1, <1>3, <1>5, <1>6, <1>7, FlowFacts DEF RoutingErrors, When
-----------------------------------------------------------------------------
(* A binding is the only one of its role.                                  *)
LEMMA BoundOnce ==
  ASSUME bundle \in Bundles, RuleDiagnostics = {}, NEW b \in Bindings
  PROVE  BoundTo(b.role, b.instance) = {b} /\ Cardinality(BoundTo(b.role, b.instance)) = 1
<1>1. \A c \in Bindings : c.role = b.role => c = b
  BY BindingFacts
<1>2. BoundTo(b.role, b.instance) = {b}
  BY <1>1 DEF BoundTo
<1> QED
  BY <1>2, FS_Singleton

(* A gate of the composition, its state and its owner.                     *)
LEMMA GateFacts ==
  ASSUME IInv, composition # None, NEW g \in composition.gates
  PROVE  \E s \in Gated, o \in Owners :
           /\ g.state = s.name /\ g.gate = s.gate /\ g.role = o.role /\ g.instance = o.instance
           /\ o.state = s.name /\ o.gate = s.gate.name
           /\ s.gate.artifacts \subseteq o.produces
           /\ s.gate.capabilities \subseteq o.capabilities
<1>1. bundle \in Bundles /\ RuleDiagnostics = {}
  BY CompiledFacts
<1>2. PICK s \in Gated : g = [state |-> s.name, gate |-> s.gate, role |-> OwnerOf(s.name).role,
                              instance |-> OwnerOf(s.name).instance]
  BY CompiledFacts
<1> DEFINE o == OwnerOf(s.name)
<1>3. /\ o \in Owners /\ o.state = s.name /\ o.gate = s.gate.name
      /\ s.gate.artifacts \subseteq o.produces /\ s.gate.capabilities \subseteq o.capabilities
  BY <1>1, GateOwner
<1>4. g.state = s.name /\ g.gate = s.gate /\ g.role = o.role /\ g.instance = o.instance
  BY <1>2
<1> HIDE DEF o
<1> QED
  BY <1>3, <1>4

(* What is asked of the evidence of a gate's tests: only that its report   *)
(* has the three verdicts can fail.                                        *)
LEMMA TestRepresentable ==
  ASSUME IInv, composition # None, setting \in Settings, SnapshotDiagnostics = {},
         NEW g \in composition.gates
  PROVE  TestErrors(g) \subseteq {"statuses"}
<1>1. bundle \in Bundles /\ RuleDiagnostics = {}
  BY CompiledFacts
<1>2. PICK s \in Gated, o \in Owners : g.gate = s.gate /\ g.instance = o.instance
  BY GateFacts
<1>3. /\ "TestReport" \in g.gate.artifacts <=> g.gate.evidence # <<>>
      /\ ~Twice(g.gate.evidence)
  BY <1>1, <1>2, FlowFacts
<1>4. g.instance \in Ids
  BY <1>1, <1>2, InstanceFacts DEF Owners
<1>5. StatusErrors("TestReport") \subseteq {"statuses"}
  BY DEF StatusErrors, When
<1> QED
  BY <1>3, <1>4, <1>5 DEF TestErrors, When

(* What is asked of a gate with an AI evaluation: only its inputs, its     *)
(* permission and the verdicts can fail.                                   *)
LEMMA EvaluationRepresentable ==
  ASSUME IInv, composition # None, NEW g \in composition.gates
  PROVE  EvaluationErrors(g) \subseteq {"statuses", "evaluationInputs", "evaluationPermission"}
<1> SUFFICES ASSUME "AIEvaluationReport" \in g.gate.artifacts
             PROVE  EvaluationErrors(g) \subseteq {"statuses", "evaluationInputs", "evaluationPermission"}
  BY DEF EvaluationErrors
<1>1. bundle \in Bundles /\ RuleDiagnostics = {} /\ composition.production = Production
  BY CompiledFacts
<1>2. PICK s \in Gated, o \in Owners :
        /\ g.state = s.name /\ g.gate = s.gate /\ g.role = o.role /\ g.instance = o.instance
        /\ o.state = s.name /\ o.gate = s.gate.name
        /\ s.gate.artifacts \subseteq o.produces
        /\ s.gate.capabilities \subseteq o.capabilities
  BY GateFacts
<1>3. BoundTo(g.role, g.instance) = {o} /\ Cardinality(BoundTo(g.role, g.instance)) = 1
  BY <1>1, <1>2, BoundOnce DEF Owners
<1>4. OwnerErrors(g, o) \subseteq {"evaluationInputs"}
  BY <1>2 DEF OwnerErrors, When
<1>5. <<"AIEvaluationReport", g.role, g.instance>> \in composition.production
  BY <1>1, <1>2 DEF Production
<1>6. StatusErrors("AIEvaluationReport") \subseteq {"statuses"}
  BY DEF StatusErrors, When
<1>7. (UNION {OwnerErrors(g, b) : b \in BoundTo(g.role, g.instance)}) \subseteq {"evaluationInputs"}
  BY <1>3, <1>4
<1> QED
  BY <1>3, <1>5, <1>6, <1>7 DEF EvaluationErrors, When

(* What is produced has one producer.                                      *)
LEMMA ProductionRepresentable ==
  ASSUME IInv, composition # None, NEW p \in composition.production
  PROVE  ProductionErrors(p) = {}
<1>1. bundle \in Bundles /\ RuleDiagnostics = {} /\ composition.production = Production
  BY CompiledFacts
<1>2. PICK b \in Owners : \E a \in b.produces : p = <<a, b.role, b.instance>>
  BY <1>1 DEF Production
<1>3. b \in Bindings /\ p[1] \in b.produces /\ p[2] = b.role /\ p[3] = b.instance
  BY <1>2 DEF Owners
<1>4. BoundTo(p[2], p[3]) = {b} /\ Cardinality(BoundTo(p[2], p[3])) = 1
  BY <1>1, <1>3, BoundOnce
<1>5. p[3] \in Ids
  BY <1>1, <1>3, InstanceFacts
<1> QED
  BY <1>2, <1>3, <1>4, <1>5 DEF ProductionErrors, When

(* A mapping covers the profiles; what it says may not be representable.   *)
LEMMA NativeErrorsBound ==
  ASSUME SnapshotDiagnostics = {}, NEW t \in Registry.targets, NEW i,
         i.permission \in Registry.permissions
  PROVE  NativeErrors(t, i) \subseteq
           {"unknownSetting", "missingSetting", "unrepresentable", "edit", "bash", "tools"}
<1>1. DOMAIN Adapter(t).mapping = Registry.permissions
  BY DEF SnapshotDiagnostics, TargetDiagnostics, When
<1>2. \A native, p : OpencodeErrors(native, p) \subseteq
        {"unknownSetting", "missingSetting", "unrepresentable", "edit", "bash"}
  BY DEF OpencodeErrors, When
<1>3. \A native, p : CopilotErrors(native, p) \subseteq
        {"unknownSetting", "missingSetting", "unrepresentable", "edit", "bash", "tools"}
  BY DEF CopilotErrors, When
<1>4. CASE t = "opencode"
  BY <1>1, <1>2, <1>4 DEF NativeErrors
<1>5. CASE t = "vscode-copilot"
  BY <1>1, <1>3, <1>5 DEF NativeErrors
<1>6. CASE t # "opencode" /\ t # "vscode-copilot"
  BY <1>1, <1>6 DEF NativeErrors
<1> QED
  BY <1>4, <1>5, <1>6

LEMMA RepresentationBound ==
  ASSUME IInv, composition # None, setting \in Settings, SnapshotDiagnostics = {}
  PROVE  RepresentationErrors \subseteq
           {"statuses", "evaluationInputs", "evaluationPermission", "unknownSetting",
            "missingSetting", "unrepresentable", "edit", "bash", "tools"}
<1>1. bundle \in Bundles /\ RuleDiagnostics = {} /\ Chosen \subseteq Registry.targets
  BY CompiledFacts
<1>2. RoutingErrors = {}
  BY RoutingRepresentable
<1>3. \A g \in composition.gates : TestErrors(g) \union EvaluationErrors(g) \subseteq
        {"statuses", "evaluationInputs", "evaluationPermission"}
  BY TestRepresentable, EvaluationRepresentable
<1>4. \A p \in composition.production : ProductionErrors(p) = {}
  BY ProductionRepresentable
<1>5. \A i \in Instances : i.permission \in Registry.permissions
  BY <1>1, InstanceFacts
<1>6. \A t \in Chosen, i \in Instances : NativeErrors(t, i) \subseteq
        {"unknownSetting", "missingSetting", "unrepresentable", "edit", "bash", "tools"}
  BY <1>1, <1>5, NativeErrorsBound
<1> QED
  BY <1>2, <1>3, <1>4, <1>6 DEF RepresentationErrors

(* What is written lies where the registry has checked that it may.        *)
LEMMA FilesBound ==
  ASSUME bundle \in Bundles, RuleDiagnostics = {}, setting \in Settings, SnapshotDiagnostics = {},
         NEW t \in Registry.targets
  PROVE  FileErrors(t) \subseteq {"unsupportedTarget", "outputPaths", "slug", "skillFiles"}
<1> SUFFICES ASSUME t \in DOMAIN Outputs, DOMAIN Adapter(t).outputs = Outputs[t],
                    \A id \in Ids : Slug[id] # None, NEW p \in DOMAIN Files(t)
             PROVE  Safe(p) /\ \E owned \in Adapter(t).owned : IsPrefix(owned, p)
  BY DEF FileErrors, When
<1>1. {"agents", "skills"} \subseteq DOMAIN Adapter(t).outputs
  BY DEF Outputs
<1>2. p \in Seq(STRING)
  BY <1>1, FilePaths
<1>3. PICK n \in DOMAIN Adapter(t).outputs :
        IsPrefix(Adapter(t).outputs[n], p) /\ (Safe(Adapter(t).outputs[n]) => Safe(p))
  BY <1>1, FilePaths
<1> DEFINE out == Adapter(t).outputs[n]
<1>4. out \in Elements(Adapter(t).outputs)
  BY DEF Elements
<1>5. TargetDiagnostics(t) = {}
  BY DEF SnapshotDiagnostics
<1>6. Safe(out) /\ \E owned \in Adapter(t).owned : IsPrefix(owned, out)
  BY <1>4, <1>5 DEF TargetDiagnostics, When
<1>7. PICK owned \in Adapter(t).owned : IsPrefix(owned, out)
  BY <1>6
<1>8. owned \in Seq(STRING) /\ out \in Seq(STRING)
  BY SettingFacts
<1>9. IsPrefix(owned, p)
  BY <1>2, <1>3, <1>7, <1>8, PrefixTransitive
<1> QED
  BY <1>3, <1>6, <1>9

LEMMA InvRepresentable ==
  ASSUME IInv, StageInv
  PROVE  ValidatedIsRepresentable
<1>1. CASE stage # "failed" \/ failures = {"registry"}
  BY <1>1 DEF StageInv, ValidatedIsRepresentable
<1>2. CASE stage = "failed" /\ failures # {"registry"}
  <2>1. setting \in Settings /\ SnapshotDiagnostics = {} /\ composition # None
    BY <1>2 DEF StageInv
  <2>2. bundle \in Bundles /\ RuleDiagnostics = {} /\ Chosen \subseteq Registry.targets
    BY <2>1, CompiledFacts
  <2>3. CASE failures = RepresentationErrors
    BY <2>1, <2>3, RepresentationBound DEF ValidatedIsRepresentable
  <2>4. CASE failures = UNION {FileErrors(t) : t \in Chosen}
    <3>1. \A t \in Chosen : FileErrors(t) \subseteq {"unsupportedTarget", "outputPaths", "slug", "skillFiles"}
      BY <2>1, <2>2, FilesBound
    <3> QED
      BY <2>4, <3>1 DEF ValidatedIsRepresentable
  <2> QED
    BY <1>2, <2>3, <2>4 DEF StageInv
<1> QED
  BY <1>1, <1>2
-----------------------------------------------------------------------------
(* The owner of a state with a gate, as the renderer looks it up.          *)
LEMMA OwnerFacts ==
  ASSUME IInv, composition # None, NEW s \in Gated
  PROVE  \E o \in Owners : o.state = s.name /\ Owner(s.name) = o.instance /\ Owner(s.name) \in Ids
<1>1. /\ bundle \in Bundles /\ RuleDiagnostics = {}
      /\ composition.ownership = {<<b.state, b.role, b.instance>> : b \in Owners}
  BY CompiledFacts
<1> DEFINE o == OwnerOf(s.name)
<1>2. o \in Owners /\ o.state = s.name /\ \A b \in Owners : b.state = s.name => b = o
  BY <1>1, GateOwner
<1> HIDE DEF o
<1>3. OwnersOf(s.name) = {<<o.state, o.role, o.instance>>}
  BY <1>1, <1>2 DEF OwnersOf
<1>4. Owner(s.name) = o.instance
  <2> DEFINE owned == <<o.state, o.role, o.instance>>
  <2>1. owned[3] = o.instance
    OBVIOUS
  <2> HIDE DEF owned
  <2>2. (CHOOSE x \in OwnersOf(s.name) : TRUE) = owned
    BY <1>3 DEF owned
  <2> QED
    BY <2>1, <2>2 DEF Owner
<1>5. o.instance \in Ids
  BY <1>1, <1>2, InstanceFacts DEF Owners
<1> QED
  BY <1>2, <1>4, <1>5

(* The agent file that stands for an id, in what has been rendered.        *)
LEMMA OpenedFacts ==
  ASSUME IInv, StageInv, RenderedInv, stage = "rendered", Distinguishable,
         NEW t \in Chosen, NEW id \in Ids
  PROVE  /\ Opened(t, Slug[id]) = rendered[t][AgentPath(t, id)]
         /\ \E i \in Instances : i.id = id /\ rendered[t][AgentPath(t, id)] = Agent(t, i)
<1>1. /\ composition # None /\ FileErrors(t) = {} /\ setting \in Settings /\ rendered[t] = Files(t)
  BY DEF RenderedInv, StageInv
<1>2. bundle \in Bundles /\ RuleDiagnostics = {} /\ t \in Registry.targets
  BY <1>1, CompiledFacts
<1>3. PICK i \in Instances : i.id = id
  BY DEF Ids
<1>4. Files(t)[AgentPath(t, i.id)] = Agent(t, i)
  BY <1>1, <1>2, RenderedFacts, AgentFileFacts
<1>5. Opened(t, Slug[id]) = rendered[t][AgentPath(t, id)]
  BY DEF Opened, AgentPath
<1> QED
  BY <1>1, <1>3, <1>4, <1>5

(* What the controller of a session has been told.                         *)
LEMMA ControllerFacts ==
  ASSUME IInv, StageInv, RenderedInv, SessionInv, session # None, Distinguishable
  PROVE  session.controller.handoffs = Handoffs /\ session.controller.routes = Transitions
<1>1. /\ stage = "rendered" /\ composition # None
      /\ session.target \in Chosen /\ session.target = "vscode-copilot"
      /\ session.controller = rendered[session.target][AgentPath(session.target, Controller)]
  BY DEF RenderedInv, SessionInv
<1>2. Controller \in Ids
  BY <1>1, CompiledFacts, InstanceFacts
<1>3. PICK i \in Instances : i.id = Controller /\ session.controller = Agent(session.target, i)
  BY <1>1, <1>2, OpenedFacts
<1> QED
  BY <1>1, <1>3 DEF Agent

(* From a state with a gate each result leads one way, and that way is a   *)
(* transition of the workflow.                                             *)
LEMMA OneWay ==
  ASSUME IInv, StageInv, RenderedInv, SessionInv, session # None, Distinguishable,
         NEW s \in Gated, session.state = s.name, NEW r \in {"pass", "fail", "blocked"}
  PROVE  \E u \in Transitions :
           /\ u = [from |-> s.name, on |-> r, to |-> u.to]
           /\ Ways(r) = {[to |-> u.to, worker |-> IF u.to \in Ends THEN None
                                                  ELSE Opened(session.target, Slug[Owner(u.to)])]}
<1>1. /\ stage = "rendered" /\ composition # None /\ setting \in Settings /\ SnapshotDiagnostics = {}
      /\ bundle \in Bundles /\ RuleDiagnostics = {}
  BY CompiledFacts DEF RenderedInv, StageInv
<1>2. PICK k \in DOMAIN Flow.transitions :
        {j \in DOMAIN Flow.transitions :
           Flow.transitions[j].from = s.name /\ Flow.transitions[j].on = r} = {k}
  BY <1>1, RouteFacts
<1> DEFINE u == Flow.transitions[k]
<1>3. u \in Transitions /\ u.from = s.name /\ u.on = r
  BY <1>2 DEF Transitions, Elements
<1>4. \A v \in Transitions : v.from = s.name /\ v.on = r => v = u
  BY <1>2 DEF Transitions, Elements
<1>5. u = [from |-> s.name, on |-> r, to |-> u.to]
  BY <1>1, <1>3, FlowFacts
<1> DEFINE handed == {g \in Handoffs : g.from = s.name /\ g.on = r}
           ended == {v \in Transitions : v.from = s.name /\ v.on = r /\ v.to \in Ends}
           Handoff(v) == [from |-> v.from, on |-> v.on, to |-> v.to, agent |-> Slug[Owner(v.to)]]
<1> HIDE DEF u
<1>6. Ways(r) = {[to |-> h.to, worker |-> Opened(session.target, h.agent)] : h \in handed}
                \union {[to |-> v.to, worker |-> None] : v \in ended}
  BY ControllerFacts DEF Ways
<1>7. handed = {Handoff(v) : v \in {w \in Transitions : w.from = s.name /\ w.on = r /\ w.to \notin Ends}}
  <2>1. r # None
    BY FormsAssumption
  <2> QED
    BY <2>1 DEF Handoffs
<1>8. CASE u.to \in Ends
  <2>1. ended = {u}
    BY <1>3, <1>4, <1>8
  <2>2. handed = {}
    BY <1>4, <1>7, <1>8
  <2> HIDE DEF handed, ended
  <2>3. Ways(r) = {[to |-> u.to, worker |-> None]}
    BY <1>6, <2>1, <2>2
  <2> QED
    BY <1>3, <1>5, <1>8, <2>3
<1>9. CASE u.to \notin Ends
  <2>1. ended = {}
    BY <1>4, <1>9
  <2>2. {w \in Transitions : w.from = s.name /\ w.on = r /\ w.to \notin Ends} = {u}
    BY <1>3, <1>4, <1>9
  <2>3. handed = {Handoff(u)}
    BY <1>7, <2>2
  <2>4. Handoff(u).to = u.to /\ Handoff(u).agent = Slug[Owner(u.to)]
    OBVIOUS
  <2> HIDE DEF handed, ended, Handoff
  <2>5. Ways(r) = {[to |-> u.to, worker |-> Opened(session.target, Slug[Owner(u.to)])]}
    BY <1>6, <2>1, <2>3, <2>4
  <2> QED
    BY <1>3, <1>5, <1>9, <2>5
<1> QED
  BY <1>8, <1>9

LEMMA InvFollows ==
  ASSUME IInv, StageInv, RenderedInv, SessionInv
  PROVE  SessionFollowsWorkflow
<1> SUFFICES ASSUME session # None, Distinguishable, session.state \notin Ends
             PROVE  /\ \E b \in Owners : b.state = session.state /\ b.instance = session.worker.instance
                    /\ \A r \in {"pass", "fail", "blocked"} :
                         /\ Cardinality(Ways(r)) = 1
                         /\ \E way \in Ways(r) :
                              [from |-> session.state, on |-> r, to |-> way.to] \in Transitions
  BY DEF SessionFollowsWorkflow
<1>1. /\ stage = "rendered" /\ composition # None /\ session.target \in Chosen
      /\ session.worker = rendered[session.target][AgentPath(session.target, Owner(session.state))]
  BY DEF RenderedInv, SessionInv
<1>2. PICK s \in Gated : session.state = s.name
  BY DEF SessionInv
<1>3. PICK o \in Owners : o.state = s.name /\ Owner(s.name) = o.instance /\ Owner(s.name) \in Ids
  BY <1>1, OwnerFacts
<1>4. PICK i \in Instances : i.id = Owner(s.name) /\ session.worker = Agent(session.target, i)
  BY <1>1, <1>2, <1>3, OpenedFacts
<1>5. session.worker.instance = o.instance
  BY <1>3, <1>4 DEF Agent
<1>6. ASSUME NEW r \in {"pass", "fail", "blocked"}
      PROVE  /\ Cardinality(Ways(r)) = 1
             /\ \E way \in Ways(r) : [from |-> session.state, on |-> r, to |-> way.to] \in Transitions
  <2>1. PICK u \in Transitions :
          /\ u = [from |-> s.name, on |-> r, to |-> u.to]
          /\ Ways(r) = {[to |-> u.to, worker |-> IF u.to \in Ends THEN None
                                                 ELSE Opened(session.target, Slug[Owner(u.to)])]}
    BY <1>2, OneWay
  <2> DEFINE way == [to |-> u.to, worker |-> IF u.to \in Ends THEN None
                                             ELSE Opened(session.target, Slug[Owner(u.to)])]
  <2>2. way.to = u.to
    OBVIOUS
  <2> HIDE DEF way
  <2>3. Ways(r) = {way}
    BY <2>1 DEF way
  <2>4. Cardinality(Ways(r)) = 1
    BY <2>3, FS_Singleton
  <2> QED
    BY <1>2, <2>1, <2>2, <2>3, <2>4
<1> QED
  BY <1>2, <1>3, <1>5, <1>6
-----------------------------------------------------------------------------
(* What depends on the setting alone stays while the setting does.         *)
LEMMA SettingFixed ==
  ASSUME setting' = setting
  PROVE  /\ SnapshotDiagnostics' = SnapshotDiagnostics
         /\ Flow' = Flow /\ Transitions' = Transitions
         /\ \A t : Adapter(t)' = Adapter(t)
         /\ \A i : Permission(i)' = Permission(i)
<1>1. /\ Flow' = Flow /\ Transitions' = Transitions
      /\ \A t : Adapter(t)' = Adapter(t)
      /\ \A i : Permission(i)' = Permission(i)
  BY DEF Flow, Transitions, Elements, Adapter, Permission
<1>2. \A t : TargetDiagnostics(t)' = TargetDiagnostics(t)
  BY <1>1 DEF TargetDiagnostics, When
<1>3. /\ Workflow!States' = Workflow!States /\ Workflow!Routes' = Workflow!Routes
      /\ Workflow!Gated' = Workflow!Gated /\ Workflow!Names' = Workflow!Names
      /\ Workflow!Terminals' = Workflow!Terminals
  BY <1>1 DEF Workflow!States, Workflow!Routes, Workflow!Gated, Workflow!Names, Workflow!Terminals
<1>4. /\ \A n : Workflow!Declared(n)' = Workflow!Declared(n)
      /\ Workflow!Edges' = Workflow!Edges
  BY <1>3 DEF Workflow!Declared, Workflow!Edges
<1>5. Workflow!StateDiagnostics' = Workflow!StateDiagnostics
  BY <1>1, <1>3 DEF Workflow!StateDiagnostics, Workflow!When, Workflow!Twice
<1>6. Workflow!EndpointDiagnostics' = Workflow!EndpointDiagnostics
  BY <1>1, <1>3 DEF Workflow!EndpointDiagnostics, Workflow!When
<1>7. /\ Workflow!ResultDiagnostics' = Workflow!ResultDiagnostics
      /\ Workflow!StatusDiagnostics' = Workflow!StatusDiagnostics
  <2>1. Workflow!ResultDiagnostics' = Workflow!ResultDiagnostics
    BY <1>1, <1>3, <1>4 DEF Workflow!ResultDiagnostics
  <2>2. Workflow!StatusDiagnostics' = Workflow!StatusDiagnostics
    BY <1>3, <1>4 DEF Workflow!StatusDiagnostics
  <2> QED
    BY <2>1, <2>2
<1>8. Workflow!RuleDiagnostics' = Workflow!RuleDiagnostics
  BY <1>3, <1>5, <1>6, <1>7 DEF Workflow!RuleDiagnostics, Workflow!GateDiagnostics
<1>9. \A S : /\ Workflow!ClosedForward(S)' = Workflow!ClosedForward(S)
             /\ Workflow!ClosedBackward(S)' = Workflow!ClosedBackward(S)
  BY <1>4 DEF Workflow!ClosedForward, Workflow!ClosedBackward
<1>10. WorkflowDiagnostics' = WorkflowDiagnostics
  BY <1>1, <1>3, <1>8, <1>9 DEF WorkflowDiagnostics, When
<1>11. SnapshotDiagnostics' = SnapshotDiagnostics
  BY <1>2, <1>10 DEF SnapshotDiagnostics, Elements
<1> QED
  BY <1>1, <1>11

(* And what is rendered, while the composition does too.                   *)
LEMMA RenderingFixed ==
  ASSUME setting' = setting, bundle' = bundle, composition' = composition
  PROVE  /\ Chosen' = Chosen /\ Ids' = Ids /\ Instances' = Instances /\ Ends' = Ends /\ Gated' = Gated
         /\ Controller' = Controller /\ Transitions' = Transitions /\ Handoffs' = Handoffs
         /\ \A n : Owner(n)' = Owner(n)
         /\ RepresentationErrors' = RepresentationErrors
         /\ \A t : FileErrors(t)' = FileErrors(t) /\ Files(t)' = Files(t)
         /\ \A t, id : AgentPath(t, id)' = AgentPath(t, id)
         /\ \A t : Adapter(t)' = Adapter(t)
         /\ Distinguishable' = Distinguishable
<1>1. /\ Bindings' = Bindings /\ Instances' = Instances /\ Owners' = Owners
      /\ Controllers' = Controllers /\ States' = States /\ Gated' = Gated
  BY DEF Bindings, Instances, Owners, Controllers, States, Gated, Elements
<1>2. /\ Flow' = Flow /\ Transitions' = Transitions
      /\ \A t : Adapter(t)' = Adapter(t)
      /\ \A i : Permission(i)' = Permission(i)
  BY SettingFixed
<1>3. /\ Chosen' = Chosen /\ Ids' = Ids /\ Ends' = Ends /\ Controller' = Controller
      /\ \A n : OwnersOf(n)' = OwnersOf(n)
  BY <1>1 DEF Chosen, Ids, Ends, Controller, OwnersOf
<1>4. \A n : Owner(n)' = Owner(n)
  BY <1>3 DEF Owner
<1>5. Handoffs' = Handoffs
  BY <1>2, <1>3, <1>4 DEF Handoffs
<1>6. RoutingErrors' = RoutingErrors
  BY DEF RoutingErrors, Flow, Transitions, Gated, States, Ends, OwnersOf, Controller, Controllers,
         Owners, Bindings, Ids, Instances, Elements
<1>7. \A r, i : BoundTo(r, i)' = BoundTo(r, i)
  BY <1>1 DEF BoundTo
<1>8. /\ \A a : StatusErrors(a)' = StatusErrors(a)
      /\ \A g, b : OwnerErrors(g, b)' = OwnerErrors(g, b)
  BY <1>1 DEF StatusErrors, OwnerErrors, When
<1>9. \A g : TestErrors(g)' = TestErrors(g)
  BY <1>3, <1>8 DEF TestErrors, When
<1>10. \A g : EvaluationErrors(g)' = EvaluationErrors(g)
  BY <1>1, <1>2, <1>7, <1>8 DEF EvaluationErrors, When
<1>11. \A p : ProductionErrors(p)' = ProductionErrors(p)
  BY <1>1, <1>3, <1>7 DEF ProductionErrors, When
<1>12. \A t, i : NativeErrors(t, i)' = NativeErrors(t, i)
  BY <1>2 DEF NativeErrors
<1>13. RepresentationErrors' = RepresentationErrors
  BY <1>1, <1>3, <1>6, <1>9, <1>10, <1>11, <1>12 DEF RepresentationErrors
<1>14. \A t, id : AgentPath(t, id)' = AgentPath(t, id)
  BY <1>2 DEF AgentPath
<1>15. \A t : AgentFiles(t)' = AgentFiles(t)
  BY DEF AgentFiles, AgentPath, Adapter, Ids, Instances, Elements, Agent, Permission, Handoffs, Flow,
         Transitions, Ends, States, Gated, Controller, Controllers, Owners, Bindings, Owner, OwnersOf
<1>16. \A t : SkillFiles(t)' = SkillFiles(t) /\ Rest(t)' = Rest(t)
  BY DEF SkillFiles, SkillPath, Rest, Adapter
<1>17. \A t : Files(t)' = Files(t)
  BY <1>15, <1>16 DEF Files
<1>18. \A t : FileErrors(t)' = FileErrors(t)
  BY <1>2, <1>3, <1>17 DEF FileErrors, When
<1>19. Distinguishable' = Distinguishable
  BY <1>2, <1>3 DEF Distinguishable
<1> QED
  BY <1>1, <1>2, <1>3, <1>4, <1>5, <1>13, <1>14, <1>17, <1>18, <1>19
-----------------------------------------------------------------------------
LEMMA RenderInitHolds == RenderInit => RInv
<1> SUFFICES ASSUME RenderInit PROVE RInv
  OBVIOUS
<1>1. IInv
  BY InitHolds DEF RenderInit
<1>2. StageInv /\ RenderedInv /\ SessionInv
  BY DEF RenderInit, StageInv, RenderedInv, SessionInv
<1> QED
  BY <1>1, <1>2 DEF RInv

LEMMA LoadStep ==
  ASSUME RInv, Load
  PROVE  RInv'
<1>0. /\ stage = "loading" /\ failures' = When(SnapshotDiagnostics # {}, "registry")
      /\ stage' = IF failures' = {} THEN "compiling" ELSE "failed"
      /\ UNCHANGED vars /\ setting' = setting /\ rendered' = rendered /\ session' = session
  BY DEF Load
<1>1. IInv'
  BY <1>0, StutterStep DEF RInv
<1>2. StageInv'
  BY <1>0, SettingFixed DEF RInv, StageInv, When
<1>3. rendered = None /\ session = None
  BY <1>0 DEF RInv, RenderedInv
<1>4. RenderedInv' /\ SessionInv'
  BY <1>0, <1>3 DEF RenderedInv, SessionInv
<1> QED
  BY <1>1, <1>2, <1>4 DEF RInv

LEMMA PrepareStep ==
  ASSUME RInv, Prepare
  PROVE  RInv'
<1>0. /\ Next /\ stage = "compiling" /\ setting' = setting /\ stage' = stage /\ failures' = failures
      /\ rendered' = rendered /\ session' = session
  BY DEF Prepare, rendering
<1>1. IInv'
  BY <1>0, Inductive DEF RInv
<1>2. StageInv'
  BY <1>0, SettingFixed DEF RInv, StageInv
<1>3. rendered = None /\ session = None
  BY <1>0 DEF RInv, RenderedInv
<1>4. RenderedInv' /\ SessionInv'
  BY <1>0, <1>3 DEF RenderedInv, SessionInv
<1> QED
  BY <1>1, <1>2, <1>4 DEF RInv

LEMMA RenderStep ==
  ASSUME RInv, Render
  PROVE  RInv'
<1>0. /\ stage = "compiling" /\ composition # None
      /\ failures' = IF RepresentationErrors # {} THEN RepresentationErrors
                     ELSE UNION {FileErrors(t) : t \in Chosen}
      /\ stage' = IF failures' = {} THEN "rendered" ELSE "failed"
      /\ rendered' = IF failures' = {} THEN [t \in Chosen |-> Files(t)] ELSE None
      /\ UNCHANGED vars /\ setting' = setting /\ session' = session
      /\ bundle' = bundle /\ composition' = composition
  BY DEF Render, vars
<1>1. IInv'
  BY <1>0, StutterStep DEF RInv
<1>2. /\ SnapshotDiagnostics' = SnapshotDiagnostics /\ RepresentationErrors' = RepresentationErrors
      /\ Chosen' = Chosen /\ \A t : FileErrors(t)' = FileErrors(t) /\ Files(t)' = Files(t)
  BY <1>0, SettingFixed, RenderingFixed
<1>3. SnapshotDiagnostics = {} /\ setting \in Settings /\ session = None
  BY <1>0 DEF RInv, StageInv, RenderedInv
<1>4. StageInv'
  <2>1. (UNION {FileErrors(t) : t \in Chosen})' = UNION {FileErrors(t) : t \in Chosen}
    BY <1>2
  <2> QED
    BY <1>0, <1>2, <1>3, <2>1 DEF StageInv
<1>5. RenderedInv'
  <2>1. CASE failures' = {}
    <3>1. RepresentationErrors = {} /\ \A t \in Chosen : FileErrors(t) = {}
      BY <1>0, <2>1
    <3>2. [t \in Chosen |-> Files(t)]' = [t \in Chosen |-> Files(t)]
      BY <1>2
    <3> QED
      BY <1>0, <1>2, <2>1, <3>1, <3>2 DEF RenderedInv
  <2>2. CASE failures' # {}
    BY <1>0, <1>3, <2>2 DEF RenderedInv
  <2> QED
    BY <2>1, <2>2
<1>6. SessionInv'
  BY <1>0, <1>3 DEF SessionInv
<1> QED
  BY <1>1, <1>4, <1>5, <1>6 DEF RInv

(* Once rendered, everything but the session stays.                        *)
LEMMA RenderedKept ==
  ASSUME RInv, stage = "rendered", UNCHANGED <<vars, setting, rendering>>
  PROVE  /\ (IInv /\ StageInv /\ RenderedInv)'
         /\ bundle' = bundle /\ composition' = composition /\ setting' = setting /\ rendered' = rendered
<1>0. /\ UNCHANGED vars /\ bundle' = bundle /\ composition' = composition /\ setting' = setting
      /\ stage' = stage /\ failures' = failures /\ rendered' = rendered
  BY DEF vars, rendering
<1>1. IInv'
  BY <1>0, StutterStep DEF RInv
<1>2. /\ SnapshotDiagnostics' = SnapshotDiagnostics /\ RepresentationErrors' = RepresentationErrors
      /\ Chosen' = Chosen /\ \A t : FileErrors(t)' = FileErrors(t) /\ Files(t)' = Files(t)
  BY <1>0, SettingFixed, RenderingFixed
<1>3. StageInv'
  BY <1>0, <1>2 DEF RInv, StageInv
<1>4. RenderedInv'
  <2>1. [t \in Chosen |-> Files(t)]' = [t \in Chosen |-> Files(t)]
    BY <1>2
  <2> QED
    BY <1>0, <1>2, <2>1 DEF RInv, RenderedInv
<1> QED
  BY <1>0, <1>1, <1>3, <1>4

(* What a handoff says: a state of the workflow that goes on, and the name *)
(* of its owner.                                                           *)
LEMMA HandoffFacts ==
  ASSUME IInv, StageInv, RenderedInv, stage = "rendered", NEW h \in Handoffs
  PROVE  h.to \in {s.name : s \in Gated} /\ h.agent = Slug[Owner(h.to)] /\ Owner(h.to) \in Ids
<1>1. /\ composition # None /\ setting \in Settings /\ SnapshotDiagnostics = {}
      /\ bundle \in Bundles /\ RuleDiagnostics = {}
  BY CompiledFacts DEF RenderedInv, StageInv
<1>2. h.agent = Slug[Owner(h.to)]
      /\ (h.to = Flow.start \/ \E t \in Transitions : t.to \notin Ends /\ h.to = t.to)
  BY DEF Handoffs
<1>3. h.to \in {s.name : s \in Gated}
  BY <1>1, <1>2, FlowFacts, FlowStates
<1> QED
  BY <1>1, <1>2, <1>3, OwnerFacts

LEMMA BeginStep ==
  ASSUME RInv, Begin
  PROVE  RInv'
<1>0. stage = "rendered" /\ UNCHANGED <<vars, setting, rendering>>
  BY DEF Begin
<1>1. /\ (IInv /\ StageInv /\ RenderedInv)'
      /\ bundle' = bundle /\ composition' = composition /\ setting' = setting /\ rendered' = rendered
  BY <1>0, RenderedKept
<1>2. PICK t \in Chosen \intersect {"vscode-copilot"} :
        \E h \in Opened(t, Slug[Controller]).handoffs :
          session' = [target |-> t, controller |-> Opened(t, Slug[Controller]), state |-> h.to,
                      worker |-> Opened(t, h.agent)]
  BY DEF Begin
<1>3. PICK h \in Opened(t, Slug[Controller]).handoffs :
        session' = [target |-> t, controller |-> Opened(t, Slug[Controller]), state |-> h.to,
                    worker |-> Opened(t, h.agent)]
  BY <1>2
<1>4. /\ session'.target = t /\ session'.controller = Opened(t, Slug[Controller])
      /\ session'.state = h.to /\ session'.worker = Opened(t, h.agent)
      /\ session' = [target |-> session'.target, controller |-> session'.controller,
                     state |-> session'.state, worker |-> session'.worker]
  BY <1>3
<1>5. /\ Chosen' = Chosen /\ Gated' = Gated /\ Controller' = Controller /\ Distinguishable' = Distinguishable
      /\ \A n : Owner(n)' = Owner(n)
      /\ \A u, id : AgentPath(u, id)' = AgentPath(u, id)
  BY <1>1, RenderingFixed
<1>6. ASSUME Distinguishable
      PROVE  /\ h.to \in {s.name : s \in Gated}
             /\ Opened(t, Slug[Controller]) = rendered[t][AgentPath(t, Controller)]
             /\ Opened(t, h.agent) = rendered[t][AgentPath(t, Owner(h.to))]
  <2>1. composition # None /\ bundle \in Bundles /\ RuleDiagnostics = {}
    BY <1>0, CompiledFacts DEF RInv, RenderedInv
  <2>2. Controller \in Ids
    BY <2>1, InstanceFacts
  <2>3. PICK i \in Instances : i.id = Controller /\ rendered[t][AgentPath(t, Controller)] = Agent(t, i)
    BY <1>0, <1>6, <2>2, OpenedFacts DEF RInv
  <2>4. Opened(t, Slug[Controller]) = rendered[t][AgentPath(t, Controller)]
    BY <1>0, <1>6, <2>2, OpenedFacts DEF RInv
  <2>5. h \in Handoffs
    BY <1>2, <1>3, <2>3, <2>4 DEF Agent
  <2>6. h.to \in {s.name : s \in Gated} /\ h.agent = Slug[Owner(h.to)] /\ Owner(h.to) \in Ids
    BY <1>0, <2>5, HandoffFacts DEF RInv
  <2>7. Opened(t, Slug[Owner(h.to)]) = rendered[t][AgentPath(t, Owner(h.to))]
    BY <1>0, <1>6, <2>6, OpenedFacts DEF RInv
  <2> QED
    BY <2>4, <2>6, <2>7
<1>7. SessionInv'
  <2> SUFFICES ASSUME Distinguishable PROVE SessionInv'
    BY <1>5 DEF SessionInv
  <2> QED
    BY <1>1, <1>2, <1>4, <1>5, <1>6 DEF SessionInv
<1> QED
  BY <1>1, <1>7 DEF RInv

LEMMA DispatchStep ==
  ASSUME RInv, Dispatch
  PROVE  RInv'
<1>0. session # None /\ stage = "rendered" /\ UNCHANGED <<vars, setting, rendering>>
  BY DEF Dispatch, RInv, RenderedInv
<1>1. /\ (IInv /\ StageInv /\ RenderedInv)'
      /\ bundle' = bundle /\ composition' = composition /\ setting' = setting /\ rendered' = rendered
  BY <1>0, RenderedKept
<1>2. PICK r \in {"pass", "fail", "blocked"} : \E way \in Ways(r) :
        session' = [session EXCEPT !.state = way.to, !.worker = way.worker]
  BY DEF Dispatch
<1>3. PICK way \in Ways(r) : session' = [session EXCEPT !.state = way.to, !.worker = way.worker]
  BY <1>2
<1>4. /\ Chosen' = Chosen /\ Gated' = Gated /\ Ends' = Ends /\ Controller' = Controller
      /\ Distinguishable' = Distinguishable
      /\ \A n : Owner(n)' = Owner(n)
      /\ \A u, id : AgentPath(u, id)' = AgentPath(u, id)
  BY <1>1, RenderingFixed
<1>5. SessionInv'
  <2> SUFFICES ASSUME Distinguishable PROVE SessionInv'
    BY <1>4 DEF SessionInv
  <2> DEFINE t == session.target
  <2>1. /\ session = [target |-> session.target, controller |-> session.controller,
                      state |-> session.state, worker |-> session.worker]
        /\ t \in Chosen \intersect {"vscode-copilot"}
        /\ session.controller = rendered[t][AgentPath(t, Controller)]
    BY <1>0 DEF RInv, SessionInv
  <2>2. /\ session'.target = t /\ session'.controller = session.controller
        /\ session'.state = way.to /\ session'.worker = way.worker
        /\ session' = [target |-> session'.target, controller |-> session'.controller,
                       state |-> session'.state, worker |-> session'.worker]
    BY <1>3, <2>1
  <2>3. ASSUME way.to \notin Ends
        PROVE  /\ way.to \in {s.name : s \in Gated}
               /\ way.worker = rendered[t][AgentPath(t, Owner(way.to))]
    <3>1. PICK h \in Handoffs : way = [to |-> h.to, worker |-> Opened(t, h.agent)]
      <4>1. CASE \E h \in session.controller.handoffs : way = [to |-> h.to, worker |-> Opened(t, h.agent)]
        BY <1>0, <4>1, ControllerFacts DEF RInv
      <4>2. CASE \E v \in session.controller.routes : v.to \in Ends /\ way = [to |-> v.to, worker |-> None]
        BY <2>3, <4>2
      <4> QED
        BY <4>1, <4>2 DEF Ways
    <3>2. h.to \in {s.name : s \in Gated} /\ h.agent = Slug[Owner(h.to)] /\ Owner(h.to) \in Ids
      BY <1>0, HandoffFacts DEF RInv
    <3>3. Opened(t, Slug[Owner(h.to)]) = rendered[t][AgentPath(t, Owner(h.to))]
      BY <1>0, <2>1, <3>2, OpenedFacts DEF RInv
    <3> QED
      BY <3>1, <3>2, <3>3
  <2> QED
    BY <1>1, <1>4, <2>1, <2>2, <2>3 DEF SessionInv
<1> QED
  BY <1>1, <1>5 DEF RInv

LEMMA RenderStutter ==
  ASSUME RInv, UNCHANGED renderVars
  PROVE  RInv'
<1>0. /\ UNCHANGED vars /\ bundle' = bundle /\ composition' = composition /\ setting' = setting
      /\ stage' = stage /\ failures' = failures /\ rendered' = rendered /\ session' = session
  BY DEF renderVars, vars
<1>1. IInv'
  BY <1>0, StutterStep DEF RInv
<1>2. /\ SnapshotDiagnostics' = SnapshotDiagnostics /\ RepresentationErrors' = RepresentationErrors
      /\ Chosen' = Chosen /\ Gated' = Gated /\ Ends' = Ends /\ Controller' = Controller
      /\ Distinguishable' = Distinguishable
      /\ \A n : Owner(n)' = Owner(n)
      /\ \A t : FileErrors(t)' = FileErrors(t) /\ Files(t)' = Files(t)
      /\ \A t, id : AgentPath(t, id)' = AgentPath(t, id)
  BY <1>0, SettingFixed, RenderingFixed
<1>3. /\ (UNION {FileErrors(t) : t \in Chosen})' = UNION {FileErrors(t) : t \in Chosen}
      /\ [t \in Chosen |-> Files(t)]' = [t \in Chosen |-> Files(t)]
  BY <1>2
<1>4. StageInv'
  BY <1>0, <1>2, <1>3 DEF RInv, StageInv
<1>5. RenderedInv'
  BY <1>0, <1>2, <1>3 DEF RInv, RenderedInv
<1>6. SessionInv'
  BY <1>0, <1>2 DEF RInv, SessionInv
<1> QED
  BY <1>1, <1>4, <1>5, <1>6 DEF RInv

LEMMA RenderInductive == RInv /\ [RenderNext]_renderVars => RInv'
BY LoadStep, PrepareStep, RenderStep, BeginStep, DispatchStep, RenderStutter DEF RenderNext

(* The invariant of loading, compiling, rendering and dispatching.         *)
THEOREM RenderInvariance == RenderSpec => []RInv
BY RenderInitHolds, RenderInductive, PTL DEF RenderSpec

(* Whatever the registry, an accepted workflow and an accepted bundle      *)
(* leave the checks of the renderer (target_rendering.py 267 to 800)       *)
(* nothing to refuse but what a target cannot express and what a report    *)
(* must contain.                                                           *)
THEOREM RendererRepeatsValidation == RenderSpec => []ValidatedIsRepresentable
BY RenderInvariance, InvRepresentable, PTL DEF RInv

(* What is rendered for a target lies below its own paths and below those  *)
(* of no other (_require_owned_file and the ownership rules of targets.py).*)
THEOREM RenderedTargetsAreApart == RenderSpec => []TargetsAreApart
BY RenderInvariance, InvApart, PTL DEF RInv

(* No mapping of a permission profile makes an agent file grant more or    *)
(* less than the profile, where ids and output paths are apart.            *)
THEOREM RenderedAuthorityIsPreserved == RenderSpec => []AuthorityIsPreserved
BY RenderInvariance, InvGranted, PTL DEF RInv

(* Sessions of any length with a rendered controller: each result leads    *)
(* one way, the compiled one, to the owner of the state it leads to.       *)
THEOREM SessionIsRouted == RenderSpec => []SessionFollowsWorkflow
BY RenderInvariance, InvFollows, PTL DEF RInv
=============================================================================
