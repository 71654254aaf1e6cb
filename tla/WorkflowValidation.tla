------------------------- MODULE WorkflowValidation -------------------------
(***************************************************************************)
(* Validation of a workflow (validation/workflows.py) and the routing an   *)
(* accepted one allows.  The checks on states, gates and transitions are   *)
(* sets of diagnostics; the two traversals of the transition graph run     *)
(* step by step as their loops do.                                         *)
(*                                                                         *)
(* A workflow is [start, terminals, failure, failClosed, states,           *)
(* transitions]; a state is [name, gate] with gate None if it is terminal; *)
(* a gate is [name, artifacts, capabilities, evidence]; a transition is    *)
(* [from, on, to].                                                         *)
(***************************************************************************)
EXTENDS Naturals, Sequences, FiniteSets

CONSTANTS Workflows,  \* the workflows to validate
          Statuses,   \* registered artifact type to its allowed statuses
          Skilled,    \* capabilities a registered skill provides
          None

Results == {"pass", "fail", "blocked"}

ASSUME WorkflowsAssumption ==
  \A w \in Workflows :
    /\ Len(w.states) \in Nat /\ DOMAIN w.states = 1 .. Len(w.states)
    /\ Len(w.transitions) \in Nat /\ DOMAIN w.transitions = 1 .. Len(w.transitions)
    /\ \A k \in DOMAIN w.transitions :
         LET t == w.transitions[k]
         IN  t.on \in Results /\ t = [from |-> t.from, on |-> t.on, to |-> t.to]

VARIABLES workflow,
          phase,       \* parsed, forward, backward, then rejected or running
          diagnostics,
          reachable,   \* result of the forward traversal
          reaching,    \* result of the backward traversal
          stack,       \* of the traversal that runs
          current      \* where the controller of the running workflow is

vars == <<workflow, phase, diagnostics, reachable, reaching, stack, current>>

Elements(seq) == {seq[k] : k \in DOMAIN seq}

States == Elements(workflow.states)
Routes == Elements(workflow.transitions)
Gated == {s \in States : s.gate # None}
Names == {s.name : s \in States}
Terminals == {s.name : s \in States \ Gated}

When(condition, diagnostic) == IF condition THEN {diagnostic} ELSE {}

Twice(keys) == \E j, k \in DOMAIN keys : j # k /\ keys[j] = keys[k]

(* _validate_workflow_semantics, before the transitions.  Gates are        *)
(* compared among the first state of each name.                            *)
StateDiagnostics ==
  LET firsts == {k \in DOMAIN workflow.states :
                   \A j \in 1 .. k - 1 : workflow.states[j].name # workflow.states[k].name}
  IN  When(~workflow.failClosed, "failClosed")
      \union When(Twice([k \in DOMAIN workflow.states |-> workflow.states[k].name]), "duplicateState")
      \union When(\E j, k \in firsts : /\ j # k
                                       /\ workflow.states[j] \in Gated /\ workflow.states[k] \in Gated
                                       /\ workflow.states[j].gate.name = workflow.states[k].gate.name,
                  "duplicateGate")
      \union When(workflow.start \notin Names \ Terminals, "startState")
      \union When(workflow.terminals # Terminals, "terminalState")
      \union When(workflow.failure \notin Terminals \intersect workflow.terminals, "failureState")

GateDiagnostics(gate) ==
  When(Twice(gate.evidence), "testEvidence")
  \union When(("TestReport" \in gate.artifacts) # (gate.evidence # <<>>), "testEvidence")
  \union When(~(gate.capabilities \subseteq Skilled), "unknownCapability")
  \union When(~(gate.artifacts \subseteq DOMAIN Statuses), "unknownArtifact")

(* _validate_transition_graph, before the traversals.                      *)
Declared(name) == {t.on : t \in {u \in Routes : u.from = name}}

\* The rules for single transitions.
EndpointDiagnostics ==
  When(\E t \in Routes : ~({t.from, t.to} \subseteq Names), "endpoint")
  \union When(\E t \in Routes : t.from \in Terminals, "terminalOutgoing")
  \union When(\E t \in Routes : t.on = "blocked" /\ t.to # workflow.failure, "blockedTarget")
  \union When(\E t \in Routes : t.on = "pass" /\ t.to = workflow.failure, "passTarget")

\* Mutant: a second route for the same result is not reported.
MissingResults ==
  When(\E s \in Gated : ~(Results \subseteq Declared(s.name)), "missingResult")

\* Mutant: a missing result is reported only where nothing is routed.
ResultsOfUnrouted ==
  When(Twice([k \in DOMAIN workflow.transitions |->
                <<workflow.transitions[k].from, workflow.transitions[k].on>>]), "duplicateResult")
  \union When(\E s \in Gated : Declared(s.name) = {}, "missingResult")

ResultDiagnostics ==
  When(Twice([k \in DOMAIN workflow.transitions |->
                <<workflow.transitions[k].from, workflow.transitions[k].on>>]), "duplicateResult")
  \union When(\E s \in Gated : ~(Results \subseteq
                IF s.name \in Terminals THEN {} ELSE Declared(s.name)), "missingResult")

StatusDiagnostics ==
  When(\E s \in Gated : s.name \notin Terminals /\
         \E a \in s.gate.artifacts \intersect DOMAIN Statuses :
           ~(Declared(s.name) \subseteq Statuses[a]), "statusEvent")

RuleDiagnostics ==
  StateDiagnostics \union (UNION {GateDiagnostics(s.gate) : s \in Gated})
  \union EndpointDiagnostics \union ResultDiagnostics \union StatusDiagnostics

(* The edges from declared states that are not terminal to declared ones.  *)
Edges == {<<t.from, t.to>> : t \in {u \in Routes :
            u.from \in Names \ Terminals /\ u.to \in Names}}

Outgoing(name) == {e[2] : e \in {d \in Edges : d[1] = name}}
Incoming(name) == {e[1] : e \in {d \in Edges : d[2] = name}}

(* The sequences of the elements of S; the code takes one by sorting.      *)
Orders(S) == {s \in [1 .. Cardinality(S) -> S] : Elements(s) = S}

Top == stack[Len(stack)]
Popped == SubSeq(stack, 1, Len(stack) - 1)
-----------------------------------------------------------------------------
Init ==
  /\ workflow \in Workflows
  /\ phase = "parsed" /\ diagnostics = {}
  /\ reachable = {} /\ reaching = {} /\ stack = <<>> /\ current = None

Judge ==
  /\ phase = "parsed"
  /\ diagnostics' = RuleDiagnostics
  /\ phase' = "forward"
  /\ stack' = IF workflow.start \in Names THEN <<workflow.start>> ELSE <<>>
  /\ UNCHANGED <<workflow, reachable, reaching, current>>

\* Mutant: only one of the successors is pushed.
VisitForwardOne ==
  /\ phase = "forward" /\ stack # <<>>
  /\ reachable' = reachable \union {Top}
  /\ LET rest == Outgoing(Top) \ reachable' IN
     stack' = IF rest = {} THEN Popped ELSE Append(Popped, CHOOSE n \in rest : TRUE)
  /\ UNCHANGED <<workflow, phase, diagnostics, reaching, current>>

(* _reachable_from                                                         *)
VisitForward ==
  /\ phase = "forward" /\ stack # <<>>
  /\ reachable' = reachable \union {Top}
  /\ \E new \in Orders(Outgoing(Top) \ reachable') : stack' = Popped \o new
  /\ UNCHANGED <<workflow, phase, diagnostics, reaching, current>>

TurnBack ==
  /\ phase = "forward" /\ stack = <<>>
  /\ diagnostics' = diagnostics \union
       When(workflow.start \in Names /\ reachable # Names, "unreachable")
  /\ reaching' = Terminals
  /\ stack' \in Orders(Terminals)
  /\ phase' = "backward"
  /\ UNCHANGED <<workflow, reachable, current>>

\* Mutant: the predecessors are not visited in turn.
VisitBackwardFlat ==
  /\ phase = "backward" /\ stack # <<>>
  /\ reaching' = reaching \union Incoming(Top)
  /\ stack' = Popped
  /\ UNCHANGED <<workflow, phase, diagnostics, reachable, current>>

\* Mutant: a state that is already known is pushed again.
VisitBackwardAgain ==
  /\ phase = "backward" /\ stack # <<>>
  /\ reaching' = reaching \union Incoming(Top)
  /\ \E new \in Orders(Incoming(Top)) : stack' = Popped \o new
  /\ UNCHANGED <<workflow, phase, diagnostics, reachable, current>>

(* _states_reaching_terminal                                               *)
VisitBackward ==
  /\ phase = "backward" /\ stack # <<>>
  /\ reaching' = reaching \union Incoming(Top)
  /\ \E new \in Orders(Incoming(Top) \ reaching) : stack' = Popped \o new
  /\ UNCHANGED <<workflow, phase, diagnostics, reachable, current>>

Conclude ==
  /\ phase = "backward" /\ stack = <<>>
  /\ diagnostics' = diagnostics \union When(Terminals # {} /\ reaching # Names, "noTerminalPath")
  /\ IF diagnostics' = {} THEN phase' = "running" /\ current' = workflow.start
                          ELSE phase' = "rejected" /\ UNCHANGED current
  /\ UNCHANGED <<workflow, reachable, reaching, stack>>

Validate == Judge \/ VisitForward \/ TurnBack \/ VisitBackward \/ Conclude

(* The controller follows a route of the current state.                    *)
Route ==
  /\ phase = "running"
  /\ \E t \in Routes : t.from = current /\ current' = t.to
  /\ UNCHANGED <<workflow, phase, diagnostics, reachable, reaching, stack>>

Next == Validate \/ Route

Spec == Init /\ [][Next]_vars

(* The validator is a function call: it goes on until it returns.          *)
FairSpec == Spec /\ WF_vars(Validate)
-----------------------------------------------------------------------------
(* Types: both results, the stack and the controller's state are states    *)
(* the workflow declares, whatever its transitions name.                   *)
TypeOK ==
  /\ workflow \in Workflows
  /\ phase \in {"parsed", "forward", "backward", "rejected", "running"}
  /\ reachable \subseteq Names /\ reaching \subseteq Names
  /\ Elements(stack) \subseteq Names
  /\ current \in Names \union {None}

ClosedForward(S) == \A e \in Edges : e[1] \in S => e[2] \in S
ClosedBackward(S) == \A e \in Edges : e[2] \in S => e[1] \in S

(* The first traversal finds exactly the states a path leads to: the least *)
(* set with the start state that no edge leaves.                           *)
ReachableIsExact ==
  phase \in {"backward", "rejected", "running"} /\ workflow.start \in Names =>
    /\ workflow.start \in reachable /\ ClosedForward(reachable)
    /\ \A S \in SUBSET Names : workflow.start \in S /\ ClosedForward(S) => reachable \subseteq S

(* The second finds exactly the states from which a path leads to a        *)
(* terminal one.                                                           *)
ReachingIsExact ==
  phase \in {"rejected", "running"} =>
    /\ Terminals \subseteq reaching /\ ClosedBackward(reaching)
    /\ \A S \in SUBSET Names : Terminals \subseteq S /\ ClosedBackward(S) => reaching \subseteq S

(* adr/0011, "Total deterministic routing": one transition for each state  *)
(* that is not terminal and each result, and no other.                     *)
RoutesTotally ==
  /\ Len(workflow.transitions) = 3 * Cardinality(Names \ Terminals)
  /\ \A n \in Names \ Terminals, r \in Results :
       \E target \in Names : /\ [from |-> n, on |-> r, to |-> target] \in Routes
                             /\ r = "blocked" => target = workflow.failure
                             /\ r = "pass" => target # workflow.failure

(* core-domain-model.md, "Required invariants", of the states and gates.   *)
WellFormed ==
  /\ workflow.failClosed
  /\ Cardinality(Names) = Len(workflow.states)
  /\ Cardinality({s.gate.name : s \in Gated}) = Cardinality(Gated)
  /\ workflow.start \in Names \ Terminals
  /\ workflow.terminals = Terminals /\ workflow.failure \in Terminals
  /\ RoutesTotally
  /\ \A S \in SUBSET Names : workflow.start \in S /\ ClosedForward(S) => S = Names
  /\ \A s \in Gated :
       /\ s.gate.capabilities \subseteq Skilled
       /\ \A a \in s.gate.artifacts : a \in DOMAIN Statuses /\ Results \subseteq Statuses[a]
       /\ ("TestReport" \in s.gate.artifacts) <=> (s.gate.evidence # <<>>)
       /\ ~Twice(s.gate.evidence)

(* The validator accepts the workflows the documents call valid, and no    *)
(* other.                                                                  *)
VerdictIsRight ==
  /\ phase = "running" => WellFormed
  /\ phase = "rejected" => ~WellFormed

(* Wherever the controller of an accepted workflow gets, each result has   *)
(* exactly one route, and a way to a terminal state remains.               *)
RoutingIsTotal ==
  phase = "running" =>
    \/ current \in Terminals
    \/ /\ current \in reaching
       /\ \A r \in Results :
            Cardinality({k \in DOMAIN workflow.transitions :
                           /\ workflow.transitions[k].from = current
                           /\ workflow.transitions[k].on = r}) = 1

(* Both loops end, though the first may push a state more than once.       *)
Termination == <>(phase \in {"rejected", "running"})
=============================================================================
