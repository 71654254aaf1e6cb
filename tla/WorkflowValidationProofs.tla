---------------------- MODULE WorkflowValidationProofs ----------------------
(***************************************************************************)
(* For every set of workflows: the two traversals of the validator find    *)
(* exactly what their names say, and an accepted workflow routes every     *)
(* result of every state its controller can reach.                         *)
(***************************************************************************)
EXTENDS WorkflowValidation, FiniteSetTheorems, SequenceTheorems, TLAPS

Found == reachable \union Elements(stack)

TypeInv ==
  /\ workflow \in Workflows
  /\ phase \in {"parsed", "forward", "backward", "rejected", "running"}
  /\ reachable \subseteq Names /\ reaching \subseteq Names
  /\ stack \in Seq(Names)

(* The forward loop: what is found holds the start state, the successors   *)
(* of what was visited, and nothing that a closed set could leave out.     *)
ForwardInv ==
  phase = "forward" =>
    /\ workflow.start \in Names => workflow.start \in Found
    /\ \A e \in Edges : e[1] \in reachable => e[2] \in Found
    /\ \A S \in SUBSET Names : workflow.start \in S /\ ClosedForward(S) => Found \subseteq S

(* The backward loop: the predecessors of what is no longer on the stack   *)
(* are known.                                                              *)
BackwardInv ==
  phase = "backward" =>
    /\ Terminals \subseteq reaching /\ Elements(stack) \subseteq reaching
    /\ \A e \in Edges : e[2] \in reaching \ Elements(stack) => e[1] \in reaching
    /\ \A S \in SUBSET Names : Terminals \subseteq S /\ ClosedBackward(S) => reaching \subseteq S

(* Diagnostics are never dropped, and a workflow that runs has none.       *)
VerdictInv ==
  /\ phase # "parsed" => RuleDiagnostics \subseteq diagnostics
  /\ phase = "running" => /\ diagnostics = {}
                          /\ Terminals # {} => reaching = Names
                          /\ current \in Names
  /\ phase # "running" => current = None
  /\ phase = "parsed" => reachable = {}

(* Nor are diagnostics made up: each traversal adds one at most.           *)
Unreachable == When(workflow.start \in Names /\ reachable # Names, "unreachable")
NoTerminalPath == When(Terminals # {} /\ reaching # Names, "noTerminalPath")

DiagnosticsInv ==
  /\ phase = "forward" => diagnostics = RuleDiagnostics
  /\ phase = "backward" => diagnostics = RuleDiagnostics \union Unreachable
  /\ phase \in {"rejected", "running"} =>
       /\ diagnostics = RuleDiagnostics \union Unreachable \union NoTerminalPath
       /\ phase = "running" <=> diagnostics = {}

IInv == /\ TypeInv /\ ForwardInv /\ BackwardInv /\ VerdictInv /\ DiagnosticsInv
        /\ ReachableIsExact /\ ReachingIsExact
-----------------------------------------------------------------------------
(* The rules without their diagnostics.                                    *)
Firsts == {k \in DOMAIN workflow.states :
             \A j \in 1 .. k - 1 : workflow.states[j].name # workflow.states[k].name}

UniqueNames == ~Twice([k \in DOMAIN workflow.states |-> workflow.states[k].name])

UniqueGates == \A j, k \in Firsts :
  /\ j # k
  /\ workflow.states[j] \in Gated /\ workflow.states[k] \in Gated
  => workflow.states[j].gate.name # workflow.states[k].gate.name

StateRules ==
  /\ workflow.failClosed /\ UniqueNames /\ UniqueGates
  /\ workflow.start \in Names \ Terminals
  /\ workflow.terminals = Terminals
  /\ workflow.failure \in Terminals \intersect workflow.terminals

GateRules(gate) ==
  /\ ~Twice(gate.evidence)
  /\ ("TestReport" \in gate.artifacts) <=> (gate.evidence # <<>>)
  /\ gate.capabilities \subseteq Skilled /\ gate.artifacts \subseteq DOMAIN Statuses

UniqueResults == ~Twice([k \in DOMAIN workflow.transitions |->
                          <<workflow.transitions[k].from, workflow.transitions[k].on>>])

EndpointRules ==
  /\ \A t \in Routes : {t.from, t.to} \subseteq Names
  /\ \A t \in Routes : t.from \notin Terminals
  /\ \A t \in Routes : t.on = "blocked" => t.to = workflow.failure
  /\ \A t \in Routes : t.on = "pass" => t.to # workflow.failure

ResultRules ==
  /\ UniqueResults
  /\ \A s \in Gated : Results \subseteq IF s.name \in Terminals THEN {} ELSE Declared(s.name)

StatusRules ==
  \A s \in Gated : s.name \notin Terminals =>
    \A a \in s.gate.artifacts \intersect DOMAIN Statuses : Declared(s.name) \subseteq Statuses[a]

Rules ==
  /\ StateRules /\ (\A s \in Gated : GateRules(s.gate))
  /\ EndpointRules /\ ResultRules /\ StatusRules

(* Each diagnostic is reported exactly when its rule is broken.            *)
LEMMA RulesExplained == (RuleDiagnostics = {}) <=> Rules
<1>1. (StateDiagnostics = {}) <=> StateRules
  BY DEF StateDiagnostics, StateRules, UniqueNames, UniqueGates, Firsts, When
<1>2. \A s \in Gated : (GateDiagnostics(s.gate) = {}) <=> GateRules(s.gate)
  BY DEF GateDiagnostics, GateRules, When
<1>3. (EndpointDiagnostics = {}) <=> EndpointRules
  BY DEF EndpointDiagnostics, EndpointRules, When
<1>4. (ResultDiagnostics = {}) <=> ResultRules
  BY DEF ResultDiagnostics, ResultRules, UniqueResults, When
<1>5. (StatusDiagnostics = {}) <=> StatusRules
  BY DEF StatusDiagnostics, StatusRules, When
<1> DEFINE gates == UNION {GateDiagnostics(s.gate) : s \in Gated}
<1>6. (gates = {}) <=> \A s \in Gated : GateDiagnostics(s.gate) = {}
  OBVIOUS
<1>7. RuleDiagnostics = StateDiagnostics \union gates \union EndpointDiagnostics
                        \union ResultDiagnostics \union StatusDiagnostics
  BY DEF RuleDiagnostics
<1> HIDE DEF gates
<1> QED
  BY <1>1, <1>2, <1>3, <1>4, <1>5, <1>6, <1>7 DEF Rules
-----------------------------------------------------------------------------
(* A workflow has finitely many states.                                    *)
LEMMA NamesFinite ==
  ASSUME workflow \in Workflows
  PROVE  IsFiniteSet(Names)
<1> DEFINE n == Len(workflow.states)
<1>1. n \in Nat /\ DOMAIN workflow.states = 1 .. n
  BY WorkflowsAssumption
<1> DEFINE f == [k \in 1 .. n |-> workflow.states[k].name]
<1>2. f \in Surjection(1 .. n, Names)
  BY <1>1 DEF Surjection, Names, States, Elements
<1>3. IsFiniteSet(1 .. n)
  BY <1>1, FS_Interval
<1> QED
  BY <1>2, <1>3, FS_Surjection

(* What is pushed is a sequence of exactly the states to push.             *)
LEMMA OrdersType ==
  ASSUME workflow \in Workflows, NEW S \in SUBSET Names, NEW s \in Orders(S)
  PROVE  s \in Seq(Names) /\ Elements(s) = S
<1>1. IsFiniteSet(S)
  BY NamesFinite, FS_Subset
<1>2. Cardinality(S) \in Nat
  BY <1>1, FS_CardinalityType
<1>3. s \in [1 .. Cardinality(S) -> S] /\ Elements(s) = S
  BY DEF Orders
<1> QED
  BY <1>2, <1>3

(* One turn of a loop: the top is popped and the new states are pushed.    *)
LEMMA StackStep ==
  ASSUME stack \in Seq(Names), stack # <<>>, NEW new \in Seq(Names)
  PROVE  /\ Top \in Names
         /\ Popped \o new \in Seq(Names)
         /\ Elements(stack) = Elements(Popped) \union {Top}
         /\ Elements(Popped \o new) = Elements(Popped) \union Elements(new)
<1>1. Len(stack) \in Nat \ {0} /\ DOMAIN stack = 1 .. Len(stack)
  BY EmptySeq
<1>2. Top \in Names /\ \A k \in 1 .. Len(stack) : stack[k] \in Names
  BY <1>1 DEF Top
<1>3. /\ Popped \in Seq(Names)
      /\ Len(Popped) = Len(stack) - 1
      /\ \A k \in 1 .. Len(stack) - 1 : Popped[k] = stack[k]
  BY <1>1, <1>2 DEF Popped
<1>4. Elements(stack) = Elements(Popped) \union {Top}
  <2>1. DOMAIN Popped = 1 .. Len(stack) - 1
    BY <1>1, <1>3
  <2>2. 1 .. Len(stack) = (1 .. Len(stack) - 1) \union {Len(stack)}
    BY <1>1
  <2> QED
    BY <1>1, <1>3, <2>1, <2>2 DEF Elements, Top
<1>5. /\ Popped \o new \in Seq(Names)
      /\ Len(Popped \o new) = Len(Popped) + Len(new)
      /\ \A k \in 1 .. Len(Popped) + Len(new) :
           (Popped \o new)[k] = IF k <= Len(Popped) THEN Popped[k] ELSE new[k - Len(Popped)]
  BY <1>3, ConcatProperties
<1>6. Elements(Popped \o new) = Elements(Popped) \union Elements(new)
  <2> DEFINE both == Popped \o new
  <2>1. Len(Popped) \in Nat /\ Len(new) \in Nat
    BY <1>3
  <2>2. /\ DOMAIN Popped = 1 .. Len(Popped) /\ DOMAIN new = 1 .. Len(new)
        /\ DOMAIN both = 1 .. Len(Popped) + Len(new)
    BY <1>3, <1>5
  <2>3. \A k \in DOMAIN Popped : k \in DOMAIN both /\ both[k] = Popped[k]
    BY <1>5, <2>1, <2>2
  <2>4. \A k \in DOMAIN new : /\ k + Len(Popped) \in DOMAIN both
                              /\ both[k + Len(Popped)] = new[k]
    BY <1>5, <2>1, <2>2
  <2>5. \A k \in DOMAIN both : \/ k \in DOMAIN Popped /\ both[k] = Popped[k]
                               \/ k - Len(Popped) \in DOMAIN new /\ both[k] = new[k - Len(Popped)]
    BY <1>5, <2>1, <2>2
  <2> HIDE DEF both
  <2>6. Elements(both) = Elements(Popped) \union Elements(new)
    BY <2>3, <2>4, <2>5 DEF Elements
  <2> QED
    BY <2>6 DEF both
<1> QED
  BY <1>2, <1>4, <1>5, <1>6

(* Edges join declared states.                                             *)
LEMMA EdgesType ==
  /\ \A e \in Edges : e[1] \in Names /\ e[2] \in Names
  /\ \A n : Outgoing(n) \subseteq Names /\ Incoming(n) \subseteq Names
BY DEF Edges, Outgoing, Incoming
-----------------------------------------------------------------------------
(* What depends on the workflow alone is the same after every step.        *)
LEMMA SameWorkflow ==
  ASSUME workflow' = workflow
  PROVE  /\ Names' = Names /\ Terminals' = Terminals /\ Edges' = Edges /\ Routes' = Routes
         /\ Gated' = Gated
         /\ RuleDiagnostics' = RuleDiagnostics
         /\ \A S : ClosedForward(S)' <=> ClosedForward(S)
         /\ \A S : ClosedBackward(S)' <=> ClosedBackward(S)
<1>1. /\ Names' = Names /\ Terminals' = Terminals /\ Routes' = Routes /\ Gated' = Gated
      /\ States' = States
  BY DEF Names, Terminals, Routes, Gated, States, Elements
<1>2. Edges' = Edges
  BY <1>1 DEF Edges
<1>3. RuleDiagnostics' = RuleDiagnostics
  BY <1>1 DEF RuleDiagnostics, StateDiagnostics, GateDiagnostics, EndpointDiagnostics,
              ResultDiagnostics, StatusDiagnostics, When, Twice, Declared
<1>4. /\ \A S : ClosedForward(S)' <=> ClosedForward(S)
      /\ \A S : ClosedBackward(S)' <=> ClosedBackward(S)
  BY <1>2 DEF ClosedForward, ClosedBackward
<1> QED
  BY <1>1, <1>2, <1>3, <1>4

(* The part of the invariant a step of a loop has to establish.            *)
LEMMA VisitForwardStep ==
  ASSUME IInv, VisitForward
  PROVE  TypeInv' /\ ForwardInv'
<1> USE DEF IInv
<1>1. PICK new \in Orders(Outgoing(Top) \ reachable') : stack' = Popped \o new
  BY DEF VisitForward
<1>2. /\ phase = "forward" /\ phase' = "forward" /\ stack # <<>> /\ workflow' = workflow
      /\ reachable' = reachable \union {Top} /\ reaching' = reaching
  BY DEF VisitForward
<1>3. new \in Seq(Names) /\ Elements(new) = Outgoing(Top) \ reachable'
  <2>1. Outgoing(Top) \ reachable' \in SUBSET Names
    BY EdgesType
  <2> QED
    BY <1>1, <2>1, OrdersType DEF TypeInv
<1>4. /\ Top \in Names /\ stack' \in Seq(Names)
      /\ Elements(stack) = Elements(Popped) \union {Top}
      /\ Elements(stack') = Elements(Popped) \union (Outgoing(Top) \ reachable')
  BY <1>1, <1>2, <1>3, StackStep DEF TypeInv
<1>5. Found' = reachable \union Elements(stack) \union Outgoing(Top)
  <2>1. Found' = reachable' \union Elements(stack')
    BY DEF Found, Elements
  <2> QED
    BY <1>2, <1>4, <2>1
<1>6. TypeInv'
  BY <1>2, <1>4, SameWorkflow DEF TypeInv
<1>7. \A e \in Edges : e[1] \in reachable' => e[2] \in Found'
  <2> SUFFICES ASSUME NEW e \in Edges, e[1] \in reachable'
               PROVE  e[2] \in Found'
    OBVIOUS
  <2>1. CASE e[1] \in reachable
    BY <1>2, <1>5, <2>1 DEF ForwardInv, Found
  <2>2. CASE e[1] = Top
    BY <1>5, <2>2 DEF Outgoing
  <2> QED
    BY <1>2, <2>1, <2>2
<1>8. \A S \in SUBSET Names : workflow.start \in S /\ ClosedForward(S) => Found' \subseteq S
  <2> SUFFICES ASSUME NEW S \in SUBSET Names, workflow.start \in S, ClosedForward(S)
               PROVE  Found' \subseteq S
    OBVIOUS
  <2>1. reachable \union Elements(stack) \subseteq S
    BY <1>2 DEF ForwardInv, Found
  <2>2. Top \in S
    BY <1>4, <2>1
  <2>3. Outgoing(Top) \subseteq S
    BY <2>2 DEF Outgoing, ClosedForward
  <2> QED
    BY <1>5, <2>1, <2>3
<1>9. workflow.start \in Names => workflow.start \in Found'
  BY <1>2, <1>5 DEF ForwardInv, Found
<1> QED
  BY <1>2, <1>6, <1>7, <1>8, <1>9, SameWorkflow DEF ForwardInv

LEMMA VisitBackwardStep ==
  ASSUME IInv, VisitBackward
  PROVE  TypeInv' /\ BackwardInv'
<1> USE DEF IInv
<1>1. PICK new \in Orders(Incoming(Top) \ reaching) : stack' = Popped \o new
  BY DEF VisitBackward
<1>2. /\ phase = "backward" /\ phase' = "backward" /\ stack # <<>> /\ workflow' = workflow
      /\ reaching' = reaching \union Incoming(Top) /\ reachable' = reachable
  BY DEF VisitBackward
<1>3. new \in Seq(Names) /\ Elements(new) = Incoming(Top) \ reaching
  <2>1. Incoming(Top) \ reaching \in SUBSET Names
    BY EdgesType
  <2> QED
    BY <1>1, <2>1, OrdersType DEF TypeInv
<1>4. /\ Top \in Names /\ stack' \in Seq(Names)
      /\ Elements(stack) = Elements(Popped) \union {Top}
      /\ Elements(stack') = Elements(Popped) \union (Incoming(Top) \ reaching)
  BY <1>1, <1>2, <1>3, StackStep DEF TypeInv
<1>5. Elements(stack)' = Elements(stack')
  BY DEF Elements
<1>6. TypeInv'
  BY <1>2, <1>4, SameWorkflow, EdgesType DEF TypeInv
<1>7. Terminals \subseteq reaching' /\ Elements(stack') \subseteq reaching'
  BY <1>2, <1>4 DEF BackwardInv
<1>8. \A e \in Edges : e[2] \in reaching' \ Elements(stack') => e[1] \in reaching'
  <2> SUFFICES ASSUME NEW e \in Edges, e[2] \in reaching' \ Elements(stack')
               PROVE  e[1] \in reaching'
    OBVIOUS
  <2>1. CASE e[2] = Top
    BY <1>2, <2>1 DEF Incoming
  <2>2. CASE e[2] # Top
    <3>1. e[2] \in reaching \ Elements(stack)
      BY <1>2, <1>4, <2>2
    <3> QED
      BY <1>2, <3>1 DEF BackwardInv
  <2> QED
    BY <2>1, <2>2
<1>9. \A S \in SUBSET Names : Terminals \subseteq S /\ ClosedBackward(S) => reaching' \subseteq S
  <2> SUFFICES ASSUME NEW S \in SUBSET Names, Terminals \subseteq S, ClosedBackward(S)
               PROVE  reaching' \subseteq S
    OBVIOUS
  <2>1. reaching \subseteq S
    BY <1>2 DEF BackwardInv
  <2>2. Top \in S
    BY <1>2, <1>4, <2>1 DEF BackwardInv
  <2>3. Incoming(Top) \subseteq S
    BY <2>2 DEF Incoming, ClosedBackward
  <2> QED
    BY <1>2, <2>1, <2>3
<1> QED
  BY <1>2, <1>5, <1>6, <1>7, <1>8, <1>9, SameWorkflow DEF BackwardInv
-----------------------------------------------------------------------------
LEMMA Initially == Init => IInv
<1> SUFFICES ASSUME Init PROVE IInv
  OBVIOUS
<1>1. <<>> \in Seq(Names)
  OBVIOUS
<1> QED
  BY <1>1 DEF Init, IInv, TypeInv, ForwardInv, BackwardInv, VerdictInv, DiagnosticsInv,
               ReachableIsExact, ReachingIsExact

LEMMA JudgeStep ==
  ASSUME IInv, Judge
  PROVE  TypeInv' /\ ForwardInv'
<1>1. /\ workflow' = workflow /\ phase' = "forward" /\ reachable' = reachable /\ reaching' = reaching
      /\ reachable = {}
      /\ stack' = IF workflow.start \in Names THEN <<workflow.start>> ELSE <<>>
  BY DEF Judge, IInv, VerdictInv
<1>2. /\ stack' \in Seq(Names)
      /\ Elements(stack') = IF workflow.start \in Names THEN {workflow.start} ELSE {}
  BY <1>1 DEF Elements
<1>3. Found' = Elements(stack')
  BY <1>1 DEF Found, Elements
<1> QED
  BY <1>1, <1>2, <1>3, SameWorkflow DEF IInv, TypeInv, ForwardInv

LEMMA TurnBackStep ==
  ASSUME IInv, TurnBack
  PROVE  TypeInv' /\ BackwardInv' /\ ReachableIsExact'
<1>1. /\ workflow' = workflow /\ phase = "forward" /\ phase' = "backward" /\ stack = <<>>
      /\ reachable' = reachable /\ reaching' = Terminals /\ stack' \in Orders(Terminals)
  BY DEF TurnBack
<1>2. Terminals \in SUBSET Names
  BY DEF Terminals, Names
<1>3. stack' \in Seq(Names) /\ Elements(stack') = Terminals
  BY <1>1, <1>2, OrdersType DEF IInv, TypeInv
<1>4. Elements(stack)' = Terminals
  BY <1>3 DEF Elements
<1>5. Found = reachable
  BY <1>1 DEF Found, Elements
<1>6. ReachableIsExact'
  BY <1>1, <1>5, SameWorkflow DEF IInv, ForwardInv, ReachableIsExact, ClosedForward
<1> QED
  BY <1>1, <1>2, <1>3, <1>4, <1>6, SameWorkflow DEF IInv, TypeInv, BackwardInv

LEMMA NoStartDiagnostic ==
  ASSUME RuleDiagnostics = {}
  PROVE  /\ workflow.start \in Names
         /\ workflow.failure \in Terminals
         /\ \A t \in Routes : t.from \in Names /\ t.to \in Names
         /\ \A s \in Gated : s.name \notin Terminals => Results \subseteq Declared(s.name)
         /\ UniqueResults
<1>1. StateRules /\ EndpointRules /\ ResultRules
  BY RulesExplained DEF Rules
<1> QED
  BY <1>1 DEF StateRules, EndpointRules, ResultRules

LEMMA ConcludeStep ==
  ASSUME IInv, Conclude
  PROVE  TypeInv' /\ VerdictInv' /\ ReachableIsExact' /\ ReachingIsExact'
<1>1. /\ workflow' = workflow /\ phase = "backward" /\ stack = <<>> /\ stack' = stack
      /\ reachable' = reachable /\ reaching' = reaching
      /\ diagnostics' = diagnostics \union When(Terminals # {} /\ reaching # Names, "noTerminalPath")
      /\ IF diagnostics' = {} THEN phase' = "running" /\ current' = workflow.start
                              ELSE phase' = "rejected" /\ current' = current
  BY DEF Conclude
<1>2. TypeInv' /\ ReachableIsExact'
  BY <1>1, SameWorkflow DEF IInv, TypeInv, ReachableIsExact
<1>3. ReachingIsExact'
  <2>1. Elements(stack) = {}
    BY <1>1 DEF Elements
  <2>2. ClosedBackward(reaching)
    BY <1>1, <2>1 DEF IInv, BackwardInv, ClosedBackward
  <2> QED
    BY <1>1, <2>2, SameWorkflow DEF IInv, BackwardInv, ReachingIsExact, ClosedBackward
<1>4. VerdictInv'
  <2>1. RuleDiagnostics \subseteq diagnostics
    BY <1>1 DEF IInv, VerdictInv
  <2>2. CASE diagnostics' = {}
    <3>1. RuleDiagnostics = {} /\ (Terminals # {} => reaching = Names)
      BY <1>1, <2>1, <2>2 DEF When
    <3>2. current' \in Names
      BY <1>1, <2>2, <3>1, NoStartDiagnostic
    <3> QED
      BY <1>1, <2>1, <2>2, <3>1, <3>2, SameWorkflow DEF VerdictInv
  <2>3. CASE diagnostics' # {}
    BY <1>1, <2>1, <2>3, SameWorkflow DEF IInv, VerdictInv
  <2> QED
    BY <2>2, <2>3
<1> QED
  BY <1>2, <1>3, <1>4

LEMMA RouteStep ==
  ASSUME IInv, Route
  PROVE  VerdictInv'
<1>1. /\ workflow' = workflow /\ phase = "running" /\ phase' = phase /\ diagnostics' = diagnostics
      /\ reachable' = reachable /\ reaching' = reaching
  BY DEF Route
<1>2. PICK t \in Routes : current' = t.to
  BY DEF Route
<1>3. RuleDiagnostics = {}
  BY <1>1 DEF IInv, VerdictInv
<1>4. current' \in Names
  BY <1>2, <1>3, NoStartDiagnostic
<1> QED
  BY <1>1, <1>3, <1>4, SameWorkflow DEF IInv, VerdictInv

(* What is reported so far, after each step.                               *)
LEMMA DiagnosticsStep ==
  ASSUME IInv, Next
  PROVE  DiagnosticsInv'
<1>1. workflow' = workflow
  BY DEF Next, Validate, Judge, VisitForward, TurnBack, VisitBackward, Conclude, Route
<1>2. RuleDiagnostics' = RuleDiagnostics /\ Names' = Names /\ Terminals' = Terminals
  BY <1>1, SameWorkflow
<1>3. DiagnosticsInv
  BY DEF IInv
<1>4. CASE Judge
  BY <1>2, <1>4 DEF Judge, DiagnosticsInv
<1>5. CASE VisitForward
  BY <1>2, <1>3, <1>5 DEF VisitForward, DiagnosticsInv
<1>6. CASE TurnBack
  BY <1>1, <1>2, <1>3, <1>6 DEF TurnBack, DiagnosticsInv, Unreachable
<1>7. CASE VisitBackward
  BY <1>1, <1>2, <1>3, <1>7 DEF VisitBackward, DiagnosticsInv, Unreachable
<1>8. CASE Conclude
  <2>1. Unreachable' = Unreachable /\ NoTerminalPath' = NoTerminalPath
    BY <1>1, <1>2, <1>8 DEF Conclude, Unreachable, NoTerminalPath
  <2>2. diagnostics' = RuleDiagnostics \union Unreachable \union NoTerminalPath
    BY <1>3, <1>8 DEF Conclude, DiagnosticsInv, NoTerminalPath
  <2>3. phase' \in {"rejected", "running"} /\ (phase' = "running" <=> diagnostics' = {})
    BY <1>8 DEF Conclude
  <2> QED
    BY <1>2, <2>1, <2>2, <2>3 DEF DiagnosticsInv
<1>9. CASE Route
  BY <1>1, <1>2, <1>3, <1>9 DEF Route, DiagnosticsInv, Unreachable, NoTerminalPath
<1> QED
  BY <1>4, <1>5, <1>6, <1>7, <1>8, <1>9 DEF Next, Validate

(* Every step keeps the invariant.                                         *)
LEMMA Inductive == IInv /\ [Next]_vars => IInv'
<1> SUFFICES ASSUME IInv, [Next]_vars PROVE IInv'
  OBVIOUS
<1> USE DEF IInv
<1>0. Judge \/ VisitForward \/ TurnBack \/ VisitBackward \/ Conclude \/ Route => DiagnosticsInv'
  BY DiagnosticsStep DEF Next, Validate
<1>1. CASE Judge
  BY <1>0, <1>1, JudgeStep, SameWorkflow
     DEF Judge, BackwardInv, VerdictInv, ReachableIsExact, ReachingIsExact
<1>2. CASE VisitForward
  BY <1>0, <1>2, VisitForwardStep, SameWorkflow
     DEF VisitForward, BackwardInv, VerdictInv, ReachableIsExact, ReachingIsExact
<1>3. CASE TurnBack
  BY <1>0, <1>3, TurnBackStep, SameWorkflow
     DEF TurnBack, ForwardInv, VerdictInv, ReachingIsExact
<1>4. CASE VisitBackward
  BY <1>0, <1>4, VisitBackwardStep, SameWorkflow
     DEF VisitBackward, ForwardInv, VerdictInv, ReachableIsExact, ReachingIsExact
<1>5. CASE Conclude
  BY <1>0, <1>5, ConcludeStep DEF Conclude, ForwardInv, BackwardInv
<1>6. CASE Route
  BY <1>0, <1>6, RouteStep, SameWorkflow
     DEF Route, TypeInv, ForwardInv, BackwardInv, ReachableIsExact, ReachingIsExact
<1>7. CASE UNCHANGED vars
  <2>1. workflow' = workflow /\ Found' = Found /\ Elements(stack)' = Elements(stack)
    BY <1>7 DEF vars, Found, Elements
  <2> QED
    BY <1>7, <2>1, SameWorkflow
       DEF vars, TypeInv, ForwardInv, BackwardInv, VerdictInv, ReachableIsExact, ReachingIsExact,
           DiagnosticsInv, Unreachable, NoTerminalPath
<1> QED
  BY <1>1, <1>2, <1>3, <1>4, <1>5, <1>6, <1>7 DEF Next, Validate

(* The strengthened invariant holds throughout.                            *)
THEOREM Invariance == Spec => []IInv
<1>1. Init => IInv
  BY Initially
<1>2. IInv /\ [Next]_vars => IInv'
  BY Inductive
<1> QED
  BY <1>1, <1>2, PTL DEF Spec
-----------------------------------------------------------------------------
(* The types of the validator's variables (its two result sets, its stack) *)
(* and of the controller's state.                                          *)
THEOREM TypeCorrect == Spec => []TypeOK
<1>1. IInv => TypeOK
  BY DEF IInv, TypeInv, VerdictInv, TypeOK, Elements
<1> QED
  BY <1>1, Invariance, PTL

(* _reachable_from returns exactly the states a path from startState leads *)
(* to, in whatever order it visits them.                                   *)
THEOREM ForwardTraversalExact == Spec => []ReachableIsExact
<1>1. IInv => ReachableIsExact
  BY DEF IInv
<1> QED
  BY <1>1, Invariance, PTL

(* _states_reaching_terminal returns exactly the states from which a path  *)
(* leads to a terminal one.                                                *)
THEOREM BackwardTraversalExact == Spec => []ReachingIsExact
<1>1. IInv => ReachingIsExact
  BY DEF IInv
<1> QED
  BY <1>1, Invariance, PTL

(* Wherever an accepted workflow gets, the validator's rules leave exactly *)
(* one route for each result and a way to end.                             *)
THEOREM AcceptedRoutesTotally == Spec => []RoutingIsTotal
<1>1. IInv => RoutingIsTotal
  <2> SUFFICES ASSUME IInv, phase = "running", current \notin Terminals
               PROVE  /\ current \in reaching
                      /\ \A r \in Results :
                           Cardinality({k \in DOMAIN workflow.transitions :
                                          /\ workflow.transitions[k].from = current
                                          /\ workflow.transitions[k].on = r}) = 1
    BY DEF RoutingIsTotal
  <2>1. /\ RuleDiagnostics = {} /\ current \in Names
        /\ Terminals # {} => reaching = Names
    BY DEF IInv, VerdictInv
  <2>2. current \in reaching
    BY <2>1, NoStartDiagnostic
  <2>3. PICK s \in Gated : s.name = current
    BY <2>1 DEF Names, Terminals
  <2>4. ASSUME NEW r \in Results
        PROVE  Cardinality({k \in DOMAIN workflow.transitions :
                              /\ workflow.transitions[k].from = current
                              /\ workflow.transitions[k].on = r}) = 1
    <3> DEFINE matching == {k \in DOMAIN workflow.transitions :
                              /\ workflow.transitions[k].from = current
                              /\ workflow.transitions[k].on = r}
    <3>1. r \in Declared(current)
      BY <2>1, <2>3, NoStartDiagnostic
    <3>2. PICK k \in DOMAIN workflow.transitions : /\ workflow.transitions[k].from = current
                                                   /\ workflow.transitions[k].on = r
      BY <3>1 DEF Declared, Routes, Elements
    <3>3. \A j \in matching : j = k
      BY <2>1, <3>2, NoStartDiagnostic DEF UniqueResults, Twice
    <3>4. matching = {k}
      BY <3>2, <3>3
    <3> QED
      BY <3>4, FS_Singleton
  <2> QED
    BY <2>2, <2>4
<1> QED
  BY <1>1, Invariance, PTL
-----------------------------------------------------------------------------
(* Different states have different names exactly if there are as many      *)
(* names as states.                                                        *)
LEMMA NamesCounted ==
  ASSUME workflow \in Workflows
  PROVE  (Cardinality(Names) = Len(workflow.states)) <=> UniqueNames
<1> DEFINE n == Len(workflow.states)
           f == [k \in 1 .. n |-> workflow.states[k].name]
<1>1. n \in Nat /\ DOMAIN workflow.states = 1 .. n
  BY WorkflowsAssumption
<1>2. f \in Surjection(1 .. n, Names)
  BY <1>1 DEF Surjection, Names, States, Elements
<1>3. IsFiniteSet(1 .. n) /\ Cardinality(1 .. n) = n
  <2> HIDE DEF n
  <2> QED
    BY <1>1, FS_Interval
<1>4. (Cardinality(Names) = n) <=> f \in Injection(1 .. n, Names)
  BY <1>2, <1>3, FS_Surjection
<1>5. f \in Injection(1 .. n, Names) <=> UniqueNames
  <2>1. f \in [1 .. n -> Names]
    BY <1>2 DEF Surjection
  <2>2. UniqueNames <=> \A j, k \in 1 .. n : f[j] = f[k] => j = k
    BY <1>1 DEF UniqueNames, Twice
  <2> HIDE DEF f, n
  <2> QED
    BY <2>1, <2>2 DEF Injection, IsInjective
<1> QED
  BY <1>4, <1>5

(* Then a name tells the state, and whether it is terminal.                *)
LEMMA NamesTell ==
  ASSUME workflow \in Workflows, UniqueNames
  PROVE  /\ \A s, t \in States : s.name = t.name => s = t
         /\ Names \ Terminals = {s.name : s \in Gated}
         /\ Firsts = DOMAIN workflow.states
<1>1. \A j, k \in DOMAIN workflow.states : j # k => workflow.states[j].name # workflow.states[k].name
  BY DEF UniqueNames, Twice
<1>2. \A s, t \in States : s.name = t.name => s = t
  BY <1>1 DEF States, Elements
<1>3. Names \ Terminals = {s.name : s \in Gated}
  BY <1>2 DEF Names, Terminals, Gated
<1>4. Firsts = DOMAIN workflow.states
  <2>1. DOMAIN workflow.states = 1 .. Len(workflow.states) /\ Len(workflow.states) \in Nat
    BY WorkflowsAssumption
  <2>2. \A k \in DOMAIN workflow.states : \A j \in 1 .. k - 1 : j \in DOMAIN workflow.states /\ j # k
    BY <2>1
  <2> QED
    BY <1>1, <2>2 DEF Firsts
<1> QED
  BY <1>2, <1>3, <1>4

(* With different names, the gates have different names exactly if there   *)
(* are as many of them as gates.                                           *)
LEMMA GatesCounted ==
  ASSUME workflow \in Workflows, UniqueNames
  PROVE  (Cardinality({s.gate.name : s \in Gated}) = Cardinality(Gated)) <=> UniqueGates
<1> DEFINE gateNames == {s.gate.name : s \in Gated}
           f == [s \in Gated |-> s.gate.name]
<1>1. IsFiniteSet(Gated)
  <2> DEFINE n == Len(workflow.states)
  <2>1. n \in Nat /\ DOMAIN workflow.states = 1 .. n
    BY WorkflowsAssumption
  <2>2. [k \in 1 .. n |-> workflow.states[k]] \in Surjection(1 .. n, States)
    BY <2>1 DEF Surjection, States, Elements
  <2>3. IsFiniteSet(1 .. n)
    BY <2>1, FS_Interval
  <2>4. IsFiniteSet(States)
    BY <2>2, <2>3, FS_Surjection
  <2> QED
    BY <2>4, FS_Subset DEF Gated
<1>2. f \in Surjection(Gated, gateNames)
  BY DEF Surjection
<1>3. (Cardinality(gateNames) = Cardinality(Gated)) <=> f \in Injection(Gated, gateNames)
  BY <1>1, <1>2, FS_Surjection
<1>4. f \in Injection(Gated, gateNames)
      <=> \A s, t \in Gated : s.gate.name = t.gate.name => s = t
  BY <1>2 DEF Surjection, Injection, IsInjective
<1>5. UniqueGates <=> \A s, t \in Gated : s.gate.name = t.gate.name => s = t
  <2>1. Firsts = DOMAIN workflow.states
    BY NamesTell
  <2>2. \A j, k \in DOMAIN workflow.states : j # k => workflow.states[j] # workflow.states[k]
    BY DEF UniqueNames, Twice
  <2>3. \A s \in Gated : \E k \in DOMAIN workflow.states : s = workflow.states[k]
    BY DEF Gated, States, Elements
  <2> QED
    BY <2>1, <2>2, <2>3 DEF UniqueGates
<1> QED
  BY <1>3, <1>4, <1>5

(* Counting the transitions is as good as the rules on them: there is one  *)
(* for each state that is not terminal and each result exactly if none     *)
(* leaves elsewhere, none is there twice and none is missing.              *)
LEMMA RoutesCounted ==
  ASSUME workflow \in Workflows, UniqueNames
  PROVE  RoutesTotally <=> EndpointRules /\ ResultRules
<1> DEFINE N == Names \ Terminals
           D == DOMAIN workflow.transitions
           T == workflow.transitions
           Key(k) == <<T[k].from, T[k].on>>
<1>1. IsFiniteSet(N) /\ Cardinality(N) \in Nat
  BY NamesFinite, FS_Subset, FS_CardinalityType
<1>2. IsFiniteSet(Results) /\ Cardinality(Results) = 3
  <2>1. IsFiniteSet({"blocked"}) /\ Cardinality({"blocked"}) = 1
    BY FS_Singleton
  <2>2. IsFiniteSet({"fail", "blocked"}) /\ Cardinality({"fail", "blocked"}) = 2
    <3>1. {"fail", "blocked"} = {"blocked"} \union {"fail"} /\ "fail" \notin {"blocked"}
      OBVIOUS
    <3> QED
      BY <2>1, <3>1, FS_AddElement
  <2>3. Results = {"fail", "blocked"} \union {"pass"} /\ "pass" \notin {"fail", "blocked"}
    BY DEF Results
  <2> QED
    BY <2>2, <2>3, FS_AddElement
<1>3. IsFiniteSet(N \X Results) /\ Cardinality(N \X Results) = 3 * Cardinality(N)
  <2>1. IsFiniteSet(N \X Results) /\ Cardinality(N \X Results) = Cardinality(N) * Cardinality(Results)
    BY <1>1, <1>2, FS_Product
  <2> QED
    BY <1>1, <1>2, <2>1
<1>4. /\ Len(T) \in Nat /\ D = 1 .. Len(T)
      /\ \A k \in D : T[k].on \in Results /\ T[k] = [from |-> T[k].from, on |-> T[k].on, to |-> T[k].to]
  BY WorkflowsAssumption
<1>5. IsFiniteSet(D) /\ Cardinality(D) = Len(T)
  <2> DEFINE n == Len(T)
  <2>1. n \in Nat /\ D = 1 .. n
    BY <1>4
  <2> HIDE DEF n
  <2>2. IsFiniteSet(D) /\ Cardinality(D) = n
    BY <2>1, FS_Interval
  <2> QED
    BY <2>2 DEF n
<1>6. /\ N = {s.name : s \in Gated}
      /\ \A s \in Gated : s.name \notin Terminals
  BY NamesTell
<1>7. /\ EndpointRules
      <=> \A k \in D : /\ {T[k].from, T[k].to} \subseteq Names /\ T[k].from \notin Terminals
                       /\ T[k].on = "blocked" => T[k].to = workflow.failure
                       /\ T[k].on = "pass" => T[k].to # workflow.failure
  BY DEF EndpointRules, Routes, Elements
<1>8. ResultRules
      <=> /\ \A j, k \in D : Key(j) = Key(k) => j = k
          /\ \A n \in N, r \in Results : \E k \in D : Key(k) = <<n, r>>
  <2>1. UniqueResults <=> \A j, k \in D : Key(j) = Key(k) => j = k
    BY DEF UniqueResults, Twice
  <2>2. (\A s \in Gated : Results \subseteq IF s.name \in Terminals THEN {} ELSE Declared(s.name))
        <=> \A n \in N : Results \subseteq Declared(n)
    BY <1>6
  <2>3. \A n, r : r \in Declared(n) <=> \E k \in D : Key(k) = <<n, r>>
    BY DEF Declared, Routes, Elements
  <2> QED
    BY <2>1, <2>2, <2>3 DEF ResultRules
<1>9. ASSUME EndpointRules, ResultRules
      PROVE  RoutesTotally
  <2> DEFINE f == [k \in D |-> Key(k)]
  <2>1. f \in Surjection(D, N \X Results)
    <3>1. \A k \in D : T[k].from \in N /\ T[k].on \in Results
      BY <1>4, <1>7, <1>9
    <3>2. f \in [D -> N \X Results]
      BY <3>1
    <3>3. \A p \in N \X Results : \E k \in D : f[k] = p
      BY <1>8, <1>9
    <3> QED
      BY <3>2, <3>3 DEF Surjection
  <2>2. f \in Injection(D, N \X Results)
    BY <1>8, <1>9, <2>1 DEF Surjection, Injection, IsInjective
  <2>3. Len(T) = 3 * Cardinality(N)
    BY <1>3, <1>5, <2>1, <2>2, FS_Surjection
  <2>4. ASSUME NEW n \in N, NEW r \in Results
        PROVE  \E target \in Names : /\ [from |-> n, on |-> r, to |-> target] \in Routes
                                     /\ r = "blocked" => target = workflow.failure
                                     /\ r = "pass" => target # workflow.failure
    <3>1. PICK k \in D : Key(k) = <<n, r>>
      BY <1>8, <1>9
    <3>2. T[k].from = n /\ T[k].on = r
      BY <3>1
    <3>3. T[k] = [from |-> n, on |-> r, to |-> T[k].to] /\ T[k] \in Routes
      BY <1>4, <3>2 DEF Routes, Elements
    <3> QED
      BY <1>7, <1>9, <3>2, <3>3
  <2> QED
    BY <2>3, <2>4 DEF RoutesTotally
<1>10. ASSUME RoutesTotally
       PROVE  EndpointRules /\ ResultRules
  <2> DEFINE Good(k, n, r) == /\ T[k].from = n /\ T[k].on = r /\ T[k].to \in Names
                              /\ r = "blocked" => T[k].to = workflow.failure
                              /\ r = "pass" => T[k].to # workflow.failure
             g == [p \in N \X Results |-> CHOOSE k \in D : Good(k, p[1], p[2])]
  <2>1. \A n \in N, r \in Results : \E k \in D : Good(k, n, r)
    <3> SUFFICES ASSUME NEW n \in N, NEW r \in Results
                 PROVE  \E k \in D : Good(k, n, r)
      OBVIOUS
    <3>1. PICK target \in Names : /\ [from |-> n, on |-> r, to |-> target] \in Routes
                                  /\ r = "blocked" => target = workflow.failure
                                  /\ r = "pass" => target # workflow.failure
      BY <1>10 DEF RoutesTotally
    <3>2. PICK k \in D : T[k] = [from |-> n, on |-> r, to |-> target]
      BY <3>1 DEF Routes, Elements
    <3>3. T[k].from = n /\ T[k].on = r /\ T[k].to = target
      BY <3>2
    <3> QED
      BY <3>1, <3>3
  <2>2. \A p \in N \X Results : g[p] \in D /\ Good(g[p], p[1], p[2])
    <3> HIDE DEF Good
    <3> QED
      BY <2>1
  <2>3. ASSUME NEW p \in N \X Results
        PROVE  Key(g[p]) = p
    <3>1. T[g[p]].from = p[1] /\ T[g[p]].on = p[2]
      BY <2>2
    <3>2. p = <<p[1], p[2]>>
      OBVIOUS
    <3> HIDE DEF g
    <3> QED
      BY <3>1, <3>2
  <2>4. g \in Injection(N \X Results, D)
    <3>1. g \in [N \X Results -> D]
      BY <2>2
    <3> HIDE DEF g, Key
    <3> QED
      BY <2>3, <3>1 DEF Injection, IsInjective
  <2>5. Cardinality(N \X Results) = Cardinality(D)
    BY <1>3, <1>5, <1>10 DEF RoutesTotally
  <2>6. g \in Surjection(N \X Results, D)
    BY <1>5, <2>4, <2>5, FS_Injection
  <2>7. \A k \in D : \E p \in N \X Results : k = g[p]
    BY <2>6 DEF Surjection
  <2> HIDE DEF g
  <2>8. EndpointRules
    BY <1>7, <2>2, <2>7
  <2>9. \A j, k \in D : Key(j) = Key(k) => j = k
    <3> SUFFICES ASSUME NEW j \in D, NEW k \in D, Key(j) = Key(k)
                 PROVE  j = k
      OBVIOUS
    <3>1. PICK p \in N \X Results : j = g[p]
      BY <2>7
    <3>2. PICK q \in N \X Results : k = g[q]
      BY <2>7
    <3>3. p = q
      BY <2>3, <3>1, <3>2
    <3> QED
      BY <3>1, <3>2, <3>3
  <2>10. ASSUME NEW n \in N, NEW r \in Results
         PROVE  \E k \in D : Key(k) = <<n, r>>
    <3>1. <<n, r>> \in N \X Results
      OBVIOUS
    <3>2. g[<<n, r>>] \in D /\ Key(g[<<n, r>>]) = <<n, r>>
      BY <2>2, <2>3, <3>1
    <3> QED
      BY <3>2
  <2> QED
    BY <1>8, <2>8, <2>9, <2>10
<1> QED
  BY <1>9, <1>10

(* If there is a route for every result, each state has a way to the end,  *)
(* since one of its results is "blocked".                                  *)
LEMMA BlockedLeadsOut ==
  ASSUME workflow \in Workflows, UniqueNames, RoutesTotally, workflow.failure \in Terminals,
         Terminals \subseteq reaching, ClosedBackward(reaching), reaching \subseteq Names
  PROVE  reaching = Names
<1> SUFFICES ASSUME NEW n \in Names \ Terminals
             PROVE  n \in reaching
  BY DEF Names, Terminals
<1>1. [from |-> n, on |-> "blocked", to |-> workflow.failure] \in Routes /\ workflow.failure \in Names
  <2>1. "blocked" \in Results
    BY DEF Results
  <2> QED
    BY <2>1 DEF RoutesTotally
<1>2. <<n, workflow.failure>> \in Edges
  BY <1>1 DEF Edges
<1> QED
  BY <1>2 DEF ClosedBackward

(* The documented conditions are the rules, with the two conditions on     *)
(* paths.                                                                  *)
LEMMA WellFormedExplained ==
  ASSUME workflow \in Workflows, TypeInv, ReachableIsExact, ReachingIsExact,
         phase \in {"rejected", "running"}
  PROVE  WellFormed <=> Rules /\ reachable = Names /\ reaching = Names
<1>1. (Cardinality(Names) = Len(workflow.states)) <=> UniqueNames
  BY NamesCounted
<1>2. CASE ~UniqueNames
  BY <1>1, <1>2 DEF WellFormed, Rules, StateRules
<1>3. CASE UniqueNames
  <2>1. (Cardinality({s.gate.name : s \in Gated}) = Cardinality(Gated)) <=> UniqueGates
    BY <1>3, GatesCounted
  <2>2. RoutesTotally <=> EndpointRules /\ ResultRules
    BY <1>3, RoutesCounted
  <2> DEFINE Sound(s) ==
        /\ s.gate.capabilities \subseteq Skilled
        /\ \A a \in s.gate.artifacts : a \in DOMAIN Statuses /\ Results \subseteq Statuses[a]
        /\ ("TestReport" \in s.gate.artifacts) <=> (s.gate.evidence # <<>>)
        /\ ~Twice(s.gate.evidence)
             Sayable(s) == \A a \in s.gate.artifacts : Results \subseteq Statuses[a]
             Closed == \A S \in SUBSET Names : workflow.start \in S /\ ClosedForward(S) => S = Names
  <2>3. WellFormed <=> /\ StateRules /\ RoutesTotally /\ Closed
                       /\ \A s \in Gated : Sound(s)
    BY <1>1, <1>3, <2>1 DEF WellFormed, StateRules
  <2>4. ASSUME EndpointRules, ResultRules, NEW s \in Gated
        PROVE  s.name \notin Terminals /\ Declared(s.name) = Results
    <3>1. s.name \notin Terminals
      BY <1>3, NamesTell
    <3>2. \A t \in Routes : t.on \in Results
      BY WorkflowsAssumption DEF Routes, Elements
    <3> QED
      BY <2>4, <3>1, <3>2 DEF ResultRules, Declared
  <2>5. ASSUME EndpointRules, ResultRules
        PROVE  (\A s \in Gated : Sound(s)) <=> (\A s \in Gated : GateRules(s.gate)) /\ StatusRules
    <3>1. \A s \in Gated : Sound(s) <=> GateRules(s.gate) /\ Sayable(s)
      BY DEF GateRules
    <3>2. ASSUME \A s \in Gated : GateRules(s.gate)
          PROVE  StatusRules <=> \A s \in Gated : Sayable(s)
      BY <2>4, <2>5, <3>2 DEF StatusRules, GateRules
    <3> HIDE DEF Sound, Sayable
    <3> QED
      BY <3>1, <3>2
  <2>6. ASSUME StateRules
        PROVE  Closed <=> reachable = Names
    <3>1. workflow.start \in Names
      BY <2>6 DEF StateRules
    <3>2. /\ reachable \in SUBSET Names /\ workflow.start \in reachable /\ ClosedForward(reachable)
          /\ \A S \in SUBSET Names : workflow.start \in S /\ ClosedForward(S) => reachable \subseteq S
      BY <3>1 DEF ReachableIsExact, TypeInv
    <3> QED
      BY <3>2
  <2>7. ASSUME StateRules, RoutesTotally
        PROVE  reaching = Names
    BY <1>3, <2>7, BlockedLeadsOut DEF StateRules, ReachingIsExact, TypeInv
  <2> HIDE DEF Sound, Closed
  <2> QED
    BY <2>2, <2>3, <2>5, <2>6, <2>7 DEF Rules
<1> QED
  BY <1>2, <1>3

(* What _validate_workflow_semantics accepts is exactly what the documents *)
(* call a valid workflow.                                                  *)
THEOREM VerdictIsExact == Spec => []VerdictIsRight
<1>1. IInv => VerdictIsRight
  <2> SUFFICES ASSUME IInv, phase \in {"rejected", "running"}
               PROVE  phase = "running" <=> WellFormed
    BY DEF VerdictIsRight
  <2>1. phase = "running" <=> RuleDiagnostics = {} /\ Unreachable = {} /\ NoTerminalPath = {}
    BY DEF IInv, DiagnosticsInv
  <2>2. WellFormed <=> Rules /\ reachable = Names /\ reaching = Names
    BY WellFormedExplained DEF IInv, TypeInv
  <2>3. Rules => workflow.start \in Names /\ Terminals # {}
    BY DEF Rules, StateRules
  <2>4. Rules => (Unreachable = {} <=> reachable = Names) /\ (NoTerminalPath = {} <=> reaching = Names)
    BY <2>3 DEF Unreachable, NoTerminalPath, When
  <2> QED
    BY <2>1, <2>2, <2>4, RulesExplained
<1> QED
  BY <1>1, Invariance, PTL
=============================================================================
