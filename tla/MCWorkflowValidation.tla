----------------------- MODULE MCWorkflowValidation -----------------------
(***************************************************************************)
(* Two states with gates and two terminal ones: every routing of a family  *)
(* (unreachable states, loops, endpoints that do not exist, results left   *)
(* out), and one variation for each other rule.                            *)
(***************************************************************************)
EXTENDS WorkflowValidation

Gate(n, artifacts, evidence) ==
  [name |-> n, artifacts |-> artifacts, capabilities |-> {"implement"}, evidence |-> evidence]

State(n) == [name |-> n, gate |-> Gate(n, {}, <<>>)]
End(n) == [name |-> n, gate |-> None]

MCStatuses == [a \in {"TestReport", "Note"} |->
  IF a = "Note" THEN {"pass", "fail"} ELSE Results]

Row(s, p, f, b) == SelectSeq(<<[from |-> s, on |-> "pass", to |-> p],
                               [from |-> s, on |-> "fail", to |-> f],
                               [from |-> s, on |-> "blocked", to |-> b]>>,
                             LAMBDA t : t.to # None)

Workflow(transitions) ==
  [start |-> "Plan", terminals |-> {"Done", "Blocked"}, failure |-> "Blocked",
   failClosed |-> TRUE,
   states |-> <<State("Plan"), State("Work"), End("Done"), End("Blocked")>>,
   transitions |-> transitions]

Rows(s) == {Row(s, p, f, b) : p \in {"Work", "Done", "Blocked", "Gone"},
                              f \in {"Plan", "Work", "Blocked", None},
                              b \in {"Blocked", "Work"}}

Tables == {x \o y : x \in Rows("Plan"), y \in Rows("Work")}

Good == Row("Plan", "Work", "Blocked", "Blocked") \o Row("Work", "Done", "Blocked", "Blocked")

Base == Workflow(Good)

WithGate(gate) == [Base EXCEPT !.states[2].gate = gate]

Variations ==
  {[Base EXCEPT !.start = s] : s \in {"Done", "Gone", "Work"}}
  \union {[Base EXCEPT !.terminals = t] : t \in {{"Done"}, {"Blocked"}, {"Done", "Blocked", "Work"}}}
  \union {[Base EXCEPT !.failure = s] : s \in {"Done", "Work", "Gone"}}
  \union {[Base EXCEPT !.failClosed = FALSE],
          [Base EXCEPT !.states[2].name = "Plan"],
          [Base EXCEPT !.states[4].name = "Work"],
          [Base EXCEPT !.states = Append(@, State("Idle"))],
          [Base EXCEPT !.states = Append(@, End("Lost"))],
          [Base EXCEPT !.states[3].gate = Gate("Done", {}, <<>>)]}
  \union {WithGate(Gate("Work", {"TestReport"}, e)) :
            e \in {<<>>, <<"red">>, <<"red", "red">>, <<"red", "green">>}}
  \union {WithGate(Gate("Plan", {}, <<>>)), WithGate(Gate("Work", {"Note"}, <<>>)),
          WithGate(Gate("Work", {"Unknown"}, <<>>)), WithGate(Gate("Work", {}, <<"red">>)),
          WithGate([Gate("Work", {}, <<>>) EXCEPT !.capabilities = {"fly"}])}
  \union {Workflow(Append(Good, [from |-> f, on |-> o, to |-> t])) :
            f \in {"Work", "Done", "Gone"}, o \in Results, t \in {"Work", "Done", "Blocked"}}

MCWorkflows == {Workflow(t) : t \in Tables} \union Variations
=============================================================================
