------------------------ MODULE TargetRuntimeProofs ------------------------
(***************************************************************************)
(* Proofs about TargetRuntime, for any inputs, plans, trees and settings   *)
(* of the user, any behaviour of the tool and any number of edits.         *)
(***************************************************************************)
EXTENDS TargetRuntime, TLAPS

(* The part of Works that the first of the two runs reports.               *)
Configured(p) ==
  /\ Effective.default = p.native.default
  /\ \A a \in DOMAIN p.native.agents :
       /\ a \in DOMAIN Effective.agents
       /\ Effective.agents[a].mode = p.native.agents[a].mode
       /\ p.native.agents[a].model \in {None, Effective.agents[a].model}

(* Nothing is held against a report exactly if it has what is planned.     *)
LEMMA ReportJudged ==
  ASSUME NEW p
  PROVE  ConfigDiagnostics(Effective, p.native) = {} <=> Configured(p)
<1>1. AgentDiagnostics(Effective, p.native) = {} <=>
        \A a \in DOMAIN p.native.agents :
          /\ a \in DOMAIN Effective.agents
          /\ Effective.agents[a].mode = p.native.agents[a].mode
          /\ p.native.agents[a].model \in {None, Effective.agents[a].model}
  <2> DEFINE Of(a) ==
        IF a \notin DOMAIN Effective.agents THEN {<<"agent", a>>}
        ELSE LET expected == p.native.agents[a]
                 found == Effective.agents[a]
             IN  When(found.mode # expected.mode, <<"mode", a>>)
                 \union When(expected.model # None /\ found.model # expected.model, <<"model", a>>)
  <2>1. \A a : Of(a) = {} <=>
          /\ a \in DOMAIN Effective.agents
          /\ Effective.agents[a].mode = p.native.agents[a].mode
          /\ p.native.agents[a].model \in {None, Effective.agents[a].model}
    BY DEF When
  <2>2. AgentDiagnostics(Effective, p.native) = UNION {Of(a) : a \in DOMAIN p.native.agents}
    BY DEF AgentDiagnostics
  <2> HIDE DEF Of
  <2>3. (UNION {Of(a) : a \in DOMAIN p.native.agents}) = {} <=> \A a \in DOMAIN p.native.agents : Of(a) = {}
    OBVIOUS
  <2> QED BY <2>1, <2>2, <2>3
<1> QED BY <1>1 DEF ConfigDiagnostics, Configured, When

(* The inductive invariant: what an undisturbed command has established    *)
(* when it comes to a step, and what it holds against the first run.       *)
StepInv ==
  /\ tool = "running" => pc \in {"config", "skill"}
  /\ (pc = "idle") <=> (result # "running")
  /\ pc = "output" => diagnostics = {}

OutputInv ==
  fresh /\ pc \in {"plan", "which", "config", "skill"} =>
    inputs \notin Unplannable /\ ~OutputDiffers

PlanInv ==
  /\ fresh /\ pc \in {"which", "config", "skill"} => plan = Plan[inputs] /\ ~WithoutContract(plan)
  /\ pc \in {"plan", "which", "config"} => diagnostics = {}

Troubled == \E d \in diagnostics : d[1] \in Troubles \union {"command"}

FirstInv ==
  fresh /\ pc = "skill" =>
    IF diagnostics = {} THEN Configured(plan) ELSE Troubled \/ ~Configured(plan)

IInv == StepInv /\ OutputInv /\ PlanInv /\ FirstInv /\ PassMeansEffective /\ FailureHasReason

LEMMA InitInv == Init => IInv
BY DEF Init, IInv, StepInv, OutputInv, PlanInv, FirstInv, PassMeansEffective, FailureHasReason

LEMMA WorksConfigured ==
  ASSUME NEW p
  PROVE  Works(p) <=> Configured(p) /\ p.skills \subseteq Effective.skills
BY DEF Works, Configured

LEMMA Undisturbed ==
  ASSUME UNCHANGED <<inputs, outputs, settings>>
  PROVE  /\ OutputDiffers' = OutputDiffers
         /\ \A p : Works(p)' = Works(p) /\ Configured(p)' = Configured(p)
<1>1. OutputDiffers' = OutputDiffers
  BY DEF OutputDiffers
<1>2. Effective' = Effective
  BY DEF Effective
<1>3. \A p : Configured(p)' = Configured(p)
  BY <1>2 DEF Configured
<1>4. \A p : Works(p)' = Works(p)
  BY <1>2 DEF Works
<1> QED BY <1>1, <1>3, <1>4

(* A run that ends without an answer ends the command with a failure that  *)
(* names it.                                                               *)
LEMMA ToolFails ==
  ASSUME IInv, surroundings' = surroundings, UNCHANGED <<plan, fresh>>, tool' = "idle",
         NEW trouble \in {"execution", "rejection", "invalidJson"},
         NEW found, found \in {diagnostics \union {<<trouble, pc>>}, {<<"command">>}},
         Return(found)
  PROVE  IInv'
<1>1. \E d \in found : d[1] \in Troubles \union {"command"}
  <2>1. <<trouble, pc>>[1] = trouble /\ <<"command">>[1] = "command"
    OBVIOUS
  <2> QED BY <2>1 DEF Troubles
<1>2. found # {}
  BY <1>1
<1>3. pc' = "idle" /\ diagnostics' = found /\ result' = "failed"
  BY <1>2 DEF Return
<1>4. FailureHasReason'
  BY <1>1, <1>3 DEF FailureHasReason
<1> QED BY <1>3, <1>4 DEF IInv, StepInv, OutputInv, PlanInv, FirstInv, PassMeansEffective

(* A run that ended with an answer, judged against the plan.               *)
LEMMA ToolAnswers ==
  ASSUME IInv, Answer PROVE IInv'
<1> USE DEF IInv
<1>1. /\ UNCHANGED <<inputs, outputs, settings, installed, plan, fresh>>
      /\ tool = "running" /\ tool' = "idle"
  BY DEF Answer, surroundings
<1>2. /\ OutputDiffers' = OutputDiffers
      /\ \A p : Works(p)' = Works(p) /\ Configured(p)' = Configured(p)
  BY <1>1, Undisturbed
<1>3. CASE pc = "config"
  <2>1. PICK found : /\ Found(found)
                     /\ \/ found = ConfigDiagnostics(Effective, plan.native)
                        \/ found = {<<"shape", "config">>}
    BY <1>3 DEF Answer
  <2>2. pc' = "skill" /\ diagnostics' = found /\ result' = result
    BY <2>1, <1>3 DEF Found
  <2>3. \/ found = {} <=> Configured(plan)
        \/ \E d \in found : d[1] \in Troubles
    <3>1. CASE found = {<<"shape", "config">>}
      <4>1. <<"shape", "config">>[1] = "shape"
        OBVIOUS
      <4> QED BY <3>1, <4>1 DEF Troubles
    <3> QED BY <3>1, <2>1, ReportJudged
  <2>4. FirstInv'
    BY <2>2, <2>3, <1>1, <1>2 DEF FirstInv, Troubled
  <2>5. OutputInv' /\ PlanInv'
    BY <2>2, <1>1, <1>2, <1>3 DEF OutputInv, PlanInv, WithoutContract
  <2>6. StepInv' /\ PassMeansEffective' /\ FailureHasReason'
    BY <2>2, <1>1, <1>3 DEF StepInv, PassMeansEffective, FailureHasReason
  <2> QED BY <2>4, <2>5, <2>6
<1>4. CASE pc = "skill"
  <2>1. PICK found : /\ Found(found)
                     /\ \/ found = When(~(plan.skills \subseteq Effective.skills), <<"skills">>)
                        \/ found = {<<"shape", "skill">>}
    BY <1>4 DEF Answer
  <2>2. /\ pc' = "idle" /\ diagnostics' = diagnostics \union found
        /\ result' = IF diagnostics \union found = {} THEN "passed" ELSE "failed"
    BY <2>1, <1>4 DEF Found, Return
  <2>3. \/ found = {} <=> plan.skills \subseteq Effective.skills
        \/ found # {} /\ \E d \in found : d[1] \in Troubles
    <3>1. CASE found = {<<"shape", "skill">>}
      <4>1. <<"shape", "skill">>[1] = "shape"
        OBVIOUS
      <4> QED BY <3>1, <4>1 DEF Troubles
    <3> QED BY <3>1, <2>1 DEF When
  <2>4. fresh => plan = Plan[inputs] /\ inputs \notin Unplannable /\ ~OutputDiffers /\ Plan[inputs].opencode
    BY <1>4 DEF PlanInv, OutputInv, WithoutContract
  <2>5. PassMeansEffective'
    BY <2>2, <2>3, <2>4, <1>1, <1>2, <1>4, WorksConfigured DEF FirstInv, PassMeansEffective
  <2>6. FailureHasReason'
    BY <2>2, <2>3, <2>4, <1>1, <1>2, <1>4, WorksConfigured DEF FirstInv, FailureHasReason, Troubled
  <2>7. StepInv' /\ OutputInv' /\ PlanInv' /\ FirstInv'
    BY <2>2, <1>1 DEF StepInv, OutputInv, PlanInv, FirstInv
  <2> QED BY <2>5, <2>6, <2>7
<1> QED BY <1>1, <1>3, <1>4 DEF StepInv

LEMMA NextInv == IInv /\ [Next]_vars => IInv'
<1> SUFFICES ASSUME IInv, [Next]_vars PROVE IInv'
  OBVIOUS
<1>1. CASE UNCHANGED vars
  <2>1. /\ UNCHANGED <<inputs, outputs, settings, installed, pc, tool, plan, diagnostics, result, fresh>>
        /\ OutputDiffers' = OutputDiffers
        /\ \A p : Works(p)' = Works(p) /\ Configured(p)' = Configured(p)
    BY <1>1, Undisturbed DEF vars
  <2> QED BY <2>1 DEF IInv, StepInv, OutputInv, PlanInv, FirstInv, Troubled,
                      PassMeansEffective, FailureHasReason, WithoutContract
<1>2. CASE Begin
  BY <1>2 DEF Begin, surroundings, IInv, StepInv, OutputInv, PlanInv, FirstInv, PassMeansEffective, FailureHasReason
<1>3. CASE ValidateOutput
  <2>1. /\ UNCHANGED <<inputs, outputs, settings, installed, plan, fresh, tool>> /\ pc = "output"
        /\ OutputDiffers' = OutputDiffers
    BY <1>3, Undisturbed DEF ValidateOutput, surroundings
  <2>2. tool # "running" /\ result = "running" /\ diagnostics = {}
    BY <2>1 DEF IInv, StepInv
  <2>3. CASE inputs \in Unplannable
    BY <2>1, <2>2, <2>3, <1>3 DEF ValidateOutput, Return, IInv, StepInv, OutputInv, PlanInv, FirstInv, PassMeansEffective, FailureHasReason
  <2>4. CASE inputs \notin Unplannable /\ OutputDiffers
    BY <2>1, <2>2, <2>4, <1>3 DEF ValidateOutput, Return, IInv, StepInv, OutputInv, PlanInv, FirstInv, PassMeansEffective, FailureHasReason
  <2>5. CASE inputs \notin Unplannable /\ ~OutputDiffers
    BY <2>1, <2>2, <2>5, <1>3 DEF ValidateOutput, Go, IInv, StepInv, OutputInv, PlanInv, FirstInv, PassMeansEffective, FailureHasReason
  <2> QED BY <2>3, <2>4, <2>5
<1>4. CASE BuildPlan
  <2>1. /\ UNCHANGED <<inputs, outputs, settings, installed, fresh, tool>> /\ pc = "plan"
        /\ OutputDiffers' = OutputDiffers
    BY <1>4, Undisturbed DEF BuildPlan, surroundings
  <2>2. tool # "running" /\ result = "running" /\ diagnostics = {}
    BY <2>1 DEF IInv, StepInv, PlanInv
  <2>3. CASE inputs \in Unplannable
    BY <2>1, <2>2, <2>3, <1>4 DEF BuildPlan, Return, IInv, StepInv, OutputInv, PlanInv, FirstInv, PassMeansEffective, FailureHasReason
  <2>4. CASE inputs \notin Unplannable /\ WithoutContract(Plan[inputs])
    <3>1. pc' = "idle" /\ result' = "failed" /\ plan' = Plan[inputs]
      BY <2>4, <1>4 DEF BuildPlan, Return, WithoutContract
    <3>2. FailureHasReason'
      BY <2>1, <2>4, <3>1 DEF FailureHasReason, WithoutContract
    <3> QED BY <2>1, <2>2, <3>1, <3>2 DEF IInv, StepInv, OutputInv, PlanInv, FirstInv, PassMeansEffective
  <2>5. CASE inputs \notin Unplannable /\ ~WithoutContract(Plan[inputs])
    <3>1. pc' = "which" /\ result' = result /\ plan' = Plan[inputs] /\ diagnostics' = diagnostics
      BY <2>5, <1>4 DEF BuildPlan, Go, WithoutContract
    <3>2. PlanInv'
      BY <2>1, <2>2, <2>5, <3>1 DEF PlanInv, WithoutContract
    <3> QED BY <2>1, <2>2, <3>1, <3>2 DEF IInv, StepInv, OutputInv, FirstInv, PassMeansEffective, FailureHasReason
  <2> QED BY <2>3, <2>4, <2>5
<1>5. CASE Which
  <2>1. /\ UNCHANGED <<inputs, outputs, settings, installed, fresh, tool, plan>> /\ pc = "which"
        /\ OutputDiffers' = OutputDiffers
    BY <1>5, Undisturbed DEF Which, surroundings
  <2>2. tool # "running" /\ result = "running" /\ diagnostics = {}
    BY <2>1 DEF IInv, StepInv, PlanInv
  <2>3. CASE installed
    BY <2>1, <2>2, <2>3, <1>5 DEF Which, Go, IInv, StepInv, OutputInv, PlanInv, FirstInv, PassMeansEffective, FailureHasReason, WithoutContract
  <2>4. CASE ~installed
    BY <2>1, <2>2, <2>4, <1>5 DEF Which, Return, IInv, StepInv, OutputInv, PlanInv, FirstInv, PassMeansEffective, FailureHasReason
  <2> QED BY <2>3, <2>4
<1>6. CASE Launch
  <2>1. CASE installed /\ tool' = "running" /\ Go(pc)
    <3>1. /\ UNCHANGED <<inputs, outputs, settings, installed, fresh, plan, pc, diagnostics, result>>
          /\ pc \in {"config", "skill"} /\ tool' = "running"
          /\ OutputDiffers' = OutputDiffers
          /\ \A p : Works(p)' = Works(p) /\ Configured(p)' = Configured(p)
      BY <2>1, <1>6, Undisturbed DEF Launch, surroundings, Go
    <3> QED BY <3>1 DEF IInv, StepInv, OutputInv, PlanInv, FirstInv, Troubled,
                        PassMeansEffective, FailureHasReason, WithoutContract
  <2>2. CASE Return(diagnostics \union {<<"execution", pc>>}) /\ UNCHANGED tool
    <3>1. tool' = "idle"
      BY <2>2, <1>6 DEF Launch
    <3> QED BY <2>2, <3>1, <1>6, ToolFails DEF Launch
  <2> QED BY <2>1, <2>2, <1>6 DEF Launch
<1>7. CASE Answer
  BY <1>7, ToolAnswers
<1>8. CASE Reject
  BY <1>8, ToolFails DEF Reject
<1>9. CASE Garble
  BY <1>9, ToolFails DEF Garble
<1>10. CASE TimeOut
  BY <1>10, ToolFails DEF TimeOut
<1>11. CASE Edit
  BY <1>11 DEF Edit, IInv, StepInv, OutputInv, PlanInv, FirstInv, PassMeansEffective, FailureHasReason
<1> QED BY <1>1, <1>2, <1>3, <1>4, <1>5, <1>6, <1>7, <1>8, <1>9, <1>10, <1>11 DEF Next, Step

(* The strengthened invariant holds in every reachable state.              *)
THEOREM Invariance == Spec => []IInv
BY InitInv, NextInv, PTL DEF Spec

(* A pass that nobody disturbed means that the output is current and that  *)
(* OpenCode works with it as planned.                                      *)
THEOREM PassIsEffective == Spec => []PassMeansEffective
<1>1. IInv => PassMeansEffective
  BY DEF IInv
<1> QED BY <1>1, Invariance, PTL

(* A failure that nobody disturbed has a reason.                           *)
THEOREM FailureIsReasoned == Spec => []FailureHasReason
<1>1. IInv => FailureHasReason
  BY DEF IInv
<1> QED BY <1>1, Invariance, PTL
=============================================================================
