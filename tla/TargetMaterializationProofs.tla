-------------------- MODULE TargetMaterializationProofs --------------------
(***************************************************************************)
(* Proofs about TargetMaterialization, for any places, targets,            *)
(* compositions, renderings and links that satisfy its assumptions, and    *)
(* any number of edits.                                                    *)
(***************************************************************************)
EXTENDS TargetMaterialization, TLAPS

USE RenderAssumption

(* The files of a plan lie in owned places, apart from the manifest.       *)
LEMMA OwnedPlaces ==
  ASSUME NEW c \in Config
  PROVE  /\ DOMAIN Files(c) = Rendered(c)
         /\ Rendered(c) \subseteq OwnedBy(c)
         /\ OwnedBy(c) \subseteq Place \ {Manifest, Obsolete, Linked}
BY DEF Files, Rendered, OwnedBy

(* With disjoint targets the file of a place is that of its only target.   *)
LEMMA FileOfTarget ==
  ASSUME NEW c \in Config,
         \A t, u \in Enabled[c] : t # u => Owned[t] \intersect Owned[u] = {},
         NEW t \in Enabled[c], NEW p \in DOMAIN Render[c][t]
  PROVE  p \in Rendered(c) /\ Files(c)[p] = Render[c][t][p]
<1>1. p \in Rendered(c)
  BY DEF Rendered
<1>2. \A u \in Enabled[c] : p \in DOMAIN Render[c][u] => u = t
  OBVIOUS
<1>3. (CHOOSE u \in Enabled[c] : p \in DOMAIN Render[c][u]) = t
  BY <1>2
<1> QED BY <1>1, <1>3 DEF Files

(* What a plan removes is owned, not rendered, and no link, unless it is   *)
(* the obsolete file.                                                      *)
LEMMA StalePlaces ==
  ASSUME Plannable, NEW x \in Stale(config)
  PROVE  /\ x \in (OwnedBy(config) \ Rendered(config)) \union {Obsolete}
         /\ disk[x] \notin {Absent, Link}
         /\ x \notin {Where(q) : q \in Rendered(config)}
<1>1. config \in Config
  BY DEF Plannable
<1>2. CASE x = Obsolete
  <2>1. disk[x] \notin {Absent, Link}
    BY <1>2, <1>1, OwnedPlaces DEF Plannable, Stale, StaleUnder, Where
  <2>2. x \notin {Where(q) : q \in Rendered(config)}
    BY <1>1, <1>2, OwnedPlaces DEF Where
  <2> QED BY <2>1, <2>2, <1>2
<1>3. CASE x # Obsolete
  <2>1. /\ x \notin {Where(q) : q \in Rendered(config)}
        /\ disk[x] # Absent
        /\ \E q \in OwnedBy(config) : x = Where(q)
    BY <1>3 DEF Stale, StaleUnder
  <2>2. PICK q \in OwnedBy(config) : x = Where(q)
    BY <2>1
  <2>3. q \notin Rendered(config)
    BY <2>1, <2>2
  <2>4. q \notin Root
    BY <1>1, <2>3, RootAssumption DEF OwnedBy, Rendered
  <2>5. disk[q] # Link
    BY <2>4 DEF Plannable
  <2> QED BY <2>1, <2>2, <2>3, <2>5 DEF Where
<1> QED BY <1>2, <1>3

(* A place without diagnostics holds what is expected.                     *)
LEMMA DiagnosticsExact ==
  ASSUME NEW p, NEW e, e \notin {Absent, Link}
  PROVE  FileDiagnostics(p, e) = {} <=> disk[p] = e
<1>1. {"invalid"} # {} /\ {"missing"} # {} /\ {"drift"} # {}
  OBVIOUS
<1>2. CASE disk[p] = Link
  BY <1>1, <1>2, ContentAssumption DEF FileDiagnostics
<1>3. CASE disk[p] = Absent
  BY <1>1, <1>3, ContentAssumption DEF FileDiagnostics
<1>4. CASE disk[p] \notin {Link, Absent}
  BY <1>1, <1>4 DEF FileDiagnostics
<1> QED BY <1>2, <1>3, <1>4

(* A plan that was built is no absent one, and neither is its manifest.    *)
LEMMA PlanContent ==
  ASSUME Plannable
  PROVE  BuiltPlan # Absent /\ ManifestOf(BuiltPlan) \notin {Absent, Link}
<1>1. config \in Config
  BY DEF Plannable
<1>2. Stale(config) \in SUBSET Place
  BY <1>1, StalePlaces, OwnedPlaces
<1> QED BY <1>1, <1>2, ContentAssumption DEF BuiltPlan

(* Accepted output is exact, in whatever state: the comparison is complete *)
(* for the places of the enabled targets.                                  *)
LEMMA AcceptedReads == AcceptedIsExact
<1> SUFFICES ASSUME Accepted PROVE
      /\ \A t \in Enabled[config] : \A p \in Owned[t] :
           Seen(p) = IF p \in DOMAIN Render[config][t] THEN Render[config][t][p] ELSE Absent
      /\ disk[Manifest].composition = config
      /\ \A p \in DOMAIN disk[Manifest].files : Seen(p) = disk[Manifest].files[p]
      /\ disk[Obsolete] = Absent
  BY DEF AcceptedIsExact
<1>1. Plannable /\ config \in Config
  BY DEF Accepted, Plannable
<1>2. \A t, u \in Enabled[config] : t # u => Owned[t] \intersect Owned[u] = {}
  BY <1>1 DEF Plannable
<1>3. Diagnostics = {}
  BY DEF Accepted
<1>4. /\ \A p \in Rendered(config) : FileDiagnostics(Where(p), Files(config)[p]) = {}
      /\ Stale(config) = {}
      /\ FileDiagnostics(Manifest, ManifestOf(BuiltPlan)) = {}
      /\ disk[Obsolete] = Absent
  BY <1>3 DEF Diagnostics
<1>5. \A p \in Rendered(config) : Seen(p) = Files(config)[p]
  BY <1>1, <1>4, ContentAssumption, DiagnosticsExact DEF Seen
<1>6. disk[Manifest] = [composition |-> config, files |-> Files(config)]
  BY <1>4, PlanContent, <1>1, DiagnosticsExact DEF ManifestOf, BuiltPlan
<1>8. ASSUME NEW t \in Enabled[config], NEW p \in Owned[t]
      PROVE  Seen(p) = IF p \in DOMAIN Render[config][t] THEN Render[config][t][p] ELSE Absent
  <2>1. CASE p \in DOMAIN Render[config][t]
    BY <2>1, <1>1, <1>2, <1>5, FileOfTarget
  <2>2. CASE p \notin DOMAIN Render[config][t]
    <3>1. p \notin Rendered(config)
      BY <1>1, <1>2, <2>2 DEF Rendered
    <3>2. p \in OwnedBy(config) /\ p \notin Root
      BY <1>1, <2>2, RootAssumption DEF OwnedBy
    <3>3. disk[p] # Link /\ p # Linked
      BY <3>2, <1>1, OwnedPlaces DEF Plannable
    <3>4. p \notin {Where(q) : q \in Rendered(config)}
      BY <3>1, <3>3 DEF Where
    <3>5. disk[p] = Absent
      BY <1>4, <3>2, <3>3, <3>4 DEF Stale, StaleUnder, Where
    <3> QED BY <2>2, <3>3, <3>5 DEF Seen, Where
  <2> QED BY <2>1, <2>2
<1> QED BY <1>4, <1>5, <1>6, <1>8, OwnedPlaces, <1>1
-----------------------------------------------------------------------------
(* What a commit leaves, of a plan that is still that of the present files *)
(* and whose paths do not clash.                                           *)
Current == Plannable /\ plan = BuiltPlan /\ ~Clashes(plan)

LEMMA CommittedReads ==
  ASSUME Current
  PROVE  /\ \A p \in Rendered(config) : Committed(plan)[Where(p)] = Files(config)[p]
         /\ \A x \in Stale(config) : Committed(plan)[x] = Absent
         /\ \A x \in Place \ ({Manifest} \union {Where(p) : p \in Rendered(config)} \union Stale(config)) :
              Committed(plan)[x] = disk[x]
         /\ Committed(plan)[Manifest] = ManifestOf(BuiltPlan)
<1>1. /\ config \in Config /\ plan.config = config
      /\ plan.files = Files(config) /\ plan.stale = Stale(config)
      /\ plan = BuiltPlan
  BY DEF Current, BuiltPlan, Plannable
<1>2. /\ DOMAIN plan.files = Rendered(config)
      /\ WritesOf(plan) = {Where(p) : p \in Rendered(config)}
  BY <1>1, OwnedPlaces DEF WritesOf
<1>3. \A x \in Stale(config) : Where(x) = x /\ x \in Place \ {Manifest}
  BY <1>1, StalePlaces, OwnedPlaces DEF Current, Where
<1>4. RemovalsOf(plan) = Stale(config)
  BY <1>1, <1>3 DEF RemovalsOf
<1>5. \A p \in Rendered(config) : Where(p) \in Place \ {Manifest}
  BY <1>1, OwnedPlaces DEF Where
<1>6. ASSUME NEW p \in Rendered(config)
      PROVE  Committed(plan)[Where(p)] = Files(config)[p]
  <2>1. \A r \in DOMAIN plan.files : Where(r) = Where(p) => r = p
    BY <1>2 DEF Current, Clashes
  <2>2. (CHOOSE r \in DOMAIN plan.files : Where(r) = Where(p)) = p
    BY <2>1, <1>2
  <2>3. Where(p) \in WritesOf(plan) /\ Where(p) \in Place /\ Where(p) # Manifest
    BY <1>2, <1>5
  <2>4. Committed(plan)[Where(p)] = plan.files[CHOOSE r \in DOMAIN plan.files : Where(r) = Where(p)]
    BY <2>3 DEF Committed
  <2> QED BY <2>2, <2>4, <1>1
<1>7. ASSUME NEW x \in Stale(config) PROVE Committed(plan)[x] = Absent
  <2>1. x \notin WritesOf(plan)
    BY <1>2, StalePlaces DEF Current
  <2> QED BY <2>1, <1>3, <1>4 DEF Committed
<1>8. ASSUME NEW x \in Place \ ({Manifest} \union {Where(p) : p \in Rendered(config)} \union Stale(config))
      PROVE  Committed(plan)[x] = disk[x]
  BY <1>2, <1>4 DEF Committed
<1>9. Committed(plan)[Manifest] = ManifestOf(BuiltPlan)
  BY <1>1 DEF Committed
<1> QED BY <1>6, <1>7, <1>8, <1>9

LEMMA ExactAnywhere ==
  \A p, e : e \notin {Absent, Link} => (FileDiagnostics(p, e) = {} <=> disk[p] = e)
BY DiagnosticsExact

(* Such a commit leaves output that is accepted: what it wrote reads back, *)
(* through the same links, and nothing else is left in an owned place.     *)
LEMMA CommitAccepts ==
  ASSUME Current, disk' = Committed(plan), config' = config
  PROVE  Accepted'
<1>1. /\ config \in Config /\ Plannable
      /\ \A c \in Config, p \in Rendered(config) : Files(config)[p] \notin {Absent, Link}
  BY ContentAssumption DEF Current, Plannable
<1>2. /\ \A p \in Rendered(config) : disk'[Where(p)] = Files(config)[p]
      /\ \A x \in Stale(config) : disk'[x] = Absent
      /\ \A x \in Place \ ({Manifest} \union {Where(p) : p \in Rendered(config)} \union Stale(config)) :
           disk'[x] = disk[x]
      /\ disk'[Manifest] = ManifestOf(BuiltPlan)
  BY CommittedReads
<1>3. /\ Rendered(config) \subseteq OwnedBy(config)
      /\ OwnedBy(config) \subseteq Place \ {Manifest, Obsolete, Linked}
  BY <1>1, OwnedPlaces
<1>4. \A q \in OwnedBy(config) : disk'[q] = Link <=> disk[q] = Link
  <2> SUFFICES ASSUME NEW q \in OwnedBy(config) PROVE disk'[q] = Link <=> disk[q] = Link
    OBVIOUS
  <2>1. CASE q \in Stale(config)
    BY <2>1, <1>1, <1>2, StalePlaces, ContentAssumption
  <2>2. CASE \E p \in Rendered(config) : q = Where(p)
    <3>1. PICK p \in Rendered(config) : q = Where(p)
      BY <2>2
    <3>2. disk[q] # Link
      BY <3>1, <1>3 DEF Where
    <3> QED BY <3>1, <3>2, <1>1, <1>2
  <2>3. CASE q \notin Stale(config) /\ ~(\E p \in Rendered(config) : q = Where(p))
    BY <2>3, <1>2, <1>3
  <2> QED BY <2>1, <2>2, <2>3
<1>5. \A q \in OwnedBy(config) : Where(q)' = Where(q)
  BY <1>4 DEF Where
<1>6. disk'[Obsolete] = Absent
  <2>1. CASE disk[Obsolete] = Absent
    <3>1. Obsolete \notin Stale(config)
      BY <2>1, <1>1, StalePlaces
    <3>2. Obsolete \in Place \ ({Manifest} \union {Where(p) : p \in Rendered(config)})
      BY <1>3 DEF Where
    <3> QED BY <3>1, <3>2, <1>2, <2>1
  <2>2. CASE disk[Obsolete] # Absent
    BY <2>2, <1>2 DEF Stale, StaleUnder
  <2> QED BY <2>1, <2>2
<1>7. Plannable'
  BY <1>1, <1>3, <1>4, <1>6, ContentAssumption DEF Plannable, OwnedBy
<1>8. Stale(config)' = {}
  <2> SUFFICES ASSUME NEW x \in Stale(config)' PROVE FALSE
    OBVIOUS
  <2>1. x # Obsolete /\ disk'[x] # Absent
    BY <1>6 DEF Stale, StaleUnder
  <2>2. /\ x \notin {Where(q)' : q \in Rendered(config)}
        /\ \E q \in OwnedBy(config) : x = Where(q)'
    BY <2>1 DEF Stale, StaleUnder, OwnedBy
  <2>3. PICK q \in OwnedBy(config) : x = Where(q)
    BY <2>2, <1>5
  <2>4. x \notin {Where(p) : p \in Rendered(config)}
    BY <2>2, <1>3, <1>5
  <2>5. x \in Place \ {Manifest}
    BY <2>3, <1>3 DEF Where
  <2>6. x \notin Stale(config)
    BY <2>1, <1>2
  <2>7. disk[x] = Absent
    BY <2>3, <2>4, <2>6 DEF Stale, StaleUnder
  <2> QED BY <2>1, <2>4, <2>5, <2>6, <2>7, <1>2
<1>9. (\A p, e : e \notin {Absent, Link} => (FileDiagnostics(p, e) = {} <=> disk[p] = e))'
  BY ExactAnywhere, PTL
<1>10. ASSUME NEW p \in Rendered(config)
       PROVE  FileDiagnostics(Where(p), Files(config)[p])' = {}
  <2>1. Where(p)' = Where(p)
    BY <1>3, <1>5
  <2>2. disk'[Where(p)] = Files(config)[p] /\ Files(config)[p] \notin {Absent, Link}
    BY <1>1, <1>2
  <2> QED BY <2>1, <2>2, <1>9
<1>11. FileDiagnostics(Manifest, ManifestOf(BuiltPlan))' = {}
  BY <1>1, <1>2, <1>9, PlanContent DEF ManifestOf, BuiltPlan
<1>12. Diagnostics' = {}
  BY <1>6, <1>8, <1>10, <1>11 DEF Diagnostics
<1> QED BY <1>7, <1>12 DEF Accepted
-----------------------------------------------------------------------------
(* The inductive invariant.  A plan holds the files of its composition and *)
(* what was stale when it was built; while nobody edits it stays that of   *)
(* the present files; and a running commit works towards what it gives.    *)
PlanInv ==
  plan # Absent =>
    /\ plan.config \in Config
    /\ plan.files = Files(plan.config)
    /\ plan.stale \subseteq OwnedBy(plan.config) \union {Obsolete}

FreshInv == plan # Absent /\ fresh => Plannable /\ plan = BuiltPlan

RunInv == result = "running" => plan # Absent /\ ~Clashes(plan) /\ goal = Committed(plan)

IInv == TypeOK /\ PlanInv /\ FreshInv /\ RunInv /\ CommitRepairs

LEMMA InitInv == Init => IInv
<1> SUFFICES ASSUME Init PROVE IInv
  OBVIOUS
<1>1. TypeOK
  <2>1. edits \in 0 .. MaxEdits
    BY EditsAssumption DEF Init
  <2>2. fresh \in BOOLEAN
    BY DEF Init
  <2> QED BY <2>1, <2>2 DEF Init, TypeOK
<1>2. PlanInv /\ FreshInv /\ RunInv /\ CommitRepairs
  BY DEF Init, PlanInv, FreshInv, RunInv, CommitRepairs
<1> QED BY <1>1, <1>2 DEF IInv

LEMMA Unedited ==
  ASSUME UNCHANGED <<config, disk>>
  PROVE  /\ Plannable' = Plannable /\ BuiltPlan' = BuiltPlan
         /\ Accepted' = Accepted
         /\ \A p : Committed(p)' = Committed(p) /\ Clashes(p)' = Clashes(p)
<1>1. Plannable' = Plannable
  BY DEF Plannable, OwnedBy
<1>2. BuiltPlan' = BuiltPlan
  BY DEF BuiltPlan, Files, Rendered, Stale, StaleUnder, OwnedBy, Where
<1>3. Accepted' = Accepted
  BY <1>1, <1>2 DEF Accepted, Diagnostics, FileDiagnostics, Files, Rendered, Stale, StaleUnder, OwnedBy, Where, ManifestOf
<1>4. \A p : Committed(p)' = Committed(p) /\ Clashes(p)' = Clashes(p)
  BY DEF Committed, WritesOf, RemovalsOf, Where, ManifestOf, Clashes
<1> QED BY <1>1, <1>2, <1>3, <1>4

LEMMA NextInv == IInv /\ [Next]_vars => IInv'
<1> SUFFICES ASSUME IInv, [Next]_vars PROVE IInv'
  OBVIOUS
<1> USE DEF IInv
<1>1. CASE UNCHANGED vars
  <2>1. CommitRepairs' /\ FreshInv' /\ RunInv'
    BY <1>1, Unedited DEF vars, CommitRepairs, FreshInv, RunInv
  <2>2. TypeOK' /\ PlanInv'
    BY <1>1 DEF vars, TypeOK, PlanInv, Files, Rendered, OwnedBy
  <2> QED BY <2>1, <2>2
<1>2. CASE BuildPlan
  <2>1. config \in Config /\ plan' = BuiltPlan /\ BuiltPlan # Absent
    BY <1>2, PlanContent DEF BuildPlan, Plannable
  <2>2. Stale(config) \subseteq OwnedBy(config) \union {Obsolete}
    BY <1>2, StalePlaces DEF BuildPlan
  <2>3. PlanInv'
    BY <2>1, <2>2 DEF PlanInv, BuiltPlan
  <2>4. TypeOK'
    BY <1>2, <2>1, <2>2, OwnedPlaces DEF BuildPlan, TypeOK, BuiltPlan
  <2>5. FreshInv' /\ RunInv' /\ CommitRepairs'
    BY <1>2, Unedited DEF BuildPlan, FreshInv, RunInv, CommitRepairs
  <2> QED BY <2>3, <2>4, <2>5
<1>3. CASE RefusePlan
  BY <1>3 DEF RefusePlan, Idle, TypeOK, PlanInv, FreshInv, RunInv, CommitRepairs
<1>4. CASE BeginCommit
  <2>1. FreshInv' /\ CommitRepairs'
    BY <1>4, Unedited DEF BeginCommit, FreshInv, CommitRepairs
  <2>2. RunInv'
    BY <1>4, Unedited DEF BeginCommit, Ready, RunInv
  <2>3. PlanInv'
    BY <1>4 DEF BeginCommit, PlanInv
  <2>4. DOMAIN Committed(plan) = Place
    BY DEF Committed
  <2>5. TypeOK'
    BY <1>4, <2>4 DEF BeginCommit, TypeOK
  <2> QED BY <2>1, <2>2, <2>3, <2>5
<1>5. CASE CommitSucceeds
  <2>1. /\ result = "running" /\ disk' = goal /\ result' = "ok" /\ goal' = goal
        /\ plan' = Absent /\ config' = config /\ fresh' = fresh /\ edits' = edits
    BY <1>5 DEF CommitSucceeds, Transaction!Commit, EndsPlan
  <2>2. plan # Absent /\ disk' = Committed(plan) /\ ~Clashes(plan)
    BY <2>1 DEF RunInv
  <2>3. CommitRepairs'
    BY <2>1, <2>2, CommitAccepts DEF CommitRepairs, FreshInv, Current
  <2>4. TypeOK' /\ PlanInv' /\ FreshInv' /\ RunInv'
    BY <2>1 DEF TypeOK, PlanInv, FreshInv, RunInv
  <2> QED BY <2>3, <2>4
<1>6. CASE CommitFails
  BY <1>6 DEF CommitFails, Transaction!Refuse, EndsPlan, TypeOK, PlanInv, FreshInv, RunInv, CommitRepairs
<1>7. CASE CommitTears
  <2>1. /\ result' = "torn" /\ plan' = Absent /\ goal' = goal /\ DOMAIN disk' = Place
        /\ UNCHANGED <<config, fresh, edits>>
    BY <1>7 DEF CommitTears, Transaction!Tear, EndsPlan
  <2> QED BY <2>1 DEF TypeOK, PlanInv, FreshInv, RunInv, CommitRepairs
<1>8. CASE Others
  <2>1. edits' \in 0 .. MaxEdits
    BY <1>8, EditsAssumption DEF Others, ReplaceConfig, EditFile, TypeOK
  <2>2. TypeOK'
    BY <1>8, <2>1 DEF Others, ReplaceConfig, EditFile, TypeOK
  <2>3. PlanInv' /\ FreshInv' /\ RunInv' /\ CommitRepairs'
    BY <1>8 DEF Others, ReplaceConfig, EditFile, PlanInv, FreshInv, RunInv, CommitRepairs
  <2> QED BY <2>2, <2>3
<1> QED BY <1>1, <1>2, <1>3, <1>4, <1>5, <1>6, <1>7, <1>8 DEF Next, Tool

(* The strengthened invariant holds in every reachable state.              *)
THEOREM Invariance == Spec => []IInv
BY InitInv, NextInv, PTL DEF Spec

(* ADR 0001: output that validation accepts is the rendering of the        *)
(* configuration in every enabled target's tree, whatever happened before. *)
THEOREM AcceptedOutputIsExact == Spec => []AcceptedIsExact
BY AcceptedReads, PTL

(* A commit that succeeds on files nobody touched since it was planned     *)
(* leaves a tree that validation accepts, from every earlier state.        *)
THEOREM CommitLeavesAccepted == Spec => []CommitRepairs
<1>1. IInv => CommitRepairs
  BY DEF IInv
<1> QED BY <1>1, Invariance, PTL

(* What a tool step changes outside the owned places lies where a planned  *)
(* path leads: through a link, and undisturbed through that of an output.  *)
LEMMA ToolChanges ==
  ASSUME IInv, Tool, NEW p \in Place, disk'[p] # disk[p], ~OwnedWhenPlanned(p)
  PROVE  \E q \in DOMAIN plan.files \union plan.stale :
           /\ disk[q] = Link /\ p = Linked
           /\ fresh => /\ q \in Root \intersect DOMAIN plan.files
                       /\ disk'[p] = plan.files[q]
<1>1. /\ plan # Absent /\ ~Clashes(plan) /\ goal = Committed(plan)
      /\ disk'[p] \in {disk[p], goal[p]}
  BY DEF Tool, BuildPlan, RefusePlan, BeginCommit, CommitSucceeds, CommitFails, CommitTears,
         Transaction!Commit, Transaction!Refuse, Transaction!Tear, IInv, RunInv
<1>2. disk'[p] = Committed(plan)[p] /\ Committed(plan)[p] # disk[p]
  BY <1>1
<1>3. /\ plan.config \in Config /\ DOMAIN plan.files = Rendered(plan.config)
      /\ plan.stale \subseteq OwnedBy(plan.config) \union {Obsolete}
  BY <1>1, OwnedPlaces DEF IInv, PlanInv
<1>4. \A q \in DOMAIN plan.files \union plan.stale : OwnedWhenPlanned(q)
  BY <1>3, OwnedPlaces DEF OwnedWhenPlanned, OwnedBy
<1>5. p \in WritesOf(plan) \union RemovalsOf(plan)
  BY <1>2 DEF Committed, OwnedWhenPlanned
<1>6. PICK q \in DOMAIN plan.files \union plan.stale : Where(q) = p
  BY <1>5 DEF WritesOf, RemovalsOf
<1>7. disk[q] = Link /\ p = Linked
  BY <1>4, <1>6 DEF Where
<1>8. ASSUME fresh
      PROVE  q \in Root \intersect DOMAIN plan.files /\ disk'[p] = plan.files[q]
  <2>1. Current /\ config \in Config /\ plan.files = Files(config) /\ plan.stale = Stale(config)
    BY <1>1, <1>8 DEF IInv, FreshInv, Current, BuiltPlan, Plannable
  <2>2. q \in Rendered(config)
    BY <1>7, <2>1, StalePlaces, OwnedPlaces DEF Current
  <2>3. q \in Root
    BY <1>7, <2>1, <2>2, OwnedPlaces DEF Current, Plannable
  <2>4. Committed(plan)[p] = plan.files[q]
    BY <1>6, <2>1, <2>2, CommittedReads
  <2> QED BY <1>2, <2>1, <2>2, <2>3, <2>4, OwnedPlaces
<1> QED BY <1>7, <1>8

(* The tool changes a file outside the owned paths only through a planned  *)
(* path that is a link at the commit, and undisturbed only by overwriting  *)
(* what an owned file leads to with the output of that file.               *)
THEOREM ChangesStayInside == Spec => OnlyLinkedFilesLeadOut
<1>1. IInv /\ [Next]_vars =>
        [Tool => \A p \in Place : disk'[p] # disk[p] /\ ~OwnedWhenPlanned(p) =>
           \E q \in DOMAIN plan.files \union plan.stale :
             /\ disk[q] = Link /\ p = Linked
             /\ fresh => /\ q \in Root \intersect DOMAIN plan.files
                         /\ disk'[p] = plan.files[q]]_vars
  BY ToolChanges
<1> QED BY <1>1, Invariance, PTL DEF Spec, OnlyLinkedFilesLeadOut
=============================================================================
