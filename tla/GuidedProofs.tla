---------------------------- MODULE GuidedProofs ----------------------------
(***************************************************************************)
(* Proofs about guided setups and the init command, for any registry of    *)
(* setups with any number of questions, any bundles and overrides, and any *)
(* number of edits.  First the rules (SetupRules): the folds over patches  *)
(* of the materializer and of the profile validator mean the same.  Then   *)
(* the life of a profile (GuidedSetup), and the dialogue and the           *)
(* transaction of init (GuidedInit).                                       *)
(***************************************************************************)
EXTENDS GuidedInit, GuidedSetup, FiniteSetTheorems, SequenceTheorems,
        WellFoundedInduction, TLAPS

(* A nonempty set of numbers has a least one.                              *)
LEMMA LeastNumber ==
  ASSUME NEW S \in SUBSET Nat, S # {}
  PROVE  \E n \in S : \A m \in S : n <= m
<1>1. PICK n \in S : \A m \in S : ~(<<m, n>> \in OpToRel(<, Nat))
  BY WFMin, NatLessThanWellFounded
<1>2. \A m \in S : ~(m < n)
  BY <1>1 DEF OpToRel
<1> QED BY <1>2

(* Induction over the first numbers, for a set instead of a predicate.     *)
LEMMA ByInduction ==
  ASSUME NEW n \in Nat, NEW S, 0 \in S, \A k \in 0 .. n - 1 : k \in S => k + 1 \in S
  PROVE  0 .. n \subseteq S
<1> DEFINE Rest == (0 .. n) \ S
<1>1. SUFFICES ASSUME Rest # {} PROVE FALSE
  OBVIOUS
<1>2. PICK m \in Rest : \A i \in Rest : m <= i
  <2>1. Rest \in SUBSET Nat
    OBVIOUS
  <2> HIDE DEF Rest
  <2> QED BY <1>1, <2>1, LeastNumber
<1>3. m # 0 /\ m - 1 \in 0 .. n - 1 /\ m - 1 \notin Rest
  BY <1>2
<1>4. m - 1 \in S /\ (m - 1) + 1 = m
  BY <1>3
<1> QED BY <1>2, <1>3, <1>4

(* What a recursive function over 0 .. n has to satisfy, and that there is *)
(* one for each way to make a step.                                        *)
Unfolds(f, n, base, step) == f[0] = base /\ \A k \in 1 .. n : f[k] = step[k][f[k - 1]]

LEMMA FunctionByRecursion ==
  ASSUME NEW A, NEW n \in Nat, NEW base \in A, NEW step \in [1 .. n -> [A -> A]]
  PROVE  \E f \in [0 .. n -> A] : Unfolds(f, n, base, step)
<1> USE DEF Unfolds
<1> DEFINE Missing == {m \in 0 .. n : ~\E f \in [0 .. m -> A] : Unfolds(f, m, base, step)}
<1>1. Missing = {}
  <2>1. SUFFICES ASSUME Missing # {} PROVE FALSE
    OBVIOUS
  <2>2. PICK m \in Missing : \A i \in Missing : m <= i
    <3>1. Missing \in SUBSET Nat
      OBVIOUS
    <3> HIDE DEF Missing
    <3> QED BY <2>1, <3>1, LeastNumber
  <2>3. CASE m = 0
    <3>1. [k \in 0 .. 0 |-> base] \in [0 .. 0 -> A] /\ Unfolds([k \in 0 .. 0 |-> base], 0, base, step)
      OBVIOUS
    <3> QED BY <2>2, <2>3, <3>1
  <2>4. CASE m # 0
    <3>1. m - 1 \in 0 .. n /\ m - 1 \notin Missing
      BY <2>2, <2>4
    <3>2. PICK f \in [0 .. m - 1 -> A] : Unfolds(f, m - 1, base, step)
      BY <3>1
    <3> DEFINE g == [k \in 0 .. m |-> IF k = m THEN step[m][f[m - 1]] ELSE f[k]]
    <3>3. step[m][f[m - 1]] \in A
      BY <2>2, <2>4, <3>2
    <3>4. g \in [0 .. m -> A]
      BY <2>2, <3>2, <3>3
    <3>5. Unfolds(g, m, base, step)
      <4>1. g[0] = base
        BY <2>2, <2>4, <3>2
      <4>2. ASSUME NEW k \in 1 .. m PROVE g[k] = step[k][g[k - 1]]
        <5>1. m \in Nat /\ k \in 0 .. m /\ k - 1 \in 0 .. m /\ k - 1 # m
          BY <2>2
        <5>2. g[k - 1] = f[k - 1]
          BY <5>1
        <5>3. CASE k = m
          BY <5>1, <5>2, <5>3
        <5>4. CASE k # m
          <6>1. k \in 1 .. m - 1 /\ g[k] = f[k]
            BY <5>1, <5>4
          <6> QED BY <3>2, <5>2, <6>1
        <5> QED BY <5>3, <5>4
      <4> QED BY <4>1, <4>2
    <3> QED BY <2>2, <3>4, <3>5
  <2> QED BY <2>3, <2>4
<1>2. n \in 0 .. n
  OBVIOUS
<1> QED
  <2>1. ~(n \in {m \in 0 .. n : ~\E f \in [0 .. m -> A] : Unfolds(f, m, base, step)})
    BY <1>1
  <2> QED BY ONLY <1>2, <2>1

(* The state of both folds over the patches of an answered setup, with any *)
(* values V for bundle and targets.                                        *)
Fields == {"bundle", "targets"}
Selections(V) == [selection : [bundle : V, targets : V], sources : SUBSET Fields, conflict : BOOLEAN]

(* Two of the first n patches give field f different values.               *)
Clash(patches, f, n) ==
  \E i, j \in 1 .. n : /\ patches[i][f] # None /\ patches[j][f] # None
                       /\ patches[i][f] # patches[j][f]

(* The selection has in field f what the first n patches say of it.        *)
Follows(setup, patches, f, n, acc) ==
  /\ f \in acc.sources => \E i \in 1 .. n : patches[i][f] # None
  /\ \A i \in 1 .. n : patches[i][f] # None => f \in acc.sources /\ acc.selection[f] = patches[i][f]
  /\ f \notin acc.sources => acc.selection[f] = setup.selection[f]

(* The invariant of both folds when the bundles of k patches and the       *)
(* targets of l patches have been taken over.                              *)
Merges(setup, patches, k, l, acc) ==
  IF acc.conflict THEN Clash(patches, "bundle", k) \/ Clash(patches, "targets", l)
  ELSE Follows(setup, patches, "bundle", k, acc) /\ Follows(setup, patches, "targets", l, acc)

LEMMA Typed ==
  ASSUME NEW V, NEW acc \in Selections(V), NEW v \in V, NEW f \in Fields
  PROVE  SetField(acc, f, v) \in Selections(V) /\ ExpectField(acc, f, v) \in Selections(V)
BY DEF Selections, Fields, SetField, ExpectField

(* Both ways to take over a field keep the invariant.                      *)
LEMMA BundleStep ==
  ASSUME NEW V, NEW acc \in Selections(V), NEW setup, NEW patches, NEW k \in Nat, NEW l \in Nat,
         Merges(setup, patches, k, l, acc), patches[k + 1].bundle \in V
  PROVE  /\ Merges(setup, patches, k + 1, l, SetField(acc, "bundle", patches[k + 1].bundle))
         /\ Merges(setup, patches, k + 1, l, ExpectField(acc, "bundle", patches[k + 1].bundle))
<1>1. \A n, m \in Nat : \A f \in Fields : n <= m /\ Clash(patches, f, n) => Clash(patches, f, m)
  BY DEF Clash
<1> DEFINE b == patches[k + 1].bundle
<1>2. CASE acc.conflict
  BY <1>1, <1>2 DEF Merges, SetField, ExpectField, Selections, Fields
<1>3. CASE ~acc.conflict /\ b = None
  BY <1>3 DEF Merges, Follows, SetField, ExpectField, Selections, Fields
<1>4. CASE ~acc.conflict /\ b # None /\ "bundle" \in acc.sources /\ acc.selection.bundle # b
  BY <1>4 DEF Merges, Follows, Clash, SetField, ExpectField, Selections, Fields
<1>5. CASE ~acc.conflict /\ b # None /\ ~("bundle" \in acc.sources /\ acc.selection.bundle # b)
  BY <1>5 DEF Merges, Follows, Clash, SetField, ExpectField, Selections, Fields
<1> QED BY <1>2, <1>3, <1>4, <1>5

LEMMA TargetsStep ==
  ASSUME NEW V, NEW acc \in Selections(V), NEW setup, NEW patches, NEW k \in Nat, NEW l \in Nat,
         Merges(setup, patches, k, l, acc), patches[l + 1].targets \in V
  PROVE  /\ Merges(setup, patches, k, l + 1, SetField(acc, "targets", patches[l + 1].targets))
         /\ Merges(setup, patches, k, l + 1, ExpectField(acc, "targets", patches[l + 1].targets))
<1> DEFINE t == patches[l + 1].targets
<1>1. \A n, m \in Nat : \A f \in Fields : n <= m /\ Clash(patches, f, n) => Clash(patches, f, m)
  BY DEF Clash
<1>2. CASE acc.conflict
  BY <1>1, <1>2 DEF Merges, SetField, ExpectField, Selections, Fields
<1>3. CASE ~acc.conflict /\ t = None
  BY <1>3 DEF Merges, Follows, SetField, ExpectField, Selections, Fields
<1>4. CASE ~acc.conflict /\ t # None /\ "targets" \in acc.sources /\ acc.selection.targets # t
  BY <1>4 DEF Merges, Follows, Clash, SetField, ExpectField, Selections, Fields
<1>5. CASE ~acc.conflict /\ t # None /\ ~("targets" \in acc.sources /\ acc.selection.targets # t)
  BY <1>5 DEF Merges, Follows, Clash, SetField, ExpectField, Selections, Fields
<1> QED BY <1>2, <1>3, <1>4, <1>5

Named(setup, patches) ==
  {setup.selection.bundle, setup.selection.targets}
  \union {patches[k].bundle : k \in DOMAIN patches} \union {patches[k].targets : k \in DOMAIN patches}

(* The fold of the materializer and that of the validator exist and keep it *)
(* from the first patch to the last.                                       *)
LEMMA MergingFacts ==
  ASSUME NEW setup, NEW patches, NEW n \in Nat, Len(patches) = n, DOMAIN patches = 1 .. n
  PROVE  /\ Merging(setup, patches)[n] \in Selections(Named(setup, patches))
         /\ Merges(setup, patches, n, n, Merging(setup, patches)[n])
<1> DEFINE V == Named(setup, patches)
           A == Selections(V)
           Step(k, a) == SetField(SetField(a, "bundle", patches[k].bundle),
                                  "targets", patches[k].targets)
           step == [k \in 1 .. n |-> [a \in A |-> Step(k, a)]]
           base == Unpatched(setup)
           g == Merging(setup, patches)
<1>1. base \in A
  BY DEF Unpatched, Selections, Named
<1>2. \A k \in 1 .. n : patches[k].bundle \in V /\ patches[k].targets \in V
  BY DEF Named
<1>3. \A k \in 1 .. n, a \in A : Step(k, a) \in A
  <2> HIDE DEF V
  <2> QED BY <1>2, Typed DEF Fields
<1>4. step \in [1 .. n -> [A -> A]]
  BY <1>3
<1>5. PICK f \in [0 .. n -> A] : Unfolds(f, n, base, step)
  <2> HIDE DEF A, base, step
  <2> QED BY <1>1, <1>4, FunctionByRecursion
<1>6. f = [k \in 0 .. n |-> IF k = 0 THEN base ELSE Step(k, f[k - 1])]
  <2>1. ASSUME NEW k \in 1 .. n PROVE f[k] = Step(k, f[k - 1])
    <3>1. k - 1 \in 0 .. n /\ f[k - 1] \in A
      OBVIOUS
    <3>2. step[k][f[k - 1]] = Step(k, f[k - 1])
      <4> HIDE DEF A, Step
      <4> QED BY <3>1
    <3> QED BY <1>5, <3>2 DEF Unfolds
  <2>2. \A k \in 0 .. n : f[k] = IF k = 0 THEN base ELSE Step(k, f[k - 1])
    BY <1>5, <2>1 DEF Unfolds
  <2>3. f = [k \in 0 .. n |-> f[k]]
    OBVIOUS
  <2> HIDE DEF A, Step, base
  <2> QED BY <2>2, <2>3
<1>7. g = [k \in 0 .. n |-> IF k = 0 THEN base ELSE Step(k, g[k - 1])]
  BY <1>6 DEF Merging
<1> DEFINE Done == {k \in 0 .. n : g[k] \in A /\ Merges(setup, patches, k, k, g[k])}
<1>8. 0 \in Done
  BY <1>1, <1>7 DEF Merges, Follows, Unpatched, Selections, Fields
<1>9. ASSUME NEW k \in 0 .. n - 1, k \in Done PROVE k + 1 \in Done
  <2> DEFINE b == SetField(g[k], "bundle", patches[k + 1].bundle)
  <2>1. g[k + 1] = Step(k + 1, g[k]) /\ k + 1 \in 1 .. n
    <3>1. k + 1 \in 1 .. n /\ k + 1 \in 0 .. n /\ k + 1 # 0 /\ (k + 1) - 1 = k
      OBVIOUS
    <3> HIDE DEF g, Step, base
    <3> QED BY <1>7, <3>1
  <2>2. /\ g[k] \in A /\ Merges(setup, patches, k, k, g[k]) /\ k \in Nat
        /\ patches[k + 1].bundle \in V /\ patches[k + 1].targets \in V
    BY <1>2, <1>9, <2>1
  <2>3. b \in A /\ Merges(setup, patches, k + 1, k, b)
    <3> HIDE DEF V, g
    <3> QED BY <2>2, Typed, BundleStep DEF Fields
  <2>4. Step(k + 1, g[k]) \in A /\ Merges(setup, patches, k + 1, k + 1, Step(k + 1, g[k]))
    <3>1. Step(k + 1, g[k]) = SetField(b, "targets", patches[k + 1].targets)
      OBVIOUS
    <3> HIDE DEF V, g, b, Step
    <3>2. SetField(b, "targets", patches[k + 1].targets) \in A
      BY <2>2, <2>3, Typed DEF Fields
    <3>3. Merges(setup, patches, k + 1, k + 1, SetField(b, "targets", patches[k + 1].targets))
      BY <2>2, <2>3, TargetsStep
    <3> QED BY <3>1, <3>2, <3>3
  <2> QED BY <2>1, <2>4
<1>10. 0 .. n \subseteq Done
  <2> HIDE DEF Done
  <2> QED BY <1>8, <1>9, ByInduction
<1> QED BY <1>10

LEMMA ExpectingFacts ==
  ASSUME NEW setup, NEW patches, NEW n \in Nat, Len(patches) = n, DOMAIN patches = 1 .. n
  PROVE  /\ Expecting(setup, patches)[n] \in Selections(Named(setup, patches))
         /\ Merges(setup, patches, n, n, Expecting(setup, patches)[n])
<1> DEFINE V == Named(setup, patches)
           A == Selections(V)
           Step(k, a) == ExpectField(ExpectField(a, "bundle", patches[k].bundle),
                                     "targets", patches[k].targets)
           step == [k \in 1 .. n |-> [a \in A |-> Step(k, a)]]
           base == Unpatched(setup)
           g == Expecting(setup, patches)
<1>1. base \in A
  BY DEF Unpatched, Selections, Named
<1>2. \A k \in 1 .. n : patches[k].bundle \in V /\ patches[k].targets \in V
  BY DEF Named
<1>3. \A k \in 1 .. n, a \in A : Step(k, a) \in A
  <2> HIDE DEF V
  <2> QED BY <1>2, Typed DEF Fields
<1>4. step \in [1 .. n -> [A -> A]]
  BY <1>3
<1>5. PICK f \in [0 .. n -> A] : Unfolds(f, n, base, step)
  <2> HIDE DEF A, base, step
  <2> QED BY <1>1, <1>4, FunctionByRecursion
<1>6. f = [k \in 0 .. n |-> IF k = 0 THEN base ELSE Step(k, f[k - 1])]
  <2>1. ASSUME NEW k \in 1 .. n PROVE f[k] = Step(k, f[k - 1])
    <3>1. k - 1 \in 0 .. n /\ f[k - 1] \in A
      OBVIOUS
    <3>2. step[k][f[k - 1]] = Step(k, f[k - 1])
      <4> HIDE DEF A, Step
      <4> QED BY <3>1
    <3> QED BY <1>5, <3>2 DEF Unfolds
  <2>2. \A k \in 0 .. n : f[k] = IF k = 0 THEN base ELSE Step(k, f[k - 1])
    BY <1>5, <2>1 DEF Unfolds
  <2>3. f = [k \in 0 .. n |-> f[k]]
    OBVIOUS
  <2> HIDE DEF A, Step, base
  <2> QED BY <2>2, <2>3
<1>7. g = [k \in 0 .. n |-> IF k = 0 THEN base ELSE Step(k, g[k - 1])]
  BY <1>6 DEF Expecting
<1> DEFINE Done == {k \in 0 .. n : g[k] \in A /\ Merges(setup, patches, k, k, g[k])}
<1>8. 0 \in Done
  BY <1>1, <1>7 DEF Merges, Follows, Unpatched, Selections, Fields
<1>9. ASSUME NEW k \in 0 .. n - 1, k \in Done PROVE k + 1 \in Done
  <2> DEFINE b == ExpectField(g[k], "bundle", patches[k + 1].bundle)
  <2>1. g[k + 1] = Step(k + 1, g[k]) /\ k + 1 \in 1 .. n
    <3>1. k + 1 \in 1 .. n /\ k + 1 \in 0 .. n /\ k + 1 # 0 /\ (k + 1) - 1 = k
      OBVIOUS
    <3> HIDE DEF g, Step, base
    <3> QED BY <1>7, <3>1
  <2>2. /\ g[k] \in A /\ Merges(setup, patches, k, k, g[k]) /\ k \in Nat
        /\ patches[k + 1].bundle \in V /\ patches[k + 1].targets \in V
    BY <1>2, <1>9, <2>1
  <2>3. b \in A /\ Merges(setup, patches, k + 1, k, b)
    <3> HIDE DEF V, g
    <3> QED BY <2>2, Typed, BundleStep DEF Fields
  <2>4. Step(k + 1, g[k]) \in A /\ Merges(setup, patches, k + 1, k + 1, Step(k + 1, g[k]))
    <3>1. Step(k + 1, g[k]) = ExpectField(b, "targets", patches[k + 1].targets)
      OBVIOUS
    <3> HIDE DEF V, g, b, Step
    <3>2. ExpectField(b, "targets", patches[k + 1].targets) \in A
      BY <2>2, <2>3, Typed DEF Fields
    <3>3. Merges(setup, patches, k + 1, k + 1, ExpectField(b, "targets", patches[k + 1].targets))
      BY <2>2, <2>3, TargetsStep
    <3> QED BY <3>1, <3>2, <3>3
  <2> QED BY <2>1, <2>4
<1>10. 0 .. n \subseteq Done
  <2> HIDE DEF Done
  <2> QED BY <1>8, <1>9, ByInduction
<1> QED BY <1>10

(* What merging means, whatever the order: two patches that give a field   *)
(* different values conflict; otherwise a field has the value its patches  *)
(* agree on, or that of the setup.                                         *)
IsMerge(setup, patches, n, acc) ==
  /\ acc.conflict <=> Clash(patches, "bundle", n) \/ Clash(patches, "targets", n)
  /\ ~acc.conflict =>
       \A f \in Fields :
         IF \E i \in 1 .. n : patches[i][f] # None
         THEN \A i \in 1 .. n : patches[i][f] # None => acc.selection[f] = patches[i][f]
         ELSE acc.selection[f] = setup.selection[f]

LEMMA MergesIsMerge ==
  ASSUME NEW setup, NEW patches, NEW n \in Nat, NEW V, NEW acc \in Selections(V),
         Merges(setup, patches, n, n, acc)
  PROVE  IsMerge(setup, patches, n, acc)
<1>1. acc.conflict \in BOOLEAN
  BY DEF Selections
<1>2. ~acc.conflict => ~Clash(patches, "bundle", n) /\ ~Clash(patches, "targets", n)
  BY DEF Merges, Follows, Clash
<1>3. acc.conflict => Clash(patches, "bundle", n) \/ Clash(patches, "targets", n)
  BY DEF Merges
<1>4. ASSUME ~acc.conflict, NEW f \in Fields
      PROVE  IF \E i \in 1 .. n : patches[i][f] # None
             THEN \A i \in 1 .. n : patches[i][f] # None => acc.selection[f] = patches[i][f]
             ELSE acc.selection[f] = setup.selection[f]
  BY <1>4 DEF Merges, Follows, Fields
<1> QED BY <1>1, <1>2, <1>3, <1>4 DEF IsMerge

(* _materialize_selection and _expected_selection, which are written apart, *)
(* give one result for any number of patches: the order of the questions   *)
(* does not matter, they find a conflict in the same cases, and otherwise  *)
(* the same selection.                                                     *)
THEOREM ImplementationsAgree ==
  ASSUME NEW setup, NEW patches, NEW n \in Nat, Len(patches) = n, DOMAIN patches = 1 .. n
  PROVE  /\ IsMerge(setup, patches, n, Merging(setup, patches)[n])
         /\ Expecting(setup, patches)[n].conflict <=> Merging(setup, patches)[n].conflict
         /\ ~Merging(setup, patches)[n].conflict =>
              Expecting(setup, patches)[n].selection = Merging(setup, patches)[n].selection
<1> DEFINE merged == Merging(setup, patches)[n]
           expected == Expecting(setup, patches)[n]
           V == Named(setup, patches)
<1>1. merged \in Selections(V) /\ Merges(setup, patches, n, n, merged)
  BY MergingFacts
<1>2. expected \in Selections(V) /\ Merges(setup, patches, n, n, expected)
  BY ExpectingFacts
<1> HIDE DEF merged, expected, V
<1>3. IsMerge(setup, patches, n, merged) /\ IsMerge(setup, patches, n, expected)
  BY <1>1, <1>2, MergesIsMerge
<1>4. merged.conflict <=> expected.conflict
  BY <1>3 DEF IsMerge
<1>5. ASSUME ~merged.conflict PROVE merged.selection = expected.selection
  <2>1. \A f \in Fields : merged.selection[f] = expected.selection[f]
    BY <1>3, <1>4, <1>5 DEF IsMerge
  <2>2. merged.selection.bundle = expected.selection.bundle /\ merged.selection.targets = expected.selection.targets
    BY <2>1 DEF Fields
  <2>3. /\ merged.selection = [bundle |-> merged.selection.bundle, targets |-> merged.selection.targets]
        /\ expected.selection = [bundle |-> expected.selection.bundle, targets |-> expected.selection.targets]
    BY <1>1, <1>2 DEF Selections
  <2> QED BY <2>2, <2>3
<1> QED BY <1>3, <1>4, <1>5 DEF merged, expected

-----------------------------------------------------------------------------
(* validate-setups accepts only setups whose questions have ids of their   *)
(* own.                                                                    *)
LEMMA DistinctQuestions ==
  ASSUME NEW s, SetupDiagnostics(s) = {}, NEW i \in DOMAIN s.questions, NEW j \in DOMAIN s.questions,
         s.questions[i].id = s.questions[j].id
  PROVE  i = j
<1>1. When(HasTwice([k \in DOMAIN s.questions |-> s.questions[k].id]), "duplicateQuestion") = {}
  BY DEF SetupDiagnostics
<1>2. {"duplicateQuestion"} # {}
  OBVIOUS
<1>3. ~HasTwice([k \in DOMAIN s.questions |-> s.questions[k].id])
  BY <1>1, <1>2 DEF When
<1> QED BY <1>3 DEF HasTwice, IsInjective

(* A setup as its schema has it.                                           *)
Shaped(s) ==
  /\ Len(s.questions) \in Nat /\ DOMAIN s.questions = 1 .. Len(s.questions)
  /\ \A q \in ToSet(s.questions) : DOMAIN q.options \subseteq Nat \ {0}

(* _option_by_value finds one option at most.                              *)
LEMMA OneOption ==
  ASSUME NEW q, DOMAIN q.options \subseteq Nat \ {0}, NEW v,
         NEW o \in OptionsOf(q, v), NEW p \in OptionsOf(q, v)
  PROVE  o = p /\ o.value = v /\ o \in ToSet(q.options)
<1>1. PICK i \in DOMAIN q.options : /\ o = q.options[i] /\ q.options[i].value = v
                                    /\ \A h \in 1 .. i - 1 : q.options[h].value # v
  BY DEF OptionsOf
<1>2. PICK j \in DOMAIN q.options : /\ p = q.options[j] /\ q.options[j].value = v
                                    /\ \A h \in 1 .. j - 1 : q.options[h].value # v
  BY DEF OptionsOf
<1>3. i = j
  BY <1>1, <1>2
<1> QED BY <1>1, <1>2, <1>3 DEF ToSet

(* A setup of an accepted registry is found by its name.                   *)
LEMMA RegisteredSetup ==
  ASSUME NEW r \in Registries, RegistryDiagnostics(r) = {}, NEW s \in ToSet(r)
  PROVE  /\ Shaped(s) /\ SetupDiagnostics(s) = {}
         /\ {t \in ToSet(r) : t.name = s.name} = {s}
<1>1. Shaped(s)
  <2>1. s.questions \in Seq(ToSet(s.questions))
    BY RegistriesAssumption
  <2>2. ASSUME NEW q \in ToSet(s.questions) PROVE DOMAIN q.options \subseteq Nat \ {0}
    <3>1. q.options \in Seq(ToSet(q.options))
      BY RegistriesAssumption
    <3> QED BY <3>1
  <2> QED BY <2>1, <2>2 DEF Shaped
<1>2. SetupDiagnostics(s) = {}
  BY DEF RegistryDiagnostics
<1>3. ~HasTwice([k \in DOMAIN r |-> r[k].name])
  <2>1. When(HasTwice([k \in DOMAIN r |-> r[k].name]), "duplicateName") = {}
    BY DEF RegistryDiagnostics
  <2>2. {"duplicateName"} # {}
    OBVIOUS
  <2> QED BY <2>1, <2>2 DEF When
<1>4. ASSUME NEW t \in ToSet(r), t.name = s.name PROVE t = s
  <2>1. PICK i \in DOMAIN r : s = r[i]
    BY DEF ToSet
  <2>2. PICK j \in DOMAIN r : t = r[j]
    BY DEF ToSet
  <2>3. i = j
    BY <1>3, <1>4, <2>1, <2>2 DEF HasTwice, IsInjective
  <2> QED BY <2>1, <2>2, <2>3
<1> QED BY <1>1, <1>2, <1>4

Patched(setup, given) == [k \in DOMAIN setup.questions |-> Chosen(setup, given, k).patch]

(* What the materializer chooses for a question.                           *)
LEMMA ChosenOption ==
  ASSUME NEW setup, Shaped(setup), NEW given, Materializes(setup, given),
         NEW k \in DOMAIN setup.questions
  PROVE  LET q == setup.questions[k]
             o == Chosen(setup, given, k)
         IN  /\ OptionsOf(q, o.value) = {o} /\ o.value = Answered(q, given)
             /\ o \in ToSet(q.options) /\ o.class # "blocked"
<1> DEFINE q == setup.questions[k]
           o == Chosen(setup, given, k)
<1>1. q \in ToSet(setup.questions)
  BY DEF ToSet
<1>2. PICK p \in OptionsOf(q, Answered(q, given)) : p.class # "blocked"
  BY <1>1 DEF Materializes, Refused, ChosenOptions
<1>3. o \in OptionsOf(q, Answered(q, given))
  BY <1>2 DEF Chosen, ChosenOptions
<1>4. DOMAIN q.options \subseteq Nat \ {0}
  BY <1>1 DEF Shaped
<1> HIDE DEF o, q
<1>5. \A x \in OptionsOf(q, Answered(q, given)) : x = o /\ x.value = Answered(q, given) /\ x \in ToSet(q.options)
  BY <1>3, <1>4, OneOption
<1>6. o.value = Answered(q, given) /\ o \in ToSet(q.options) /\ o.class # "blocked"
  BY <1>2, <1>3, <1>5
<1>7. OptionsOf(q, o.value) = {o}
  BY <1>3, <1>5, <1>6
<1> QED BY <1>6, <1>7 DEF o, q

(* A profile that has one answer to each question.                         *)
LEMMA OneAnswer ==
  ASSUME NEW p, NEW n \in Nat, DOMAIN p.answers = 1 .. n,
         \A i, j \in 1 .. n : p.answers[i].question = p.answers[j].question => i = j,
         NEW k \in 1 .. n
  PROVE  AnswersTo(p, p.answers[k].question) = {p.answers[k]}
<1>1. \A i \in 1 .. k - 1 : i \in 1 .. n /\ p.answers[i].question # p.answers[k].question
  OBVIOUS
<1> QED BY <1>1 DEF AnswersTo

LEMMA LengthIs ==
  ASSUME NEW n \in Nat, NEW f, f = [k \in 1 .. n |-> f[k]]
  PROVE  Len(f) = n
<1>1. f \in [1 .. n -> ToSet(f)]
  BY DEF ToSet
<1>2. f \in Seq(ToSet(f))
  BY <1>1, IsASeq
<1>3. DOMAIN f = 1 .. n /\ DOMAIN f = 1 .. Len(f) /\ Len(f) \in Nat
  BY <1>1, <1>2, LenProperties
<1> QED BY <1>3

(* The selection of a profile, field by field.                             *)
LEMMA MaterializedSelection ==
  ASSUME NEW setup, Shaped(setup), NEW given
  PROVE  LET patches == Patched(setup, given)
             n == Len(setup.questions)
         IN  /\ Len(patches) = n /\ DOMAIN patches = 1 .. n
             /\ Merged(setup, given) = Merging(setup, patches)[n]
             /\ IsMerge(setup, patches, n, Merged(setup, given))
<1> DEFINE patches == Patched(setup, given)
           n == Len(setup.questions)
<1>1. n \in Nat /\ DOMAIN patches = 1 .. n
  BY DEF Shaped, Patched
<1>2. patches = [k \in 1 .. n |-> patches[k]]
  BY <1>1 DEF Patched
<1>3. Len(patches) = n
  <2> HIDE DEF patches, n
  <2> QED BY <1>1, <1>2, LengthIs
<1>4. Merged(setup, given) = Merging(setup, patches)[n]
  BY DEF Merged, Patched
<1>5. IsMerge(setup, patches, n, Merging(setup, patches)[n])
  <2> HIDE DEF patches, n
  <2> QED BY <1>1, <1>3, ImplementationsAgree
<1> QED BY <1>1, <1>3, <1>4, <1>5

(* The validator folds the patches of the answers.                         *)
LEMMA ExpectedAsMerged ==
  ASSUME NEW setup, Shaped(setup), NEW given, NEW p,
         \A k \in DOMAIN setup.questions : PatchTo(setup, p, k) = Chosen(setup, given, k).patch
  PROVE  /\ Expected(setup, p).conflict <=> Merged(setup, given).conflict
         /\ ~Merged(setup, given).conflict =>
              Expected(setup, p).selection = Merged(setup, given).selection
<1> DEFINE patches == Patched(setup, given)
           n == Len(setup.questions)
<1>1. [k \in DOMAIN setup.questions |-> PatchTo(setup, p, k)] = patches
  BY DEF Patched
<1>2. Expected(setup, p) = Expecting(setup, patches)[n]
  BY <1>1 DEF Expected
<1>3. Merged(setup, given) = Merging(setup, patches)[n] /\ Len(patches) = n /\ DOMAIN patches = 1 .. n
  BY MaterializedSelection
<1>4. n \in Nat
  BY DEF Shaped
<1> HIDE DEF patches, n
<1> QED BY <1>2, <1>3, <1>4, ImplementationsAgree

(* Without a conflict each field comes from the setup or from a patch.     *)
LEMMA FieldOrigin ==
  ASSUME NEW setup, Shaped(setup), NEW given, ~Merged(setup, given).conflict, NEW f \in Fields
  PROVE  LET option(k) == Chosen(setup, given, k).patch[f]
             value == Merged(setup, given).selection[f]
         IN  \/ /\ \A k \in DOMAIN setup.questions : option(k) = None
                /\ value = setup.selection[f]
             \/ /\ \E k \in DOMAIN setup.questions : option(k) # None
                /\ \A k \in DOMAIN setup.questions : option(k) # None => value = option(k)
<1>1. \A k \in DOMAIN setup.questions : Patched(setup, given)[k] = Chosen(setup, given, k).patch
  BY DEF Patched
<1>2. DOMAIN setup.questions = 1 .. Len(setup.questions)
  BY DEF Shaped
<1>3. IsMerge(setup, Patched(setup, given), Len(setup.questions), Merged(setup, given))
  BY MaterializedSelection
<1> QED BY <1>1, <1>2, <1>3 DEF IsMerge

(* The selections that validate-setups looks at.                           *)
LEMMA AcceptedSelections ==
  ASSUME NEW setup, SetupDiagnostics(setup) = {}
  PROVE  /\ SelectionDiagnostics(setup.selection) = {}
         /\ \A q \in ToSet(setup.questions) : \A o \in ToSet(q.options) :
              o.patch # NoPatch => SelectionDiagnostics(Effective(setup, o)) = {}
<1>1. SelectionDiagnostics(setup.selection) = {}
  BY DEF SetupDiagnostics
<1>2. ASSUME NEW q \in ToSet(setup.questions), NEW o \in ToSet(q.options), o.patch # NoPatch
      PROVE  SelectionDiagnostics(Effective(setup, o)) = {}
  <2>1. QuestionDiagnostics(setup, q) = {}
    BY DEF SetupDiagnostics
  <2>2. SelectionDiagnostics(Effective(setup, o)) \subseteq QuestionDiagnostics(setup, q)
    BY <1>2 DEF QuestionDiagnostics
  <2> QED BY <2>1, <2>2
<1> QED BY <1>1, <1>2

(* Bundle and targets of a selection that nothing is wrong with.           *)
LEMMA SoundSelection ==
  ASSUME NEW s
  PROVE  SelectionDiagnostics(s) = {} <=>
           /\ s.bundle \in DOMAIN BundleTargets
           /\ ToSet(s.targets) \subseteq RegisteredTargets
           /\ ToSet(s.targets) \subseteq ToSet(BundleTargets[s.bundle])
BY DEF SelectionDiagnostics, When

(* The bundle is registered and so are the targets, as each comes from the *)
(* setup or an option.                                                     *)
LEMMA MergedIsRegistered ==
  ASSUME NEW setup, Shaped(setup), SetupDiagnostics(setup) = {},
         NEW given, Materializes(setup, given)
  PROVE  SelectionDiagnostics(Merged(setup, given).selection) \subseteq {"outsideBundle"}
<1> DEFINE option(k) == Chosen(setup, given, k)
           selection == Merged(setup, given).selection
<1>1. ~Merged(setup, given).conflict
  BY DEF Materializes
<1>2. ASSUME NEW k \in DOMAIN setup.questions, option(k).patch # NoPatch
      PROVE  SelectionDiagnostics(Effective(setup, option(k))) = {}
  BY <1>2, ChosenOption, AcceptedSelections DEF ToSet
<1>3. selection.bundle \in DOMAIN BundleTargets
  <2>1. CASE selection.bundle = setup.selection.bundle
    BY <2>1, AcceptedSelections, SoundSelection
  <2>2. ASSUME NEW k \in DOMAIN setup.questions, option(k).patch.bundle # None,
               selection.bundle = option(k).patch.bundle
        PROVE  selection.bundle \in DOMAIN BundleTargets
    <3>1. option(k).patch # NoPatch
      BY <2>2 DEF NoPatch
    <3>2. Effective(setup, option(k)).bundle = option(k).patch.bundle
      BY <2>2 DEF Effective
    <3> QED BY <1>2, <2>2, <3>1, <3>2, SoundSelection
  <2>3. "bundle" \in Fields
    BY DEF Fields
  <2> QED BY <1>1, <2>1, <2>2, <2>3, FieldOrigin
<1>4. ToSet(selection.targets) \subseteq RegisteredTargets
  <2>1. CASE selection.targets = setup.selection.targets
    BY <2>1, AcceptedSelections, SoundSelection
  <2>2. ASSUME NEW k \in DOMAIN setup.questions, option(k).patch.targets # None,
               selection.targets = option(k).patch.targets
        PROVE  ToSet(selection.targets) \subseteq RegisteredTargets
    <3>1. option(k).patch # NoPatch
      BY <2>2 DEF NoPatch
    <3>2. Effective(setup, option(k)).targets = option(k).patch.targets
      BY <2>2 DEF Effective
    <3> QED BY <1>2, <2>2, <3>1, <3>2, SoundSelection
  <2>3. "targets" \in Fields
    BY DEF Fields
  <2> QED BY <1>1, <2>1, <2>2, <2>3, FieldOrigin
<1> QED BY <1>3, <1>4 DEF SelectionDiagnostics, When

(* Where at most one answer touches the selection, the result is what was  *)
(* checked for that option.                                                *)
LEMMA OnePatchIsSound ==
  ASSUME NEW setup, Shaped(setup), SetupDiagnostics(setup) = {},
         NEW given, Materializes(setup, given),
         \A j, k \in DOMAIN setup.questions :
           Chosen(setup, given, j).patch # NoPatch /\ Chosen(setup, given, k).patch # NoPatch => j = k
  PROVE  SelectionDiagnostics(Merged(setup, given).selection) = {}
<1> DEFINE option(k) == Chosen(setup, given, k)
           selection == Merged(setup, given).selection
<1>1. ~Merged(setup, given).conflict /\ "bundle" \in Fields /\ "targets" \in Fields
  BY DEF Materializes, Fields
<1>2. NoPatch.bundle = None /\ NoPatch.targets = None
  BY DEF NoPatch
<1>3. CASE \A k \in DOMAIN setup.questions : option(k).patch = NoPatch
  <2>1. selection.bundle = setup.selection.bundle /\ selection.targets = setup.selection.targets
    BY <1>1, <1>2, <1>3, FieldOrigin
  <2> QED BY <2>1, AcceptedSelections, SoundSelection
<1>4. CASE \E k \in DOMAIN setup.questions : option(k).patch # NoPatch
  <2>1. PICK k \in DOMAIN setup.questions : option(k).patch # NoPatch
    BY <1>4
  <2>2. \A j \in DOMAIN setup.questions : j # k => option(j).patch = NoPatch
    BY <2>1
  <2> DEFINE effective == Effective(setup, option(k))
  <2>3. selection.bundle = effective.bundle
    <3>1. selection.bundle = IF option(k).patch.bundle = None THEN setup.selection.bundle
                             ELSE option(k).patch.bundle
      BY <1>1, <1>2, <2>2, FieldOrigin
    <3> QED BY <3>1 DEF Effective
  <2>4. selection.targets = effective.targets
    <3>1. selection.targets = IF option(k).patch.targets = None THEN setup.selection.targets
                              ELSE option(k).patch.targets
      BY <1>1, <1>2, <2>2, FieldOrigin
    <3> QED BY <3>1 DEF Effective
  <2>5. SelectionDiagnostics(effective) = {}
    BY <2>1, ChosenOption, AcceptedSelections DEF ToSet
  <2> HIDE DEF effective, selection
  <2>6. SelectionDiagnostics(selection) = {}
    BY <2>3, <2>4, <2>5, SoundSelection
  <2> QED BY <2>6 DEF selection
<1> QED BY <1>3, <1>4

(* The validator finds nothing in a profile as materialized but what its   *)
(* selection may leave of the bundle.                                      *)
LEMMA MaterializedDiagnostics ==
  ASSUME NEW r \in Registries, RegistryDiagnostics(r) = {}, NEW setup \in ToSet(r),
         NEW given, Materializes(setup, given)
  PROVE  ProfileDiagnostics(Materialized(setup, given), r)
           = SelectionDiagnostics(Merged(setup, given).selection)
<1> DEFINE p == Materialized(setup, given)
           q(k) == setup.questions[k]
           o(k) == Chosen(setup, given, k)
           n == Len(setup.questions)
<1>1. /\ Shaped(setup) /\ SetupDiagnostics(setup) = {}
      /\ {t \in ToSet(r) : t.name = setup.name} = {setup}
  BY RegisteredSetup
<1>2. n \in Nat /\ DOMAIN setup.questions = 1 .. n
  BY <1>1 DEF Shaped
<1>3. \A i, j \in 1 .. n : q(i).id = q(j).id => i = j
  BY <1>1, <1>2, DistinctQuestions
<1>4. \A k \in 1 .. n : OptionsOf(q(k), o(k).value) = {o(k)} /\ o(k).class # "blocked"
  BY <1>1, <1>2, ChosenOption
<1>5. /\ p.setup = setup.name /\ p.selected = Merged(setup, given).selection
      /\ DOMAIN p.answers = 1 .. n
  BY <1>2 DEF Materialized
<1>14. ASSUME NEW k \in 1 .. n
       PROVE  /\ p.answers[k].question = q(k).id /\ p.answers[k].selected = o(k).value
              /\ p.answers[k].class = o(k).class
  BY <1>2 DEF Materialized
<1> HIDE DEF p, q, o, n
<1>6. \A k \in 1 .. n : AnswersTo(p, q(k).id) = {p.answers[k]}
  <2>1. \A i, j \in 1 .. n : p.answers[i].question = p.answers[j].question => i = j
    BY <1>3, <1>14
  <2>2. \A k \in 1 .. n : AnswersTo(p, p.answers[k].question) = {p.answers[k]}
    BY <1>2, <1>5, <2>1, OneAnswer
  <2> QED BY <1>14, <2>2
<1>7. ~HasTwice([k \in DOMAIN p.answers |-> p.answers[k].question])
  BY <1>3, <1>5, <1>14 DEF HasTwice, IsInjective
<1>8. ASSUME NEW a \in UNION {AnswersTo(p, b.question) : b \in ToSet(p.answers)}
      PROVE  AnswerDiagnostics(setup, a) = {}
  <2>1. PICK k \in 1 .. n : a = p.answers[k]
    <3>1. PICK b \in ToSet(p.answers) : a \in AnswersTo(p, b.question)
      OBVIOUS
    <3>2. PICK k \in 1 .. n : b = p.answers[k]
      BY <1>5, <3>1 DEF ToSet
    <3> QED BY <1>6, <1>14, <3>1, <3>2
  <2>2. {x \in ToSet(setup.questions) : x.id = a.question} = {q(k)}
    BY <1>2, <1>3, <1>14, <2>1 DEF ToSet, q
  <2>3. UNION {OptionsOf(x, a.selected) : x \in {y \in ToSet(setup.questions) : y.id = a.question}} = {o(k)}
    BY <1>4, <1>5, <1>14, <2>1, <2>2
  <2>4. o(k).class # "blocked" /\ a.class = o(k).class
    BY <1>4, <1>5, <1>14, <2>1
  <2> QED BY <2>2, <2>3, <2>4 DEF AnswerDiagnostics, When
<1>9. \A id \in {x.id : x \in ToSet(setup.questions)} : AnswersTo(p, id) # {}
  <2>1. ASSUME NEW k \in 1 .. n PROVE AnswersTo(p, q(k).id) # {}
    BY <1>6
  <2> QED BY <1>2, <2>1 DEF ToSet, q
<1>10. \A k \in DOMAIN setup.questions : PatchTo(setup, p, k) = o(k).patch
  <2>1. ASSUME NEW k \in 1 .. n PROVE PatchTo(setup, p, k) = o(k).patch
    <3>1. UNION {OptionsOf(q(k), a.selected) : a \in AnswersTo(p, q(k).id)} = {o(k)}
      BY <1>4, <1>14, <1>6
    <3> QED BY <3>1 DEF PatchTo, q
  <2> QED BY <1>2, <2>1
<1>11. /\ ~Expected(setup, p).conflict
       /\ Expected(setup, p).selection = Merged(setup, given).selection
  BY <1>1, <1>10, ExpectedAsMerged DEF Materializes, o
<1>12. {s \in ToSet(r) : s.name = p.setup} = {setup}
  BY <1>1, <1>5, <1>14
<1>13. ProfileDiagnostics(p, r) = SelectionDiagnostics(p.selected)
  <2>1. ProfileDiagnostics(p, r) = DiagnosticsAgainst(setup, p)
    <3>1. \A S : S = {setup} => S # {} /\ (CHOOSE s \in S : TRUE) = setup
      OBVIOUS
    <3> QED BY <1>12, <3>1 DEF ProfileDiagnostics
  <2>2. UNION {AnswerDiagnostics(setup, a) : a \in UNION {AnswersTo(p, b.question) : b \in ToSet(p.answers)}} = {}
    BY <1>8
  <2>3. DiagnosticsAgainst(setup, p) =
          When(HasTwice([k \in DOMAIN p.answers |-> p.answers[k].question]), "duplicateAnswer")
          \union (UNION {AnswerDiagnostics(setup, a) : a \in UNION {AnswersTo(p, b.question) : b \in ToSet(p.answers)}})
          \union When(\E id \in {x.id : x \in ToSet(setup.questions)} : AnswersTo(p, id) = {}, "missingAnswer")
          \union When(Expected(setup, p).conflict, "conflict")
          \union When(~Expected(setup, p).conflict /\ p.selected # Expected(setup, p).selection, "mismatch")
          \union SelectionDiagnostics(p.selected)
    BY DEF DiagnosticsAgainst
  <2>4. \A d : When(FALSE, d) = {}
    BY DEF When
  <2>5. /\ (\E id \in {x.id : x \in ToSet(setup.questions)} : AnswersTo(p, id) = {}) = FALSE
        /\ HasTwice([k \in DOMAIN p.answers |-> p.answers[k].question]) = FALSE
        /\ Expected(setup, p).conflict = FALSE
        /\ (~Expected(setup, p).conflict /\ p.selected # Expected(setup, p).selection) = FALSE
    BY <1>5, <1>7, <1>9, <1>11
  <2> QED BY <2>1, <2>2, <2>3, <2>4, <2>5
<1> QED BY <1>5, <1>13 DEF p

(* A profile as its schema has it.                                         *)
ProfileShaped(p) ==
  /\ p = [setup |-> p.setup, answers |-> p.answers, selected |-> p.selected]
  /\ Len(p.answers) \in Nat
  /\ p.answers = [k \in 1 .. Len(p.answers) |-> p.answers[k]]
  /\ \A k \in 1 .. Len(p.answers) :
       p.answers[k] = [question |-> p.answers[k].question,
                       selected |-> p.answers[k].selected, class |-> p.answers[k].class]

GivenBy(p) ==
  [id \in {a.question : a \in ToSet(p.answers)} |->
     (CHOOSE a \in ToSet(p.answers) : a.question = id).selected]

LEMMA NoDiagnostic ==
  ASSUME NEW c, NEW d, When(c, d) = {} PROVE ~c
BY DEF When

(* Nothing is wrong with an answer: it names an option of its question.    *)
LEMMA SoundAnswer ==
  ASSUME NEW setup, NEW a, AnswerDiagnostics(setup, a) = {}
  PROVE  \E k \in DOMAIN setup.questions :
           /\ setup.questions[k].id = a.question
           /\ \E o \in OptionsOf(setup.questions[k], a.selected) :
                o.class # "blocked" /\ a.class = o.class
<1> DEFINE questions == {q \in ToSet(setup.questions) : q.id = a.question}
           options == UNION {OptionsOf(q, a.selected) : q \in questions}
           Check(o) == IF o.class = "blocked" THEN {"blocked"}
                       ELSE When(a.class # o.class, "classification")
<1>1. AnswerDiagnostics(setup, a) =
        When(questions = {}, "unknownQuestion")
        \union When(questions # {} /\ options = {}, "unknownOption")
        \union (UNION {Check(o) : o \in options})
  BY DEF AnswerDiagnostics
<1>2. questions # {}
  <2>1. When(questions = {}, "unknownQuestion") = {}
    BY <1>1
  <2> QED BY <2>1, NoDiagnostic
<1>3. options # {}
  <2>1. When(questions # {} /\ options = {}, "unknownOption") = {}
    BY <1>1
  <2> HIDE DEF questions, options
  <2> QED BY <1>2, <2>1, NoDiagnostic
<1>4. PICK o \in options : TRUE
  BY <1>3
<1>5. Check(o) = {}
  BY <1>1, <1>4
<1>6. o.class # "blocked" /\ a.class = o.class
  BY <1>5 DEF When
<1>7. PICK q \in questions : o \in OptionsOf(q, a.selected)
  BY <1>4
<1>8. PICK k \in DOMAIN setup.questions : q = setup.questions[k]
  BY <1>7 DEF ToSet
<1> QED BY <1>6, <1>7, <1>8

(* A profile that passes validation is what its answers materialize to.    *)
LEMMA ValidProfile ==
  ASSUME NEW r \in Registries, RegistryDiagnostics(r) = {},
         NEW p, ProfileShaped(p), ProfileDiagnostics(p, r) = {}
  PROVE  \E setup \in ToSet(r) :
           /\ setup.name = p.setup
           /\ Materializes(setup, GivenBy(p))
           /\ ToSet(p.answers) = ToSet(Materialized(setup, GivenBy(p)).answers)
           /\ p.selected = Materialized(setup, GivenBy(p)).selected
<1>1. PICK setup \in ToSet(r) : setup.name = p.setup /\ DiagnosticsAgainst(setup, p) = {}
  <2> DEFINE found == {s \in ToSet(r) : s.name = p.setup}
  <2>1. found # {}
    BY DEF ProfileDiagnostics
  <2>2. (CHOOSE s \in found : TRUE) \in found
    BY <2>1
  <2>3. DiagnosticsAgainst(CHOOSE s \in found : TRUE, p) = {}
    BY <2>1 DEF ProfileDiagnostics
  <2> QED BY <2>2, <2>3
<1> DEFINE given == GivenBy(p)
           q(k) == setup.questions[k]
           o(k) == Chosen(setup, given, k)
           n == Len(setup.questions)
           m == Len(p.answers)
           a(i) == p.answers[i]
<1>2. Shaped(setup) /\ SetupDiagnostics(setup) = {}
  BY RegisteredSetup
<1>3. n \in Nat /\ DOMAIN setup.questions = 1 .. n
  BY <1>2 DEF Shaped
<1>4. m \in Nat /\ DOMAIN p.answers = 1 .. m /\ ToSet(p.answers) = {a(i) : i \in 1 .. m}
  BY DEF ProfileShaped, ToSet
<1>5. \A i, j \in 1 .. m : a(i).question = a(j).question => i = j
  <2>1. When(HasTwice([k \in DOMAIN p.answers |-> p.answers[k].question]), "duplicateAnswer") = {}
    BY <1>1 DEF DiagnosticsAgainst
  <2>2. ~HasTwice([k \in DOMAIN p.answers |-> p.answers[k].question])
    BY <2>1, NoDiagnostic
  <2> QED BY <1>4, <2>2 DEF HasTwice, IsInjective
<1>6. \A i \in 1 .. m : AnswersTo(p, a(i).question) = {a(i)}
  BY <1>4, <1>5, OneAnswer
<1>7. ASSUME NEW i \in 1 .. m
      PROVE  \E k \in 1 .. n : /\ q(k).id = a(i).question
                              /\ \E x \in OptionsOf(q(k), a(i).selected) :
                                   x.class # "blocked" /\ a(i).class = x.class
  <2>1. UNION {AnswerDiagnostics(setup, x) : x \in UNION {AnswersTo(p, b.question) : b \in ToSet(p.answers)}} = {}
    BY <1>1 DEF DiagnosticsAgainst
  <2>2. a(i) \in ToSet(p.answers) /\ a(i) \in AnswersTo(p, a(i).question)
    BY <1>4, <1>6
  <2>3. AnswerDiagnostics(setup, a(i)) = {}
    <3> HIDE DEF a
    <3> QED BY <2>1, <2>2
  <2>4. \E k \in DOMAIN setup.questions :
          /\ setup.questions[k].id = a(i).question
          /\ \E x \in OptionsOf(setup.questions[k], a(i).selected) :
               x.class # "blocked" /\ a(i).class = x.class
    <3> HIDE DEF a
    <3> QED BY <2>3, SoundAnswer
  <2> QED BY <1>3, <2>4
<1>8. \A i, j \in 1 .. n : q(i).id = q(j).id => i = j
  BY <1>2, <1>3, DistinctQuestions
<1>9. ASSUME NEW k \in 1 .. n PROVE \E i \in 1 .. m : a(i).question = q(k).id
  <2>1. When(\E id \in {x.id : x \in ToSet(setup.questions)} : AnswersTo(p, id) = {}, "missingAnswer") = {}
    BY <1>1 DEF DiagnosticsAgainst
  <2>2. ~\E id \in {x.id : x \in ToSet(setup.questions)} : AnswersTo(p, id) = {}
    BY <2>1, NoDiagnostic
  <2>3. q(k) \in ToSet(setup.questions)
    BY <1>3 DEF ToSet
  <2>4. AnswersTo(p, q(k).id) # {}
    BY <2>2, <2>3
  <2> QED BY <1>4, <2>4 DEF AnswersTo
<1>10. ASSUME NEW k \in 1 .. n, NEW i \in 1 .. m, a(i).question = q(k).id
       PROVE  \E x \in OptionsOf(q(k), a(i).selected) : x.class # "blocked" /\ a(i).class = x.class
  <2>2. PICK j \in 1 .. n :
          /\ q(j).id = a(i).question
          /\ \E x \in OptionsOf(q(j), a(i).selected) : x.class # "blocked" /\ a(i).class = x.class
    BY <1>7
  <2>3. j = k
    BY <1>8, <1>10, <2>2
  <2> QED BY <2>2, <2>3
<1>11. ASSUME NEW i \in 1 .. m PROVE \E k \in 1 .. n : q(k).id = a(i).question
  BY <1>7
<1>12. DOMAIN given = {a(i).question : i \in 1 .. m} /\ \A i \in 1 .. m : given[a(i).question] = a(i).selected
  <2>1. DOMAIN given = {a(i).question : i \in 1 .. m}
    BY <1>4 DEF GivenBy
  <2>2. ASSUME NEW i \in 1 .. m PROVE given[a(i).question] = a(i).selected
    <3>1. a(i) \in ToSet(p.answers) /\ \A x \in ToSet(p.answers) : x.question = a(i).question => x = a(i)
      BY <1>4, <1>5
    <3>2. (CHOOSE x \in ToSet(p.answers) : x.question = a(i).question) = a(i)
      BY <3>1
    <3> QED BY <3>1, <3>2 DEF GivenBy
  <2> QED BY <2>1, <2>2
<1> HIDE DEF given
<1>13. ASSUME NEW k \in 1 .. n, NEW i \in 1 .. m, a(i).question = q(k).id
       PROVE  /\ o(k).value = a(i).selected /\ o(k).class = a(i).class /\ o(k).class # "blocked"
              /\ o(k) \in ChosenOptions(q(k), given)
              /\ PatchTo(setup, p, k) = o(k).patch
  <2>1. Answered(q(k), given) = a(i).selected
    BY <1>12, <1>13 DEF Answered
  <2>2. PICK x \in OptionsOf(q(k), a(i).selected) : x.class # "blocked" /\ a(i).class = x.class
    BY <1>10, <1>13
  <2>3. DOMAIN q(k).options \subseteq Nat \ {0}
    BY <1>2, <1>3 DEF Shaped, ToSet
  <2>4. \A y \in OptionsOf(q(k), a(i).selected) : y = x /\ y.value = a(i).selected
    <3> HIDE DEF q, a
    <3> QED BY <2>2, <2>3, OneOption
  <2>5. o(k) \in OptionsOf(q(k), a(i).selected)
    BY <2>1, <2>2 DEF Chosen, ChosenOptions
  <2>6. o(k) = x
    BY <2>4, <2>5
  <2>7. AnswersTo(p, q(k).id) = {a(i)}
    BY <1>6, <1>13
  <2>8. UNION {OptionsOf(q(k), b.selected) : b \in AnswersTo(p, q(k).id)} = {x}
    BY <2>2, <2>4, <2>7
  <2>9. PatchTo(setup, p, k) = x.patch
    BY <2>8 DEF PatchTo
  <2> QED BY <2>1, <2>2, <2>4, <2>5, <2>6, <2>9 DEF ChosenOptions
<1>14. ~Refused(setup, given)
  <2>1. DOMAIN given \subseteq {x.id : x \in ToSet(setup.questions)}
    BY <1>3, <1>11, <1>12 DEF ToSet
  <2>2. ASSUME NEW k \in 1 .. n PROVE \E x \in ChosenOptions(q(k), given) : x.class # "blocked"
    BY <1>9, <1>13
  <2>3. \A x \in ToSet(setup.questions) : \E k \in 1 .. n : x = q(k)
    BY <1>3 DEF ToSet
  <2> QED BY <2>1, <2>2, <2>3 DEF Refused
<1>15. ~Expected(setup, p).conflict /\ p.selected = Expected(setup, p).selection
  <2>1. /\ When(Expected(setup, p).conflict, "conflict") = {}
        /\ When(~Expected(setup, p).conflict /\ p.selected # Expected(setup, p).selection, "mismatch") = {}
    BY <1>1 DEF DiagnosticsAgainst
  <2>2. ~Expected(setup, p).conflict
    BY <2>1, NoDiagnostic
  <2>3. ~(~Expected(setup, p).conflict /\ p.selected # Expected(setup, p).selection)
    BY <2>1, NoDiagnostic
  <2> QED BY <2>2, <2>3
<1>16. ~Merged(setup, given).conflict /\ p.selected = Merged(setup, given).selection
  <2>1. \A k \in DOMAIN setup.questions : PatchTo(setup, p, k) = Chosen(setup, given, k).patch
    BY <1>3, <1>9, <1>13
  <2> QED BY <1>2, <1>15, <2>1, ExpectedAsMerged
<1>17. ToSet(p.answers) = ToSet(Materialized(setup, given).answers)
  <2> DEFINE b(k) == [question |-> q(k).id, selected |-> o(k).value, class |-> o(k).class]
  <2>1. ToSet(Materialized(setup, given).answers) = {b(k) : k \in 1 .. n}
    BY <1>3 DEF Materialized, ToSet
  <2>2. ASSUME NEW k \in 1 .. n, NEW i \in 1 .. m, a(i).question = q(k).id PROVE a(i) = b(k)
    <3>1. a(i) = [question |-> a(i).question, selected |-> a(i).selected, class |-> a(i).class]
      BY DEF ProfileShaped
    <3> QED BY <1>13, <2>2, <3>1
  <2>3. \A i \in 1 .. m : \E k \in 1 .. n : a(i) = b(k)
    BY <1>11, <2>2
  <2>4. \A k \in 1 .. n : \E i \in 1 .. m : a(i) = b(k)
    BY <1>9, <2>2
  <2> HIDE DEF a, b
  <2> QED BY <1>4, <2>1, <2>3, <2>4
<1>18. Materialized(setup, given).selected = Merged(setup, given).selection
  BY DEF Materialized
<1> QED BY <1>1, <1>14, <1>16, <1>17, <1>18 DEF Materializes, given
-----------------------------------------------------------------------------
IsAnswer(a) == a = [question |-> a.question, selected |-> a.selected, class |-> a.class]

(* An edit keeps to the schema.                                            *)
LEMMA AnswersShaped ==
  ASSUME NEW A, \A a \in A : IsAnswer(a), NEW p, p.answers \in Seq(A),
         p = [setup |-> p.setup, answers |-> p.answers, selected |-> p.selected]
  PROVE  ProfileShaped(p)
<1>1. Len(p.answers) \in Nat /\ p.answers \in [1 .. Len(p.answers) -> A]
  BY LenProperties
<1> QED BY <1>1 DEF ProfileShaped, IsAnswer

LEMMA EditsShaped ==
  ASSUME NEW p, ProfileShaped(p), NEW e \in Edited(p) PROVE ProfileShaped(e)
<1> DEFINE s == p.answers
           n == Len(p.answers)
           A == ToSet(s)
<1>1. /\ n \in Nat /\ s \in Seq(A) /\ DOMAIN s = 1 .. n
      /\ p = [setup |-> p.setup, answers |-> s, selected |-> p.selected]
  <2>1. n \in Nat /\ s \in [1 .. n -> A]
    BY DEF ProfileShaped, ToSet
  <2>2. s \in Seq(A)
    BY <2>1, IsASeq
  <2> QED BY <2>1, <2>2 DEF ProfileShaped
<1>2. \A a \in A : IsAnswer(a)
  BY <1>1 DEF ProfileShaped, IsAnswer, ToSet
<1>3. ASSUME NEW B, \A a \in B : IsAnswer(a), NEW t \in Seq(B), NEW x, NEW y,
             e = [setup |-> x, answers |-> t, selected |-> y]
      PROVE  ProfileShaped(e)
  BY <1>3, AnswersShaped
<1>4. CASE \E x, y : e = [setup |-> x, answers |-> s, selected |-> y]
  <2> HIDE DEF A
  <2> QED BY <1>1, <1>2, <1>3, <1>4
<1>5. ASSUME NEW k \in 1 .. n, NEW a, IsAnswer(a), e = [p EXCEPT !.answers = [s EXCEPT ![k] = a]]
      PROVE  ProfileShaped(e)
  <2>1. [s EXCEPT ![k] = a] \in Seq(A \union {a})
    <3>1. s \in Seq(A \union {a})
      BY <1>1, SeqMonotonic
    <3> QED BY <1>1, <3>1, ExceptSeq
  <2>2. \A b \in A \union {a} : IsAnswer(b)
    BY <1>2, <1>5
  <2>3. e = [setup |-> p.setup, answers |-> [s EXCEPT ![k] = a], selected |-> p.selected]
    BY <1>1, <1>5
  <2> HIDE DEF A
  <2> QED BY <1>3, <2>1, <2>2, <2>3
<1>6. ASSUME NEW t \in Seq(A), e = [p EXCEPT !.answers = t]
      PROVE  ProfileShaped(e)
  <2>1. e = [setup |-> p.setup, answers |-> t, selected |-> p.selected]
    BY <1>1, <1>6
  <2> HIDE DEF A
  <2> QED BY <1>2, <1>3, <2>1
<1>7. CASE e = [p EXCEPT !.setup = "unknown"]
  <2>1. e = [setup |-> "unknown", answers |-> s, selected |-> p.selected]
    BY <1>1, <1>7
  <2> QED BY <1>4, <2>1
<1>8. ASSUME NEW y, e = [p EXCEPT !.selected = y] PROVE ProfileShaped(e)
  <2>1. e = [setup |-> p.setup, answers |-> s, selected |-> y]
    BY <1>1, <1>8
  <2> QED BY <1>4, <2>1
<1>9. ASSUME NEW k \in 1 .. n, NEW v, e = [p EXCEPT !.answers[k].selected = v]
      PROVE  ProfileShaped(e)
  <2>1. IsAnswer([s[k] EXCEPT !.selected = v])
    BY <1>1, <1>2 DEF IsAnswer, ToSet
  <2>2. e = [p EXCEPT !.answers = [s EXCEPT ![k] = [s[k] EXCEPT !.selected = v]]]
    BY <1>9
  <2> QED BY <1>5, <2>1, <2>2
<1>10. ASSUME NEW k \in 1 .. n, NEW v, e = [p EXCEPT !.answers[k].class = v]
       PROVE  ProfileShaped(e)
  <2>1. IsAnswer([s[k] EXCEPT !.class = v])
    BY <1>1, <1>2 DEF IsAnswer, ToSet
  <2>2. e = [p EXCEPT !.answers = [s EXCEPT ![k] = [s[k] EXCEPT !.class = v]]]
    BY <1>10
  <2> QED BY <1>5, <2>1, <2>2
<1>11. ASSUME NEW k \in 1 .. n, NEW v, e = [p EXCEPT !.answers[k].question = v]
       PROVE  ProfileShaped(e)
  <2>1. IsAnswer([s[k] EXCEPT !.question = v])
    BY <1>1, <1>2 DEF IsAnswer, ToSet
  <2>2. e = [p EXCEPT !.answers = [s EXCEPT ![k] = [s[k] EXCEPT !.question = v]]]
    BY <1>11
  <2> QED BY <1>5, <2>1, <2>2
<1>12. ASSUME NEW k \in 1 .. n, e = [p EXCEPT !.answers = RemoveAt(@, k)]
       PROVE  ProfileShaped(e)
  <2>1. SubSeq(s, 1, k - 1) \in Seq(A) /\ SubSeq(s, k + 1, n) \in Seq(A)
    BY <1>1, SubSeqProperties
  <2>2. RemoveAt(s, k) \in Seq(A)
    BY <2>1, ConcatProperties DEF RemoveAt
  <2> QED BY <1>6, <1>12, <2>2
<1>13. ASSUME NEW k \in 1 .. n, e = [p EXCEPT !.answers = Append(@, @[k])]
       PROVE  ProfileShaped(e)
  <2>1. s[k] \in A
    BY <1>1 DEF ToSet
  <2>2. Append(s, s[k]) \in Seq(A)
    BY <1>1, <2>1, AppendProperties
  <2> QED BY <1>6, <1>13, <2>2
<1>14. \/ e = [p EXCEPT !.setup = "unknown"]
       \/ \E y : e = [p EXCEPT !.selected = y]
       \/ \E k \in 1 .. n :
            \/ \E v : \/ e = [p EXCEPT !.answers[k].selected = v]
                      \/ e = [p EXCEPT !.answers[k].class = v]
                      \/ e = [p EXCEPT !.answers[k].question = v]
            \/ e = [p EXCEPT !.answers = RemoveAt(@, k)]
            \/ e = [p EXCEPT !.answers = Append(@, @[k])]
  <2> DEFINE At(k) ==
        {[p EXCEPT !.answers[k].selected = v] : v \in Values}
        \union {[p EXCEPT !.answers[k].class = c] : c \in Classes}
        \union {[p EXCEPT !.answers = RemoveAt(@, k)],
                [p EXCEPT !.answers = Append(@, @[k])],
                [p EXCEPT !.answers[k].question = "unknown"]}
      Reselected ==
        {[p EXCEPT !.selected = [bundle |-> x.bundle, targets |-> x.targets]] :
           x \in {t \in Patches : t.bundle # None /\ t.targets # None}}
  <2>1. \/ e = [p EXCEPT !.setup = "unknown"]
        \/ e \in Reselected
        \/ e \in UNION {At(k) : k \in DOMAIN p.answers}
    BY DEF Edited
  <2>2. ASSUME e \in Reselected PROVE \E y : e = [p EXCEPT !.selected = y]
    BY <2>2
  <2>3. ASSUME NEW k \in 1 .. n, e \in At(k)
        PROVE  \/ \E v : \/ e = [p EXCEPT !.answers[k].selected = v]
                         \/ e = [p EXCEPT !.answers[k].class = v]
                         \/ e = [p EXCEPT !.answers[k].question = v]
               \/ e = [p EXCEPT !.answers = RemoveAt(@, k)]
               \/ e = [p EXCEPT !.answers = Append(@, @[k])]
    BY <2>3
  <2>4. e \in UNION {At(k) : k \in DOMAIN p.answers} => \E k \in 1 .. n : e \in At(k)
    BY <1>1
  <2> HIDE DEF At, Reselected
  <2> QED BY <2>1, <2>2, <2>3, <2>4
<1> QED BY <1>7, <1>8, <1>9, <1>10, <1>11, <1>12, <1>13, <1>14

(* The inductive invariant.  A profile nobody has edited is what some      *)
(* registered setup gives for the overrides; from the registry on, setups  *)
(* are accepted, and a profile keeps to its schema.                        *)
OriginInv ==
  phase = "materialized" /\ changes = 0 =>
    \E setup \in ToSet(setups) :
      Materializes(setup, overrides) /\ profile = Materialized(setup, overrides)

AcceptedInv ==
  /\ setups \in Registries /\ changes \in Nat
  /\ phase \notin {"registered", "rejected"} => RegistryDiagnostics(setups) = {}
  /\ phase \in {"materialized", "valid"} => ProfileShaped(profile)
  /\ phase = "valid" => ProfileDiagnostics(profile, setups) = {}

ProfileInv == AcceptedInv /\ OriginInv

LEMMA ProfileInitHolds == ProfileInit => ProfileInv
BY DEF ProfileInit, ProfileInv, AcceptedInv, OriginInv

LEMMA MaterializedShaped ==
  ASSUME NEW setup, Shaped(setup), NEW given
  PROVE  ProfileShaped(Materialized(setup, given))
<1> DEFINE p == Materialized(setup, given)
           n == Len(setup.questions)
<1>1. n \in Nat /\ DOMAIN setup.questions = 1 .. n
  BY DEF Shaped
<1>2. /\ p = [setup |-> p.setup, answers |-> p.answers, selected |-> p.selected]
      /\ p.answers = [k \in 1 .. n |-> p.answers[k]]
      /\ \A k \in 1 .. n : IsAnswer(p.answers[k])
  BY <1>1 DEF Materialized, IsAnswer
<1>3. Len(p.answers) = n
  <2> HIDE DEF p, n
  <2> QED BY <1>1, <1>2, LengthIs
<1> HIDE DEF p, n
<1>4. ProfileShaped(p)
  BY <1>1, <1>2, <1>3 DEF ProfileShaped, IsAnswer
<1> QED BY <1>4 DEF p

LEMMA ProfileInductive == ProfileInv /\ [ProfileNext]_profileVars => ProfileInv'
<1> SUFFICES ASSUME ProfileInv, [ProfileNext]_profileVars PROVE ProfileInv'
  OBVIOUS
<1> USE DEF ProfileInv
<1>1. CASE LoadRegistry
  <2>1. AcceptedInv'
    BY <1>1 DEF LoadRegistry, AcceptedInv
  <2>2. OriginInv'
    BY <1>1 DEF LoadRegistry, OriginInv
  <2> QED BY <2>1, <2>2
<1>2. CASE Materialize
  <2> DEFINE given == overrides'
  <2>1. PICK setup \in ToSet(setups) :
          IF Materializes(setup, given)
          THEN phase' = "materialized" /\ profile' = Materialized(setup, given)
          ELSE phase' = "refused" /\ profile' = None
    BY <1>2 DEF Materialize
  <2>2. phase = "accepted" /\ UNCHANGED <<setups, changes>>
    BY <1>2 DEF Materialize
  <2>3. RegistryDiagnostics(setups) = {} /\ setups \in Registries
    BY <2>2 DEF AcceptedInv
  <2>4. ProfileShaped(Materialized(setup, given))
    BY <2>3, RegisteredSetup, MaterializedShaped
  <2>5. AcceptedInv'
    BY <2>1, <2>2, <2>3, <2>4 DEF AcceptedInv
  <2>6. OriginInv'
    BY <2>1, <2>2 DEF OriginInv
  <2> QED BY <2>5, <2>6
<1>3. CASE Validate
  <2>1. AcceptedInv'
    BY <1>3 DEF Validate, AcceptedInv
  <2>2. OriginInv'
    BY <1>3 DEF Validate, OriginInv
  <2> QED BY <2>1, <2>2
<1>4. CASE EditProfile
  <2>1. AcceptedInv'
    BY <1>4, EditsShaped DEF EditProfile, AcceptedInv
  <2>2. OriginInv'
    BY <1>4 DEF EditProfile, AcceptedInv, OriginInv
  <2> QED BY <2>1, <2>2
<1>5. CASE UNCHANGED profileVars
  BY <1>5 DEF profileVars, AcceptedInv, OriginInv
<1> QED BY <1>1, <1>2, <1>3, <1>4, <1>5 DEF ProfileNext

(* The registry stays accepted and the profile shaped in every behaviour,  *)
(* however often it is edited.                                             *)
THEOREM ProfileInvariance == ProfileSpec => []ProfileInv
BY ProfileInitHolds, ProfileInductive, PTL DEF ProfileSpec

(* For any accepted registry of setups, any number of questions and any    *)
(* overrides: what GuidedInitService.materialize writes can only be rejected *)
(* because its targets leave its bundle.                                   *)
THEOREM MaterializedProfilesAreValid == ProfileSpec => []MaterializedIsValid
<1>1. ASSUME ProfileInv, phase = "materialized", changes = 0
      PROVE  ProfileDiagnostics(profile, setups) \subseteq {"outsideBundle"}
  <2>1. setups \in Registries /\ RegistryDiagnostics(setups) = {}
    BY <1>1 DEF ProfileInv, AcceptedInv
  <2>2. PICK setup \in ToSet(setups) :
          Materializes(setup, overrides) /\ profile = Materialized(setup, overrides)
    BY <1>1 DEF ProfileInv, OriginInv
  <2>3. Shaped(setup) /\ SetupDiagnostics(setup) = {}
    BY <2>1, RegisteredSetup
  <2> QED BY <2>1, <2>2, <2>3, MaterializedDiagnostics, MergedIsRegistered
<1>2. ProfileInv => MaterializedIsValid
  BY <1>1 DEF MaterializedIsValid
<1> QED BY <1>2, ProfileInvariance, PTL

(* For any number of edits of any profile: what validate-setup-profile     *)
(* passes is, answers and selection, what the materializer gives for them. *)
THEOREM ValidProfilesAreMaterialized == ProfileSpec => []ValidIsMaterialized
<1>1. ProfileInv => ValidIsMaterialized
  <2>1. ASSUME ProfileInv, phase = "valid"
        PROVE  \E setup \in ToSet(setups) :
                 /\ setup.name = profile.setup
                 /\ Materializes(setup, GivenBy(profile))
                 /\ ToSet(profile.answers) = ToSet(Materialized(setup, GivenBy(profile)).answers)
                 /\ profile.selected = Materialized(setup, GivenBy(profile)).selected
    BY <2>1, ValidProfile DEF ProfileInv, AcceptedInv
  <2> QED BY <2>1 DEF ValidIsMaterialized, GivenBy
<1> QED BY <1>1, ProfileInvariance, PTL

(* For any accepted registry: where at most one answer touches the selection *)
(* the profile is valid, as validate-setups promises option by option.     *)
THEOREM SelectableOptionsWork == ProfileSpec => []SelectableOptionWorks
<1>1. ASSUME ProfileInv, phase = "materialized", changes = 0, NEW s \in ToSet(setups),
             s.name = profile.setup,
             Cardinality({k \in DOMAIN s.questions : Chosen(s, overrides, k).patch # NoPatch}) <= 1
      PROVE  ProfileDiagnostics(profile, setups) = {}
  <2>1. setups \in Registries /\ RegistryDiagnostics(setups) = {}
    BY <1>1 DEF ProfileInv, AcceptedInv
  <2>2. PICK setup \in ToSet(setups) :
          Materializes(setup, overrides) /\ profile = Materialized(setup, overrides)
    BY <1>1 DEF ProfileInv, OriginInv
  <2>3. setup.name = profile.setup
    BY <2>2 DEF Materialized
  <2>4. s = setup
    BY <1>1, <2>1, <2>3, RegisteredSetup
  <2>5. Shaped(s) /\ SetupDiagnostics(s) = {}
    BY <2>1, RegisteredSetup
  <2> DEFINE touching == {k \in DOMAIN s.questions : Chosen(s, overrides, k).patch # NoPatch}
  <2>6. IsFiniteSet(touching)
    <3>1. IsFiniteSet(1 .. Len(s.questions))
      BY <2>5, FS_Interval DEF Shaped
    <3> QED BY <2>5, <3>1, FS_Subset DEF Shaped
  <2>7. \A j, k \in touching : j = k
    <3>1. ASSUME NEW j \in touching, NEW k \in touching, j # k PROVE FALSE
      <4>1. IsFiniteSet({j, k}) /\ Cardinality({j, k}) = 2
        <5> DEFINE J == {j}
        <5>1. IsFiniteSet(J) /\ Cardinality(J) = 1 /\ k \notin J /\ J \union {k} = {j, k}
          BY <3>1, FS_Singleton
        <5> HIDE DEF J
        <5> QED BY <5>1, FS_AddElement
      <4>2. Cardinality({j, k}) <= Cardinality(touching)
        BY <2>6, FS_Subset
      <4> QED BY <1>1, <2>6, <4>1, <4>2, FS_CardinalityType
    <3> QED BY <3>1
  <2>8. SelectionDiagnostics(Merged(s, overrides).selection) = {}
    BY <2>2, <2>4, <2>5, <2>7, OnePatchIsSound
  <2> QED BY <2>1, <2>2, <2>4, <2>8, MaterializedDiagnostics
<1>2. ProfileInv => SelectableOptionWorks
  BY <1>1 DEF SelectableOptionWorks
<1> QED BY <1>2, ProfileInvariance, PTL

-----------------------------------------------------------------------------
(* The same of the setups init works with: going back forgets one answer and *)
(* no other.                                                               *)
LEMMA RegisteredQuestions ==
  ASSUME NEW s \in ToSet(Setups), NEW i \in DOMAIN s.questions, NEW j \in DOMAIN s.questions,
         s.questions[i].id = s.questions[j].id
  PROVE  i = j
<1>1. SetupDiagnostics(s) = {}
  BY SetupsAssumption DEF RegistryDiagnostics
<1> QED BY <1>1, DistinctQuestions

(* A profile that could be materialized answers each question as it was    *)
(* given, or by its default.                                               *)
LEMMA ProfileAnswers ==
  ASSUME NEW setup, NEW given, Materializes(setup, given),
         NEW a \in ToSet(Materialized(setup, given).answers)
  PROVE  \E k \in DOMAIN setup.questions :
           a.question = setup.questions[k].id /\ a.selected = Answered(setup.questions[k], given)
<1>1. PICK k \in DOMAIN setup.questions :
        a = [question |-> setup.questions[k].id,
             selected |-> Chosen(setup, given, k).value,
             class |-> Chosen(setup, given, k).class]
  BY DEF ToSet, Materialized
<1>2. ChosenOptions(setup.questions[k], given) # {}
  BY DEF Materializes, Refused, ToSet
<1>3. Chosen(setup, given, k) \in ChosenOptions(setup.questions[k], given)
  BY <1>2 DEF Chosen
<1>4. Chosen(setup, given, k).value = Answered(setup.questions[k], given)
  BY <1>3 DEF ChosenOptions, OptionsOf
<1> QED BY <1>1, <1>4

(* The inductive invariant.  Of the questions asked so far the answers are *)
(* what was said last; a plan under review or in a commit was agreed to as *)
(* far as its stage requires; its two files describe one selection; and as *)
(* long as nobody edits, the plan carries the metadata that are there.     *)
Recorded(k) ==
  LET id == chosen.questions[k].id IN
  id \in DOMAIN answers /\ id \in DOMAIN said /\ answers[id] = said[id]

ControlInv ==
  /\ chosen \in ToSet(Setups)
  /\ result = "running" => stage = "commit"
  /\ result = "ok" => stage = "idle"

AskInv ==
  /\ stage = "ask" => /\ at \in DOMAIN chosen.questions
                      /\ \A k \in DOMAIN chosen.questions : k < at => Recorded(k)
  /\ stage = "planning" /\ mode.interactive => \A k \in DOMAIN chosen.questions : Recorded(k)

ConsentInv ==
  /\ stage = "review" => ~mode.dry
  /\ stage = "commit" => ~mode.dry /\ (mode.interactive => reply # "")

PlanInv ==
  stage \in {"review", "commit"} \/ result = "ok" =>
    (plan.profile # None => /\ plan.profile.selected.bundle = plan.config.bundle
                            /\ plan.profile.selected.targets = plan.config.targets)

ProjectInv ==
  fresh /\ stage \in {"review", "commit"} /\ disk["config"] # Absent =>
    plan.config.project = disk["config"].project

CommitInv ==
  /\ result = "running" => goal = Outputs(plan)
  /\ result = "ok" /\ fresh => disk["config"] = plan.config
                               /\ (plan.profile # None => disk["profile"] = plan.profile)

IInv == ControlInv /\ AskInv /\ ConsentInv /\ PlanInv /\ ProjectInv /\ CommitInv /\ PlannedAsAnswered

LEMMA InitInv == Init => IInv
<1> SUFFICES ASSUME Init PROVE IInv
  OBVIOUS
<1>1. Setups[1] \in ToSet(Setups)
  BY SetupsAssumption DEF ToSet
<1> QED BY <1>1 DEF Init, IInv, ControlInv, AskInv, ConsentInv, PlanInv, ProjectInv, CommitInv, PlannedAsAnswered

(* A command that ends without having written leaves nothing to keep.      *)
LEMMA FailInv ==
  ASSUME IInv, Fail, chosen' \in ToSet(Setups) PROVE IInv'
BY DEF Fail, IInv, ControlInv, AskInv, ConsentInv, PlanInv, ProjectInv, CommitInv, PlannedAsAnswered

LEMMA AnswerInv ==
  ASSUME IInv, AnswerQuestion PROVE IInv'
<1>1. /\ stage = "ask" /\ UNCHANGED <<mode, chosen, reply, fresh, disk, goal>>
      /\ chosen \in ToSet(Setups) /\ result # "running" /\ result # "ok"
  BY DEF AnswerQuestion, files, IInv, ControlInv
<1>2. PICK n \in 0 .. Len(Question.options) :
        /\ said' = Update(said, Question.id, Shown(Question, n))
        /\ IF \E o \in OptionsOf(Question, Selected(Question, n)) : o.class = "blocked"
            THEN Fail /\ UNCHANGED <<at, answers>>
            ELSE /\ answers' = Update(answers, Question.id, Selected(Question, n))
                 /\ at' = at + 1
                 /\ stage' = IF at = Len(chosen.questions) THEN "planning" ELSE "ask"
                 /\ UNCHANGED <<plan, result>>
  BY DEF AnswerQuestion
<1>3. CASE Fail
  BY <1>1, <1>3, FailInv
<1>4. CASE /\ answers' = Update(answers, Question.id, Selected(Question, n))
           /\ at' = at + 1
           /\ stage' = IF at = Len(chosen.questions) THEN "planning" ELSE "ask"
           /\ UNCHANGED <<plan, result>>
  <2>1. chosen.questions \in Seq(ToSet(chosen.questions))
    BY <1>1, SetupsAssumption
  <2>2. /\ at \in DOMAIN chosen.questions /\ at \in Nat \ {0}
        /\ \A k \in DOMAIN chosen.questions : k < at => Recorded(k)
    BY <1>1, <2>1 DEF IInv, AskInv
  <2>3. Selected(Question, n) = Shown(Question, n)
    BY DEF Selected, Shown
  <2>4. ASSUME NEW k \in DOMAIN chosen.questions, k < at + 1 PROVE Recorded(k)'
    <3>1. k \in Nat
      BY <2>1
    <3>2. CASE k = at
      BY <1>1, <1>2, <1>4, <2>3, <3>2 DEF Recorded, Update, Question
    <3>3. CASE k < at
      <4>1. Recorded(k)
        BY <2>2, <3>3
      <4> HIDE DEF Selected, Shown
      <4>2. chosen.questions[k].id \in DOMAIN answers' /\ chosen.questions[k].id \in DOMAIN said'
        BY <4>1, <1>2, <1>4 DEF Recorded, Update
      <4>3. answers'[chosen.questions[k].id] = said'[chosen.questions[k].id]
        BY <4>1, <1>2, <1>4, <2>3 DEF Recorded, Update
      <4> QED BY <4>2, <4>3, <1>1 DEF Recorded
    <3> QED BY <2>2, <2>4, <3>1, <3>2, <3>3
  <2>5. AskInv'
    BY <1>1, <1>4, <2>1, <2>2, <2>4 DEF AskInv
  <2> QED BY <2>5, <1>1, <1>4 DEF IInv, ControlInv, ConsentInv, PlanInv, ProjectInv, CommitInv, PlannedAsAnswered
<1> QED BY <1>2, <1>3, <1>4

LEMMA BackInv ==
  ASSUME IInv, Back PROVE IInv'
<1>1. /\ stage = "ask" /\ UNCHANGED <<mode, chosen, said, reply, plan, result, fresh, disk, goal>>
      /\ chosen \in ToSet(Setups) /\ result # "running" /\ result # "ok"
  BY DEF Back, files, IInv, ControlInv
<1>2. stage' \in {"ask", "choose"}
  BY <1>1 DEF Back
<1>3. AskInv'
  <2>1. CASE at = 1
    BY <2>1 DEF Back, AskInv
  <2>2. CASE at # 1
    <3>1. /\ at \in DOMAIN chosen.questions
          /\ \A k \in DOMAIN chosen.questions : k < at => Recorded(k)
      BY <1>1 DEF IInv, AskInv
    <3>0. chosen.questions \in Seq(ToSet(chosen.questions))
      BY <1>1, SetupsAssumption
    <3>2. /\ at' = at - 1 /\ at - 1 \in DOMAIN chosen.questions /\ stage' = "ask"
          /\ answers' = [id \in DOMAIN answers \ {chosen.questions[at - 1].id} |-> answers[id]]
      BY <2>2, <1>1, <3>1, <3>0 DEF Back
    <3>3. ASSUME NEW k \in DOMAIN chosen.questions, k < at - 1 PROVE Recorded(k)'
      <4>1. Recorded(k) /\ k < at
        BY <3>0, <3>1, <3>3
      <4>2. chosen.questions[k].id # chosen.questions[at - 1].id
        BY <1>1, <3>0, <3>1, <3>2, <3>3, RegisteredQuestions
      <4> QED BY <4>1, <4>2, <3>2, <1>1 DEF Recorded
    <3> QED BY <3>2, <3>3, <1>1 DEF AskInv
  <2> QED BY <2>1, <2>2
<1> QED BY <1>1, <1>2, <1>3 DEF IInv, ControlInv, ConsentInv, PlanInv, ProjectInv, CommitInv, PlannedAsAnswered

LEMMA PlanInvStep ==
  ASSUME IInv, PlanSetup PROVE IInv'
<1>1. /\ stage = "planning" /\ reply' = "" /\ fresh' = TRUE
      /\ UNCHANGED <<mode, chosen, at, answers, said, disk, goal>>
      /\ chosen \in ToSet(Setups) /\ result # "running" /\ result # "ok"
  BY DEF PlanSetup, files, IInv, ControlInv
<1>2. CASE Fail
  BY <1>1, <1>2, FailInv
<1>3. CASE ~Fail
  <2> DEFINE p == Materialized(chosen, answers)
  <2>1. /\ Materializes(chosen, answers)
        /\ plan' = [config  |-> Compiled(p.selected.bundle, p.selected.targets), profile |-> p]
        /\ stage' = StageAfterPlanning(mode)
        /\ result' = result
    BY <1>3 DEF PlanSetup
  <2>2. stage' \in {"idle", "review", "commit"}
        /\ (stage' # "idle" => ~mode.dry)
        /\ (stage' = "commit" => ~mode.interactive)
    BY <2>1 DEF StageAfterPlanning
  <2>3. PlannedAsAnswered'
    <3> SUFFICES ASSUME mode.interactive, NEW a \in ToSet(p.answers) PROVE a.selected = said[a.question]
      BY <1>1, <2>1 DEF PlannedAsAnswered
    <3>1. PICK k \in DOMAIN chosen.questions :
            a.question = chosen.questions[k].id /\ a.selected = Answered(chosen.questions[k], answers)
      BY <2>1, ProfileAnswers
    <3>2. Recorded(k)
      BY <1>1 DEF IInv, AskInv
    <3> QED BY <3>1, <3>2 DEF Recorded, Answered
  <2>4. PlanInv'
    <3>1. plan'.profile = p /\ plan'.config = Compiled(p.selected.bundle, p.selected.targets)
      BY <2>1
    <3> HIDE DEF p
    <3> QED BY <3>1 DEF PlanInv, Compiled
  <2>5. ProjectInv'
    <3>1. plan'.config = Compiled(p.selected.bundle, p.selected.targets)
      BY <2>1
    <3> HIDE DEF p
    <3>2. plan'.config.project = Metadata(p.selected.bundle)
      BY <3>1 DEF Compiled
    <3> QED BY <3>2, <1>1 DEF ProjectInv, Metadata
  <2> QED BY <1>1, <2>1, <2>2, <2>3, <2>4, <2>5
          DEF IInv, ControlInv, AskInv, ConsentInv, CommitInv
<1> QED BY <1>2, <1>3

(* A commit writes the plan, the whole plan, or reports that it did not.   *)
LEMMA CommitInvStep ==
  ASSUME IInv, Commit PROVE IInv'
<1>1. CASE BeginCommit
  <2>1. /\ stage = "commit" /\ goal' = Outputs(plan)
        /\ UNCHANGED <<mode, chosen, at, answers, said, reply, disk, plan, fresh>>
        /\ \/ goal' = disk /\ stage' = "idle" /\ result' = "ok"
           \/ stage' = "commit" /\ result' = "running"
    BY <1>1 DEF BeginCommit, dialogue
  <2>2. Outputs(plan) = disk => disk["config"] = plan.config
                               /\ (plan.profile # None => disk["profile"] = plan.profile)
    BY DEF Outputs, Files
  <2>3. CommitInv'
    BY <2>1, <2>2 DEF CommitInv, Outputs
  <2>4. AskInv' /\ ControlInv'
    BY <2>1 DEF IInv, AskInv, ControlInv
  <2> QED BY <2>1, <2>3, <2>4 DEF IInv, ConsentInv, PlanInv, ProjectInv, PlannedAsAnswered
<1>2. CASE CommitSucceeds \/ CommitFails \/ CommitTears
  <2>1. /\ result = "running" /\ stage' = "idle" /\ goal' = goal
        /\ UNCHANGED <<mode, chosen, at, answers, said, reply, plan, fresh>>
        /\ \/ result' = "ok" /\ disk' = goal
           \/ result' \in {"failed", "torn"}
    BY <1>2 DEF CommitSucceeds, CommitFails, CommitTears, EndCommit, dialogue,
               Transaction!Commit, Transaction!Refuse, Transaction!Tear
  <2>2. goal = Outputs(plan) /\ stage = "commit"
    BY <2>1 DEF IInv, CommitInv, ControlInv
  <2>3. CommitInv'
    BY <2>1, <2>2 DEF CommitInv, Outputs, Files
  <2> QED BY <2>1, <2>2, <2>3 DEF IInv, ControlInv, AskInv, ConsentInv, PlanInv, ProjectInv, PlannedAsAnswered
<1> QED BY <1>1, <1>2 DEF Commit

LEMMA NextInv ==
  ASSUME IInv, [Next]_vars PROVE IInv'
<1>1. CASE RunDirect
  <2>1. CASE Fail
    BY <1>1, <2>1, FailInv DEF RunDirect, IInv, ControlInv
  <2>2. CASE ~Fail
    <3>1. /\ stage' = "commit" /\ result' = "none" /\ fresh' = TRUE
          /\ mode' = [interactive |-> FALSE, dry |-> FALSE]
          /\ UNCHANGED <<chosen, answers, disk, goal>>
      BY <1>1, <2>2 DEF RunDirect, files
    <3>2. PICK b \in DOMAIN BundleTargets :
            plan' = [config |-> Compiled(b, BundleTargets[b]), profile |-> None]
      BY <1>1, <2>2 DEF RunDirect
    <3>3. ProjectInv'
      BY <3>1, <3>2 DEF ProjectInv, Compiled, Metadata
    <3> QED BY <3>1, <3>2, <3>3 DEF IInv, ControlInv, AskInv, ConsentInv, PlanInv, CommitInv, PlannedAsAnswered
  <2> QED BY <2>1, <2>2
<1>2. CASE RunSetup
  <2>1. /\ stage' = "planning" /\ result' = "none" /\ chosen' \in ToSet(Setups)
        /\ \E dry \in BOOLEAN : mode' = [interactive |-> FALSE, dry |-> dry]
    BY <1>2, Zenon DEF RunSetup
  <2>2. ~mode'.interactive
    BY <2>1
  <2> QED BY <2>1, <2>2 DEF IInv, ControlInv, AskInv, ConsentInv, PlanInv, ProjectInv, CommitInv, PlannedAsAnswered
<1>3. CASE RunInteractive
  <2>1. CASE Fail
    BY <1>3, <2>1, FailInv DEF RunInteractive, IInv, ControlInv
  <2>2. CASE ~Fail
    <3>1. stage' = "choose" /\ result' = "none" /\ chosen' = chosen
      BY <1>3, <2>2 DEF RunInteractive
    <3> QED BY <3>1 DEF IInv, ControlInv, AskInv, ConsentInv, PlanInv, ProjectInv, CommitInv, PlannedAsAnswered
  <2> QED BY <2>1, <2>2
<1>4. CASE ChooseSetup
  <2>1. /\ stage = "choose" /\ stage' = "ask" /\ result' = result
        /\ chosen' \in ToSet(Setups) /\ at' = 1
    BY <1>4 DEF ChooseSetup
  <2>2. /\ chosen'.questions # <<>>
        /\ chosen'.questions \in Seq(ToSet(chosen'.questions))
    BY <2>1, SetupsAssumption
  <2>3. at' \in DOMAIN chosen'.questions /\ \A k \in DOMAIN chosen'.questions : ~(k < 1)
    BY <2>1, <2>2
  <2> QED BY <2>1, <2>3 DEF IInv, ControlInv, AskInv, ConsentInv, PlanInv, ProjectInv, CommitInv, PlannedAsAnswered
<1>5. CASE AnswerQuestion
  BY <1>5, AnswerInv
<1>6. CASE Back
  BY <1>6, BackInv
<1>7. CASE Leave
  BY <1>7, FailInv DEF Leave, dialogue, IInv, ControlInv
<1>8. CASE PlanSetup
  BY <1>8, PlanInvStep
<1>9. CASE Confirm
  <2>1. /\ stage = "review" /\ stage' = "commit" /\ reply' # ""
        /\ UNCHANGED <<mode, chosen, at, answers, said, plan, result, fresh, disk, goal>>
    BY <1>9 DEF Confirm, files
  <2> QED BY <2>1 DEF IInv, ControlInv, AskInv, ConsentInv, PlanInv, ProjectInv, CommitInv, PlannedAsAnswered
<1>10. CASE Commit
  BY <1>10, CommitInvStep
<1>11. CASE EditFile
  <2>1. /\ result # "running" /\ fresh' = FALSE
        /\ UNCHANGED <<mode, chosen, at, answers, said, reply, stage, plan, goal, result>>
    BY <1>11 DEF EditFile, dialogue
  <2>2. AskInv'
    BY <2>1 DEF IInv, AskInv, Recorded
  <2> QED BY <2>1, <2>2 DEF IInv, ControlInv, ConsentInv, PlanInv, ProjectInv, CommitInv, PlannedAsAnswered
<1>12. CASE UNCHANGED vars
  <2>1. UNCHANGED <<mode, chosen, at, answers, said, reply, stage, plan, goal, result, fresh, disk>>
    BY <1>12 DEF vars
  <2>2. AskInv' /\ CommitInv'
    BY <2>1 DEF IInv, AskInv, Recorded, CommitInv, Outputs
  <2> QED BY <2>1, <2>2 DEF IInv, ControlInv, ConsentInv, PlanInv, ProjectInv, PlannedAsAnswered
<1> QED BY <1>1, <1>2, <1>3, <1>4, <1>5, <1>6, <1>7, <1>8, <1>9, <1>10, <1>11, <1>12 DEF Next

(* The inductive invariant holds in every behaviour of the command.        *)
THEOREM Invariance == Spec => []IInv
BY InitInv, NextInv, PTL DEF Spec

(* The plan a user confirms holds, for every question, what he picked last *)
(* (the loop of cli/init.py over the questions, with its way back).        *)
THEOREM PlanIsAsAnswered == Spec => []PlannedAsAnswered
<1>1. IInv => PlannedAsAnswered
  BY DEF IInv
<1> QED BY <1>1, Invariance, PTL

(* After a guided commit nobody interfered with, the configuration and the *)
(* setup profile on disk describe one selection.                           *)
THEOREM CommittedFilesDescribeOneSetup == Spec => []CommittedFilesAgree
<1>1. IInv => CommittedFilesAgree
  BY DEF IInv, PlanInv, CommitInv, CommittedFilesAgree
<1> QED BY <1>1, Invariance, PTL

(* Nothing is written in a dry run or without the user's consent.          *)
THEOREM WritesNeedConsent == Spec => WritesAreAuthorized
<1>1. ASSUME IInv PROVE result = "running" => ~mode.dry /\ (mode.interactive => reply # "")
  BY <1>1 DEF IInv, ControlInv, ConsentInv
<1> QED BY <1>1, Invariance, PTL DEF Spec, WritesAreAuthorized

(* A commit of the command, whatever the bundle, keeps the metadata that   *)
(* were in the configuration when the plan was made.                       *)
THEOREM CommitKeepsProject == Spec => ProjectIsKept
<1>1. ASSUME IInv, [Next]_vars, result = "running", result' = "ok", fresh, disk["config"] # Absent
      PROVE  disk'["config"].project = disk["config"].project
  <2>1. IInv'
    BY <1>1, NextInv
  <2>2. stage = "commit" /\ plan.config.project = disk["config"].project
    BY <1>1 DEF IInv, ControlInv, ProjectInv
  <2>3. CommitSucceeds
    BY <1>1, <2>2 DEF Next, Commit, vars, RunDirect, RunSetup, RunInteractive, ChooseSetup,
       AnswerQuestion, Back, Leave, PlanSetup, Confirm, BeginCommit, CommitFails, CommitTears,
       Transaction!Refuse, Transaction!Tear, EditFile
  <2>4. fresh' /\ plan' = plan
    BY <1>1, <2>3 DEF CommitSucceeds, EndCommit
  <2> QED BY <1>1, <2>1, <2>2, <2>4 DEF IInv, CommitInv
<1> QED BY <1>1, Invariance, PTL DEF Spec, ProjectIsKept
=============================================================================
