--------------------------- MODULE PipelineProofs ---------------------------
(***************************************************************************)
(* Proofs about Pipeline, for any inputs, contents and generated files,    *)
(* and any number of edits by the developer.                               *)
(***************************************************************************)
EXTENDS Pipeline, SequenceTheorems, WellFoundedInduction, TLAPS

Tree(t) == t = [p \in Paths |-> t[p]]

(* The shape of the records of a lockfile the generator wrote.             *)
Recorded(x) == x = [p \in DOMAIN x |-> [hash |-> x[p].hash, size |-> x[p].size]]

Present == {p \in Range(Inputs) : work[p] # Absent}

StepNames == {"check", "lock", "validateLock", "materialize", "validateOutput",
              "unstaged", "staged", "pytest", "status", "before", "after"}

(* After every a in s there is a b.                                        *)
Follows(s, a, b) == \A j \in DOMAIN s : s[j] = a => \E k \in DOMAIN s : j < k /\ s[k] = b

Ordered(c, s) ==
  /\ Follows(s, "lock", "validateLock")
  /\ Follows(s, "lock", "validateOutput") /\ Follows(s, "validateLock", "validateOutput")
  /\ Follows(s, "materialize", "validateOutput")
  /\ c = "idempotency" =>
       Follows(s, "before", "after") /\ Follows(s, "lock", "after") /\ Follows(s, "materialize", "after")
  /\ c = "strict" => Follows(s, "lock", "status") /\ Follows(s, "materialize", "status")

(* The inductive invariant.  The steps left are those of the command in    *)
(* their order; what is collected is what is there, as long as nobody      *)
(* edits; and an undisturbed command has established what the steps behind *)
(* it are for.                                                             *)
TreeInv == /\ Tree(work) /\ Tree(index) /\ Tree(head)
           /\ work["lock"] \in {Absent, Edited} \/ Recorded(work["lock"])

StepsInv == /\ steps \in Seq(StepNames)
            /\ (result = "running") <=> (steps # <<>>)
            /\ Ordered(command, steps)

CollectInv ==
  /\ files # None => (At("lock") \/ At("validateLock")) /\ files \subseteq Range(Inputs)
  /\ files = None => records = <<>> /\ size = None
  /\ Recorded(records)
  /\ fresh => steady
  /\ steady /\ files # None =>
       /\ Present = DOMAIN records \union files
       /\ \A p \in DOMAIN records : records[p] = [hash |-> work[p], size |-> Size[work[p]]]
       /\ size # None => size = Size[work[NextFile]]
       /\ At("validateLock") => held = work["lock"] /\ held # Absent

Behind(step) == fresh /\ result \in {"running", "passed"} /\ step \notin ToSet(steps)

LockDone == Behind("validateLock") => work["lock"] = Describe(work)
OutputDone == Behind("validateOutput") => work = Materialized(work)
SameDone == Behind("after") /\ command = "idempotency" => \A p \in DOMAIN start : start[p] = work[p]
CommittedDone == Behind("status") /\ command = "strict" => work = index /\ index = head

DoneInv == LockDone /\ OutputDone /\ SameDone /\ CommittedDone

IInv == TreeInv /\ StepsInv /\ CollectInv /\ DoneInv
-----------------------------------------------------------------------------
(* Facts about sequences of steps.                                         *)
LEMMA TailKeeps ==
  ASSUME NEW s \in Seq(StepNames), s # <<>>
  PROVE  /\ Tail(s) \in Seq(StepNames)
         /\ \A b : b \in ToSet(s) => b = Head(s) \/ b \in ToSet(Tail(s))
         /\ \A a, b : Follows(s, a, b) => Follows(Tail(s), a, b)
         /\ \A a, b : Follows(s, a, b) /\ Head(s) = a => b \in ToSet(Tail(s))
<1>1. /\ Tail(s) \in Seq(StepNames) /\ Len(Tail(s)) = Len(s) - 1 /\ Len(s) \in Nat \ {0}
      /\ Head(s) = s[1]
      /\ \A k \in 1 .. Len(s) - 1 : Tail(s)[k] = s[k + 1]
  OBVIOUS
<1>2. DOMAIN s = 1 .. Len(s) /\ DOMAIN Tail(s) = 1 .. Len(s) - 1
  BY <1>1
<1>3. ASSUME NEW k \in DOMAIN s, k # 1 PROVE k - 1 \in DOMAIN Tail(s) /\ Tail(s)[k - 1] = s[k]
  BY <1>1, <1>2, <1>3
<1>4. ASSUME NEW b \in ToSet(s), b # Head(s) PROVE b \in ToSet(Tail(s))
  <2>1. PICK k \in DOMAIN s : b = s[k]
    BY DEF ToSet
  <2> QED BY <1>1, <1>3, <1>4, <2>1 DEF ToSet
<1>5. ASSUME NEW a, NEW b, Follows(s, a, b) PROVE Follows(Tail(s), a, b)
  <2> SUFFICES ASSUME NEW j \in DOMAIN Tail(s), Tail(s)[j] = a
               PROVE  \E k \in DOMAIN Tail(s) : j < k /\ Tail(s)[k] = b
    BY DEF Follows
  <2>1. j + 1 \in DOMAIN s /\ s[j + 1] = a /\ j \in Nat \ {0}
    BY <1>1, <1>2
  <2>2. PICK k \in DOMAIN s : j + 1 < k /\ s[k] = b
    BY <1>5, <2>1 DEF Follows
  <2>3. k \in Nat /\ k # 1
    BY <2>1, <2>2, <1>1, <1>2
  <2>4. k - 1 \in DOMAIN Tail(s) /\ Tail(s)[k - 1] = b /\ j < k - 1
    BY <2>1, <2>2, <2>3, <1>3
  <2> QED BY <2>4
<1>6. ASSUME NEW a, NEW b, Follows(s, a, b), Head(s) = a PROVE b \in ToSet(Tail(s))
  <2>1. PICK k \in DOMAIN s : 1 < k /\ s[k] = b
    BY <1>1, <1>2, <1>6 DEF Follows
  <2>2. k - 1 \in DOMAIN Tail(s) /\ Tail(s)[k - 1] = b
    BY <2>1, <1>2, <1>3
  <2> QED BY <2>2 DEF ToSet
<1> QED BY <1>1, <1>4, <1>5, <1>6

LEMMA NothingFollows == \A c : Ordered(c, <<>>)
BY DEF Ordered, Follows

LEMMA LenOfJoined ==
  ASSUME NEW s \in Seq(StepNames), NEW t \in Seq(StepNames)
  PROVE  s \o t \in Seq(StepNames) /\ Len(s \o t) = Len(s) + Len(t)
OBVIOUS

DiffSteps == <<"unstaged", "staged">>
LastSteps == <<"pytest", "status">>
FirstStep == <<"before">>
FinalStep == <<"after">>

(* In every command a step that changes something is followed by the step  *)
(* that looks at it.                                                       *)
LEMMA StepsOrdered ==
  ASSUME NEW c \in DOMAIN Steps
  PROVE  /\ Steps[c] \in Seq(StepNames) /\ Steps[c] # <<>>
         /\ Ordered(c, Steps[c])
         /\ "validateLock" \in ToSet(Steps[c]) /\ "validateOutput" \in ToSet(Steps[c])
         /\ c = "idempotency" => "after" \in ToSet(Steps[c])
         /\ c = "strict" => "status" \in ToSet(Steps[c])
<1>1. Generation \in Seq(StepNames) /\ All \in Seq(StepNames)
      /\ Len(Generation) = 4 /\ Len(All) = 6
  BY DEF Generation, All, StepNames
<1>2. /\ DiffSteps \in Seq(StepNames) /\ Len(DiffSteps) = 2
       /\ LastSteps \in Seq(StepNames) /\ Len(LastSteps) = 2
       /\ FirstStep \in Seq(StepNames) /\ Len(FirstStep) = 1
       /\ FinalStep \in Seq(StepNames) /\ Len(FinalStep) = 1
  BY DEF StepNames, DiffSteps, LastSteps, FirstStep, FinalStep
<1>3. /\ All \o DiffSteps \in Seq(StepNames)
       /\ Len(All \o DiffSteps) = Len(All) + Len(DiffSteps)
  BY <1>1, <1>2, LenOfJoined, Zenon
<1>4. /\ FirstStep \o Generation \in Seq(StepNames)
       /\ Len(FirstStep \o Generation) = Len(FirstStep) + Len(Generation)
  BY <1>1, <1>2, LenOfJoined, Zenon
<1>5. /\ (All \o DiffSteps) \o LastSteps \in Seq(StepNames)
       /\ Len((All \o DiffSteps) \o LastSteps) = Len(All \o DiffSteps) + Len(LastSteps)
  BY <1>2, <1>3, LenOfJoined, Zenon
<1>6. /\ (FirstStep \o Generation) \o FinalStep \in Seq(StepNames)
       /\ Len((FirstStep \o Generation) \o FinalStep) = Len(FirstStep \o Generation) + Len(FinalStep)
  BY <1>2, <1>4, LenOfJoined, Zenon
<1>7. /\ Len(All \o DiffSteps) = 8 /\ Len((All \o DiffSteps) \o LastSteps) = 10
       /\ Len((FirstStep \o Generation) \o FinalStep) = 6
  BY <1>1, <1>2, <1>3, <1>4, <1>5, <1>6
<1>8. /\ Verify = All \o DiffSteps
      /\ Steps["strict"] = (All \o DiffSteps) \o LastSteps
      /\ Steps["idempotency"] = (FirstStep \o Generation) \o FinalStep
  BY DEF Steps, Verify, DiffSteps, LastSteps, FirstStep, FinalStep
<1>9. c \in {"generate", "all", "verify", "strict", "idempotency"}
  BY DEF Steps
<1>10. CASE c = "generate"
  <2> DEFINE s == Steps[c]
  <2>1. s \in Seq(StepNames) /\ Len(s) = 4
    BY <1>10, <1>1, <1>2 DEF Steps
  <2>2. DOMAIN s = 1 .. 4
    BY <2>1
  <2>3. /\ s[1] = "lock" /\ s[2] = "validateLock" /\ s[3] = "materialize"
        /\ s[4] = "validateOutput"
    BY <1>10 DEF Steps, Generation
  <2> HIDE DEF s
  <2>4. Ordered(c, s)
    BY <1>10, <2>2, <2>3 DEF Ordered, Follows
  <2>5. s # <<>>
    <3>1. 1 \in DOMAIN s
      BY <2>2
    <3> QED BY <3>1
  <2>6. \A k \in 1 .. 4 : s[k] \in ToSet(s)
    BY <2>2 DEF ToSet
  <2> QED BY <1>10, <2>1, <2>3, <2>4, <2>5, <2>6 DEF s
<1>11. CASE c = "all"
  <2> DEFINE s == Steps[c]
  <2>1. s \in Seq(StepNames) /\ Len(s) = 6
    BY <1>11, <1>1 DEF Steps
  <2>2. DOMAIN s = 1 .. 6
    BY <2>1
  <2>3. /\ s[1] = "check" /\ s[2] = "lock" /\ s[3] = "validateLock"
        /\ s[4] = "check" /\ s[5] = "materialize" /\ s[6] = "validateOutput"
    BY <1>11 DEF Steps, All
  <2> HIDE DEF s
  <2>4. Ordered(c, s)
    BY <1>11, <2>2, <2>3 DEF Ordered, Follows
  <2>5. s # <<>>
    <3>1. 1 \in DOMAIN s
      BY <2>2
    <3> QED BY <3>1
  <2>6. \A k \in 1 .. 6 : s[k] \in ToSet(s)
    BY <2>2 DEF ToSet
  <2> QED BY <1>11, <2>1, <2>3, <2>4, <2>5, <2>6 DEF s
<1>12. CASE c = "verify"
  <2> DEFINE s == Steps[c]
  <2>1. s \in Seq(StepNames) /\ Len(s) = 8
    BY <1>12, <1>3, <1>7, <1>8 DEF Steps
  <2>2. DOMAIN s = 1 .. 8
    BY <2>1
  <2>3. /\ s[1] = "check" /\ s[2] = "lock" /\ s[3] = "validateLock"
        /\ s[4] = "check" /\ s[5] = "materialize" /\ s[6] = "validateOutput"
        /\ s[7] = "unstaged" /\ s[8] = "staged"
    BY <1>12 DEF Steps, All, Verify
  <2> HIDE DEF s
  <2>4. Ordered(c, s)
    BY <1>12, <2>2, <2>3 DEF Ordered, Follows
  <2>5. s # <<>>
    <3>1. 1 \in DOMAIN s
      BY <2>2
    <3> QED BY <3>1
  <2>6. \A k \in 1 .. 8 : s[k] \in ToSet(s)
    BY <2>2 DEF ToSet
  <2> QED BY <1>12, <2>1, <2>3, <2>4, <2>5, <2>6 DEF s
<1>13. CASE c = "strict"
  <2> DEFINE s == Steps[c]
  <2>1. s \in Seq(StepNames) /\ Len(s) = 10
    BY <1>13, <1>5, <1>7, <1>8
  <2>2. DOMAIN s = 1 .. 10
    BY <2>1
  <2>3. /\ s[1] = "check" /\ s[2] = "lock" /\ s[3] = "validateLock"
        /\ s[4] = "check" /\ s[5] = "materialize" /\ s[6] = "validateOutput"
        /\ s[7] = "unstaged" /\ s[8] = "staged" /\ s[9] = "pytest"
        /\ s[10] = "status"
    BY <1>13 DEF Steps, All, Verify
  <2> HIDE DEF s
  <2>4. Ordered(c, s)
    BY <1>13, <2>2, <2>3 DEF Ordered, Follows
  <2>5. s # <<>>
    <3>1. 1 \in DOMAIN s
      BY <2>2
    <3> QED BY <3>1
  <2>6. \A k \in 1 .. 10 : s[k] \in ToSet(s)
    BY <2>2 DEF ToSet
  <2> QED BY <1>13, <2>1, <2>3, <2>4, <2>5, <2>6 DEF s
<1>14. CASE c = "idempotency"
  <2> DEFINE s == Steps[c]
  <2>1. s \in Seq(StepNames) /\ Len(s) = 6
    BY <1>14, <1>6, <1>7, <1>8
  <2>2. DOMAIN s = 1 .. 6
    BY <2>1
  <2>3. /\ s[1] = "before" /\ s[2] = "lock" /\ s[3] = "validateLock"
        /\ s[4] = "materialize" /\ s[5] = "validateOutput" /\ s[6] = "after"
    BY <1>14 DEF Steps, Generation, s
  <2> HIDE DEF s
  <2>4. Ordered(c, s)
    BY <1>14, <2>2, <2>3 DEF Ordered, Follows
  <2>5. s # <<>>
    <3>1. 1 \in DOMAIN s
      BY <2>2
    <3> QED BY <3>1
  <2>6. \A k \in 1 .. 6 : s[k] \in ToSet(s)
    BY <2>2 DEF ToSet
  <2> QED BY <1>14, <2>1, <2>3, <2>4, <2>5, <2>6 DEF s
<1> QED BY <1>9, <1>10, <1>11, <1>12, <1>13, <1>14
-----------------------------------------------------------------------------
LEMMA NextFileIsLeft ==
  ASSUME files \subseteq Range(Inputs), files # {} PROVE NextFile \in files
<1> DEFINE places == {k \in DOMAIN Inputs : Inputs[k] \in files}
<1>1. places \subseteq Nat
  BY InputsAssumption
<1>2. places # {}
  BY DEF Range
<1>3. PICK m \in places : \A y \in places : ~(<<y, m>> \in OpToRel(<, Nat))
  BY <1>1, <1>2, WFMin, NatLessThanWellFounded
<1>4. \A j \in DOMAIN Inputs : j < m => Inputs[j] \notin files
  BY <1>1, <1>3 DEF OpToRel
<1>5. \E k \in DOMAIN Inputs : Inputs[k] \in files /\ \A j \in DOMAIN Inputs : j < k => Inputs[j] \notin files
  BY <1>3, <1>4
<1> QED BY <1>5 DEF NextFile

LEMMA Vocabulary ==
  /\ \A c \in Content : Outputs[c] \subseteq Owned
  /\ "lock" \in Paths /\ "lock" \notin Owned /\ "lock" \notin Range(Inputs)
  /\ "manifest" \notin Range(Inputs)
  /\ Owned \intersect Range(Inputs) = {}
  /\ Owned \subseteq Paths /\ Range(Inputs) \subseteq Paths
  /\ \A t : Planned(t) \subseteq Owned
<1>1. \A c \in Content : Outputs[c] \subseteq Owned
  BY DEF Owned
<1>2. \A t : Planned(t) \subseteq Owned
  BY <1>1 DEF Planned
<1> QED BY <1>1, <1>2, PathsAssumption DEF Paths, Generated

(* Materializing touches neither the inputs nor the lockfile.              *)
LEMMA MaterializedKeeps ==
  ASSUME NEW t
  PROVE  /\ Materialized(t)["lock"] = t["lock"]
         /\ \A p \in Range(Inputs) : Materialized(t)[p] = t[p]
         /\ Tree(Materialized(t))
<1>1. Tree(Materialized(t))
  BY DEF Tree, Materialized
<1> QED BY <1>1, Vocabulary DEF Materialized

LEMMA SameInputsSameRecords ==
  ASSUME NEW t, NEW u, \A p \in Range(Inputs) : t[p] = u[p]
  PROVE  Describe(t) = Describe(u)
<1>1. {q \in Range(Inputs) : t[q] # Absent} = {q \in Range(Inputs) : u[q] # Absent}
  OBVIOUS
<1> QED BY <1>1 DEF Describe

LEMMA NothingRecorded == Recorded(<<>>) /\ DOMAIN <<>> = {}
BY DEF Recorded

LEMMA ForgetInv ==
  ASSUME Forget PROVE CollectInv'
BY NothingRecorded DEF Forget, CollectInv, Recorded

LEMMA InitInv == Init => IInv
<1> SUFFICES ASSUME Init PROVE IInv
  OBVIOUS
<1>1. PICK c \in Valid : work = Regenerated([p \in Paths |-> IF p \in Range(Inputs) THEN c ELSE Absent])
  BY DEF Init
<1>2. Tree(work)
  BY <1>1, MaterializedKeeps DEF Regenerated
<1>3. Recorded(work["lock"])
  <2> DEFINE t == [p \in Paths |-> IF p \in Range(Inputs) THEN c ELSE Absent]
  <2>1. work["lock"] = Describe(t)
    BY <1>1, MaterializedKeeps, Vocabulary DEF Regenerated
  <2> HIDE DEF t
  <2> QED BY <2>1 DEF Recorded, Describe
<1>4. TreeInv
  BY <1>2, <1>3 DEF Init, TreeInv
<1>5. StepsInv
  BY NothingFollows DEF Init, StepsInv
<1>6. CollectInv
  BY NothingRecorded DEF Init, CollectInv
<1>7. DoneInv
  BY DEF Init, DoneInv, LockDone, OutputDone, SameDone, CommittedDone, Behind
<1> QED BY <1>4, <1>5, <1>6, <1>7 DEF IInv

(* The steps left after one of them has passed or failed.                  *)
LEMMA StepsKept ==
  ASSUME StepsInv, result = "running", Pass \/ Fail, command' = command
  PROVE  StepsInv'
<1>1. steps # <<>> /\ steps \in Seq(StepNames)
  BY DEF StepsInv
<1>2. CASE Pass
  <2>1. Ordered(command, Tail(steps))
    BY <1>1, TailKeeps DEF StepsInv, Ordered
  <2> QED BY <1>1, <1>2, <2>1, TailKeeps DEF Pass, StepsInv
<1>3. CASE Fail
  BY <1>3, NothingFollows DEF Fail, StepsInv
<1> QED BY <1>2, <1>3

(* A step that changes nothing brings the command past itself only.        *)
LEMMA DoneKept ==
  ASSUME IInv, result = "running", Pass \/ Fail, UNCHANGED <<work, index, head, command, start, fresh>>
  PROVE  /\ Head(steps) # "validateLock" => LockDone'
         /\ Head(steps) # "validateOutput" => OutputDone'
         /\ Head(steps) # "after" => SameDone'
         /\ Head(steps) # "status" => CommittedDone'
<1>1. steps # <<>> /\ steps \in Seq(StepNames)
  BY DEF IInv, StepsInv
<1>2. ASSUME NEW b, b # Head(steps), Behind(b)' PROVE Behind(b)
  BY <1>1, <1>2, TailKeeps DEF Behind, Pass, Fail
<1>3. DoneInv
  BY DEF IInv
<1>4. Describe(work)' = Describe(work) /\ Materialized(work)' = Materialized(work)
  BY DEF Describe, Materialized, Planned
<1> QED BY <1>2, <1>3, <1>4 DEF DoneInv, LockDone, OutputDone, SameDone, CommittedDone

LEMMA OnlyWhenCollecting ==
  ASSUME IInv, ~At("lock"), ~At("validateLock")
  PROVE  files = None /\ records = <<>> /\ size = None
BY DEF IInv, CollectInv

LEMMA CollectKept ==
  ASSUME IInv, ~At("lock"), ~At("validateLock"), UNCHANGED collection, UNCHANGED fresh
  PROVE  CollectInv'
BY OnlyWhenCollecting DEF collection, IInv, CollectInv, Recorded
-----------------------------------------------------------------------------
LEMMA GlobInv == ASSUME IInv, Glob PROVE IInv'
<1>1. /\ result = "running" /\ files = None /\ UNCHANGED <<work, index, head, command, start, fresh>>
      /\ records = <<>> /\ size = None
  BY DEF Glob, At, git, run, IInv, CollectInv
<1>2. TreeInv'
  BY <1>1 DEF IInv, TreeInv, Tree
<1>3. CASE Fail /\ UNCHANGED collection
  <2>1. StepsInv' /\ DoneInv'
    BY <1>1, <1>3, StepsKept DEF IInv, Fail, DoneInv, LockDone, OutputDone, SameDone, CommittedDone, Behind
  <2>2. CollectInv'
    BY <1>1, <1>3 DEF collection, IInv, CollectInv, Recorded
  <2> QED BY <1>2, <2>1, <2>2 DEF IInv
<1>4. CASE ~(Fail /\ UNCHANGED collection)
  <2>1. /\ files' = Present /\ steady' = TRUE /\ UNCHANGED <<steps, result, size, records>>
        /\ At("validateLock") => held' = work["lock"] /\ work["lock"] # Absent
    BY <1>4 DEF Glob, Present
  <2>2. StepsInv'
    BY <1>1, <2>1 DEF IInv, StepsInv
  <2>3. DoneInv'
    <3>1. Describe(work)' = Describe(work) /\ Materialized(work)' = Materialized(work)
      BY <1>1 DEF Describe, Materialized, Planned
    <3> QED BY <1>1, <2>1, <3>1 DEF IInv, DoneInv, LockDone, OutputDone, SameDone, CommittedDone, Behind
  <2>4. CollectInv'
    <3>1. At("lock") \/ At("validateLock")
      BY DEF Glob
    <3>2. At("lock")' = At("lock") /\ At("validateLock")' = At("validateLock") /\ Present' = Present
      BY <1>1, <2>1 DEF At, Present
    <3>3. Present \subseteq Range(Inputs) /\ records' = <<>> /\ size' = None
      BY <1>1, <2>1 DEF Present
    <3>4. Recorded(records)' /\ DOMAIN records' = {}
      BY <3>3, NothingRecorded DEF Recorded
    <3> QED BY <1>1, <2>1, <3>1, <3>2, <3>3, <3>4 DEF CollectInv
  <2> QED BY <1>2, <2>2, <2>3, <2>4 DEF IInv
<1> QED BY <1>3, <1>4

(* Between the glob and the comparison only what is collected changes.     *)
LEMMA CollectingKeeps ==
  ASSUME IInv, Collecting, UNCHANGED <<work, git, run, steps, result>>
  PROVE  TreeInv' /\ StepsInv' /\ DoneInv'
<1>1. UNCHANGED <<work, index, head, command, start, fresh, steps, result>>
  BY DEF git, run
<1>2. Describe(work)' = Describe(work) /\ Materialized(work)' = Materialized(work)
  BY <1>1 DEF Describe, Materialized, Planned
<1>3. DoneInv'
  BY <1>1, <1>2 DEF IInv, DoneInv, LockDone, OutputDone, SameDone, CommittedDone, Behind
<1> QED BY <1>1, <1>3 DEF IInv, TreeInv, Tree, StepsInv

LEMMA StatInv == ASSUME IInv, Stat PROVE IInv'
<1>1. /\ Collecting /\ size' = Size[work[NextFile]]
      /\ UNCHANGED <<work, steps, result, files, records, held, steady, fresh>>
  BY DEF Stat, run
<1>2. TreeInv' /\ StepsInv' /\ DoneInv'
  BY CollectingKeeps DEF Stat
<1>3. /\ At("lock")' = At("lock") /\ At("validateLock")' = At("validateLock")
      /\ Present' = Present /\ NextFile' = NextFile /\ Recorded(records)' = Recorded(records)
  BY <1>1 DEF At, Present, NextFile, Recorded
<1>4. files # None
  BY <1>1 DEF Collecting
<1>5. CollectInv'
  BY <1>1, <1>3, <1>4 DEF IInv, CollectInv
<1> QED BY <1>2, <1>5 DEF IInv

LEMMA HashInv == ASSUME IInv, Hash PROVE IInv'
<1>1. /\ Collecting /\ size # None /\ work[NextFile] # Absent
      /\ records' = [p \in DOMAIN records \union {NextFile} |->
                       IF p = NextFile THEN [hash |-> work[p], size |-> size] ELSE records[p]]
      /\ files' = files \ {NextFile} /\ size' = None
      /\ UNCHANGED <<work, steps, result, held, steady, fresh>>
  BY DEF Hash, run
<1>2. TreeInv' /\ StepsInv' /\ DoneInv'
  BY CollectingKeeps DEF Hash
<1>3. /\ At("lock")' = At("lock") /\ At("validateLock")' = At("validateLock") /\ Present' = Present
  BY <1>1 DEF At, Present
<1>4. files # None /\ files # {} /\ files \subseteq Range(Inputs) /\ (At("lock") \/ At("validateLock"))
      /\ Recorded(records) /\ (fresh => steady)
  BY <1>1 DEF Collecting, IInv, CollectInv
<1>5. NextFile \in files
  BY <1>4, NextFileIsLeft
<1>6. files' \subseteq Range(Inputs) /\ files' # None
  BY <1>1, <1>4, InputsAssumption
<1>7. Recorded(records')
  BY <1>1, <1>4 DEF Recorded
<1>8. ASSUME steady
      PROVE  /\ Present = DOMAIN records' \union files'
             /\ \A p \in DOMAIN records' : records'[p] = [hash |-> work[p], size |-> Size[work[p]]]
             /\ At("validateLock") => held = work["lock"] /\ held # Absent
  <2>1. /\ Present = DOMAIN records \union files
        /\ \A p \in DOMAIN records : records[p] = [hash |-> work[p], size |-> Size[work[p]]]
        /\ size = Size[work[NextFile]]
        /\ At("validateLock") => held = work["lock"] /\ held # Absent
    BY <1>1, <1>4, <1>8 DEF IInv, CollectInv
  <2>2. DOMAIN records' = DOMAIN records \union {NextFile}
    BY <1>1
  <2> QED BY <1>1, <1>5, <2>1, <2>2
<1>9. CollectInv'
  <2>1. Recorded(records)'
    BY <1>7 DEF Recorded
  <2> QED BY <1>1, <1>3, <1>4, <1>6, <1>8, <2>1 DEF CollectInv
<1> QED BY <1>2, <1>9 DEF IInv

LEMMA WriteLockInv == ASSUME IInv, WriteLock PROVE IInv'
<1>1. /\ At("lock") /\ files = {} /\ Forget /\ UNCHANGED <<index, head, command, start, fresh>>
      /\ \/ work' = [work EXCEPT !["lock"] = records] /\ Pass
         \/ UNCHANGED work /\ Fail
  BY DEF WriteLock, git, run
<1>2. StepsInv' /\ CollectInv'
  BY <1>1, StepsKept, ForgetInv DEF IInv, At
<1>3. TreeInv'
  BY <1>1, Vocabulary DEF IInv, TreeInv, Tree, CollectInv, Recorded
<1>4. DoneInv'
  <2>1. CASE Fail
    BY <2>1 DEF Fail, DoneInv, LockDone, OutputDone, SameDone, CommittedDone, Behind
  <2>2. CASE Pass
    <3>1. steps # <<>> /\ steps \in Seq(StepNames) /\ Ordered(command, steps) /\ Head(steps) = "lock"
      BY <1>1 DEF IInv, StepsInv, At
    <3>2. /\ "validateLock" \in ToSet(steps') /\ "validateOutput" \in ToSet(steps')
          /\ command = "idempotency" => "after" \in ToSet(steps')
          /\ command = "strict" => "status" \in ToSet(steps')
      BY <2>2, <3>1, TailKeeps DEF Pass, Ordered
    <3> QED BY <1>1, <3>2 DEF DoneInv, LockDone, OutputDone, SameDone, CommittedDone, Behind
  <2> QED BY <1>1, <2>1, <2>2
<1> QED BY <1>2, <1>3, <1>4 DEF IInv

(* What passes the comparison describes the inputs.                        *)
LEMMA ComparedIsDescription ==
  ASSUME IInv, At("validateLock"), files = {}, steady, held # Edited, Drift(held, records) = {}
  PROVE  work["lock"] = Describe(work)
<1>1. files # None
  BY InputsAssumption
<1>2. /\ Present = DOMAIN records /\ held = work["lock"] /\ held # Absent
      /\ \A p \in DOMAIN records : records[p] = [hash |-> work[p], size |-> Size[work[p]]]
  BY <1>1 DEF IInv, CollectInv
<1>3. Recorded(held) /\ Recorded(records)
  BY <1>2 DEF IInv, TreeInv, CollectInv
<1>4. /\ DOMAIN held = DOMAIN records
      /\ \A p \in DOMAIN records : held[p].hash = records[p].hash /\ held[p].size = records[p].size
  BY DEF Drift
<1>5. held = [p \in DOMAIN records |-> [hash |-> records[p].hash, size |-> records[p].size]]
  BY <1>3, <1>4 DEF Recorded
<1>6. held = [p \in Present |-> [hash |-> work[p], size |-> Size[work[p]]]]
  BY <1>2, <1>5
<1> QED BY <1>2, <1>6 DEF Describe, Present

LEMMA CompareLockInv == ASSUME IInv, CompareLock PROVE IInv'
<1>1. /\ At("validateLock") /\ files = {} /\ Forget
      /\ UNCHANGED <<work, index, head, command, start, fresh>>
      /\ (Pass /\ held # Edited /\ Drift(held, records) = {}) \/ Fail
  BY DEF CompareLock, Decide, git, run
<1>2. result = "running" /\ Head(steps) = "validateLock"
  BY <1>1 DEF At
<1>3. StepsInv' /\ CollectInv' /\ TreeInv'
  BY <1>1, <1>2, StepsKept, ForgetInv DEF IInv, TreeInv, Tree
<1>4. OutputDone' /\ SameDone' /\ CommittedDone'
  BY <1>1, <1>2, DoneKept
<1>5. LockDone'
  <2>1. CASE Fail
    BY <2>1 DEF Fail, LockDone, Behind
  <2>2. CASE ~Fail
    <3>1. fresh => work["lock"] = Describe(work)
      BY <1>1, <2>2, ComparedIsDescription DEF IInv, CollectInv
    <3>2. Describe(work)' = Describe(work)
      BY <1>1 DEF Describe
    <3> QED BY <1>1, <3>1, <3>2 DEF LockDone, Behind
  <2> QED BY <2>1, <2>2
<1> QED BY <1>3, <1>4, <1>5 DEF IInv, DoneInv
-----------------------------------------------------------------------------
LEMMA MaterializeInv == ASSUME IInv, Materialize PROVE IInv'
<1>1. /\ At("materialize") /\ UNCHANGED <<index, head, command, start, fresh>>
      /\ UNCHANGED collection
      /\ Pass \/ Fail
  BY DEF Materialize, git, run
<1>2. result = "running" /\ Head(steps) = "materialize" /\ ~At("lock") /\ ~At("validateLock")
  BY <1>1 DEF At
<1>3. /\ Tree(work') /\ work'["lock"] = work["lock"]
      /\ \A p \in Range(Inputs) : work'[p] = work[p]
  <2>1. CASE work' = work
    BY <2>1 DEF IInv, TreeInv, Tree
  <2>2. CASE work' = Materialized(work)
    BY <2>2, MaterializedKeeps
  <2>3. CASE \E done \in SUBSET (Owned \union {"manifest"}) :
               work' = [p \in Paths |-> IF p \in done THEN Materialized(work)[p] ELSE work[p]]
    <3>1. PICK done \in SUBSET (Owned \union {"manifest"}) :
            work' = [p \in Paths |-> IF p \in done THEN Materialized(work)[p] ELSE work[p]]
      BY <2>3
    <3>2. "lock" \notin done /\ done \intersect Range(Inputs) = {}
      BY Vocabulary
    <3> QED BY <3>1, <3>2, Vocabulary DEF Tree
  <2> QED BY <2>1, <2>2, <2>3 DEF Materialize
<1>4. StepsInv' /\ CollectInv'
  BY <1>1, <1>2, StepsKept, CollectKept DEF IInv
<1>5. TreeInv'
  BY <1>1, <1>3 DEF IInv, TreeInv, Tree, Recorded
<1>6. DoneInv'
  <2>1. CASE Fail
    BY <2>1 DEF Fail, DoneInv, LockDone, OutputDone, SameDone, CommittedDone, Behind
  <2>2. CASE Pass
    <3>1. steps # <<>> /\ steps \in Seq(StepNames) /\ Ordered(command, steps)
      BY <1>2 DEF IInv, StepsInv
    <3>2. /\ "validateOutput" \in ToSet(steps')
          /\ command = "idempotency" => "after" \in ToSet(steps')
          /\ command = "strict" => "status" \in ToSet(steps')
          /\ "validateLock" \notin ToSet(steps') => "validateLock" \notin ToSet(steps)
      BY <1>2, <2>2, <3>1, TailKeeps DEF Pass, Ordered
    <3>3. Describe(work') = Describe(work)
      BY <1>3, SameInputsSameRecords
    <3>4. LockDone'
      <4> SUFFICES ASSUME Behind("validateLock")' PROVE (work["lock"] = Describe(work))'
        BY DEF LockDone
      <4>1. Behind("validateLock")
        BY <1>1, <1>2, <3>2 DEF Behind
      <4>2. work["lock"] = Describe(work)
        BY <4>1 DEF IInv, DoneInv, LockDone
      <4> QED BY <1>3, <3>3, <4>2
    <3> QED BY <1>1, <3>2, <3>4 DEF DoneInv, OutputDone, SameDone, CommittedDone, Behind
  <2> QED BY <1>1, <2>1, <2>2
<1> QED BY <1>4, <1>5, <1>6 DEF IInv

(* The steps that only look.                                               *)
LEMMA LookInv ==
  ASSUME IInv, result = "running", Pass \/ Fail, ~At("lock"), ~At("validateLock"),
         UNCHANGED <<work, index, head, command, fresh>>, UNCHANGED collection
  PROVE  TreeInv' /\ StepsInv' /\ CollectInv'
BY StepsKept, CollectKept DEF IInv, TreeInv, Tree

LEMMA CheckInv ==
  ASSUME IInv, Check \/ DiffUnstaged \/ DiffStaged \/ Pytest PROVE IInv'
<1>1. /\ result = "running" /\ Head(steps) \in {"check", "unstaged", "staged", "pytest"}
      /\ Pass \/ Fail
      /\ UNCHANGED <<work, index, head, command, start, fresh>> /\ UNCHANGED collection
  BY DEF Check, DiffUnstaged, DiffStaged, Pytest, At, Decide, git, run
<1>2. ~At("lock") /\ ~At("validateLock")
  BY <1>1 DEF At
<1>3. LockDone' /\ OutputDone' /\ SameDone' /\ CommittedDone'
  BY <1>1, DoneKept
<1> QED BY <1>1, <1>2, <1>3, LookInv DEF IInv, DoneInv

LEMMA ValidateOutputInv == ASSUME IInv, ValidateOutput PROVE IInv'
<1>1. /\ result = "running" /\ Head(steps) = "validateOutput"
      /\ (Pass /\ work = Materialized(work)) \/ Fail
      /\ UNCHANGED <<work, index, head, command, start, fresh>> /\ UNCHANGED collection
  BY DEF ValidateOutput, At, Decide, git, run
<1>2. ~At("lock") /\ ~At("validateLock")
  BY <1>1 DEF At
<1>3. LockDone' /\ SameDone' /\ CommittedDone'
  BY <1>1, DoneKept
<1>4. OutputDone'
  <2>1. Materialized(work)' = Materialized(work)
    BY <1>1 DEF Materialized, Planned
  <2> QED BY <1>1, <2>1 DEF OutputDone, Behind, Fail
<1> QED BY <1>1, <1>2, <1>3, <1>4, LookInv DEF IInv, DoneInv

LEMMA BeforeInv == ASSUME IInv, Before PROVE IInv'
<1>1. /\ result = "running" /\ Head(steps) = "before"
      /\ Pass \/ Fail
      /\ UNCHANGED <<work, index, head, command, fresh>> /\ UNCHANGED collection
  BY DEF Before, At, git
<1>2. ~At("lock") /\ ~At("validateLock")
  BY <1>1 DEF At
<1>3. TreeInv' /\ StepsInv' /\ CollectInv'
  BY <1>1, <1>2, LookInv
<1>4. DoneInv'
  <2>1. CASE Fail
    BY <2>1 DEF Fail, DoneInv, LockDone, OutputDone, SameDone, CommittedDone, Behind
  <2>2. CASE Pass
    <3>1. steps # <<>> /\ steps \in Seq(StepNames) /\ Ordered(command, steps)
      BY <1>1 DEF IInv, StepsInv
    <3>2. command = "idempotency" => "after" \in ToSet(steps')
      BY <1>1, <2>2, <3>1, TailKeeps DEF Pass, Ordered
    <3>3. ASSUME NEW b, b # Head(steps), Behind(b)' PROVE Behind(b)
      BY <1>1, <2>2, <3>1, <3>3, TailKeeps DEF Behind, Pass
    <3>4. Describe(work)' = Describe(work) /\ Materialized(work)' = Materialized(work)
      BY <1>1 DEF Describe, Materialized, Planned
    <3>5. LockDone' /\ OutputDone' /\ CommittedDone'
      BY <1>1, <3>3, <3>4 DEF IInv, DoneInv, LockDone, OutputDone, CommittedDone
    <3>6. SameDone'
      BY <1>1, <3>2 DEF SameDone, Behind
    <3> QED BY <3>5, <3>6 DEF DoneInv
  <2> QED BY <1>1, <2>1, <2>2
<1> QED BY <1>3, <1>4 DEF IInv

LEMMA AfterInv == ASSUME IInv, After PROVE IInv'
<1>1. /\ result = "running" /\ Head(steps) = "after"
      /\ (Pass /\ SameSnapshot(start, [p \in Declared |-> work[p]])) \/ Fail
      /\ UNCHANGED <<work, index, head, command, start, fresh>> /\ UNCHANGED collection
  BY DEF After, At, Decide, git, run
<1>2. ~At("lock") /\ ~At("validateLock")
  BY <1>1 DEF At
<1>3. LockDone' /\ OutputDone' /\ CommittedDone'
  BY <1>1, DoneKept
<1>4. SameDone'
  <2>1. CASE Fail
    BY <2>1 DEF Fail, SameDone, Behind
  <2>2. CASE ~Fail
    <3>1. \A p \in DOMAIN start : start[p] = work[p]
      BY <1>1, <2>2 DEF SameSnapshot
    <3> QED BY <1>1, <3>1 DEF SameDone
  <2> QED BY <2>1, <2>2
<1> QED BY <1>1, <1>2, <1>3, <1>4, LookInv DEF IInv, DoneInv

(* An empty git status leaves no room between the three trees.             *)
LEMMA CleanIsCommitted ==
  ASSUME TreeInv, Status = {} PROVE work = index /\ index = head
<1>1. \A p \in Paths : index[p] = head[p] /\ work[p] = index[p]
  BY DEF Status, Unstaged, Staged, Untracked
<1> QED BY <1>1 DEF TreeInv, Tree

LEMMA GitStatusInv == ASSUME IInv, GitStatus PROVE IInv'
<1>1. /\ result = "running" /\ Head(steps) = "status"
      /\ (Pass /\ Status = {}) \/ Fail
      /\ UNCHANGED <<work, index, head, command, start, fresh>> /\ UNCHANGED collection
  BY DEF GitStatus, At, Decide, git, run
<1>2. ~At("lock") /\ ~At("validateLock")
  BY <1>1 DEF At
<1>3. LockDone' /\ OutputDone' /\ SameDone'
  BY <1>1, DoneKept
<1>4. CommittedDone'
  BY <1>1, CleanIsCommitted DEF IInv, CommittedDone, Behind, Fail
<1> QED BY <1>1, <1>2, <1>3, <1>4, LookInv DEF IInv, DoneInv
-----------------------------------------------------------------------------
LEMMA RunInv == ASSUME IInv, Run PROVE IInv'
<1>1. PICK c \in DOMAIN Steps : command' = c /\ steps' = Steps[c]
  BY DEF Run
<1>2. /\ result' = "running" /\ Forget /\ UNCHANGED <<work, index, head>>
  BY DEF Run, git
<1>3. TreeInv' /\ StepsInv' /\ CollectInv'
  BY <1>1, <1>2, StepsOrdered, ForgetInv DEF IInv, TreeInv, Tree, StepsInv
<1>4. DoneInv'
  BY <1>1, StepsOrdered DEF DoneInv, LockDone, OutputDone, SameDone, CommittedDone, Behind
<1> QED BY <1>3, <1>4 DEF IInv

LEMMA EditInv == ASSUME IInv, Edit PROVE IInv'
<1>1. /\ fresh' = FALSE /\ steady' = (files = None)
      /\ UNCHANGED <<index, head, command, start, steps, result, files, size, records, held>>
  BY DEF Edit, git
<1>2. TreeInv'
  <2>1. CASE \E p \in Range(Inputs), c \in Content \union {Absent} : work' = [work EXCEPT ![p] = c]
    BY <1>1, <2>1, Vocabulary DEF IInv, TreeInv, Tree, Recorded
  <2>2. CASE \E p \in Generated, c \in {Edited, Absent} : work' = [work EXCEPT ![p] = c]
    <3>1. PICK p \in Generated, c \in {Edited, Absent} : work' = [work EXCEPT ![p] = c]
      BY <2>2
    <3>2. Tree(work)'
      BY <3>1 DEF IInv, TreeInv, Tree
    <3>3. (work["lock"] \in {Absent, Edited} \/ Recorded(work["lock"]))'
      <4>1. CASE p = "lock"
        BY <3>1, <4>1, Vocabulary DEF IInv, TreeInv, Tree
      <4>2. CASE p # "lock"
        <5>1. work'["lock"] = work["lock"]
          BY <3>1, <4>2, Vocabulary DEF IInv, TreeInv, Tree
        <5> QED BY <5>1 DEF IInv, TreeInv, Recorded
      <4> QED BY <4>1, <4>2
    <3> QED BY <1>1, <3>2, <3>3 DEF IInv, TreeInv, Tree
  <2> QED BY <2>1, <2>2 DEF Edit
<1>3. StepsInv' /\ DoneInv'
  BY <1>1 DEF IInv, StepsInv, DoneInv, LockDone, OutputDone, SameDone, CommittedDone, Behind
<1>4. CollectInv'
  <2>1. At("lock")' = At("lock") /\ At("validateLock")' = At("validateLock") /\ (Recorded(records))' = Recorded(records)
    BY <1>1 DEF At, Recorded
  <2> QED BY <1>1, <2>1 DEF IInv, CollectInv
<1> QED BY <1>2, <1>3, <1>4 DEF IInv

(* Staging and committing between two commands: what is committed in full  *)
(* stays so.                                                               *)
LEMMA GitInv == ASSUME IInv, GitAdd \/ GitCommit PROVE IInv'
<1>1. /\ result # "running"
      /\ UNCHANGED <<work, command, start, fresh, steps, result, files, size, records, held, steady>>
      /\ \/ /\ index' = work \/ index' = [p \in Paths |-> IF index[p] = Absent THEN Absent ELSE work[p]]
            /\ head' = head
         \/ head' = index /\ index' = index
  BY DEF GitAdd, GitCommit, run, collection
<1>2. TreeInv'
  BY <1>1 DEF IInv, TreeInv, Tree, Recorded
<1>3. StepsInv'
  BY <1>1 DEF IInv, StepsInv
<1>4. CollectInv'
  <2>1. At("lock")' = At("lock") /\ At("validateLock")' = At("validateLock") /\ (Recorded(records))' = Recorded(records)
        /\ Present' = Present /\ NextFile' = NextFile
    BY <1>1 DEF At, Recorded, Present, NextFile
  <2> QED BY <1>1, <2>1 DEF IInv, CollectInv
<1>5. LockDone' /\ OutputDone' /\ SameDone'
  <2>1. Describe(work)' = Describe(work) /\ Materialized(work)' = Materialized(work)
    BY <1>1 DEF Describe, Materialized, Planned
  <2> QED BY <1>1, <2>1 DEF IInv, DoneInv, LockDone, OutputDone, SameDone, Behind
<1>6. CommittedDone'
  <2> SUFFICES ASSUME work = index, index = head PROVE (work = index /\ index = head)'
    BY <1>1 DEF IInv, DoneInv, CommittedDone, Behind
  <2>1. work = [p \in Paths |-> IF work[p] = Absent THEN Absent ELSE work[p]]
    BY DEF IInv, TreeInv, Tree
  <2> QED BY <1>1, <2>1
<1> QED BY <1>2, <1>3, <1>4, <1>5, <1>6 DEF IInv, DoneInv

LEMMA NextInv == ASSUME IInv, [Next]_vars PROVE IInv'
<1>1. CASE Vanished
  <2>1. /\ result = "running" /\ Fail /\ Forget /\ UNCHANGED <<work, index, head, command>>
    BY <1>1 DEF Vanished, Collecting, At, git, run
  <2> QED BY <2>1, StepsKept, ForgetInv
          DEF IInv, TreeInv, Tree, Fail, DoneInv, LockDone, OutputDone, SameDone, CommittedDone, Behind
<1>2. CASE UNCHANGED vars
  <2>1. UNCHANGED <<work, index, head, command, steps, files, size, records, held, start, result, fresh, steady>>
    BY <1>2 DEF vars
  <2>2. /\ At("lock")' = At("lock") /\ At("validateLock")' = At("validateLock")
        /\ (Recorded(records))' = Recorded(records) /\ Present' = Present /\ NextFile' = NextFile
        /\ Describe(work)' = Describe(work) /\ Materialized(work)' = Materialized(work)
    BY <2>1 DEF At, Recorded, Present, NextFile, Describe, Materialized, Planned
  <2>3. TreeInv' /\ StepsInv'
    BY <2>1 DEF IInv, TreeInv, Tree, Recorded, StepsInv
  <2>4. CollectInv'
    BY <2>1, <2>2 DEF IInv, CollectInv
  <2>5. DoneInv'
    BY <2>1, <2>2 DEF IInv, DoneInv, LockDone, OutputDone, SameDone, CommittedDone, Behind
  <2> QED BY <2>3, <2>4, <2>5 DEF IInv
<1> QED BY <1>1, <1>2, RunInv, GlobInv, StatInv, HashInv, WriteLockInv, CompareLockInv, CheckInv,
           MaterializeInv, ValidateOutputInv, BeforeInv, AfterInv, GitStatusInv, EditInv, GitInv DEF Next

(* The inductive invariant holds in every behaviour.                       *)
THEOREM Invariance == Spec => []IInv
BY InitInv, NextInv, PTL DEF Spec

(* A command that passed undisturbed leaves the generated state of its     *)
(* inputs (_run_steps of cli/main.py stops at the first failure).          *)
LEMMA PassedAgrees == IInv => PassedGenerationAgrees
<1> SUFFICES ASSUME IInv, result = "passed", fresh PROVE work = Regenerated(work)
  BY DEF PassedGenerationAgrees
<1>1. steps = <<>> /\ ToSet(steps) = {}
  BY DEF IInv, StepsInv, ToSet
<1>2. work["lock"] = Describe(work) /\ work = Materialized(work)
  BY <1>1 DEF IInv, DoneInv, LockDone, OutputDone, Behind
<1>3. [work EXCEPT !["lock"] = Describe(work)] = work
  BY <1>2 DEF IInv, TreeInv, Tree
<1> QED BY <1>2, <1>3 DEF Regenerated

THEOREM PassedIsGenerated == Spec => []PassedGenerationAgrees
BY Invariance, PassedAgrees, PTL

(* The idempotency command passes only where generation changes nothing.   *)
THEOREM IdempotentIsGenerated == Spec => []IdempotentWasGenerated
<1>1. IInv => IdempotentWasGenerated
  <2> SUFFICES ASSUME IInv, result = "passed", fresh, command = "idempotency", NEW p \in DOMAIN start
               PROVE  start[p] = Regenerated(work)[p]
    BY DEF IdempotentWasGenerated
  <2>1. steps = <<>> /\ ToSet(steps) = {}
    BY DEF IInv, StepsInv, ToSet
  <2>2. start[p] = work[p]
    BY <2>1 DEF IInv, DoneInv, SameDone, Behind
  <2>3. work = Regenerated(work)
    BY PassedAgrees DEF PassedGenerationAgrees
  <2> QED BY <2>2, <2>3
<1> QED BY <1>1, Invariance, PTL

(* What doctor-strict passes is committed with its generated output.       *)
THEOREM StrictPassIsCommitted == Spec => []StrictIsCommitted
<1>1. IInv => StrictIsCommitted
  <2> SUFFICES ASSUME IInv, result = "passed", fresh, command = "strict"
               PROVE  head = Regenerated(head)
    BY DEF StrictIsCommitted
  <2>1. steps = <<>> /\ ToSet(steps) = {}
    BY DEF IInv, StepsInv, ToSet
  <2>2. work = index /\ index = head
    BY <2>1 DEF IInv, DoneInv, CommittedDone, Behind
  <2>3. work = Regenerated(work)
    BY PassedAgrees DEF PassedGenerationAgrees
  <2> QED BY <2>2, <2>3
<1> QED BY <1>1, Invariance, PTL

(* A lockfile that validate-lockfile passes has hash and size of every     *)
(* input, unless somebody edited while it looked.                          *)
THEOREM AcceptedLockIsDescription == Spec => AcceptedLockDescribes
<1>1. ASSUME IInv, [Next]_vars, At("validateLock"), files = {}, steps' = Tail(steps), steady
      PROVE  work["lock"] = Describe(work)
  <2>1. steps # <<>> /\ steps \in Seq(StepNames) /\ Head(steps) = "validateLock" /\ Ordered(command, steps)
        /\ result = "running"
    BY <1>1 DEF IInv, StepsInv, At
  <2>2. Tail(steps) # <<>>
    <3>1. "validateOutput" \in ToSet(Tail(steps))
      BY <2>1, TailKeeps DEF Ordered
    <3> QED BY <3>1 DEF ToSet
  <2>3. Tail(steps) # steps
    BY <2>1
  <2>4. files # None
    BY <1>1, InputsAssumption
  <2>5. steps' # steps /\ steps' # <<>>
    BY <1>1, <2>2, <2>3
  <2>6. CompareLock
    BY <1>1, <2>1, <2>4, <2>5 DEF Next, vars, Run, Glob, Vanished, Stat, Hash, WriteLock, Check, Materialize,
       ValidateOutput, Before, After, DiffUnstaged, DiffStaged, GitStatus, Pytest, Edit, GitAdd,
       GitCommit, At, Collecting
  <2>7. held # Edited /\ Drift(held, records) = {}
    BY <2>5, <2>6 DEF CompareLock, Decide, Fail
  <2> QED BY <1>1, <2>7, ComparedIsDescription
<1> QED BY <1>1, Invariance, PTL DEF Spec, AcceptedLockDescribes
=============================================================================
