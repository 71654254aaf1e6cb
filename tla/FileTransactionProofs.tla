----------------------- MODULE FileTransactionProofs -----------------------
(***************************************************************************)
(* For every tree, every call and any number of failing system calls: the  *)
(* type invariant, the inductive invariant behind the safety properties of *)
(* FileTransaction, those properties, and the refinement of AtomicUpdate.  *)
(***************************************************************************)
EXTENDS FileTransaction, SequenceTheorems, TLAPS

(* The operations of a call that passed CheckArguments name each path once.*)
PathsDiffer == \A j, k \in 1 .. Len(ops) : ops[j].path = ops[k].path => j = k

UniqueInv == pc \notin {"check", "done"} => PathsDiffer

(* The snapshot holds what the first Len(previous) paths read as.          *)
SnapshotInv ==
  \A k \in 1 .. Len(previous) :
    k <= Len(ops) => previous[k] = View(start, ops[k].path)

(* Every path has been looked at before anything is changed.               *)
LengthInv ==
  /\ pc = "check" => previous = <<>> /\ i = 1
  /\ pc = "snapshot" => Len(previous) = i - 1
  /\ pc \notin {"check", "snapshot", "done"} => Len(previous) >= Len(ops)

(* The temporary file being filled belongs to an operation.                *)
FillingInv == /\ Filling => i \in 1 .. Len(ops)
              /\ pc = "restoreReplace" => previous[i] # Absent

(* Operation k is applied, or not begun, or undone or named as not undone. *)
Applied(k) == View(fs, ops[k].path) = ops[k].new
Untouched(k) == View(fs, ops[k].path) = View(start, ops[k].path)

ProgressInv ==
  /\ pc \in {"check", "snapshot", "mkdir", "unmake"} =>
       \A n \in Node : View(fs, n) = View(start, n)
  /\ pc \in {"write", "replace", "remove"} =>
       \A k \in 1 .. Len(ops) : IF k < i THEN Applied(k) ELSE Untouched(k)
  /\ pc \in {"restore", "restoreReplace"} =>
       \A k \in 1 .. Len(ops) : k < i => Untouched(k) \/ ops[k].path \in named
  /\ pc = "rmdir" =>
       \A k \in 1 .. Len(ops) : Untouched(k) \/ ops[k].path \in named

OutcomeInv == outcome = "running" <=> pc # "done"

(* Every value read has its type: the operation a step is at exists, and   *)
(* so does the snapshot it restores.                                       *)
TypeInv == TypeOK /\ FillingInv /\ LengthInv

IInv == /\ TypeInv /\ UniqueInv /\ SnapshotInv /\ ProgressInv
        /\ OutcomeInv /\ OldOrNew /\ AllOrNothing /\ DamageNamed
-----------------------------------------------------------------------------
LEMMA OpsType ==
  ASSUME call \in Calls
  PROVE  /\ ops \in Seq(Operation)
         /\ Len(ops) \in Nat
         /\ \A k \in 1 .. Len(ops) : ops[k].path \in Node /\ ops[k].new \in Reading
<1>1. ops \in Seq(Operation)
  BY CallsAssumption DEF ops
<1>2. Len(ops) \in Nat /\ \A k \in 1 .. Len(ops) : ops[k] \in Operation
  BY <1>1
<1>3. \A o \in Operation : o.path \in Node /\ o.new \in Reading
  BY DEF Operation
<1> QED
  BY <1>1, <1>2, <1>3

LEMMA ViewType ==
  ASSUME NEW t \in [Node -> Kinds], NEW n \in Node
  PROVE  View(t, n) \in Reading
BY ValueAssumption DEF View, Kinds, Reading

LEMMA DesiredOperation ==
  ASSUME call \in Calls, start \in [Node -> Kinds]
  PROVE  /\ PathsDiffer => \A k \in 1 .. Len(ops) : Desired(ops[k].path) = ops[k].new
         /\ \A n \in Node : (\A k \in 1 .. Len(ops) : ops[k].path # n)
                               => Desired(n) = View(start, n)
         /\ \A n \in Node : Desired(n) \in Reading
BY OpsType, ViewType DEF Desired, PathsDiffer

(* No step changes the call or the tree it began with, so what is desired  *)
(* stays the same.                                                         *)
LEMMA GoalFixed ==
  ASSUME UNCHANGED <<call, start>>
  PROVE  /\ ops' = ops /\ Writes' = Writes /\ Removals' = Removals
         /\ PathsDiffer' = PathsDiffer
         /\ \A n \in Node : Desired(n)' = Desired(n) /\ View(start, n)' = View(start, n)
BY DEF ops, Writes, Removals, PathsDiffer, Desired, View

-----------------------------------------------------------------------------
LEMMA TypeInit == Init => TypeInv
BY OpsType DEF Init, TypeInv, TypeOK, FillingInv, LengthInv, Filling, Reading

LEMMA TypeStep == TypeInv /\ [Next]_vars => TypeInv'
<1> SUFFICES ASSUME TypeInv, [Next]_vars PROVE TypeInv'
  OBVIOUS
<1>ops. /\ Len(ops) \in Nat
        /\ \A k \in 1 .. Len(ops) : ops[k].path \in Node /\ ops[k].new \in Reading
  BY OpsType DEF TypeInv, TypeOK
<1>same. UNCHANGED call => ops' = ops
  BY DEF ops
<1> USE <1>ops, <1>same DEF TypeInv, TypeOK, FillingInv, LengthInv, Filling, Writes, Removals, Target, Return, StartRestore
<1>1. CASE CheckArguments
  BY <1>1 DEF CheckArguments
<1>2. CASE Snapshot
  <2>1. View(fs, Target) \in Reading
    BY <1>2, ViewType DEF Snapshot
  <2> QED
    BY <1>2, <2>1 DEF Snapshot
<1>3. CASE SnapshotFails
  BY <1>3 DEF SnapshotFails
<1>4. CASE LoopEnds
  BY <1>4 DEF LoopEnds
<1>5. CASE MakeDirectory
  <2>1. \A d \in Missing(Target) : d \in Node
    BY <1>5, TreeAssumption DEF MakeDirectory, Missing
  <2> QED
    BY <1>5, <2>1 DEF MakeDirectory, Kinds
<1>6. CASE DirectoriesMade
  BY <1>6 DEF DirectoriesMade
<1>7. CASE ParentIsNoDirectory
  BY <1>7 DEF ParentIsNoDirectory
<1>8. CASE MakeDirectoryFails
  BY <1>8 DEF MakeDirectoryFails
<1>9. CASE UnmakeDirectory
  <2>1. CASE made = <<>>
    <3>1. UNCHANGED <<call, start, fs, litter, previous, made, created, named, detail, outcome>>
          /\ pc' = "restore" /\ i' = 1
      BY <1>9, <2>1 DEF UnmakeDirectory
    <3>2. Len(previous) >= Len(ops)
      BY <1>9 DEF UnmakeDirectory
    <3> QED
      BY <3>1, <3>2
  <2>2. CASE made # <<>>
    <3>1. made[Len(made)] \in Node /\ SubSeq(made, 1, Len(made) - 1) \in Seq(Node)
      BY <2>2
    <3> QED
      BY <1>9, <2>2, <3>1 DEF UnmakeDirectory, Kinds
  <2> QED
    BY <2>1, <2>2
<1>10. CASE OpenTemporary
  BY <1>10 DEF OpenTemporary
<1>11. CASE OpenTemporaryFails
  BY <1>11 DEF OpenTemporaryFails
<1>12. CASE Replace
  BY <1>12 DEF Replace, Kinds, Reading
<1>13. CASE ReplaceFails
  <2>1. Target \in Node
    BY <1>13 DEF ReplaceFails
  <2>2. litter' \subseteq Node /\ detail' \subseteq {"directory", "temporary"}
    BY <1>13, <2>1 DEF ReplaceFails
  <2> QED
    BY <1>13, <2>2 DEF ReplaceFails
<1>14. CASE Remove
  BY <1>14 DEF Remove, Kinds
<1>15. CASE RemoveFails
  BY <1>15 DEF RemoveFails
<1>16. CASE Succeed
  BY <1>16 DEF Succeed
<1>17. CASE RestoreAbsence
  <2>1. fs' \in [Node -> Kinds] /\ named' \subseteq Node
    BY <1>17 DEF RestoreAbsence, Kinds
  <2> QED
    BY <1>17, <2>1 DEF RestoreAbsence
<1>18. CASE RestoreOpens
  BY <1>18 DEF RestoreOpens
<1>19. CASE RestoreOpenFails
  BY <1>19 DEF RestoreOpenFails
<1>20. CASE RestoreReplace
  <2>1. i \in 1 .. Len(ops) /\ i <= Len(previous)
    BY <1>20 DEF RestoreReplace
  <2>2. previous[i] \in Reading
    BY <2>1
  <2>3. fs' \in [Node -> Kinds]
    BY <1>20, <2>1, <2>2 DEF RestoreReplace, Kinds, Reading
  <2> QED
    BY <1>20, <2>3 DEF RestoreReplace
<1>21. CASE RestoreReplaceFails
  BY <1>21 DEF RestoreReplaceFails
<1>22. CASE RemoveDirectory
  <2>1. created[Len(created)] \in Node /\ SubSeq(created, 1, Len(created) - 1) \in Seq(Node)
    BY <1>22 DEF RemoveDirectory
  <2> QED
    BY <1>22, <2>1 DEF RemoveDirectory, Kinds
<1>23. CASE Raise
  BY <1>23 DEF Raise
<1>24. CASE Interrupt
  BY <1>24 DEF Interrupt
<1>25. CASE UNCHANGED vars
  BY <1>25 DEF vars
<1> QED
  BY <1>1, <1>2, <1>3, <1>4, <1>5, <1>6, <1>7, <1>8, <1>9, <1>10, <1>11, <1>12,
     <1>13, <1>14, <1>15, <1>16, <1>17, <1>18, <1>19, <1>20, <1>21, <1>22, <1>23,
     <1>24, <1>25
  DEF Next, Step, Prepare, Directories, Apply, Restore, Done
-----------------------------------------------------------------------------
(* A step changes the reading of no path, or of the path it is at, to the  *)
(* requested or to the original content.                                   *)
LEMMA ReadingChange ==
  ASSUME TypeInv, SnapshotInv, [Next]_vars
  PROVE  \/ \A n \in Node : View(fs', n) = View(fs, n)
         \/ /\ i \in 1 .. Len(ops) /\ pc \notin {"check", "done"}
            /\ \A n \in Node \ {Target} : View(fs', n) = View(fs, n)
            /\ View(fs', Target) \in {ops[i].new, View(start, Target)}
<1> DEFINE Same == \A n \in Node : View(fs', n) = View(fs, n)
           Change(v) == /\ View(fs', Target) = v
                        /\ \A n \in Node \ {Target} : View(fs', n) = View(fs, n)
<1>ops. /\ Len(ops) \in Nat
        /\ \A k \in 1 .. Len(ops) : ops[k].path \in Node /\ ops[k].new \in Reading
        /\ fs \in [Node -> Kinds]
  BY OpsType DEF TypeInv, TypeOK
<1>file. ASSUME NEW v \in Reading, i \in 1 .. Len(ops), fs' = [fs EXCEPT ![Target] = v]
         PROVE  Change(v)
  <2>1. fs \in [Node -> Kinds] /\ Target \in Node
    BY <1>ops, <1>file DEF Target
  <2> QED
    BY <1>file, <2>1, ValueAssumption DEF View, Kinds, Reading
<1>dir. ASSUME NEW d \in Node, NEW v, {fs[d], v} = {Absent, Directory},
               fs' = [fs EXCEPT ![d] = v]
        PROVE  Same
  BY <1>ops, <1>dir, ValueAssumption DEF View, Kinds, Reading
<1>abs. Absent \in Reading
  BY DEF Reading
<1>1. CASE MakeDirectory
  <2>1. PICK d \in Missing(Target) : fs' = [fs EXCEPT ![d] = Directory]
    BY <1>1 DEF MakeDirectory
  <2>2. d \in Node /\ fs[d] = Absent
    BY <1>1, <1>ops, TreeAssumption DEF MakeDirectory, Missing, Writes, Target
  <2> QED
    BY <2>1, <2>2, <1>dir
<1>2. CASE UnmakeDirectory
  <2>1. CASE fs' = fs
    BY <2>1
  <2>2. CASE made # <<>> /\ IsEmpty(made[Len(made)])
             /\ fs' = [fs EXCEPT ![made[Len(made)]] = Absent]
    <3>1. made[Len(made)] \in Node
      BY <2>2 DEF TypeInv, TypeOK
    <3>2. fs[made[Len(made)]] = Directory
      BY <2>2 DEF IsEmpty
    <3> QED
      BY <2>2, <3>1, <3>2, <1>dir
  <2> QED
    BY <1>2, <2>1, <2>2 DEF UnmakeDirectory
<1>3. CASE Replace
  <2>1. i \in 1 .. Len(ops)
    BY <1>3 DEF Replace, TypeInv, FillingInv, Filling
  <2>2. Change(ops[i].new)
    BY <1>3, <2>1, <1>ops, <1>file DEF Replace
  <2> QED
    BY <1>3, <2>1, <2>2 DEF Replace
<1>4. CASE Remove
  <2>1. i \in 1 .. Len(ops) /\ ops[i].new = Absent
    BY <1>4 DEF Remove, Removals
  <2>2. Change(Absent)
    BY <1>4, <2>1, <1>abs, <1>file DEF Remove
  <2> QED
    BY <1>4, <2>1, <2>2 DEF Remove
<1>5. CASE RestoreAbsence
  <2>1. i \in 1 .. Len(ops) /\ i <= Len(previous) /\ previous[i] = Absent
    BY <1>5, <1>ops DEF RestoreAbsence, TypeInv, TypeOK, LengthInv
  <2>2. View(start, Target) = Absent
    BY <2>1 DEF SnapshotInv, TypeInv, TypeOK, Target
  <2>3. CASE fs' = fs
    BY <2>3
  <2>4. CASE fs' = [fs EXCEPT ![Target] = Absent]
    BY <1>5, <2>1, <2>2, <2>4, <1>abs, <1>file DEF RestoreAbsence
  <2> QED
    BY <1>5, <2>3, <2>4 DEF RestoreAbsence
<1>6. CASE RestoreReplace
  <2>1. i \in 1 .. Len(ops) /\ i <= Len(previous)
    BY <1>6, <1>ops DEF RestoreReplace, TypeInv, TypeOK, FillingInv, LengthInv, Filling
  <2>2. previous[i] \in Reading /\ previous[i] = View(start, Target)
    BY <2>1 DEF SnapshotInv, TypeInv, TypeOK, Target
  <2>3. Change(previous[i])
    BY <1>6, <2>1, <2>2, <1>file DEF RestoreReplace
  <2> QED
    BY <1>6, <2>1, <2>2, <2>3 DEF RestoreReplace
<1>7. CASE RemoveDirectory
  <2>1. created[Len(created)] \in Node
    BY <1>7 DEF RemoveDirectory, TypeInv, TypeOK
  <2>2. CASE fs' = fs
    BY <2>2
  <2>3. CASE IsEmpty(created[Len(created)])
             /\ fs' = [fs EXCEPT ![created[Len(created)]] = Absent]
    <3>1. fs[created[Len(created)]] = Directory
      BY <2>3 DEF IsEmpty
    <3> QED
      BY <2>1, <2>3, <3>1, <1>dir
  <2> QED
    BY <1>7, <2>2, <2>3 DEF RemoveDirectory
<1>8. CASE UNCHANGED fs
  BY <1>8
<1>9. \/ UNCHANGED fs \/ MakeDirectory \/ UnmakeDirectory \/ Replace \/ Remove
      \/ RestoreAbsence \/ RestoreReplace \/ RemoveDirectory
  BY DEF Next, Step, Prepare, Directories, Apply, Restore, Done, vars,
     CheckArguments, Snapshot, SnapshotFails, LoopEnds, DirectoriesMade,
     ParentIsNoDirectory, MakeDirectoryFails, OpenTemporary, OpenTemporaryFails,
     ReplaceFails, RemoveFails, Succeed, RestoreOpens, RestoreOpenFails,
     RestoreReplaceFails, Raise, Interrupt
<1> QED
  BY <1>1, <1>2, <1>3, <1>4, <1>5, <1>6, <1>7, <1>8, <1>9
LEMMA CallFixed == [Next]_vars => UNCHANGED <<call, start>>
BY DEF Next, Step, Prepare, Directories, Apply, Restore, Done, vars,
     CheckArguments, Snapshot, SnapshotFails, LoopEnds, MakeDirectory,
     DirectoriesMade, ParentIsNoDirectory, MakeDirectoryFails, UnmakeDirectory,
     OpenTemporary, OpenTemporaryFails, Replace, ReplaceFails, Remove, RemoveFails,
     Succeed, RestoreAbsence, RestoreOpens, RestoreOpenFails, RestoreReplace,
     RestoreReplaceFails, RemoveDirectory, Raise, Interrupt

(* The paths differ once checked, the snapshot describes the start, and a  *)
(* call has an outcome exactly when it has ended.                          *)
BookInv == UniqueInv /\ SnapshotInv /\ OutcomeInv

LEMMA BookStep == IInv /\ [Next]_vars => BookInv'
<1> SUFFICES ASSUME IInv, [Next]_vars PROVE BookInv'
  OBVIOUS
<1>same. /\ UNCHANGED <<call, start>> /\ ops' = ops /\ PathsDiffer' = PathsDiffer
         /\ \A n \in Node : View(start', n) = View(start, n)
  BY CallFixed, GoalFixed
<1>1. UniqueInv'
  <2>1. CASE CheckArguments
    BY <1>same, <2>1 DEF CheckArguments, Return, UniqueInv, PathsDiffer
  <2>2. CASE pc \notin {"check", "done"}
    BY <1>same, <2>2 DEF IInv, UniqueInv
  <2>3. CASE pc' = "done"
    BY <2>3 DEF UniqueInv
  <2>4. CheckArguments \/ pc \notin {"check", "done"} \/ pc' = "done" \/ pc' = pc
    BY DEF Next, Step, Prepare, Directories, Apply, Restore, Done, vars, Return,
     CheckArguments, Snapshot, SnapshotFails, LoopEnds, MakeDirectory,
     DirectoriesMade, ParentIsNoDirectory, MakeDirectoryFails, UnmakeDirectory,
     OpenTemporary, OpenTemporaryFails, Replace, ReplaceFails, Remove, RemoveFails,
     Succeed, RestoreAbsence, RestoreOpens, RestoreOpenFails, RestoreReplace,
     RestoreReplaceFails, RemoveDirectory, Raise, Interrupt
  <2> QED
    BY <1>same, <2>1, <2>2, <2>3, <2>4 DEF IInv, UniqueInv
<1>2. SnapshotInv'
  <2>1. CASE Snapshot
    <3>1. /\ Len(ops) \in Nat /\ i \in 1 .. Len(ops) /\ Len(previous) = i - 1
          /\ previous' = Append(previous, View(fs, ops[i].path))
          /\ previous \in Seq(Reading)
      BY <2>1, OpsType DEF Snapshot, IInv, TypeInv, TypeOK, LengthInv, Target
    <3>2. View(fs, ops[i].path) = View(start, ops[i].path)
      BY <2>1, <3>1, OpsType DEF Snapshot, IInv, TypeInv, TypeOK, ProgressInv
    <3> QED
      BY <1>same, <3>1, <3>2 DEF IInv, SnapshotInv
  <2>2. CASE UNCHANGED previous
    BY <1>same, <2>2 DEF IInv, SnapshotInv
  <2>3. Snapshot \/ UNCHANGED previous
    BY DEF Next, Step, Prepare, Directories, Apply, Restore, Done, vars,
     CheckArguments, Snapshot, SnapshotFails, LoopEnds, MakeDirectory,
     DirectoriesMade, ParentIsNoDirectory, MakeDirectoryFails, UnmakeDirectory,
     OpenTemporary, OpenTemporaryFails, Replace, ReplaceFails, Remove, RemoveFails,
     Succeed, RestoreAbsence, RestoreOpens, RestoreOpenFails, RestoreReplace,
     RestoreReplaceFails, RemoveDirectory, Raise, Interrupt
  <2> QED
    BY <2>1, <2>2, <2>3
<1>3. OutcomeInv'
  BY DEF IInv, OutcomeInv, Next, Step, Prepare, Directories, Apply, Restore, Done,
     vars, Return, StartRestore,
     CheckArguments, Snapshot, SnapshotFails, LoopEnds, MakeDirectory,
     DirectoriesMade, ParentIsNoDirectory, MakeDirectoryFails, UnmakeDirectory,
     OpenTemporary, OpenTemporaryFails, Replace, ReplaceFails, Remove, RemoveFails,
     Succeed, RestoreAbsence, RestoreOpens, RestoreOpenFails, RestoreReplace,
     RestoreReplaceFails, RemoveDirectory, Raise, Interrupt
<1> QED
  BY <1>1, <1>2, <1>3 DEF BookInv

LEMMA OldOrNewStep == IInv /\ [Next]_vars => OldOrNew'
<1> SUFFICES ASSUME IInv, [Next]_vars, NEW n \in Node
             PROVE  View(fs', n) \in {View(start, n), Desired(n)}
  BY CallFixed, GoalFixed DEF OldOrNew
<1>1. View(fs, n) \in {View(start, n), Desired(n)}
  BY DEF IInv, OldOrNew
<1>2. CASE View(fs', n) = View(fs, n)
  BY <1>1, <1>2
<1>3. CASE View(fs', n) # View(fs, n)
  <2>1. /\ i \in 1 .. Len(ops) /\ pc \notin {"check", "done"} /\ n = Target
        /\ View(fs', Target) \in {ops[i].new, View(start, Target)}
    BY <1>3, ReadingChange DEF IInv
  <2>2. Desired(Target) = ops[i].new
    BY <2>1, DesiredOperation DEF IInv, TypeInv, TypeOK, UniqueInv, Target
  <2> QED
    BY <2>1, <2>2
<1> QED
  BY <1>2, <1>3
(* Writes and removals advance one operation at a time, restoration undoes *)
(* them one at a time or names the path.                                   *)
LEMMA ProgressStep == IInv /\ [Next]_vars => ProgressInv'
<1> SUFFICES ASSUME IInv, [Next]_vars PROVE ProgressInv'
  OBVIOUS
<1>same. /\ UNCHANGED <<call, start>> /\ ops' = ops
         /\ \A n \in Node : View(start', n) = View(start, n)
  BY CallFixed, GoalFixed
<1>type. /\ Len(ops) \in Nat /\ i \in Nat /\ fs \in [Node -> Kinds]
         /\ \A k \in 1 .. Len(ops) : ops[k].path \in Node /\ ops[k].new \in Reading
  BY OpsType DEF IInv, TypeInv, TypeOK
<1>others. pc \notin {"check", "done"} =>
             \A k \in 1 .. Len(ops) : k # i => View(fs', ops[k].path) = View(fs, ops[k].path)
  BY ReadingChange, <1>type DEF IInv, UniqueInv, PathsDiffer, Target
<1>inv. ProgressInv
  BY DEF IInv
<1> USE DEF ProgressInv, Applied, Untouched
<1>1. CASE CheckArguments
  BY <1>1, <1>same, <1>type, <1>inv DEF CheckArguments, Return
<1>2. CASE Snapshot
  BY <1>2, <1>same, <1>type, <1>inv DEF Snapshot
<1>3. CASE LoopEnds
  BY <1>3, <1>same, <1>type, <1>inv DEF LoopEnds
<1>4. CASE MakeDirectory \/ UnmakeDirectory
  <2>1. \A n \in Node : View(fs', n) = View(fs, n)
    <3>1. CASE fs' = fs
      BY <3>1
    <3>2. CASE \E d : {fs[d], fs'[d]} = {Absent, Directory} /\ fs' = [fs EXCEPT ![d] = fs'[d]]
      BY <3>2, <1>type, ValueAssumption DEF View, Kinds, Reading
    <3>3. MakeDirectory => \E d \in Missing(Target) : fs' = [fs EXCEPT ![d] = Directory]
      BY DEF MakeDirectory
    <3>4. \A d \in Missing(Target) : fs[d] = Absent
      BY DEF Missing
    <3>5. UnmakeDirectory => \/ fs' = fs
                             \/ \E d : fs[d] = Directory /\ fs' = [fs EXCEPT ![d] = Absent]
      BY DEF UnmakeDirectory, IsEmpty
    <3> QED
      BY <1>4, <1>type, <3>3, <3>4, <3>5, ValueAssumption DEF View, Kinds, Reading
  <2> QED
    BY <1>4, <2>1, <1>same, <1>type, <1>inv DEF MakeDirectory, UnmakeDirectory, StartRestore
<1>5. CASE DirectoriesMade \/ MakeDirectoryFails \/ OpenTemporary
  BY <1>5, <1>same, <1>type, <1>inv DEF DirectoriesMade, MakeDirectoryFails, OpenTemporary
<1>6. CASE ParentIsNoDirectory \/ OpenTemporaryFails \/ ReplaceFails \/ RemoveFails
  BY <1>6, <1>same, <1>type
  DEF ParentIsNoDirectory, OpenTemporaryFails, ReplaceFails, RemoveFails, StartRestore
<1>7. CASE Replace
  <2>1. i \in 1 .. Len(ops)
    BY <1>7 DEF Replace, IInv, TypeInv, FillingInv, Filling
  <2>2. View(fs', ops[i].path) = ops[i].new
    BY <1>7, <2>1, <1>type, ValueAssumption DEF Replace, View, Kinds, Reading, Target
  <2>3. \A k \in 1 .. Len(ops) :
          IF k < i THEN View(fs, ops[k].path) = ops[k].new
                   ELSE View(fs, ops[k].path) = View(start, ops[k].path)
    BY <1>7, <1>inv DEF Replace
  <2>4. i' = i + 1 /\ pc' \in {"write", "remove"} /\ pc \notin {"check", "done"}
    BY <1>7 DEF Replace
  <2>5. \A k \in 1 .. Len(ops) :
          IF k < i + 1 THEN View(fs', ops[k].path) = ops[k].new
                       ELSE View(fs', ops[k].path) = View(start, ops[k].path)
    BY <2>1, <2>2, <2>3, <2>4, <1>type, <1>others
  <2> QED
    BY <2>5, <2>4, <1>same
<1>8. CASE Remove
  <2>1. i \in 1 .. Len(ops) /\ ops[i].new = Absent
    BY <1>8 DEF Remove, Removals
  <2>2. View(fs', ops[i].path) = Absent
    BY <1>8, <2>1, <1>type, ValueAssumption DEF Remove, View, Kinds, Reading, Target
  <2>3. \A k \in 1 .. Len(ops) :
          IF k < i THEN View(fs, ops[k].path) = ops[k].new
                   ELSE View(fs, ops[k].path) = View(start, ops[k].path)
    BY <1>8, <1>inv DEF Remove
  <2>4. i' = i + 1 /\ pc' \in {"write", "remove"} /\ pc \notin {"check", "done"}
    BY <1>8 DEF Remove
  <2>5. \A k \in 1 .. Len(ops) :
          IF k < i + 1 THEN View(fs', ops[k].path) = ops[k].new
                       ELSE View(fs', ops[k].path) = View(start, ops[k].path)
    BY <2>1, <2>2, <2>3, <2>4, <1>type, <1>others
  <2> QED
    BY <2>5, <2>4, <1>same
<1>9. CASE RestoreAbsence
  <2>1. i \in 1 .. Len(ops) /\ i <= Len(previous) /\ previous[i] = Absent
    BY <1>9, <1>type DEF RestoreAbsence, IInv, TypeInv, TypeOK, LengthInv
  <2>2. View(start, ops[i].path) = Absent
    BY <2>1, <1>type DEF SnapshotInv, IInv, TypeInv, TypeOK
  <2>3. View(fs', ops[i].path) = Absent \/ ops[i].path \in named'
    BY <1>9, <2>1, <1>type, ValueAssumption DEF RestoreAbsence, View, Kinds, Reading, Target
  <2>4. named \subseteq named'
    BY <1>9 DEF RestoreAbsence
  <2> QED
    BY <1>9, <2>1, <2>2, <2>3, <2>4, <1>same, <1>type, <1>others, <1>inv DEF RestoreAbsence
<1>10. CASE RestoreOpens
  BY <1>10, <1>same, <1>type, <1>inv DEF RestoreOpens
<1>11. CASE RestoreOpenFails \/ RestoreReplaceFails
  BY <1>11, <1>same, <1>type, <1>inv
  DEF RestoreOpenFails, RestoreReplaceFails, Target
<1>12. CASE RestoreReplace
  <2>1. i \in 1 .. Len(ops) /\ i <= Len(previous)
    BY <1>12, <1>type DEF RestoreReplace, IInv, TypeInv, TypeOK, FillingInv, LengthInv, Filling
  <2>2. previous[i] = View(start, ops[i].path) /\ previous[i] \in Reading
    BY <2>1, <1>type DEF SnapshotInv, IInv, TypeInv, TypeOK
  <2>3. View(fs', ops[i].path) = previous[i]
    BY <1>12, <2>1, <2>2, <1>type, ValueAssumption DEF RestoreReplace, View, Kinds, Reading, Target
  <2>4. \A k \in 1 .. Len(ops) : k < i =>
          View(fs, ops[k].path) = View(start, ops[k].path) \/ ops[k].path \in named
    BY <1>12, <1>inv DEF RestoreReplace
  <2>5. i' = i + 1 /\ pc' = "restore" /\ named' = named /\ pc = "restoreReplace"
    BY <1>12 DEF RestoreReplace
  <2>6. \A k \in 1 .. Len(ops) : k < i + 1 =>
          View(fs', ops[k].path) = View(start, ops[k].path) \/ ops[k].path \in named
    BY <2>1, <2>2, <2>3, <2>4, <2>5, <1>type, <1>others
  <2> QED
    BY <2>6, <2>5, <1>same
<1>13. CASE RemoveDirectory
  <2>1. \A k \in 1 .. Len(ops) : View(fs', ops[k].path) = View(fs, ops[k].path)
    <3>1. CASE fs' = fs
      BY <3>1
    <3>2. CASE IsEmpty(created[Len(created)])
               /\ fs' = [fs EXCEPT ![created[Len(created)]] = Absent]
      BY <3>2, <1>type, ValueAssumption DEF IsEmpty, View, Kinds, Reading
    <3> QED
      BY <1>13, <3>1, <3>2 DEF RemoveDirectory
  <2>2. named \subseteq named' /\ pc' = "rmdir" /\ pc = "rmdir"
    BY <1>13 DEF RemoveDirectory
  <2> QED
    BY <2>1, <2>2, <1>same, <1>type, <1>inv
<1>14. CASE SnapshotFails \/ Succeed \/ Raise \/ Interrupt \/ UNCHANGED vars
  BY <1>14, <1>same, <1>type, <1>inv
  DEF SnapshotFails, Succeed, Raise, Interrupt, Return, vars
<1> QED
  BY <1>1, <1>2, <1>3, <1>4, <1>5, <1>6, <1>7, <1>8, <1>9, <1>10, <1>11, <1>12,
     <1>13, <1>14
  DEF Next, Step, Prepare, Directories, Apply, Restore, Done

(* How a call ends follows from how far it came.                           *)
LEMMA EndStep == IInv /\ [Next]_vars => AllOrNothing' /\ DamageNamed'
<1> SUFFICES ASSUME IInv, [Next]_vars PROVE AllOrNothing' /\ DamageNamed'
  OBVIOUS
<1>same. /\ UNCHANGED <<call, start>> /\ ops' = ops
         /\ \A n \in Node : View(start', n) = View(start, n) /\ Desired(n)' = Desired(n)
  BY CallFixed, GoalFixed
<1>type. Len(ops) \in Nat /\ i \in Nat
  BY OpsType DEF IInv, TypeInv, TypeOK
<1>others. \A n \in Node : (\A k \in 1 .. Len(ops) : ops[k].path # n)
                             => View(fs, n) = View(start, n) /\ Desired(n) = View(start, n)
  BY DesiredOperation DEF IInv, TypeInv, TypeOK, OldOrNew
<1>1. CASE CheckArguments \/ SnapshotFails
  <2>1. \A n \in Node : View(fs, n) = View(start, n)
    BY <1>1 DEF CheckArguments, SnapshotFails, IInv, ProgressInv
  <2> QED
    BY <1>1, <2>1, <1>same
    DEF CheckArguments, SnapshotFails, Return, AllOrNothing, DamageNamed, IInv, OutcomeInv
<1>2. CASE Succeed
  <2>1. \A k \in 1 .. Len(ops) : View(fs, ops[k].path) = ops[k].new
    BY <1>2, <1>type DEF Succeed, IInv, ProgressInv, Applied
  <2>2. PathsDiffer
    BY <1>2 DEF Succeed, IInv, UniqueInv
  <2>3. \A n \in Node : View(fs, n) = Desired(n)
    BY <2>1, <2>2, <1>others, DesiredOperation DEF IInv, TypeInv, TypeOK
  <2> QED
    BY <1>2, <2>3, <1>same DEF Succeed, Return, AllOrNothing, DamageNamed
<1>3. CASE Raise
  <2>1. \A n \in Node : View(fs, n) = View(start, n) \/ n \in named
    BY <1>3, <1>others DEF Raise, IInv, ProgressInv, Untouched
  <2> QED
    BY <1>3, <2>1, <1>same DEF Raise, Return, AllOrNothing, DamageNamed
<1>4. CASE Interrupt
  BY <1>4 DEF Interrupt, Return, AllOrNothing, DamageNamed
<1>5. CASE outcome' = "running"
  BY <1>5 DEF AllOrNothing, DamageNamed
<1>6. CASE UNCHANGED <<fs, named, outcome>>
  BY <1>6, <1>same DEF IInv, AllOrNothing, DamageNamed
<1>7. \/ CheckArguments \/ SnapshotFails \/ Succeed \/ Raise \/ Interrupt
      \/ outcome' = "running" \/ UNCHANGED <<fs, named, outcome>>
  BY DEF IInv, OutcomeInv, Next, Step, Prepare, Directories, Apply, Restore, Done, vars,
     CheckArguments, Snapshot, SnapshotFails, LoopEnds, MakeDirectory,
     DirectoriesMade, ParentIsNoDirectory, MakeDirectoryFails, UnmakeDirectory,
     OpenTemporary, OpenTemporaryFails, Replace, ReplaceFails, Remove, RemoveFails,
     Succeed, RestoreAbsence, RestoreOpens, RestoreOpenFails, RestoreReplace,
     RestoreReplaceFails, RemoveDirectory, Raise, Interrupt
<1> QED
  BY <1>1, <1>2, <1>3, <1>4, <1>5, <1>6, <1>7
-----------------------------------------------------------------------------
LEMMA Initially == Init => IInv
<1> SUFFICES ASSUME Init PROVE IInv
  OBVIOUS
<1>1. TypeInv
  BY TypeInit
<1>2. call \in Calls /\ fs = start /\ previous = <<>> /\ pc = "check" /\ outcome = "running"
  BY DEF Init
<1> QED
  BY <1>1, <1>2 DEF IInv, UniqueInv, SnapshotInv, ProgressInv, OutcomeInv, OldOrNew,
     AllOrNothing, DamageNamed

THEOREM Invariance == Spec => []IInv
<1>1. IInv /\ [Next]_vars => IInv'
  BY TypeStep, BookStep, OldOrNewStep, ProgressStep, EndStep DEF IInv, BookInv
<1> QED
  BY Initially, <1>1, PTL DEF Spec

(* Every variable keeps its type, and so every step finds the operation    *)
(* and the snapshot it works on.                                           *)
THEOREM TypeCorrect == Spec => []TypeOK
<1>1. IInv => TypeOK
  BY DEF IInv, TypeInv
<1> QED
  BY Invariance, <1>1, PTL

(* For every tree and every number of operations and failures, a reader    *)
(* sees each path wholly old or wholly new (atomic_write_bytes).           *)
THEOREM ReadersSeeOldOrNew == Spec => []OldOrNew
<1>1. IInv => OldOrNew
  BY DEF IInv
<1> QED
  BY Invariance, <1>1, PTL

(* A call that returns has applied every operation, and one that raises    *)
(* the original error has applied none: rollback is complete or reported.  *)
THEOREM TransactionIsAtomic == Spec => []AllOrNothing
<1>1. IInv => AllOrNothing
  BY DEF IInv
<1> QED
  BY Invariance, <1>1, PTL

(* A rollback error names every path whose reading the call has changed.   *)
THEOREM RollbackErrorIsComplete == Spec => []DamageNamed
<1>1. IInv => DamageNamed
  BY DEF IInv
<1> QED
  BY Invariance, <1>1, PTL

(* Seen by its caller, a call is one step of AtomicUpdate: it commits all  *)
(* operations, refuses them all, or reports (rollback error, interrupt)    *)
(* that each path is old or new.                                           *)
THEOREM ImplementsContract == Spec => ContractSpec
<1>1. Init => Contract!Init
  <2> SUFFICES ASSUME Init PROVE Contract!Init
    OBVIOUS
  <2>1. TypeInv /\ pc = "check" /\ outcome = "running"
    BY TypeInit DEF Init
  <2>2. \A n \in Node : View(start, n) \in Reading /\ Desired(n) \in Reading
    BY <2>1, ViewType, DesiredOperation DEF TypeInv, TypeOK
  <2> QED
    BY <2>1, <2>2 DEF Contract!Init, Contract!Reading, Reading
<1>2. IInv /\ IInv' /\ [Next]_vars => [Contract!Next]_Contract!vars
  <2> SUFFICES ASSUME IInv, IInv', [Next]_vars PROVE [Contract!Next]_Contract!vars
    OBVIOUS
  <2>same. \A n \in Node : View(start', n) = View(start, n) /\ Desired(n)' = Desired(n)
    BY CallFixed, GoalFixed
  <2>goal. [n \in Node |-> Desired(n)]' = [n \in Node |-> Desired(n)]
    BY <2>same
  <2>1. CASE pc = "done"
    <3>1. UNCHANGED vars
      BY <2>1 DEF Next, Step, Prepare, Directories, Apply, Restore, Done, vars,
         CheckArguments, Snapshot, SnapshotFails, LoopEnds, MakeDirectory,
         DirectoriesMade, ParentIsNoDirectory, MakeDirectoryFails, UnmakeDirectory,
         OpenTemporary, OpenTemporaryFails, Replace, ReplaceFails, Remove, RemoveFails,
         Succeed, RestoreAbsence, RestoreOpens, RestoreOpenFails, RestoreReplace,
         RestoreReplaceFails, RemoveDirectory, Raise, Interrupt
    <3>2. \A n \in Node : View(fs', n) = View(fs, n)
      BY <3>1 DEF vars
    <3> QED
      BY <3>1, <3>2, <2>same, <2>goal DEF vars, Contract!vars
  <2>2. CASE pc # "done" /\ pc' # "done"
    <3>1. outcome = "running" /\ outcome' = "running"
      BY <2>2 DEF IInv, OutcomeInv
    <3> QED
      BY <2>2, <3>1, <2>same, <2>goal DEF Contract!vars
  <2>3. CASE pc # "done" /\ pc' = "done"
    <3>1. outcome = "running" /\ outcome' # "running"
      BY <2>3 DEF IInv, OutcomeInv
    <3>2. CASE outcome' = "ok"
      <4>1. \A n \in Node : View(fs', n) = Desired(n)
        BY <3>2, <2>same DEF IInv, AllOrNothing
      <4> QED
        BY <2>3, <3>1, <3>2, <4>1, <2>same, <2>goal DEF Contract!Next, Contract!Commit
    <3>3. CASE outcome' \in {"ValueError", "AtomicWriteError"}
      <4>1. \A n \in Node : View(fs', n) = View(start, n)
        BY <3>3, <2>same DEF IInv, AllOrNothing
      <4> QED
        BY <2>3, <3>1, <3>3, <4>1, <2>same, <2>goal DEF Contract!Next, Contract!Refuse
    <3>4. CASE outcome' \in {"TransactionRollbackError", "Interrupted"}
      <4>1. \A n \in Node : View(fs', n) \in {View(start, n), Desired(n)}
        BY <2>same DEF IInv, OldOrNew
      <4> DEFINE done == {n \in Node : View(fs', n) = Desired(n)}
      <4>2. [n \in Node |-> View(fs', n)] =
              [n \in Node |-> IF n \in done THEN Desired(n) ELSE View(start, n)]
        BY <4>1
      <4>3. done \in SUBSET Node
        OBVIOUS
      <4> HIDE DEF done
      <4> QED
        BY <2>3, <3>1, <3>4, <4>2, <4>3, <2>same, <2>goal DEF Contract!Next, Contract!Tear
    <3>5. outcome' \in {"running", "ok", "ValueError", "AtomicWriteError",
                        "TransactionRollbackError", "Interrupted"}
      BY DEF IInv, TypeInv, TypeOK
    <3> QED
      BY <3>1, <3>2, <3>3, <3>4, <3>5
  <2> QED
    BY <2>1, <2>2, <2>3
<1> QED
  BY Invariance, <1>1, <1>2, PTL DEF Spec, ContractSpec, Contract!Spec
-----------------------------------------------------------------------------
(* What a call may leave behind.  Until something is put back nothing      *)
(* needs cleaning up; a temporary file that stays is noted; and a          *)
(* directory the call has made is on one of the two lists, or noted.       *)
Elements(s) == {s[k] : k \in 1 .. Len(s)}

ListedInv == \A d \in Elements(made) \union Elements(created) :
  start[d] # Directory /\ \E k \in Writes : d \in Ancestors[ops[k].path]

LitterInv ==
  /\ pc \in {"check", "snapshot", "mkdir", "unmake", "write", "replace", "remove"} => litter = {}
  /\ pc \in {"check", "snapshot", "mkdir", "write", "replace", "remove"} => named = {} /\ detail = {}
  /\ pc # "done" => litter = {} \/ detail # {} \/ named # {}

MadeInv ==
  /\ pc \in {"check", "snapshot"} => created = <<>>
  /\ pc \notin {"mkdir", "unmake", "done"} => made = <<>>
  /\ pc = "mkdir" /\ made # <<>> => i \in Writes /\ Reachable(Target)

DirectoryInv ==
  /\ \A n \in Node : start[n] = Directory => fs[n] = Directory
  /\ \A n \in Node : fs[n] = Directory =>
       start[n] = Directory \/ n \in Elements(made) \union Elements(created) \union named \/ detail # {}

CleanInv == ListedInv /\ LitterInv /\ MadeInv /\ DirectoryInv /\ NothingLeftBehind

LEMMA ElementsOfLists ==
  ASSUME NEW s \in Seq(Node), NEW t \in Seq(Node), NEW d \in Node
  PROVE  /\ Elements(<<>>) = {}
         /\ Elements(Append(s, d)) = Elements(s) \union {d}
         /\ Elements(s \o t) = Elements(s) \union Elements(t)
         /\ s # <<>> => /\ s[Len(s)] \in Elements(s)
                        /\ Elements(s) = Elements(SubSeq(s, 1, Len(s) - 1)) \union {s[Len(s)]}
<1>1. Elements(<<>>) = {}
  BY DEF Elements
<1>2. Elements(Append(s, d)) = Elements(s) \union {d}
  <2>1. /\ Len(Append(s, d)) = Len(s) + 1 /\ Len(s) \in Nat
        /\ \A k \in 1 .. Len(s) : Append(s, d)[k] = s[k]
        /\ Append(s, d)[Len(s) + 1] = d
    OBVIOUS
  <2>2. 1 .. Len(s) + 1 = (1 .. Len(s)) \union {Len(s) + 1}
    BY <2>1
  <2> QED BY <2>1, <2>2 DEF Elements
<1>3. Elements(s \o t) = Elements(s) \union Elements(t)
  <2>1. /\ Len(s \o t) = Len(s) + Len(t) /\ Len(s) \in Nat /\ Len(t) \in Nat
        /\ \A k \in 1 .. Len(s) : (s \o t)[k] = s[k]
        /\ \A k \in 1 .. Len(t) : (s \o t)[Len(s) + k] = t[k]
    OBVIOUS
  <2>2. \A k \in 1 .. Len(s \o t) : k \in 1 .. Len(s) \/ k - Len(s) \in 1 .. Len(t)
    BY <2>1
  <2>3. Elements(s \o t) \subseteq Elements(s) \union Elements(t)
    <3> SUFFICES ASSUME NEW k \in 1 .. Len(s \o t) PROVE (s \o t)[k] \in Elements(s) \union Elements(t)
      BY DEF Elements
    <3>1. CASE k \in 1 .. Len(s)
      BY <2>1, <3>1 DEF Elements
    <3>2. CASE k - Len(s) \in 1 .. Len(t)
      <4>1. (s \o t)[k] = t[k - Len(s)]
        BY <2>1, <3>2
      <4> QED BY <3>2, <4>1 DEF Elements
    <3> QED BY <2>2, <3>1, <3>2
  <2>4. Elements(s) \subseteq Elements(s \o t)
    BY <2>1 DEF Elements
  <2>5. Elements(t) \subseteq Elements(s \o t)
    <3> SUFFICES ASSUME NEW k \in 1 .. Len(t) PROVE t[k] \in Elements(s \o t)
      BY DEF Elements
    <3>1. Len(s) + k \in 1 .. Len(s \o t) /\ (s \o t)[Len(s) + k] = t[k]
      BY <2>1
    <3> QED BY <3>1 DEF Elements
  <2> QED BY <2>3, <2>4, <2>5
<1>4. ASSUME s # <<>>
      PROVE  s[Len(s)] \in Elements(s) /\ Elements(s) = Elements(SubSeq(s, 1, Len(s) - 1)) \union {s[Len(s)]}
  <2>0. Len(s) \in Nat \ {0}
    BY <1>4
  <2>1. /\ Len(SubSeq(s, 1, Len(s) - 1)) = Len(s) - 1
        /\ \A k \in 1 .. Len(s) - 1 : SubSeq(s, 1, Len(s) - 1)[k] = s[k]
    <3> DEFINE m == Len(s) - 1
               u == SubSeq(s, 1, m)
    <3>1. m \in Nat /\ 1 \in Int /\ \A k \in 1 .. m : s[k] \in Node
      BY <2>0
    <3>2. /\ Len(u) = IF 1 <= m THEN m - 1 + 1 ELSE 0
          /\ \A k \in 1 .. m - 1 + 1 : u[k] = s[1 + k - 1]
      BY <3>1, SubSeqProperties
    <3>3. Len(u) = m
      <4> DEFINE l == Len(u)
      <4>1. l = IF 1 <= m THEN m - 1 + 1 ELSE 0
        BY <3>2
      <4> HIDE DEF l, m
      <4>2. l = m
        BY <3>1, <4>1
      <4> QED BY <4>2 DEF l
    <3>4. \A k \in 1 .. m : u[k] = s[k]
      <4> TAKE k \in 1 .. m
      <4> HIDE DEF u, m
      <4>1. k \in 1 .. m - 1 + 1 /\ 1 + k - 1 = k
        BY <3>1
      <4> QED BY <3>2, <4>1
    <3> QED BY <3>3, <3>4
  <2>2. 1 .. Len(s) = (1 .. Len(s) - 1) \union {Len(s)} /\ Len(s) \in 1 .. Len(s)
    BY <2>0
  <2> QED BY <2>1, <2>2 DEF Elements
<1> QED BY <1>1, <1>2, <1>3, <1>4

LEMMA CleanInit == Init => CleanInv
<1>1. Init => Elements(made) = {} /\ Elements(created) = {}
  BY DEF Init, Elements
<1> QED BY <1>1 DEF Init, CleanInv, ListedInv, LitterInv, MadeInv, DirectoryInv, NothingLeftBehind

(* A step changes no directory and neither list, or makes, lists or        *)
(* removes one.                                                            *)
LEMMA DirectoryChange ==
  ASSUME TypeInv, [Next]_vars
  PROVE  \/ /\ UNCHANGED <<made, created>> /\ named \subseteq named' /\ detail \subseteq detail'
            /\ \A n \in Node : fs'[n] = Directory <=> fs[n] = Directory
         \/ MakeDirectory \/ DirectoriesMade \/ UnmakeDirectory \/ RemoveDirectory
<1> DEFINE Same == \A n \in Node : fs'[n] = Directory <=> fs[n] = Directory
<1>1. ASSUME NEW n \in Node, NEW v \in Reading, fs[n] # Directory, fs' = [fs EXCEPT ![n] = v]
      PROVE  Same
  BY <1>1, ValueAssumption DEF Reading, TypeInv, TypeOK
<1>2. /\ Len(ops) \in Nat
      /\ \A k \in 1 .. Len(ops) : ops[k].path \in Node /\ ops[k].new \in Reading
  BY OpsType DEF TypeInv, TypeOK
<1>3. CASE Replace
  <2>1. i \in 1 .. Len(ops)
    BY <1>3 DEF Replace, TypeInv, FillingInv, Filling
  <2>2. Same
    BY <1>3, <2>1, <1>1, <1>2 DEF Replace, Target
  <2> QED BY <1>3, <2>2 DEF Replace
<1>4. CASE Remove
  <2>1. i \in 1 .. Len(ops) /\ Absent \in Reading
    BY <1>4 DEF Remove, Removals, Reading
  <2>2. Same
    BY <1>4, <2>1, <1>1, <1>2 DEF Remove, Target
  <2> QED BY <1>4, <2>2 DEF Remove
<1>5. CASE RestoreAbsence
  <2>1. i \in 1 .. Len(ops) /\ Absent \in Reading
    BY <1>5, <1>2 DEF RestoreAbsence, Reading, TypeInv, TypeOK
  <2>2. Same
    BY <1>5, <2>1, <1>1, <1>2 DEF RestoreAbsence, Target
  <2> QED BY <1>5, <2>2 DEF RestoreAbsence
<1>6. CASE RestoreReplace
  <2>1. i \in 1 .. Len(ops) /\ i <= Len(previous)
    BY <1>6, <1>2 DEF RestoreReplace, TypeInv, TypeOK, FillingInv, LengthInv, Filling
  <2>2. previous[i] \in Reading
    BY <2>1 DEF TypeInv, TypeOK
  <2>3. Same
    BY <1>6, <2>1, <2>2, <1>1, <1>2 DEF RestoreReplace, Target
  <2> QED BY <1>6, <2>3 DEF RestoreReplace
<1>7. CASE UNCHANGED fs /\ UNCHANGED <<made, created>> /\ named \subseteq named' /\ detail \subseteq detail'
  BY <1>7
<1>8. \/ UNCHANGED fs /\ UNCHANGED <<made, created>> /\ named \subseteq named' /\ detail \subseteq detail'
      \/ MakeDirectory \/ DirectoriesMade \/ UnmakeDirectory \/ RemoveDirectory
      \/ Replace \/ Remove \/ RestoreAbsence \/ RestoreReplace
  BY DEF Next, Step, Prepare, Directories, Apply, Restore, Done, vars,
     CheckArguments, Snapshot, SnapshotFails, LoopEnds, ParentIsNoDirectory, MakeDirectoryFails,
     OpenTemporary, OpenTemporaryFails, ReplaceFails, RemoveFails, Succeed, RestoreOpens,
     RestoreOpenFails, RestoreReplaceFails, Raise, Interrupt
<1> QED BY <1>3, <1>4, <1>5, <1>6, <1>7, <1>8

LEMMA DirectoriesStep ==
  ASSUME TypeInv, CleanInv, [Next]_vars PROVE ListedInv' /\ DirectoryInv'
<1>1. UNCHANGED <<call, start>> /\ ops' = ops /\ Writes' = Writes
  BY CallFixed, GoalFixed
<1>2. /\ made \in Seq(Node) /\ created \in Seq(Node) /\ fs \in [Node -> Kinds]
  BY DEF TypeInv, TypeOK
<1>3. CASE /\ UNCHANGED <<made, created>> /\ named \subseteq named' /\ detail \subseteq detail'
           /\ \A n \in Node : fs'[n] = Directory <=> fs[n] = Directory
  <2>1. Elements(made)' = Elements(made) /\ Elements(created)' = Elements(created)
    BY <1>3
  <2> QED BY <1>1, <1>3, <2>1 DEF CleanInv, ListedInv, DirectoryInv
<1>4. CASE MakeDirectory
  <2>1. PICK d \in Missing(Target) : fs' = [fs EXCEPT ![d] = Directory] /\ made' = Append(made, d)
    BY <1>4 DEF MakeDirectory
  <2>2. /\ i \in Writes /\ d \in Ancestors[ops[i].path] /\ fs[d] = Absent
        /\ UNCHANGED <<created, named, detail>>
    BY <1>4, <2>1 DEF MakeDirectory, Missing, Target
  <2>3. d \in Node
    BY <2>2, OpsType, TreeAssumption DEF Writes, TypeInv, TypeOK
  <2>4. start[d] # Directory
    BY <2>2, <2>3, ValueAssumption DEF CleanInv, DirectoryInv
  <2>5. Elements(made') = Elements(made) \union {d} /\ Elements(created') = Elements(created)
    BY <1>2, <2>1, <2>2, <2>3, ElementsOfLists
  <2>6. Elements(made)' = Elements(made) \union {d} /\ Elements(created)' = Elements(created)
    BY <2>5 DEF Elements
  <2>7. ListedInv'
    BY <1>1, <2>2, <2>4, <2>6 DEF CleanInv, ListedInv
  <2>8. \A n \in Node : fs'[n] = Directory <=> n = d \/ fs[n] = Directory
    BY <1>2, <2>1, <2>3
  <2> QED BY <1>1, <2>2, <2>6, <2>7, <2>8 DEF CleanInv, DirectoryInv
<1>5. CASE DirectoriesMade
  <2>1. created' = created \o made /\ made' = <<>> /\ UNCHANGED <<fs, named, detail>>
    BY <1>5 DEF DirectoriesMade
  <2>2. Root \in Node
    BY TreeAssumption
  <2>3. Elements(made)' = {} /\ Elements(created)' = Elements(created) \union Elements(made)
    <3>1. Elements(<<>>) = {} /\ Elements(created \o made) = Elements(created) \union Elements(made)
      BY <1>2, <2>2, ElementsOfLists
    <3> QED BY <2>1, <3>1 DEF Elements
  <2> QED BY <1>1, <2>1, <2>3 DEF CleanInv, ListedInv, DirectoryInv
<1>6. CASE UnmakeDirectory
  <2>1. CASE made = <<>>
    <3>1. UNCHANGED <<fs, made, created, named, detail>>
      BY <1>6, <2>1 DEF UnmakeDirectory
    <3>2. Elements(made)' = Elements(made) /\ Elements(created)' = Elements(created)
      BY <3>1
    <3> QED BY <1>1, <3>1, <3>2 DEF CleanInv, ListedInv, DirectoryInv
  <2>2. CASE made # <<>>
    <3> DEFINE d == made[Len(made)]
    <3>1. /\ made' = SubSeq(made, 1, Len(made) - 1) /\ UNCHANGED <<created, named>>
          /\ \/ fs' = [fs EXCEPT ![d] = Absent] /\ UNCHANGED detail
             \/ detail' = detail \union {"directory"} /\ UNCHANGED fs
      BY <1>6, <2>2 DEF UnmakeDirectory
    <3>2. d \in Node
      BY <1>2, <2>2
    <3>3. d \in Elements(made) /\ Elements(made) = Elements(SubSeq(made, 1, Len(made) - 1)) \union {d}
      BY <1>2, <2>2, <3>2, ElementsOfLists
    <3> HIDE DEF d
    <3>4. Elements(made) = Elements(made)' \union {d} /\ Elements(created)' = Elements(created)
      BY <3>1, <3>3 DEF Elements
    <3>5. ListedInv'
      BY <1>1, <3>4 DEF CleanInv, ListedInv
    <3>6. start[d] # Directory
      BY <3>3 DEF CleanInv, ListedInv
    <3>7. CASE fs' = [fs EXCEPT ![d] = Absent] /\ UNCHANGED detail
      <4>1. \A n \in Node : fs'[n] = Directory <=> n # d /\ fs[n] = Directory
        BY <1>2, <3>2, <3>7, ValueAssumption
      <4> QED BY <1>1, <3>1, <3>4, <3>5, <3>6, <3>7, <4>1 DEF CleanInv, DirectoryInv
    <3>8. CASE detail' = detail \union {"directory"} /\ UNCHANGED fs
      BY <1>1, <3>5, <3>8 DEF CleanInv, DirectoryInv
    <3> QED BY <3>1, <3>7, <3>8
  <2> QED BY <2>1, <2>2
<1>7. CASE RemoveDirectory
  <2> DEFINE d == created[Len(created)]
  <2>1. /\ created # <<>> /\ created' = SubSeq(created, 1, Len(created) - 1) /\ UNCHANGED <<made, detail>>
        /\ \/ fs' = [fs EXCEPT ![d] = Absent] /\ UNCHANGED named
           \/ named' = (IF fs[d] = Absent THEN named ELSE named \union {d}) /\ UNCHANGED fs
    BY <1>7 DEF RemoveDirectory
  <2>2. d \in Node
    BY <1>2, <2>1
  <2>3. d \in Elements(created) /\ Elements(created) = Elements(SubSeq(created, 1, Len(created) - 1)) \union {d}
    BY <1>2, <2>1, <2>2, ElementsOfLists
  <2> HIDE DEF d
  <2>4. Elements(created) = Elements(created)' \union {d} /\ Elements(made)' = Elements(made)
    BY <2>1, <2>3 DEF Elements
  <2>5. ListedInv'
    BY <1>1, <2>4 DEF CleanInv, ListedInv
  <2>6. start[d] # Directory
    BY <2>3 DEF CleanInv, ListedInv
  <2>7. CASE fs' = [fs EXCEPT ![d] = Absent] /\ UNCHANGED named
    <3>1. \A n \in Node : fs'[n] = Directory <=> n # d /\ fs[n] = Directory
      BY <1>2, <2>2, <2>7, ValueAssumption
    <3> QED BY <1>1, <2>1, <2>4, <2>5, <2>6, <2>7, <3>1 DEF CleanInv, DirectoryInv
  <2>8. CASE named' = (IF fs[d] = Absent THEN named ELSE named \union {d}) /\ UNCHANGED fs
    <3>1. \A n \in Node : fs[n] = Directory /\ n = d => n \in named'
      BY <2>8, ValueAssumption
    <3> QED BY <1>1, <2>1, <2>4, <2>5, <2>8, <3>1 DEF CleanInv, DirectoryInv
  <2> QED BY <2>1, <2>7, <2>8
<1> QED BY <1>3, <1>4, <1>5, <1>6, <1>7, DirectoryChange

LEMMA LitterStep ==
  ASSUME TypeInv, CleanInv, [Next]_vars PROVE LitterInv'
BY DEF CleanInv, LitterInv, Next, Step, Prepare, Directories, Apply, Restore, Done, vars,
     Return, StartRestore,
     CheckArguments, Snapshot, SnapshotFails, LoopEnds, MakeDirectory,
     DirectoriesMade, ParentIsNoDirectory, MakeDirectoryFails, UnmakeDirectory,
     OpenTemporary, OpenTemporaryFails, Replace, ReplaceFails, Remove, RemoveFails,
     Succeed, RestoreAbsence, RestoreOpens, RestoreOpenFails, RestoreReplace,
     RestoreReplaceFails, RemoveDirectory, Raise, Interrupt

LEMMA MadeStep ==
  ASSUME TypeInv, CleanInv, [Next]_vars PROVE MadeInv'
<1>1. ops' = ops /\ Writes' = Writes
  BY CallFixed, GoalFixed
<1>2. CASE MakeDirectory
  <2>1. PICK d \in Missing(Target) : fs' = [fs EXCEPT ![d] = Directory]
    BY <1>2 DEF MakeDirectory
  <2>2. i \in Writes /\ Reachable(Target) /\ pc' = "mkdir" /\ pc = "mkdir" /\ i' = i /\ UNCHANGED created
    BY <1>2 DEF MakeDirectory
  <2>3. Target' = Target
    BY <1>1, <2>2 DEF Target
  <2>4. \A a \in Ancestors[Target] : a \in Node
    BY <2>2, OpsType, TreeAssumption DEF Writes, TypeInv, TypeOK, Target
  <2>5. Reachable(Target)'
    BY <2>1, <2>2, <2>3, <2>4 DEF Reachable, TypeInv, TypeOK
  <2> QED BY <1>1, <2>2, <2>5 DEF MadeInv
<1>3. CASE UNCHANGED <<call, fs, i, pc, made, created>>
  <2>1. (Reachable(Target) <=> Reachable(Target)') /\ Writes' = Writes
    BY <1>1, <1>3 DEF Reachable, Target
  <2> QED BY <1>3, <2>1 DEF CleanInv, MadeInv
<1>4. CASE [Next]_vars /\ ~MakeDirectory /\ ~UNCHANGED <<call, fs, i, pc, made, created>>
  BY <1>4 DEF CleanInv, MadeInv, Next, Step, Prepare, Directories, Apply, Restore, Done, vars,
     Return, StartRestore,
     CheckArguments, Snapshot, SnapshotFails, LoopEnds,
     DirectoriesMade, ParentIsNoDirectory, MakeDirectoryFails, UnmakeDirectory,
     OpenTemporary, OpenTemporaryFails, Replace, ReplaceFails, Remove, RemoveFails,
     Succeed, RestoreAbsence, RestoreOpens, RestoreOpenFails, RestoreReplace,
     RestoreReplaceFails, RemoveDirectory, Raise, Interrupt
<1> QED BY <1>2, <1>3, <1>4

(* A call ends in four places where something could be left.               *)
LEMMA LeftBehindStep ==
  ASSUME IInv, IInv', CleanInv, [Next]_vars PROVE NothingLeftBehind'
<1>1. UNCHANGED <<call, start>> /\ ops' = ops /\ Writes' = Writes
  BY CallFixed, GoalFixed
<1>2. CASE outcome' \notin {"ok", "AtomicWriteError", "Interrupted"}
  BY <1>2 DEF NothingLeftBehind
<1>3. CASE SnapshotFails
  <2>1. /\ pc = "snapshot" /\ outcome' = "AtomicWriteError" /\ UNCHANGED <<fs, litter>>
    BY <1>3 DEF SnapshotFails, Return
  <2>2. litter = {} /\ named = {} /\ detail = {} /\ made = <<>> /\ created = <<>>
    BY <2>1 DEF CleanInv, LitterInv, MadeInv
  <2>3. Elements(made) = {} /\ Elements(created) = {}
    BY <2>2 DEF Elements
  <2> QED BY <1>1, <2>1, <2>2, <2>3 DEF CleanInv, DirectoryInv, NothingLeftBehind
<1>4. CASE Raise
  <2>1. /\ pc = "rmdir" /\ created = <<>> /\ UNCHANGED <<fs, litter, detail>>
        /\ outcome' = IF named = {} THEN "AtomicWriteError" ELSE "TransactionRollbackError"
    BY <1>4 DEF Raise, Return
  <2>2. made = <<>> /\ (litter = {} \/ detail # {} \/ named # {})
    BY <2>1 DEF CleanInv, LitterInv, MadeInv
  <2>3. Elements(made) = {} /\ Elements(created) = {}
    BY <2>1, <2>2 DEF Elements
  <2> QED BY <1>1, <2>1, <2>2, <2>3 DEF CleanInv, DirectoryInv, NothingLeftBehind
<1>5. CASE Succeed
  <2>1. pc = "remove" /\ outcome' = "ok" /\ UNCHANGED <<fs, litter>>
    BY <1>5 DEF Succeed, Return
  <2>2. litter = {} /\ named = {} /\ detail = {}
    BY <2>1 DEF CleanInv, LitterInv
  <2> QED BY <1>1, <2>1, <2>2 DEF CleanInv, ListedInv, DirectoryInv, NothingLeftBehind, MadeForWrites
<1>6. CASE UNCHANGED vars
  BY <1>1, <1>6 DEF vars, CleanInv, NothingLeftBehind, MadeForWrites, Target
<1>7. CASE Interrupt
  <2>1. /\ pc # "done" /\ outcome' = "Interrupted"
        /\ litter' = IF Filling THEN litter \union {Target} ELSE litter
        /\ UNCHANGED <<fs, i, made, created, named, detail>>
    BY <1>7 DEF Interrupt, Return
  <2>2. SUFFICES ASSUME detail = {}, named = {}
                 PROVE  /\ litter' \subseteq {n \in Node : i <= Len(ops) /\ Target = n}
                        /\ MadeForWrites'
    BY <1>1, <2>1 DEF NothingLeftBehind, Target
  <2>3. litter = {}
    BY <2>1, <2>2 DEF CleanInv, LitterInv
  <2>4. litter' \subseteq {n \in Node : i <= Len(ops) /\ Target = n}
    <3>1. Filling => i \in 1 .. Len(ops) /\ Target \in Node
      BY OpsType DEF IInv, TypeInv, TypeOK, FillingInv, Target
    <3>2. Filling => i <= Len(ops)
      BY <3>1, OpsType DEF IInv, TypeInv, TypeOK
    <3> QED BY <2>1, <2>3, <3>1, <3>2
  <2>5. MadeForWrites'
    BY <1>1, <2>1, <2>2 DEF CleanInv, ListedInv, DirectoryInv, MadeForWrites
  <2> QED BY <2>4, <2>5
<1>8. outcome' \notin {"ok", "AtomicWriteError", "Interrupted"} \/ SnapshotFails \/ Raise
      \/ Succeed \/ Interrupt \/ UNCHANGED vars
  <2>1. (outcome = "running" <=> pc # "done") /\ (outcome' = "running" <=> pc' # "done")
    BY DEF IInv, OutcomeInv
  <2> QED BY <2>1 DEF Next, Step, Prepare, Directories, Apply, Restore, Done, vars, Return, StartRestore,
     CheckArguments, Snapshot, LoopEnds, MakeDirectory,
     DirectoriesMade, ParentIsNoDirectory, MakeDirectoryFails, UnmakeDirectory,
     OpenTemporary, OpenTemporaryFails, Replace, ReplaceFails, Remove, RemoveFails,
     RestoreAbsence, RestoreOpens, RestoreOpenFails, RestoreReplace,
     RestoreReplaceFails, RemoveDirectory
<1> QED BY <1>2, <1>3, <1>4, <1>5, <1>6, <1>7, <1>8

(* A call that ends without a word about cleaning up leaves no temporary   *)
(* file, and no directory it made but those that hold what it wrote; an    *)
(* interruption leaves at most the temporary file being filled and         *)
(* directories of paths to be written.                                     *)
THEOREM LeavesNothingBehind == Spec => []NothingLeftBehind
<1>1. IInv /\ IInv' /\ CleanInv /\ [Next]_vars => CleanInv'
  BY DirectoriesStep, LitterStep, MadeStep, LeftBehindStep DEF CleanInv, IInv
<1>2. CleanInv => NothingLeftBehind
  BY DEF CleanInv
<1> QED BY Invariance, CleanInit, <1>1, <1>2, PTL DEF Spec
=============================================================================
