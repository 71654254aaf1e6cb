-------------------------- MODULE FileTransaction --------------------------
(***************************************************************************)
(* transactional_write_bytes and transactional_update_files of             *)
(* infrastructure/filesystem.py, one system call per step.  Every call     *)
(* into the operating system may fail, and the process may be interrupted  *)
(* (KeyboardInterrupt, a kill) between any two of them: the handlers only  *)
(* catch Exception and OSError.                                            *)
(*                                                                         *)
(* Abstractions: file contents are opaque; a partly filled temporary file  *)
(* and a complete one are both "a temporary file beside its target"; no    *)
(* other process touches the tree while the call runs; a machine crash     *)
(* that reorders renames is not modelled, a killed process is.             *)
(***************************************************************************)
EXTENDS Naturals, Sequences

CONSTANTS Node,        \* paths, directories included
          Root,        \* a directory that always exists
          Parent,      \* the directory a path lies in
          Ancestors,   \* all directories above a path
          Content,     \* contents of regular files
          LinkContent, \* what a symbolic link of the tree reads as
          Absent, Directory, Link,  \* what else a path can be
          Calls        \* the calls made: [kind, ops]

Reading == Content \union {Absent}
Kinds == Content \union {Absent, Directory, Link}
Operation == [path : Node, new : Reading]  \* new = Absent is a removal

ASSUME TreeAssumption ==
  /\ Root \in Node
  /\ Parent \in [Node -> Node]
  /\ Ancestors \in [Node -> SUBSET Node]
  /\ Ancestors[Root] = {}
  /\ \A n \in Node \ {Root} :
        Ancestors[n] = {Parent[n]} \union Ancestors[Parent[n]]
  /\ \A n \in Node : n \notin Ancestors[n]

ASSUME ValueAssumption ==
  /\ LinkContent \in Content
  /\ Absent # Directory /\ Absent # Link /\ Directory # Link
  /\ Absent \notin Content /\ Directory \notin Content /\ Link \notin Content

ASSUME CallsAssumption ==
  \A c \in Calls :
    /\ c.kind \in {"write", "update"}
    /\ c.ops \in Seq(Operation)
    /\ \A k \in 1 .. Len(c.ops) : c.ops[k].path # Root
    /\ c.kind = "write" => \A k \in 1 .. Len(c.ops) : c.ops[k].new # Absent
    /\ \A j, k \in 1 .. Len(c.ops) :  \* writes first, then removals
          j < k /\ c.ops[j].new = Absent => c.ops[k].new = Absent

VARIABLES
  call,      \* which function was called, with which operations
  start,     \* the tree when the call began (read by the properties only)
  fs,        \* the tree
  litter,    \* paths beside which an abandoned temporary file lies
  pc, i,     \* the statement reached and the operation it is at
  previous,  \* snapshot taken of the operations' paths, in order
  made,      \* directories made by the current _create_missing_directories
  created,   \* created_directories
  named,     \* paths named by restoration_errors
  detail,    \* cleanup failures the error message appends
  outcome    \* "running", "ok" or the exception raised

vars == <<call, start, fs, litter, pc, i, previous, made, created, named,
          detail, outcome>>

ops == call.ops
Writes == {k \in 1 .. Len(ops) : ops[k].new # Absent}
Removals == {k \in 1 .. Len(ops) : ops[k].new = Absent}
Target == ops[i].path

(* What reading a path of tree t gives: a link is followed, a directory is *)
(* no file.                                                                *)
View(t, n) == CASE t[n] = Link -> LinkContent
                [] t[n] = Directory -> Absent
                [] OTHER -> t[n]

IsTree(t) == /\ t[Root] = Directory
             /\ \A n \in Node \ {Root} : t[n] # Absent => t[Parent[n]] = Directory

(* A temporary file is being filled beside the target of the step.         *)
Filling == pc \in {"replace", "restoreReplace"}

(* rmdir succeeds on an empty directory only.                              *)
IsEmpty(d) == /\ fs[d] = Directory
              /\ \A n \in Node \ {Root} : Parent[n] = d => fs[n] = Absent
              /\ \A n \in litter : Parent[n] # d

(* The nearest existing ancestor of n is a directory.                      *)
Reachable(n) == \A a \in Ancestors[n] : fs[a] \in {Absent, Directory}

Missing(n) == {a \in Ancestors[n] : fs[a] = Absent}

Init == /\ call \in Calls
        /\ fs \in {t \in [Node -> Kinds] : IsTree(t)}
        /\ start = fs
        /\ litter = {} /\ named = {} /\ detail = {}
        /\ pc = "check" /\ i = 1
        /\ previous = <<>> /\ made = <<>> /\ created = <<>>
        /\ outcome = "running"

(* The call ends with result r.                                            *)
Return(r) == pc' = "done" /\ outcome' = r

\* Mutant: restoration starts at the operation that failed.
StartRestoreAtFailure == pc' = "restore" /\ i' = i

(* An exception leaves the try block: restoration starts.                  *)
StartRestore == pc' = "restore" /\ i' = 1
-----------------------------------------------------------------------------
(* No operation at all, or one path twice: ValueError.                     *)
CheckArguments ==
  /\ pc = "check"
  /\ IF ops = <<>> \/ \E j, k \in 1 .. Len(ops) : j # k /\ ops[j].path = ops[k].path
       THEN Return("ValueError")
       ELSE pc' = "snapshot" /\ UNCHANGED outcome
  /\ UNCHANGED <<call, start, fs, litter, i, previous, made, created, named, detail>>

(* The guards in front of each snapshot.                                   *)
Refused(n) == IF call.kind = "write"
              THEN fs[Parent[n]] # Directory
              ELSE fs[n] \in {Link, Directory}

Snapshot ==
  /\ pc = "snapshot" /\ i <= Len(ops)
  /\ ~Refused(Target)
  /\ previous' = Append(previous, View(fs, Target))
  /\ i' = i + 1
  /\ UNCHANGED <<call, start, fs, litter, pc, made, created, named, detail, outcome>>

(* A guard refuses the path, or the existing file cannot be read.          *)
SnapshotFails ==
  /\ pc = "snapshot" /\ i <= Len(ops)
  /\ Refused(Target) \/ View(fs, Target) # Absent
  /\ Return("AtomicWriteError")
  /\ UNCHANGED <<call, start, fs, litter, i, previous, made, created, named, detail>>

(* The loop at pc has handled its last operation.                          *)
LoopEnds ==
  /\ \/ pc = "snapshot" /\ i > Len(ops) /\ i' = 1
        /\ pc' = IF call.kind = "write" THEN "write" ELSE "mkdir"
     \/ pc = "mkdir" /\ i \notin Writes /\ i' = 1 /\ pc' = "write"
     \/ pc = "write" /\ i \notin Writes /\ i' = i /\ pc' = "remove"
     \/ pc = "restore" /\ i > Len(ops) /\ i' = i /\ pc' = "rmdir"
  /\ UNCHANGED <<call, start, fs, litter, previous, made, created, named, detail, outcome>>
-----------------------------------------------------------------------------
(* _create_missing_directories: the outermost missing directory is made    *)
(* first; when none is missing its list joins created_directories.         *)
MakeDirectory ==
  /\ pc = "mkdir" /\ i \in Writes
  /\ Reachable(Target)
  /\ \E d \in Missing(Target) :
       /\ fs[Parent[d]] = Directory
       /\ fs' = [fs EXCEPT ![d] = Directory]
       /\ made' = Append(made, d)
  /\ UNCHANGED <<call, start, litter, pc, i, previous, created, named, detail, outcome>>

\* Mutant: the directories of a completed helper call are forgotten.
DirectoriesForgotten ==
  /\ pc = "mkdir" /\ i \in Writes
  /\ Reachable(Target) /\ Missing(Target) = {}
  /\ made' = <<>>
  /\ i' = i + 1
  /\ UNCHANGED <<call, start, fs, litter, pc, previous, created, named, detail, outcome>>

DirectoriesMade ==
  /\ pc = "mkdir" /\ i \in Writes
  /\ Reachable(Target) /\ Missing(Target) = {}
  /\ created' = created \o made
  /\ made' = <<>>
  /\ i' = i + 1
  /\ UNCHANGED <<call, start, fs, litter, pc, previous, named, detail, outcome>>

(* "existing parent path is not a directory"                               *)
ParentIsNoDirectory ==
  /\ pc = "mkdir" /\ i \in Writes
  /\ ~Reachable(Target)
  /\ StartRestore
  /\ UNCHANGED <<call, start, fs, litter, previous, made, created, named, detail, outcome>>

MakeDirectoryFails ==
  /\ pc = "mkdir" /\ i \in Writes
  /\ Reachable(Target) /\ Missing(Target) # {}
  /\ pc' = "unmake"
  /\ UNCHANGED <<call, start, fs, litter, i, previous, made, created, named, detail, outcome>>

(* The helper removes what it made, last first, and raises; a directory it *)
(* cannot remove is only appended to the message.                          *)
UnmakeDirectory ==
  /\ pc = "unmake"
  /\ IF made = <<>>
       THEN StartRestore /\ UNCHANGED <<fs, made, detail>>
       ELSE LET d == made[Len(made)] IN
            /\ made' = SubSeq(made, 1, Len(made) - 1)
            /\ \/ IsEmpty(d) /\ fs' = [fs EXCEPT ![d] = Absent] /\ UNCHANGED detail
               \/ detail' = detail \union {"directory"} /\ UNCHANGED fs
            /\ UNCHANGED <<pc, i>>
  /\ UNCHANGED <<call, start, litter, previous, created, named, outcome>>
-----------------------------------------------------------------------------
(* atomic_write_bytes of the i-th operation: mkstemp beside the target.    *)
OpenTemporary ==
  /\ pc = "write" /\ i \in Writes
  /\ fs[Parent[Target]] = Directory
  /\ pc' = "replace"
  /\ UNCHANGED <<call, start, fs, litter, i, previous, made, created, named, detail, outcome>>

OpenTemporaryFails ==
  /\ pc = "write" /\ i \in Writes
  /\ StartRestore
  /\ UNCHANGED <<call, start, fs, litter, previous, made, created, named, detail, outcome>>

(* The temporary file is filled and renamed over the target.               *)
Replace ==
  /\ pc = "replace"
  /\ fs[Target] # Directory
  /\ fs' = [fs EXCEPT ![Target] = ops[i].new]
  /\ pc' = "write" /\ i' = i + 1
  /\ UNCHANGED <<call, start, litter, previous, made, created, named, detail, outcome>>

(* write, flush, fsync or replace fails; the temporary file is removed, or *)
(* that fails as well and the message says so.                             *)
ReplaceFails ==
  /\ pc = "replace"
  /\ \/ UNCHANGED <<litter, detail>>
     \/ litter' = litter \union {Target} /\ detail' = detail \union {"temporary"}
  /\ StartRestore
  /\ UNCHANGED <<call, start, fs, previous, made, created, named, outcome>>

(* Removals run after the last write; a path that is gone is skipped, one  *)
(* that has become a directory cannot be unlinked.                         *)
Remove ==
  /\ pc = "remove" /\ i \in Removals
  /\ fs[Target] # Directory
  /\ fs' = [fs EXCEPT ![Target] = Absent]
  /\ i' = i + 1
  /\ UNCHANGED <<call, start, litter, pc, previous, made, created, named, detail, outcome>>

RemoveFails ==
  /\ pc = "remove" /\ i \in Removals
  /\ fs[Target] # Absent
  /\ StartRestore
  /\ UNCHANGED <<call, start, fs, litter, previous, made, created, named, detail, outcome>>

Succeed ==
  /\ pc = "remove" /\ i > Len(ops)
  /\ Return("ok")
  /\ UNCHANGED <<call, start, fs, litter, i, previous, made, created, named, detail>>
-----------------------------------------------------------------------------
(* previous is None: path.unlink(missing_ok=True).  Only ENOENT is         *)
(* forgiven: below a regular file the call raises ENOTDIR, on a directory  *)
(* EISDIR.                                                                 *)
RestoreAbsence ==
  /\ pc = "restore" /\ i <= Len(ops) /\ previous[i] = Absent
  /\ \/ /\ Reachable(Target) /\ fs[Target] # Directory
        /\ fs' = [fs EXCEPT ![Target] = Absent]
        /\ UNCHANGED named
     \/ /\ ~Reachable(Target) \/ fs[Target] # Absent
        /\ named' = named \union {Target}
        /\ UNCHANGED fs
  /\ i' = i + 1
  /\ UNCHANGED <<call, start, litter, pc, previous, made, created, detail, outcome>>

(* previous is the old content: atomic_write_bytes again.                  *)
RestoreOpens ==
  /\ pc = "restore" /\ i <= Len(ops) /\ previous[i] # Absent
  /\ fs[Parent[Target]] = Directory
  /\ pc' = "restoreReplace"
  /\ UNCHANGED <<call, start, fs, litter, i, previous, made, created, named, detail, outcome>>

RestoreOpenFails ==
  /\ pc = "restore" /\ i <= Len(ops) /\ previous[i] # Absent
  /\ named' = named \union {Target}
  /\ i' = i + 1
  /\ UNCHANGED <<call, start, fs, litter, pc, previous, made, created, detail, outcome>>

\* Mutant: every file gets the snapshot of the first one.
RestoreReplaceFirst ==
  /\ pc = "restoreReplace"
  /\ fs[Target] # Directory
  /\ fs' = [fs EXCEPT ![Target] = previous[1]]
  /\ pc' = "restore" /\ i' = i + 1
  /\ UNCHANGED <<call, start, litter, previous, made, created, named, detail, outcome>>

RestoreReplace ==
  /\ pc = "restoreReplace"
  /\ fs[Target] # Directory
  /\ fs' = [fs EXCEPT ![Target] = previous[i]]
  /\ pc' = "restore" /\ i' = i + 1
  /\ UNCHANGED <<call, start, litter, previous, made, created, named, detail, outcome>>

\* Mutant: the failed restoration is not recorded.
RestoreReplaceFailsSilently ==
  /\ pc = "restoreReplace"
  /\ litter' \in {litter, litter \union {Target}}
  /\ pc' = "restore" /\ i' = i + 1
  /\ UNCHANGED <<call, start, fs, previous, made, created, named, detail, outcome>>

\* Mutant: a failed restoration is tried again.
RestoreReplaceRetries ==
  /\ pc = "restoreReplace"
  /\ litter' \in {litter, litter \union {Target}}
  /\ named' = named \union {Target}
  /\ pc' = "restore"
  /\ UNCHANGED <<call, start, fs, i, previous, made, created, detail, outcome>>

RestoreReplaceFails ==
  /\ pc = "restoreReplace"
  /\ litter' \in {litter, litter \union {Target}}
  /\ named' = named \union {Target}
  /\ pc' = "restore" /\ i' = i + 1
  /\ UNCHANGED <<call, start, fs, previous, made, created, detail, outcome>>

(* The directories made for the writes are removed, last made first.       *)
RemoveDirectory ==
  /\ pc = "rmdir" /\ created # <<>>
  /\ LET d == created[Len(created)] IN
       \/ IsEmpty(d) /\ fs' = [fs EXCEPT ![d] = Absent] /\ UNCHANGED named
       \/ /\ named' = IF fs[d] = Absent THEN named ELSE named \union {d}
          /\ UNCHANGED fs
  /\ created' = SubSeq(created, 1, Len(created) - 1)
  /\ UNCHANGED <<call, start, litter, pc, i, previous, made, detail, outcome>>

\* Mutant: the original exception is raised whatever was restored.
RaiseOriginal ==
  /\ pc = "rmdir" /\ created = <<>>
  /\ Return("AtomicWriteError")
  /\ UNCHANGED <<call, start, fs, litter, i, previous, made, created, named, detail>>

(* The original exception, or TransactionRollbackError when some           *)
(* restoration failed.                                                     *)
Raise ==
  /\ pc = "rmdir" /\ created = <<>>
  /\ Return(IF named = {} THEN "AtomicWriteError" ELSE "TransactionRollbackError")
  /\ UNCHANGED <<call, start, fs, litter, i, previous, made, created, named, detail>>

(* A KeyboardInterrupt or a kill: no handler runs, and a temporary file    *)
(* that was being filled stays.                                            *)
Interrupt ==
  /\ pc # "done"
  /\ Return("Interrupted")
  /\ litter' = IF Filling THEN litter \union {Target} ELSE litter
  /\ UNCHANGED <<call, start, fs, i, previous, made, created, named, detail>>
-----------------------------------------------------------------------------
Prepare == CheckArguments \/ Snapshot \/ SnapshotFails \/ LoopEnds

Directories == MakeDirectory \/ DirectoriesMade \/ ParentIsNoDirectory
               \/ MakeDirectoryFails \/ UnmakeDirectory

Apply == OpenTemporary \/ OpenTemporaryFails \/ Replace \/ ReplaceFails
         \/ Remove \/ RemoveFails \/ Succeed

Restore == RestoreAbsence \/ RestoreOpens \/ RestoreOpenFails
           \/ RestoreReplace \/ RestoreReplaceFails \/ RemoveDirectory \/ Raise

Step == Prepare \/ Directories \/ Apply \/ Restore

Done == pc = "done" /\ UNCHANGED vars

Next == Step \/ Interrupt \/ Done

Spec == Init /\ [][Next]_vars

(* The operating system answers every call, so a running call goes on.     *)
FairSpec == Spec /\ WF_vars(Step)
-----------------------------------------------------------------------------
(* The tree the operations ask for.                                        *)
Desired(n) == IF \E k \in 1 .. Len(ops) : ops[k].path = n
              THEN ops[CHOOSE k \in 1 .. Len(ops) : ops[k].path = n].new
              ELSE View(start, n)

(* Types: the counter starts at one, the three lists hold earlier readings *)
(* and directories, and a call ends in one of the ways filesystem.py has   *)
(* for it.                                                                 *)
TypeOK ==
  /\ call \in Calls
  /\ start \in [Node -> Kinds] /\ fs \in [Node -> Kinds]
  /\ litter \subseteq Node /\ named \subseteq Node
  /\ detail \subseteq {"directory", "temporary"}
  /\ pc \in {"check", "snapshot", "mkdir", "unmake", "write", "replace", "remove",
             "restore", "restoreReplace", "rmdir", "done"}
  /\ i \in Nat \ {0}
  /\ previous \in Seq(Reading) /\ made \in Seq(Node) /\ created \in Seq(Node)
  /\ outcome \in {"running", "ok", "ValueError", "AtomicWriteError",
                  "TransactionRollbackError", "Interrupted"}

(* At every moment, whatever failed before, a reader of any path sees the  *)
(* old content or the requested one: writes and restorations both go       *)
(* through a rename, so nothing in between is ever readable.               *)
OldOrNew == \A n \in Node : View(fs, n) \in {View(start, n), Desired(n)}

(* A call that returns has done everything, and one that raises anything   *)
(* but TransactionRollbackError has, as far as files can be read, done     *)
(* nothing, however late in the writes or removals it failed.              *)
AllOrNothing ==
  /\ outcome = "ok" => \A n \in Node : View(fs, n) = Desired(n)
  /\ outcome \in {"ValueError", "AtomicWriteError"} =>
       \A n \in Node : View(fs, n) = View(start, n)

(* TransactionRollbackError names every path that does not read as before. *)
DamageNamed ==
  outcome = "TransactionRollbackError" =>
    \A n \in Node : View(fs, n) # View(start, n) => n \in named

MadeForWrites == \A n \in Node : fs[n] = Directory /\ start[n] # Directory =>
  \E k \in Writes : n \in Ancestors[ops[k].path]

(* An AtomicWriteError whose message mentions no failed cleanup leaves no  *)
(* directory made for the call and no temporary file; a success leaves no  *)
(* temporary file and only directories that hold a written file.  A call   *)
(* interrupted before any cleanup failed leaves at most one temporary      *)
(* file, that of the operation it was at, and only directories on the way  *)
(* to a file it was to write.                                              *)
NothingLeftBehind ==
  /\ outcome = "AtomicWriteError" /\ detail = {} =>
       /\ litter = {}
       /\ \A n \in Node : fs[n] = Directory <=> start[n] = Directory
  /\ outcome = "ok" => litter = {} /\ MadeForWrites
  /\ outcome = "Interrupted" /\ detail = {} /\ named = {} =>
       /\ litter \subseteq {n \in Node : i <= Len(ops) /\ Target = n}
       /\ MadeForWrites

(* A call ends: no sequence of failures makes it retry or wait.            *)
Termination == <>(pc = "done")

(* The call implements the contract its callers rely on.                   *)
Contract == INSTANCE AtomicUpdate WITH
  Path   <- Node,
  disk   <- [n \in Node |-> IF pc = "done" THEN View(fs, n) ELSE View(start, n)],
  goal   <- [n \in Node |-> Desired(n)],
  result <- CASE outcome \in {"running", "ok"} -> outcome
              [] outcome \in {"ValueError", "AtomicWriteError"} -> "failed"
              [] OTHER -> "torn"

(* A call of either function, seen from outside, is one of the three       *)
(* outcomes of AtomicUpdate in a single step: committed, refused, or torn. *)
ContractSpec == Contract!Spec
=============================================================================
