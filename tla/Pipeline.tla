------------------------------ MODULE Pipeline ------------------------------
(***************************************************************************)
(* The commands that generate and verify (cli/main.py): lock, validate,    *)
(* materialize, compare with git.  Each is a sequence of steps that ends   *)
(* at the first one that fails.  The lockfile is collected input by input, *)
(* size before hash (application/lockfile.py), while the developer may     *)
(* edit files, and the files may or may not be tracked by git.             *)
(*                                                                         *)
(* The hash of a content is the content.  Target files and the manifest    *)
(* are functions of the active configuration; how they are planned and     *)
(* committed is TargetMaterialization.                                     *)
(***************************************************************************)
EXTENDS Naturals, SequencesExt

CONSTANTS Inputs,    \* the input paths in lockfile order; the first is agentic.json
          Content,   \* contents of an input
          Valid,     \* those the validators and the compiler accept
          Size,      \* content to its size in bytes
          Outputs,   \* content of agentic.json to the target files it gives
          Absent, Edited, None,
          MaxEdits   \* edits by the developer in one behaviour

ASSUME ContentAssumption == /\ Valid \subseteq Content
                            /\ DOMAIN Outputs = Content /\ DOMAIN Size = Content
                            /\ {Absent, Edited} \intersect Content = {}

ASSUME InputsAssumption == /\ Inputs \in Seq(Range(Inputs)) /\ Inputs # <<>>
                           /\ \A s \in SUBSET Range(Inputs) : s # None
                           /\ \A c \in Content : Size[c] # None

VARIABLES work,    \* the working tree: path to content
          index,   \* what git add staged
          head,    \* the last commit
          command, steps,  \* the command run last and the steps it has left
          files,   \* inputs found and not yet recorded, or None before the glob
          size,    \* stat result of the next of them, or None
          records, \* input records collected so far
          held,    \* the lockfile validate-lockfile read
          start,   \* baseline snapshot of the idempotency command
          result,
          fresh,   \* no edit since the command began
          steady,  \* no edit since the glob
          edits

vars == <<work, index, head, command, steps, files, size, records, held, start,
          result, fresh, steady, edits>>

collection == <<files, size, records, held, steady>>
git == <<index, head>>
run == <<command, start, fresh>>

Config == Inputs[1]
Owned == UNION {Outputs[c] : c \in Content}
Generated == Owned \union {"lock", "manifest"}
Paths == Generated \union Range(Inputs)

(* No pattern of the lockfile matches what the generator writes.           *)
ASSUME PathsAssumption ==
  Range(Inputs) \intersect Generated = {} /\ {"lock", "manifest"} \intersect Owned = {}

(* build_lockfile_document                                                 *)
Describe(tree) == [p \in {q \in Range(Inputs) : tree[q] # Absent} |->
                     [hash |-> tree[p], size |-> Size[tree[p]]]]

Planned(tree) == IF tree[Config] \in Content THEN Outputs[tree[Config]] ELSE {}

(* materialize_targets: planned files, manifest, stale files removed.      *)
Materialized(tree) ==
  [p \in Paths |->
     IF p = "manifest" \/ p \in Planned(tree) THEN tree[Config]
     ELSE IF p \in Owned THEN Absent ELSE tree[p]]

Regenerated(tree) == Materialized([tree EXCEPT !["lock"] = Describe(tree)])

Generation == <<"lock", "validateLock", "materialize", "validateOutput">>

(* PIPELINE_STEPS: "check" stands for the read-only validators.            *)
All == <<"check", "lock", "validateLock", "check", "materialize", "validateOutput">>
Verify == All \o <<"unstaged", "staged">>

Steps == [
  generate    |-> Generation,
  all         |-> All,
  verify      |-> Verify,
  strict      |-> Verify \o <<"pytest", "status">>,
  idempotency |-> <<"before">> \o Generation \o <<"after">>]

(* A clean checkout of a repository whose generated state is committed.    *)
Init ==
  /\ \E c \in Valid : work = Regenerated([p \in Paths |->
                                IF p \in Range(Inputs) THEN c ELSE Absent])
  /\ index = work /\ head = work
  /\ command = "none" /\ steps = <<>> /\ result = "none"
  /\ files = None /\ size = None /\ records = <<>> /\ held = Absent /\ start = <<>>
  /\ fresh = TRUE /\ steady = TRUE /\ edits = 0

Forget == files' = None /\ size' = None /\ records' = <<>> /\ held' = Absent /\ steady' = TRUE

Run ==
  /\ result # "running"
  /\ \E c \in DOMAIN Steps : command' = c /\ steps' = Steps[c]
  /\ result' = "running"
  /\ Forget /\ start' = <<>>
  /\ fresh' = TRUE
  /\ UNCHANGED <<work, git, edits>>

(* _run_steps                                                              *)
At(step) == result = "running" /\ Head(steps) = step

Pass == /\ steps' = Tail(steps)
        /\ result' = IF steps' = <<>> THEN "passed" ELSE "running"

\* Mutant: the steps after a failing one still run, and the last one decides.
FailLater == /\ steps' = Tail(steps)
             /\ result' = IF steps' = <<>> THEN "failed" ELSE "running"

Fail == steps' = <<>> /\ result' = "failed"

Decide(good) == IF good THEN Pass ELSE Fail
-----------------------------------------------------------------------------
(* collect_lockfile_inputs, for lock and for validate-lockfile, which      *)
(* reads the lockfile first.                                               *)
Glob ==
  /\ At("lock") \/ At("validateLock")
  /\ files = None
  /\ LET found == {p \in Range(Inputs) : work[p] # Absent} IN
       IF found = {} \/ (At("validateLock") /\ work["lock"] = Absent)
         THEN Fail /\ UNCHANGED collection
         ELSE /\ files' = found /\ steady' = TRUE
              /\ held' = IF At("validateLock") THEN work["lock"] ELSE Absent
              /\ UNCHANGED <<steps, result, size, records>>
  /\ UNCHANGED <<work, git, run, edits>>

Collecting == (At("lock") \/ At("validateLock")) /\ files \notin {None, {}}

(* The files are recorded in the order of their paths.                     *)
NextFile == Inputs[CHOOSE k \in DOMAIN Inputs :
                     Inputs[k] \in files /\ \A j \in DOMAIN Inputs : j < k => Inputs[j] \notin files]

Vanished == Collecting /\ work[NextFile] = Absent /\ Fail /\ Forget
            /\ UNCHANGED <<work, git, run, edits>>

Stat ==
  /\ Collecting /\ size = None /\ work[NextFile] # Absent
  /\ size' = Size[work[NextFile]]
  /\ UNCHANGED <<work, git, run, steps, result, files, records, held, steady, edits>>

Hash ==
  /\ Collecting /\ size # None /\ work[NextFile] # Absent
  /\ records' = [p \in DOMAIN records \union {NextFile} |->
                  IF p = NextFile THEN [hash |-> work[p], size |-> size] ELSE records[p]]
  /\ files' = files \ {NextFile} /\ size' = None
  /\ UNCHANGED <<work, git, run, steps, result, held, steady, edits>>

WriteLock ==
  /\ At("lock") /\ files = {}
  /\ \/ work' = [work EXCEPT !["lock"] = records] /\ Pass
     \/ UNCHANGED work /\ Fail
  /\ Forget
  /\ UNCHANGED <<git, run, edits>>

\* Mutant: sizes are not compared.
DriftOfHashes(actual, expected) ==
  {p \in DOMAIN actual \union DOMAIN expected :
     \/ p \notin DOMAIN actual \/ p \notin DOMAIN expected
     \/ actual[p].hash # expected[p].hash}

(* _validate_drift; the aggregate hash is one of the record hashes.        *)
Drift(actual, expected) ==
  {p \in DOMAIN actual \union DOMAIN expected :
     \/ p \notin DOMAIN actual \/ p \notin DOMAIN expected
     \/ actual[p].hash # expected[p].hash
     \/ actual[p].size # expected[p].size}

CompareLock ==
  /\ At("validateLock") /\ files = {}
  /\ IF held = Edited THEN Fail ELSE Decide(Drift(held, records) = {})
  /\ Forget
  /\ UNCHANGED <<work, git, run, edits>>
-----------------------------------------------------------------------------
Check ==
  /\ At("check")
  /\ Decide(/\ work[Config] # Absent
            /\ \A p \in Range(Inputs) : work[p] \in Valid \union {Absent})
  /\ UNCHANGED <<work, git, run, collection, edits>>

(* The commit succeeds, refuses with the tree as it was, or is torn.       *)
Materialize ==
  /\ At("materialize")
  /\ \/ work[Config] \in Valid /\ work' = Materialized(work) /\ Pass
     \/ UNCHANGED work /\ Fail
     \/ /\ work[Config] \in Valid
        /\ \E done \in SUBSET (Owned \union {"manifest"}) :
             work' = [p \in Paths |-> IF p \in done THEN Materialized(work)[p] ELSE work[p]]
        /\ Fail
  /\ UNCHANGED <<git, run, collection, edits>>

ValidateOutput ==
  /\ At("validateOutput")
  /\ Decide(work[Config] \in Valid /\ work = Materialized(work))
  /\ UNCHANGED <<work, git, run, collection, edits>>
-----------------------------------------------------------------------------
(* collect_generation_snapshot: lockfile, manifest and what it declares.   *)
Declared == {"lock", "manifest"} \union
            IF work["manifest"] \in Content THEN Outputs[work["manifest"]] ELSE {}

Collectable == /\ work["manifest"] \in Content
               /\ \A p \in Declared : work[p] # Absent

Before ==
  /\ At("before")
  /\ IF Collectable THEN Pass /\ start' = [p \in Declared |-> work[p]]
                    ELSE Fail /\ UNCHANGED start
  /\ UNCHANGED <<work, git, command, fresh, collection, edits>>

\* Mutant: only paths that appear or vanish are reported.
SamePaths(before, after) == DOMAIN before = DOMAIN after

(* compare_generation_snapshots                                            *)
SameSnapshot(before, after) ==
  /\ DOMAIN before = DOMAIN after
  /\ \A p \in DOMAIN before : before[p] = after[p]

After ==
  /\ At("after")
  /\ Decide(Collectable /\ SameSnapshot(start, [p \in Declared |-> work[p]]))
  /\ UNCHANGED <<work, git, run, collection, edits>>
-----------------------------------------------------------------------------
(* _verify_no_drift: git diff compares the tracked files only.             *)
Unstaged == {p \in Paths : index[p] # Absent /\ work[p] # index[p]}
Staged == {p \in Paths : index[p] # head[p]}
Untracked == {p \in Paths : index[p] = Absent /\ work[p] # Absent}

DiffUnstaged == At("unstaged") /\ (Decide(Unstaged = {}) \/ Fail)
                /\ UNCHANGED <<work, git, run, collection, edits>>

DiffStaged == At("staged") /\ (Decide(Staged = {}) \/ Fail)
              /\ UNCHANGED <<work, git, run, collection, edits>>

\* Mutant: status without untracked files.
StatusTracked == Unstaged \union Staged

(* git status --short                                                      *)
Status == Unstaged \union Staged \union Untracked

GitStatus == At("status") /\ (Decide(Status = {}) \/ Fail)
             /\ UNCHANGED <<work, git, run, collection, edits>>

Pytest == At("pytest") /\ (Pass \/ Fail)
          /\ UNCHANGED <<work, git, run, collection, edits>>
-----------------------------------------------------------------------------
(* The developer.                                                          *)
Edit ==
  /\ edits < MaxEdits
  /\ \/ \E p \in Range(Inputs), c \in Content \union {Absent} : work' = [work EXCEPT ![p] = c]
     \/ \E p \in Generated, c \in {Edited, Absent} : work' = [work EXCEPT ![p] = c]
  /\ fresh' = FALSE /\ steady' = (files = None)
  /\ edits' = edits + 1
  /\ UNCHANGED <<git, command, start, steps, result, files, size, records, held>>

(* git add -A, git add -u and git commit, between two commands.            *)
GitAdd ==
  /\ result # "running"
  /\ index' \in {work, [p \in Paths |-> IF index[p] = Absent THEN Absent ELSE work[p]]}
  /\ UNCHANGED <<work, head, run, steps, result, collection, edits>>

GitCommit ==
  /\ result # "running"
  /\ head' = index
  /\ UNCHANGED <<work, index, run, steps, result, collection, edits>>

Next ==
  \/ Run \/ Glob \/ Vanished \/ Stat \/ Hash \/ WriteLock \/ CompareLock
  \/ Check \/ Materialize \/ ValidateOutput \/ Before \/ After
  \/ DiffUnstaged \/ DiffStaged \/ GitStatus \/ Pytest
  \/ Edit \/ GitAdd \/ GitCommit

Spec == Init /\ [][Next]_vars
-----------------------------------------------------------------------------
(* When validate-lockfile passes and no input changed while it looked, the *)
(* lockfile holds hash and size of every input as it is, and nothing else: *)
(* also when lock recorded size and hash of two different contents.        *)
AcceptedLockDescribes ==
  [][At("validateLock") /\ files = {} /\ steps' = Tail(steps) /\ steady =>
       work["lock"] = Describe(work)]_vars

(* A generating command that passed undisturbed leaves lockfile, target    *)
(* files and manifest of one and the same set of inputs, whatever failed   *)
(* or was edited before it.                                                *)
PassedGenerationAgrees == result = "passed" /\ fresh => work = Regenerated(work)

(* The idempotency command passes only if what was there before it is what *)
(* the inputs give.                                                        *)
IdempotentWasGenerated ==
  result = "passed" /\ fresh /\ command = "idempotency" =>
    \A p \in DOMAIN start : start[p] = Regenerated(work)[p]

(* README.md line 73: doctor-strict verifies the committed repository      *)
(* state.  What it passes is committed together with its generated output. *)
StrictIsCommitted ==
  result = "passed" /\ fresh /\ command = "strict" => head = Regenerated(head)
=============================================================================
