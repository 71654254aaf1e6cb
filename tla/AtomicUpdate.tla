---------------------------- MODULE AtomicUpdate ----------------------------
(***************************************************************************)
(* What a caller of the multi-file writers of infrastructure/filesystem.py *)
(* is promised.  The call is observed when it ends: the disk is then the   *)
(* goal (result "ok"), the disk it started from ("failed"), or, when the   *)
(* call could not be restored or was interrupted ("torn"), a mixture in    *)
(* which every path is wholly old or wholly new.                           *)
(***************************************************************************)
CONSTANTS Path,     \* the paths a caller can read
          Content,  \* what a file can hold
          Absent    \* the reading of a path that is no file

VARIABLES disk,     \* what reading each path gives
          goal,     \* what reading each path shall give
          result    \* how the call ended, "running" before it does

vars == <<disk, goal, result>>

Reading == Content \union {Absent}

Init == /\ disk \in [Path -> Reading]
        /\ goal \in [Path -> Reading]
        /\ result = "running"

Commit == /\ result = "running"
          /\ disk' = goal
          /\ result' = "ok"
          /\ UNCHANGED goal

Refuse == /\ result = "running"
          /\ result' = "failed"
          /\ UNCHANGED <<disk, goal>>

Tear == /\ result = "running"
        /\ \E done \in SUBSET Path :
             disk' = [p \in Path |-> IF p \in done THEN goal[p] ELSE disk[p]]
        /\ result' = "torn"
        /\ UNCHANGED goal

Next == Commit \/ Refuse \/ Tear

Spec == Init /\ [][Next]_vars

(* A call that keeps running ends. *)
FairSpec == Spec /\ WF_vars(Next)
=============================================================================
