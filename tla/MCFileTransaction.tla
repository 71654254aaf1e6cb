------------------------- MODULE MCFileTransaction -------------------------
(***************************************************************************)
(* A tree with two nested directories that may be missing, be files or be  *)
(* links, a file in each directory, and calls of both functions on them.   *)
(***************************************************************************)
EXTENDS FileTransaction

CONSTANTS v1, v2

MCNode == {"root", "out", "deep", "notes", "page", "leaf"}

MCParent == [n \in MCNode |-> CASE n \in {"root", "out", "notes"} -> "root"
                                [] n \in {"deep", "page"} -> "out"
                                [] n = "leaf" -> "deep"]

MCAncestors == [n \in MCNode |-> CASE n = "root" -> {}
                                   [] n \in {"out", "notes"} -> {"root"}
                                   [] n \in {"deep", "page"} -> {"root", "out"}
                                   [] n = "leaf" -> {"root", "out", "deep"}]

Set(n) == [path |-> n, new |-> v2]
Del(n) == [path |-> n, new |-> Absent]

MCCalls == {
  [kind |-> "write",  ops |-> <<Set("notes"), Set("page")>>],
  [kind |-> "write",  ops |-> <<Set("page"), Set("page")>>],
  [kind |-> "update", ops |-> <<>>],
  [kind |-> "update", ops |-> <<Set("notes"), Set("leaf"), Del("page")>>],
  [kind |-> "update", ops |-> <<Set("leaf"), Set("page"), Del("notes")>>],
  [kind |-> "update", ops |-> <<Set("page"), Del("out")>>],
  [kind |-> "update", ops |-> <<Del("notes"), Del("leaf")>>] }
=============================================================================
