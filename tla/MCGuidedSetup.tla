--------------------------- MODULE MCGuidedSetup ---------------------------
(***************************************************************************)
(* Setups of two questions with two options each over a bundle with both   *)
(* targets and one with a single target: every combination of patches,     *)
(* classes and defaults that matters, valid and invalid ones.              *)
(***************************************************************************)
EXTENDS GuidedSetup

MCBundleTargets == [b \in {"full", "lean"} |->
  IF b = "full" THEN <<"opencode", "copilot">> ELSE <<"opencode">>]

Patch(b, t) == [bundle |-> b, targets |-> t]

MCPatches == {NoPatch, Patch("lean", None), Patch(None, <<"opencode">>),
              Patch("lean", <<"opencode">>), Patch("full", <<"copilot">>),
              Patch("lean", <<"copilot">>), Patch(None, <<"copilot", "opencode">>),
              Patch("gone", <<"opencode">>), Patch(None, <<"strange">>)}

Option(v, c, p) == [value |-> v, class |-> c, patch |-> p]

First == {Option("x", "recommended", p) : p \in
            {NoPatch, Patch("full", <<"copilot">>), Patch("lean", <<"opencode">>)}}
         \union {Option("x", "compatible", NoPatch)}

Second == {Option("y", c, p) : c \in {"compatible", "blocked"}, p \in MCPatches}
          \union {Option("y", "recommended", NoPatch)}

QuestionsNamed(id, second) ==
  {[id |-> id, default |-> "x", options |-> <<o, p>>] : o \in First, p \in second}

Setup(name, targets, questions) ==
  [name |-> name, selection |-> Patch("full", targets), questions |-> questions]

Plain(id) == [id |-> id, default |-> "x", options |-> <<Option("x", "recommended", NoPatch)>>]

Odd == {<<Setup("s", <<"opencode">>, <<Plain("p"), Plain("p")>>)>>,
        <<Setup("s", <<"opencode">>, <<Plain("p")>>), Setup("s", <<"copilot">>, <<Plain("q")>>)>>,
        <<Setup("s", <<"opencode">>, <<[Plain("p") EXCEPT !.default = "z"]>>)>>,
        <<Setup("s", <<"opencode">>, <<Plain("p")>>),
          Setup("t", <<"copilot", "opencode">>, <<Plain("p"), Plain("q")>>)>>}

MCRegistries ==
  {<<Setup("s", <<"opencode", "copilot">>, <<q, r>>)>> :
      q \in QuestionsNamed("p", Second),
      r \in QuestionsNamed("q", {o \in Second : /\ o.class = "compatible"
                                             /\ o.patch.bundle # "gone"
                                             /\ o.patch.targets # <<"strange">>})}
  \union Odd
=============================================================================
