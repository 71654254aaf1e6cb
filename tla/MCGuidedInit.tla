---------------------------- MODULE MCGuidedInit ----------------------------
(***************************************************************************)
(* Two setups that share a question id: one with two questions (bundle,    *)
(* targets, one option blocked), one with a single question; an override   *)
(* for an unknown question, a blocked option, a conflicting combination.   *)
(***************************************************************************)
EXTENDS GuidedInit

MCBundleTargets == [b \in {"full", "lean"} |->
  IF b = "full" THEN <<"opencode", "copilot">> ELSE <<"opencode">>]

Patch(b, t) == [bundle |-> b, targets |-> t]
Option(v, c, p) == [value |-> v, class |-> c, patch |-> p]

Domain == [id |-> "domain", default |-> "service", options |-> <<
  Option("library", "compatible", Patch("lean", <<"opencode">>)),
  Option("service", "recommended", NoPatch),
  Option("pipeline", "blocked", NoPatch)>>]

Platform == [id |-> "platform", default |-> "both", options |-> <<
  Option("both", "recommended", NoPatch),
  Option("copilot", "compatible", Patch(None, <<"copilot">>))>>]

Small == [id |-> "domain", default |-> "library", options |-> <<
  Option("library", "recommended", NoPatch)>>]

MCSetups == <<
  [name |-> "delivery", selection |-> Patch("full", <<"opencode", "copilot">>),
   questions |-> <<Domain, Platform>>],
  [name |-> "lean", selection |-> Patch("lean", <<"opencode">>), questions |-> <<Small>>]>>

MCOverrides == {<<>>,
  [q \in {"domain"} |-> "library"],
  [q \in {"domain"} |-> "pipeline"],
  [q \in {"colour"} |-> "red"],
  [q \in {"domain", "platform"} |-> IF q = "domain" THEN "library" ELSE "copilot"]}
=============================================================================
