------------------------------- MODULE MCRuntime -------------------------------
(* Small instances of the runtime: three inputs and a few scripts of replies. *)
EXTENDS RuntimeProperties, TLC

CONSTANTS r1, r2, r3, c1, c2, c3

FollowupSteerCompact == (r1 :> "followup") @@ (r2 :> "steer") @@ (r3 :> "compact")
TwoFollowups == (r1 :> "followup") @@ (r2 :> "followup")
FollowupCompact == (r1 :> "followup") @@ (r2 :> "compact")
OneFollowup == (r1 :> "followup")

TextOnly == {<<>>}
TwoCalls == {<<>>, <<c1, c2>>}
ThreeCalls == {<<>>, <<c1, c2, c3>>}
OneCall == {<<>>, <<c1>>}
===============================================================================
