------------------------------- MODULE MCCollect -------------------------------
(* Instances of Collect for TLC: a repository with all the findings, two of *)
(* them Dependabot alerts, beside one without.                              *)
EXTENDS Collect, TLC

CONSTANTS r1, r2, code, alert1, alert2

MCHome == [f \in Finding |-> r1]

MCCategory ==
  [f \in Finding |-> IF f = code THEN "static_analysis" ELSE "dependency"]

ThreeNames == 1 .. 3

EveryPoll == Providers

Alike == Permutations({alert1, alert2})
===============================================================================
