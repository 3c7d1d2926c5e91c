------------------------------ MODULE MCRateGate ------------------------------
(* Instances of RateGate for TLC: GitHub's two buckets and GitLab's one. *)
EXTENDS RateGate

MCGitHub == {1, 2}
MCGitLab == {1}
===============================================================================
