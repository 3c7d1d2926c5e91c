----------------------------- MODULE MCRemediation -----------------------------
(* Instances of Remediation for TLC. *)
EXTENDS Remediation

CONSTANTS f1, f2, f3, s1, i1, i2, i3, a, b

Findings2 == {f1, f2}
Findings3 == {f1, f2, f3}

(* All findings in one histogram. *)
OneScope == [f \in Finding |-> s1]

(* Every resolution has an id of its own, or all are reported under one.  *)
OwnIds == [f \in Finding |-> CASE f = f1 -> i1 [] f = f2 -> i2 [] f = f3 -> i3]
SameId == [f \in Finding |-> i1]

(* Every Job sees every finding: two resources that cover one repository.   *)
Shared == [j \in Job |-> Finding]

Jobs1 == {a}
Jobs2 == {a, b}
Scopes1 == {s1}
Ids == {i1, i2, i3}

(* The window stays as it is, or is widened and narrowed. *)
Window1 == {1}
Window2or5 == {2, 5}
===============================================================================
