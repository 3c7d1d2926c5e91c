--------------------------- MODULE MCConfiguration ---------------------------
(* An instance of Configuration for TLC. *)
EXTENDS Configuration

CONSTANTS o1, o2, r1, r2, s1, k1, ns1, ns2

MCOwns == [o \in Owner |-> IF o = o1 THEN {r1} ELSE {r2}]

(* A resource and the edits of it: another target, App authentication, a     *)
(* store with a Secret, a lookback of zero; one that is not watched; and      *)
(* three that the rules refuse: no target, half an App, no store.           *)
Plain ==
  [ns |-> ns1, provider |-> "github", targetType |-> "group", group |-> o1, user |-> None,
   authMode |-> "token", tokenKey |-> k1, app |-> FALSE, appPrivateKeyKey |-> None,
   credentialsSecret |-> s1, collectLifecycle |-> "off", valkey |-> FALSE,
   secretRef |-> None, collectWorkflows |-> "off"]

Edits ==
  {Plain,
   [Plain EXCEPT !.targetType = "user", !.group = None, !.user = o2],
   [Plain EXCEPT !.authMode = "app", !.tokenKey = None, !.app = TRUE, !.appPrivateKeyKey = k1,
                 !.collectLifecycle = "positive", !.valkey = TRUE, !.secretRef = s1],
   [Plain EXCEPT !.collectWorkflows = "zero"],
   [Plain EXCEPT !.ns = ns2],
   [Plain EXCEPT !.targetType = "user"],
   [Plain EXCEPT !.authMode = "app", !.appPrivateKeyKey = k1],
   [Plain EXCEPT !.collectLifecycle = "positive"]}
===============================================================================
