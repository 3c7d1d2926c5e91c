---------------------------- MODULE Configuration ----------------------------
(***************************************************************************)
(* How a resource becomes the configuration of a Job.  Four parties check  *)
(* it one after the other, each at its own time: the API server (the CEL   *)
(* rules and, where the operator has serving certificates, its webhook),   *)
(* the reconciler, the kubelet, and the exporter when it starts.  Between   *)
(* any two of them the resource may be edited, and the Secrets it names.    *)
(*                                                                         *)
(* When the reconciler runs, and how many Jobs at a time, is in Dispatch;   *)
(* here it may run whenever it is idle, and creates what is missing.       *)
(***************************************************************************)
EXTENDS Naturals

CONSTANTS
  Owner,         \* organizations, groups and users
  Repo, Owns,    \* the repositories that discovery lists for each owner
  Secret, Key,   \* names of Secrets and of their keys
  Password,      \* the key of the Valkey password
  Namespace,
  Watched,       \* --watch-namespaces; every namespace if empty
  Webhook,       \* are the webhooks registered?
  Resources,     \* the resources that may be applied
  BackoffLimit,  \* how many failed pods a Job retries
  MaxEdits,      \* bound: edits of the resource and of Secrets
  MaxFaults,     \* bound: discoveries that fail for other reasons
  None

(* A Secret's value.  "bad" has the wrong content: a token that was revoked, *)
(* a key that cannot be parsed.  A Secret that is missing lacks every key.  *)
Value == {"absent", "empty", "bad", "good"}

(* The durations, of which only the sign matters: resolutionWindow with     *)
(* collectLifecycle and workflowLookback with collectWorkflows.            *)
Setting == {"off", "zero", "positive"}

Resource ==
  [ns : Namespace, provider : {"github", "gitlab"},
   targetType : {"group", "user"},             \* "org" is GitHub's word for group
   group : Owner \cup {None}, user : Owner \cup {None},
   authMode : {"token", "app"}, tokenKey : Key \cup {None},
   app : BOOLEAN,                              \* appID and appInstallationID
   appPrivateKeyKey : Key \cup {None}, credentialsSecret : Secret,
   collectLifecycle : Setting, valkey : BOOLEAN,
   secretRef : Secret \cup {None},             \* valkey.secretRef
   collectWorkflows : Setting]

ASSUME ConfigurationAssumption ==
  /\ Owns \in [Owner -> SUBSET Repo]
  /\ Password \in Key
  /\ Watched \subseteq Namespace
  /\ Webhook \in BOOLEAN
  /\ Resources \subseteq Resource
  /\ \A res \in Resources : res.provider = "gitlab" => res.authMode = "token"
  /\ BackoffLimit \in Nat /\ MaxEdits \in Nat /\ MaxFaults \in Nat
  /\ None \notin Owner \cup Secret \cup Key \cup Resources

VARIABLES
  resource,   \* the resource, or None
  secrets,    \* the Secrets of its namespace
  inventory,  \* status.discoveredRepositories
  due,        \* has discoveryInterval passed since lastDiscoveryTime?
  reason,     \* of the Ready condition
  \* the operator
  cache,      \* the Secrets as its informer shows them
  pc,
  pass,       \* the local variables of Reconcile
  \* the cluster
  jobs,       \* the Job of each repository, or None
  \* what happened: edits of the credentials since ...
  sinceApply,      \* ... the resource was applied
  sinceDiscovery,  \* ... what the inventory is from, or edits of the resource
  \* the environment's budget
  edits, faults

cluster == <<resource, secrets, jobs>>
status  == <<inventory, due, reason>>
history == <<sinceApply, sinceDiscovery>>
bounds  == <<edits, faults>>
vars == <<cluster, status, cache, pc, pass, history, bounds>>

Reason == {"Unknown", "CredentialsInvalid", "DiscoveryFailed", "Discovered"}

Secrets == [Secret -> [Key -> Value]]

(* edited: since the pass read the Secret.  outdated: the resource was.     *)
(* unproven: edited since the inventory it uses was discovered.            *)
Pass == [res : Resources, value : Value, inventory : SUBSET Repo, fresh : BOOLEAN,
         edited : BOOLEAN, outdated : BOOLEAN, unproven : BOOLEAN]

Job == [res : Resources, phase : {"waiting", "running", "finished"},
        tries : 0 .. BackoffLimit, exit : {"none", "load", "auth"},
        edited : BOOLEAN, unproven : BOOLEAN]

TypeOK ==
  /\ resource \in Resources \cup {None} /\ secrets \in Secrets
  /\ inventory \subseteq Repo /\ due \in BOOLEAN /\ reason \in Reason
  /\ cache \in Secrets
  /\ pc \in {"idle", "list", "dispatch", "update"}
  /\ pc # "idle" => pass \in Pass
  /\ jobs \in [Repo -> Job \cup {None}]
  /\ sinceApply \in BOOLEAN /\ sinceDiscovery \in BOOLEAN
  /\ edits \in 0 .. MaxEdits /\ faults \in 0 .. MaxFaults

Init ==
  /\ resource = None /\ secrets \in Secrets /\ cache = secrets
  /\ inventory = {} /\ due = TRUE /\ reason = "Unknown"
  /\ pc = "idle" /\ pass = None
  /\ jobs = [r \in Repo |-> None]
  /\ sinceApply = FALSE /\ sinceDiscovery = FALSE
  /\ edits = 0 /\ faults = 0

-------------------------------------------------------------------------------
(***************************************************************************)
(* Admission: the CEL rules of the two types, then validate.               *)
(***************************************************************************)
Valid(res) ==
  /\ res.targetType = "group" => res.group # None
  /\ res.targetType = "user" => res.user # None
  /\ res.authMode = "app" => res.app /\ res.appPrivateKeyKey # None
  /\ res.authMode = "token" => res.tokenKey # None
  /\ res.collectLifecycle # "off" => res.valkey

Watches(ns) == Watched = {} \/ ns \in Watched

WantedKey(res) == IF res.authMode = "app" THEN res.appPrivateKeyKey ELSE res.tokenKey

\* The mutant looks for the token, whatever the mode.
ValidateToken(res) ==
  /\ Watches(res.ns)
  /\ res.tokenKey # None => secrets[res.credentialsSecret][res.tokenKey] # "absent"

Validate(res) ==
  /\ Watches(res.ns)
  /\ WantedKey(res) # None
  /\ secrets[res.credentialsSecret][WantedKey(res)] # "absent"

Edit == edits < MaxEdits /\ edits' = edits + 1

(* The resource is created or edited; its kind and namespace stay.  A pass  *)
(* that is under way goes on with what it read.                            *)
Apply(res) ==
  /\ Edit
  /\ res # resource
  /\ resource # None => res.ns = resource.ns /\ res.provider = resource.provider
  /\ Valid(res)
  /\ Webhook => Validate(res)
  /\ resource' = res
  /\ pass' = IF pc = "idle" THEN pass ELSE [pass EXCEPT !.outdated = TRUE]
  /\ sinceApply' = FALSE
  /\ sinceDiscovery' = TRUE
  /\ UNCHANGED <<secrets, jobs, status, cache, pc, faults>>

EditSecret(s, k, v) ==
  /\ Edit
  /\ secrets[s][k] # v
  /\ secrets' = [secrets EXCEPT ![s][k] = v]
  /\ LET uses(res) == res.credentialsSecret = s
         concerns == resource # None /\ uses(resource)
     IN /\ sinceApply' = (sinceApply \/ concerns)
        /\ sinceDiscovery' = (sinceDiscovery \/ concerns)
        /\ pass' = IF pc # "idle" /\ uses(pass.res) THEN [pass EXCEPT !.edited = TRUE]
                   ELSE pass
        /\ jobs' = [r \in Repo |->
             IF jobs[r] # None /\ uses(jobs[r].res) THEN [jobs[r] EXCEPT !.edited = TRUE]
             ELSE jobs[r]]
  /\ UNCHANGED <<resource, status, cache, pc, faults>>

SyncSecrets ==
  /\ cache # secrets
  /\ cache' = secrets
  /\ UNCHANGED <<cluster, status, pc, pass, history, bounds>>

-------------------------------------------------------------------------------
(***************************************************************************)
(* Reconcile.  It reads the credential, and goes on with what it read.      *)
(***************************************************************************)
CredentialKey(res) == IF res.authMode = "app" THEN res.appPrivateKeyKey ELSE res.tokenKey

Credential == cache[resource.credentialsSecret][CredentialKey(resource)]

\* The mutant accepts an empty value.
HasKey(v) == v # "absent"

Usable(v) == v \notin {"absent", "empty"}

Reconciles == pc = "idle" /\ resource # None /\ Watches(resource.ns)

Refuse ==
  /\ Reconciles
  /\ ~ Usable(Credential)
  /\ reason' = "CredentialsInvalid"
  /\ UNCHANGED <<cluster, inventory, due, cache, pc, pass, history, bounds>>

Begin ==
  /\ Reconciles
  /\ Usable(Credential)
  /\ pc' = "list"
  /\ pass' = [res |-> resource, value |-> Credential,
              inventory |-> inventory, fresh |-> FALSE,
              edited |-> cache[resource.credentialsSecret] # secrets[resource.credentialsSecret],
              outdated |-> FALSE, unproven |-> sinceDiscovery]
  /\ UNCHANGED <<cluster, status, cache, history, bounds>>

(* Whose repositories are listed (githubAuth, gitlabAuth).                 *)
OwnerOf(res) == IF res.targetType = "user" THEN res.user ELSE res.group

\* The mutant discovers only once.
OnlyWhenEmpty == pass.inventory = {}

NeedsDiscovery == pass.inventory = {} \/ due

(* Nothing of it looks at whether the resource was edited.                 *)
ReuseInventory ==
  /\ pc = "list" /\ ~ NeedsDiscovery
  /\ pc' = "dispatch"
  /\ UNCHANGED <<cluster, status, cache, pass, history, bounds>>

Discover ==
  /\ pc = "list" /\ NeedsDiscovery
  /\ pass.value = "good"
  /\ pass' = [pass EXCEPT !.inventory = Owns[OwnerOf(pass.res)], !.fresh = TRUE,
                          !.unproven = FALSE]
  /\ pc' = "dispatch"
  /\ UNCHANGED <<cluster, status, cache, history, bounds>>

DiscoveryFails ==
  /\ pc = "list" /\ NeedsDiscovery
  /\ IF pass.value = "bad" THEN UNCHANGED faults ELSE faults < MaxFaults /\ faults' = faults + 1
  /\ reason' = IF pass.outdated THEN reason ELSE "DiscoveryFailed"
  /\ pc' = "idle" /\ pass' = None
  /\ UNCHANGED <<cluster, inventory, due, cache, history, edits>>

(* A Job is rendered of the resource as the pass read it.                  *)
NewJob ==
  [res |-> pass.res, phase |-> "waiting", tries |-> 0, exit |-> "none",
   edited |-> pass.edited, unproven |-> pass.unproven]

DispatchJobs ==
  /\ pc = "dispatch"
  /\ jobs' = [r \in Repo |-> IF r \in pass.inventory /\ jobs[r] = None THEN NewJob ELSE jobs[r]]
  /\ pc' = "update"
  /\ UNCHANGED <<resource, secrets, status, cache, pass, history, bounds>>

(* A status of a resource that was edited meanwhile is refused.            *)
UpdateStatus ==
  /\ pc = "update"
  /\ IF pass.outdated THEN UNCHANGED <<status, sinceDiscovery>>
     ELSE /\ inventory' = pass.inventory
          /\ due' = (due /\ ~ pass.fresh)
          /\ reason' = "Discovered"
          /\ sinceDiscovery' = IF pass.fresh THEN pass.edited ELSE sinceDiscovery
  /\ pc' = "idle" /\ pass' = None
  /\ UNCHANGED <<cluster, cache, sinceApply, bounds>>

IntervalElapses ==
  /\ ~ due /\ due' = TRUE
  /\ UNCHANGED <<cluster, inventory, reason, cache, pc, pass, history, bounds>>

-------------------------------------------------------------------------------
(***************************************************************************)
(* What is rendered into a Job (githubEnv, gitlabEnv, commonExporterEnv,    *)
(* githubCredentialVolume), and what the kubelet makes of it: a pod waits    *)
(* for the keys it refers to.  An unset variable and an empty one are one.  *)
(***************************************************************************)
Env(res) ==
  [targetType |-> res.targetType, group |-> res.group, user |-> res.user,
   token  |-> IF res.authMode = "app" THEN "empty"
              ELSE secrets[res.credentialsSecret][CredentialKey(res)],
   appID  |-> res.authMode = "app" /\ res.app,
   keyPath |-> res.authMode = "app",
   collectLifecycle |-> res.collectLifecycle # "off",
   window |-> IF res.collectLifecycle = "off" THEN "empty" ELSE res.collectLifecycle,
   addr   |-> res.collectLifecycle # "off" /\ res.valkey,
   lookback |-> IF res.collectWorkflows = "off" THEN "empty" ELSE res.collectWorkflows]

Mounted(res) ==
  /\ secrets[res.credentialsSecret][CredentialKey(res)] # "absent"
  /\ res.collectLifecycle # "off" /\ res.valkey /\ res.secretRef # None
       => secrets[res.secretRef][Password] # "absent"

(***************************************************************************)
(* The exporter: config.Load, and New with its transport.                  *)
(***************************************************************************)
(* getenvDuration: zero is refused, and unset is the default.              *)
DurationOk(v) == v # "zero"

Target(env) == IF env.targetType = "user" THEN env.user ELSE env.group

AppComplete(env) == env.appID /\ env.keyPath

Load(env) ==
  /\ DurationOk(env.window) /\ DurationOk(env.lookback)
  /\ env.collectLifecycle => env.addr
  /\ Target(env) # None
  /\ AppComplete(env) \/ env.token # "empty"

(* The App's key is read and parsed; whether a token is any good shows only *)
(* in the poll.                                                            *)
Authenticates(env, key) ==
  IF AppComplete(env) THEN key = "good" ELSE env.token # "empty"

Started(res) ==
  LET key == secrets[res.credentialsSecret][CredentialKey(res)]
  IN IF ~ Load(Env(res)) THEN "load"
     ELSE IF ~ Authenticates(Env(res), key) THEN "auth" ELSE "none"

\* The mutant retries once more.
RetryOnceMore(j) ==
  IF j.tries <= BackoffLimit THEN [j EXCEPT !.phase = "waiting", !.tries = @ + 1]
  ELSE [j EXCEPT !.phase = "finished"]

Retry(j) ==
  IF j.tries < BackoffLimit THEN [j EXCEPT !.phase = "waiting", !.tries = @ + 1]
  ELSE [j EXCEPT !.phase = "finished"]

UpdateJob(r, j) ==
  /\ jobs' = [jobs EXCEPT ![r] = j]
  /\ UNCHANGED <<resource, secrets, status, cache, pc, pass, history, bounds>>

Waits(r) == jobs[r] # None /\ jobs[r].phase = "waiting"
Runs(r) == jobs[r] # None /\ jobs[r].phase = "running"

Start(r) ==
  /\ Waits(r) /\ Mounted(jobs[r].res)
  /\ LET exit == Started(jobs[r].res)
         j == [jobs[r] EXCEPT !.exit = exit]
     IN UpdateJob(r, IF exit = "none" THEN [j EXCEPT !.phase = "running"] ELSE Retry(j))

PodFails(r) == Runs(r) /\ UpdateJob(r, Retry(jobs[r]))

JobSucceeds(r) == Runs(r) /\ UpdateJob(r, [jobs[r] EXCEPT !.phase = "finished"])

JobExpires(r) == jobs[r] # None /\ jobs[r].phase = "finished" /\ UpdateJob(r, None)

-------------------------------------------------------------------------------
Users ==
  \/ \E res \in Resources : Apply(res)
  \/ \E s \in Secret, k \in Key, v \in Value : EditSecret(s, k, v)

Reconcile ==
  Refuse \/ Begin \/ ReuseInventory \/ Discover \/ DiscoveryFails \/ DispatchJobs \/ UpdateStatus

Pods == \E r \in Repo : Start(r) \/ PodFails(r) \/ JobSucceeds(r) \/ JobExpires(r)

Next == Users \/ SyncSecrets \/ Reconcile \/ IntervalElapses \/ Pods

Spec == Init /\ [][Next]_vars

(* The workqueue brings every resource back (Dispatch), informers catch up, *)
(* time passes, and the cluster runs Jobs and deletes finished ones.       *)
Fairness ==
  /\ WF_vars(Reconcile)
  /\ WF_vars(SyncSecrets)
  /\ WF_vars(IntervalElapses)
  /\ \A r \in Repo : WF_vars(Start(r)) /\ WF_vars(JobSucceeds(r)) /\ WF_vars(JobExpires(r))

FairSpec == Spec /\ Fairness

-------------------------------------------------------------------------------
(* The four checks agree.  A pod finds its configuration wanting only if     *)
(* the credential was edited since the reconciler looked at it, or a        *)
(* duration is zero, which nobody looks at before; it cannot parse the key   *)
(* only if that was edited since it was last used for a discovery.  And a    *)
(* Job collects a repository its target does not have only if it comes of   *)
(* an inventory from before an edit (config.Load, New, collectionJob).      *)
ExitsAreExplained ==
  \A r \in Repo : jobs[r] # None =>
    LET j == jobs[r]
    IN /\ j.exit = "load" =>
            j.edited \/ j.res.collectLifecycle = "zero" \/ j.res.collectWorkflows = "zero"
       /\ j.exit = "auth" => j.edited \/ j.unproven
       /\ j.phase = "running" /\ r \notin Owns[Target(Env(j.res))] => j.unproven

(* What the webhook admits the reconciler accepts, unless the credential was *)
(* edited after, its value is empty, or the reconciler's cache is behind     *)
(* (validateCredentialsSecret reads past the cache, loadSecret through it). *)
RefusalsAreNews ==
  [][Refuse /\ Webhook => \/ sinceApply \/ Credential = "empty"
                          \/ cache # secrets]_vars

(* Once all keys are there and good, the current resource is what every      *)
(* repository of its target is collected with, again and again: an old       *)
(* inventory is discovered anew, and Jobs of old resources make way          *)
(* (needsDiscovery, jobTTLSeconds).                                         *)
Sound == \A s \in Secret, k \in Key : secrets[s][k] = "good"

Asks(res) == res.collectLifecycle # "zero" /\ res.collectWorkflows # "zero"

CollectedAsAsked(r) ==
  resource # None /\ Watches(resource.ns) /\ Asks(resource) /\ r \in Owns[OwnerOf(resource)]
    => Runs(r) /\ jobs[r].res = resource

EditsTakeEffect == <>[]Sound => \A r \in Repo : []<>CollectedAsAsked(r)

-------------------------------------------------------------------------------
(***************************************************************************)
(* Statements of the repository that the code does not keep.               *)
(***************************************************************************)
(* README.md:5, the operator "discovers a target's repositories on an        *)
(* interval and dispatches one ephemeral run-once collection Job per         *)
(* repository": after the target is edited, Jobs for the old target's        *)
(* repositories are dispatched against the new one until the interval ends. *)
JobsAreForTheTarget ==
  \A r \in Repo : Runs(r) => r \in Owns[Target(Env(jobs[r].res))]

(* docs/crd-reference.md:144, CredentialsInvalid means "The referenced       *)
(* Secret is missing or lacks the required key": also that it is empty.     *)
InvalidMeansMissing == [][Refuse => Credential = "absent"]_vars
===============================================================================
