------------------------- MODULE ConfigurationProofs -------------------------
(***************************************************************************)
(* The checks a resource passes through agree, for any number of           *)
(* repositories, Secrets and edits.                                        *)
(***************************************************************************)
EXTENDS Configuration, TLAPS

(***************************************************************************)
(* Types.  That a credential is a value and an owner an owner hangs on the   *)
(* admission rules, which the resource of a pass and of a Job has passed.   *)
(***************************************************************************)
Admitted ==
  /\ resource # None => Valid(resource)
  /\ pc # "idle" => Valid(pass.res)
  /\ \A r \in Repo : jobs[r] # None => Valid(jobs[r].res)

LEMMA ValidNames ==
  ASSUME NEW res \in Resources, Valid(res)
  PROVE  /\ CredentialKey(res) \in Key /\ OwnerOf(res) \in Owner
         /\ WantedKey(res) = CredentialKey(res) /\ res.credentialsSecret \in Secret
<1>1. res \in Resource
  BY ConfigurationAssumption
<1>. QED BY <1>1 DEF Resource, Valid, CredentialKey, OwnerOf, WantedKey

LEMMA RetryTyped == ASSUME NEW j \in Job PROVE Retry(j) \in Job
<1>1. BackoffLimit \in Nat
  BY ConfigurationAssumption
<1>2. CASE j.tries < BackoffLimit
  <2>1. j.tries + 1 \in 0 .. BackoffLimit
    BY <1>1, <1>2 DEF Job
  <2>. QED BY <1>2, <2>1 DEF Retry, Job
<1>3. CASE ~ (j.tries < BackoffLimit)
  BY <1>3 DEF Retry, Job
<1>. QED BY <1>2, <1>3

LEMMA EditTyped == ASSUME TypeOK, Edit PROVE edits' \in 0 .. MaxEdits
BY ConfigurationAssumption DEF TypeOK, Edit

LEMMA UsersTyped == ASSUME TypeOK, Users PROVE TypeOK'
<1>1. CASE \E res \in Resources : Apply(res)
  <2>1. PICK res \in Resources : Apply(res)
    BY <1>1
  <2>2. edits' \in 0 .. MaxEdits
    BY <2>1, EditTyped DEF Apply
  <2>3. pc' # "idle" => pass' \in Pass
    BY <2>1 DEF Apply, TypeOK, Pass
  <2>. QED BY <2>1, <2>2, <2>3 DEF Apply, TypeOK, status
<1>2. CASE \E s \in Secret, k \in Key, v \in Value : EditSecret(s, k, v)
  <2>1. PICK s \in Secret, k \in Key, v \in Value : EditSecret(s, k, v)
    BY <1>2
  <2>2. edits' \in 0 .. MaxEdits
    BY <2>1, EditTyped DEF EditSecret
  <2>3. pc' # "idle" => pass' \in Pass
    BY <2>1 DEF EditSecret, TypeOK, Pass
  <2>4. secrets' \in Secrets
    BY <2>1 DEF EditSecret, TypeOK, Secrets
  <2>5. jobs' \in [Repo -> Job \cup {None}]
    <3>1. jobs' = [r \in Repo |->
             IF jobs[r] # None /\ jobs[r].res.credentialsSecret = s
             THEN [jobs[r] EXCEPT !.edited = TRUE] ELSE jobs[r]]
      BY <2>1 DEF EditSecret
    <3>2. ASSUME NEW r \in Repo, jobs[r] # None
          PROVE  [jobs[r] EXCEPT !.edited = TRUE] \in Job
      BY <3>2 DEF TypeOK, Job
    <3>. QED BY <3>1, <3>2 DEF TypeOK
  <2>6. sinceApply' \in BOOLEAN /\ sinceDiscovery' \in BOOLEAN
    BY <2>1 DEF EditSecret, TypeOK
  <2>. QED BY <2>1, <2>2, <2>3, <2>4, <2>5, <2>6 DEF EditSecret, TypeOK, status
<1>. QED BY <1>1, <1>2 DEF Users

LEMMA ReconcileTyped == ASSUME TypeOK, Admitted, Reconcile PROVE TypeOK'
<1>1. CASE Refuse
  BY <1>1 DEF Refuse, TypeOK, Reason, cluster, history, bounds, Reconciles
<1>2. CASE Begin
  <2>1. pass' \in Pass
    <3>1. resource \in Resources /\ resource # None /\ Credential \in {"bad", "good"}
      <4>1. resource \in Resources /\ resource # None /\ Usable(Credential)
        BY <1>2 DEF Begin, Reconciles, TypeOK
      <4>2. CredentialKey(resource) \in Key /\ resource.credentialsSecret \in Secret
        BY <4>1, ValidNames DEF Admitted
      <4>3. Credential \in Value
        BY <4>2 DEF Credential, TypeOK, Secrets
      <4>. QED BY <4>1, <4>3 DEF Usable, Value
    <3>. QED BY <1>2, <3>1 DEF Begin, TypeOK, Pass, Value
  <2>. QED BY <1>2, <2>1 DEF Begin, TypeOK, cluster, status, history, bounds
<1>3. CASE ReuseInventory
  BY <1>3 DEF ReuseInventory, TypeOK, cluster, status, history, bounds
<1>4. CASE Discover
  <2>1. pass \in Pass /\ Valid(pass.res)
    BY <1>4 DEF Discover, TypeOK, Admitted
  <2>2. Owns[OwnerOf(pass.res)] \subseteq Repo
    BY <2>1, ValidNames, ConfigurationAssumption DEF Pass
  <2>3. pass' \in Pass
    BY <1>4, <2>1, <2>2 DEF Discover, Pass
  <2>. QED BY <1>4, <2>3 DEF Discover, TypeOK, cluster, status, history, bounds
<1>5. CASE DiscoveryFails
  BY <1>5, ConfigurationAssumption
     DEF DiscoveryFails, TypeOK, Reason, cluster, status, history, bounds
<1>6. CASE DispatchJobs
  <2>1. NewJob \in Job
    BY <1>6, ConfigurationAssumption DEF DispatchJobs, NewJob, Job, TypeOK, Pass
  <2>. QED BY <1>6, <2>1 DEF DispatchJobs, TypeOK, status, history, bounds
<1>7. CASE UpdateStatus
  BY <1>7 DEF UpdateStatus, TypeOK, Pass, Reason, cluster, status, bounds
<1>. QED BY <1>1, <1>2, <1>3, <1>4, <1>5, <1>6, <1>7 DEF Reconcile

LEMMA PodsTyped == ASSUME TypeOK, Pods PROVE TypeOK'
<1>1. PICK r \in Repo : Start(r) \/ PodFails(r) \/ JobSucceeds(r) \/ JobExpires(r)
  BY DEF Pods
<1>2. ASSUME NEW j \in Job \cup {None}, UpdateJob(r, j) PROVE TypeOK'
  BY <1>2 DEF UpdateJob, TypeOK, status, history, bounds
<1>3. CASE Start(r)
  <2>. DEFINE exit == Started(jobs[r].res)
              j == [jobs[r] EXCEPT !.exit = exit]
  <2>1. jobs[r] \in Job /\ exit \in {"none", "load", "auth"}
    BY <1>3 DEF Start, Waits, TypeOK, Started
  <2>2. j \in Job /\ [j EXCEPT !.phase = "running"] \in Job
    BY <2>1 DEF Job
  <2>3. Retry(j) \in Job
    BY <2>2, RetryTyped
  <2>. HIDE DEF exit, j
  <2>4. (IF exit = "none" THEN [j EXCEPT !.phase = "running"] ELSE Retry(j)) \in Job
    BY <2>2, <2>3
  <2>. QED BY <1>2, <1>3, <2>4 DEF Start, exit, j
<1>4. CASE PodFails(r)
  BY <1>2, <1>4, RetryTyped DEF PodFails, Runs, TypeOK
<1>5. CASE JobSucceeds(r)
  <2>1. [jobs[r] EXCEPT !.phase = "finished"] \in Job
    BY <1>5 DEF JobSucceeds, Runs, TypeOK, Job
  <2>. QED BY <1>2, <1>5, <2>1 DEF JobSucceeds
<1>6. CASE JobExpires(r)
  BY <1>2, <1>6 DEF JobExpires
<1>. QED BY <1>1, <1>3, <1>4, <1>5, <1>6

(* What a pod does to its Job: it may start, and go on or not.              *)
Follows(j, r) ==
  /\ jobs[r] # None
  /\ j.res = jobs[r].res /\ j.edited = jobs[r].edited /\ j.unproven = jobs[r].unproven
  /\ j.exit \in {jobs[r].exit, Started(jobs[r].res)}

LEMMA PodStep ==
  ASSUME TypeOK, NEW r \in Repo, Start(r) \/ PodFails(r) \/ JobSucceeds(r) \/ JobExpires(r)
  PROVE  /\ UNCHANGED <<resource, secrets, status, cache, pc, pass, history, bounds>>
         /\ \E j : jobs' = [jobs EXCEPT ![r] = j] /\ (j # None => Follows(j, r))
<1>. DEFINE Like(j, i) ==
       /\ j.res = i.res /\ j.edited = i.edited /\ j.unproven = i.unproven /\ j.exit = i.exit
<1>1. ASSUME NEW i \in Job PROVE Like(Retry(i), i)
  BY DEF Retry, Job
<1>2. CASE Start(r)
  <2>. DEFINE exit == Started(jobs[r].res)
              j == [jobs[r] EXCEPT !.exit = exit]
              i == IF exit = "none" THEN [j EXCEPT !.phase = "running"] ELSE Retry(j)
  <2>1. jobs[r] \in Job /\ jobs[r] # None
    BY <1>2 DEF Start, Waits, TypeOK
  <2>2. exit \in {"none", "load", "auth"}
    BY DEF Started
  <2>3. j \in Job /\ j.exit = exit /\ j.res = jobs[r].res /\ j.edited = jobs[r].edited
        /\ j.unproven = jobs[r].unproven
    BY <2>1, <2>2 DEF Job
  <2>4. Like([j EXCEPT !.phase = "running"], j)
    BY <2>3 DEF Job
  <2>5. Like(Retry(j), j)
    BY <1>1, <2>3
  <2>6. Like(i, j)
    BY <2>4, <2>5
  <2>7. UpdateJob(r, i)
    BY <1>2 DEF Start
  <2>. HIDE DEF exit, j, i
  <2>8. i.res = jobs[r].res /\ i.edited = jobs[r].edited /\ i.unproven = jobs[r].unproven
        /\ i.exit = exit
    BY <2>3, <2>6
  <2>. QED BY <2>1, <2>7, <2>8 DEF UpdateJob, exit, Follows
<1>3. CASE PodFails(r)
  <2>1. jobs[r] # None /\ jobs[r] \in Job /\ UpdateJob(r, Retry(jobs[r]))
    BY <1>3 DEF PodFails, Runs, TypeOK
  <2>2. Like(Retry(jobs[r]), jobs[r])
    BY <1>1, <2>1
  <2>. QED BY <2>1, <2>2 DEF UpdateJob, Follows
<1>4. CASE JobSucceeds(r)
  <2>. DEFINE i == [jobs[r] EXCEPT !.phase = "finished"]
  <2>1. jobs[r] # None /\ jobs[r] \in Job /\ UpdateJob(r, i)
    BY <1>4 DEF JobSucceeds, Runs, TypeOK
  <2>2. Like(i, jobs[r])
    BY <2>1 DEF Job
  <2>. HIDE DEF i
  <2>. QED BY <2>1, <2>2 DEF UpdateJob, Follows
<1>5. CASE JobExpires(r)
  BY <1>5 DEF JobExpires, UpdateJob
<1>. QED BY <1>2, <1>3, <1>4, <1>5

LEMMA AdmittedStays == ASSUME TypeOK, Admitted, [Next]_vars PROVE Admitted'
<1>1. CASE \E res \in Resources : Apply(res)
  BY <1>1 DEF Apply, Admitted
<1>2. CASE \E s \in Secret, k \in Key, v \in Value : EditSecret(s, k, v)
  <2>1. PICK s \in Secret, k \in Key, v \in Value : EditSecret(s, k, v)
    BY <1>2
  <2>2. resource' = resource /\ pc' = pc /\ (pc # "idle" => pass'.res = pass.res)
    BY <2>1 DEF EditSecret, TypeOK, Pass
  <2>3. ASSUME NEW r \in Repo, jobs'[r] # None
        PROVE  jobs[r] # None /\ jobs'[r].res = jobs[r].res
    BY <2>1, <2>3 DEF EditSecret, TypeOK, Job
  <2>. QED BY <2>2, <2>3 DEF Admitted
<1>3. CASE Reconcile
  <2>1. CASE Refuse
    BY <2>1 DEF Refuse, Admitted, cluster
  <2>2. CASE Begin
    BY <2>2 DEF Begin, Reconciles, Admitted, cluster
  <2>3. CASE ReuseInventory
    BY <2>3 DEF ReuseInventory, Admitted, cluster
  <2>4. CASE Discover
    BY <2>4 DEF Discover, Admitted, cluster, TypeOK, Pass
  <2>5. CASE DiscoveryFails
    BY <2>5 DEF DiscoveryFails, Admitted, cluster
  <2>6. CASE DispatchJobs
    BY <2>6 DEF DispatchJobs, NewJob, Admitted
  <2>7. CASE UpdateStatus
    BY <2>7 DEF UpdateStatus, Admitted, cluster
  <2>. QED BY <1>3, <2>1, <2>2, <2>3, <2>4, <2>5, <2>6, <2>7 DEF Reconcile
<1>4. CASE Pods
  <2>1. PICK r \in Repo : Start(r) \/ PodFails(r) \/ JobSucceeds(r) \/ JobExpires(r)
    BY <1>4 DEF Pods
  <2>2. UNCHANGED <<resource, pc, pass>>
    BY <2>1, PodStep
  <2>3. PICK j : jobs' = [jobs EXCEPT ![r] = j] /\ (j # None => Follows(j, r))
    BY <2>1, PodStep
  <2>4. ASSUME NEW q \in Repo, jobs'[q] # None PROVE Valid(jobs'[q].res)
    <3>1. CASE q = r
      <4>1. jobs'[q] = j
        BY <2>3, <3>1 DEF TypeOK
      <4>. QED BY <2>3, <2>4, <3>1, <4>1 DEF Admitted, Follows
    <3>2. CASE q # r
      <4>1. jobs'[q] = jobs[q]
        BY <2>3, <3>2 DEF TypeOK
      <4>. QED BY <2>4, <4>1 DEF Admitted
    <3>. QED BY <3>1, <3>2
  <2>5. (resource # None => Valid(resource))' /\ (pc # "idle" => Valid(pass.res))'
    BY <2>2 DEF Admitted
  <2>. QED BY <2>4, <2>5 DEF Admitted
<1>5. CASE SyncSecrets \/ IntervalElapses \/ UNCHANGED vars
  BY <1>5 DEF SyncSecrets, IntervalElapses, vars, Admitted, cluster
<1>. QED BY <1>1, <1>2, <1>3, <1>4, <1>5 DEF Next, Users

LEMMA TypedStays == ASSUME TypeOK, Admitted, [Next]_vars PROVE TypeOK'
<1>1. CASE Users
  BY <1>1, UsersTyped
<1>2. CASE SyncSecrets
  BY <1>2 DEF SyncSecrets, TypeOK, cluster, status, history, bounds
<1>3. CASE Reconcile
  BY <1>3, ReconcileTyped
<1>4. CASE IntervalElapses
  BY <1>4 DEF IntervalElapses, TypeOK, cluster, history, bounds
<1>5. CASE Pods
  BY <1>5, PodsTyped
<1>6. CASE UNCHANGED vars
  BY <1>6 DEF vars, TypeOK, cluster, status, history, bounds
<1>. QED BY <1>1, <1>2, <1>3, <1>4, <1>5, <1>6 DEF Next

LEMMA InitTyped == ASSUME Init PROVE TypeOK /\ Admitted
<1>1. jobs \in [Repo -> Job \cup {None}] /\ \A r \in Repo : jobs[r] = None
  BY DEF Init
<1>2. resource = None /\ pc = "idle" /\ secrets \in Secrets /\ cache \in Secrets
  BY DEF Init
<1>3. inventory \subseteq Repo /\ due \in BOOLEAN /\ reason \in Reason
  BY DEF Init, Reason
<1>4. sinceApply \in BOOLEAN /\ sinceDiscovery \in BOOLEAN
  BY DEF Init
<1>5. edits \in 0 .. MaxEdits /\ faults \in 0 .. MaxFaults
  BY ConfigurationAssumption DEF Init
<1>. QED BY <1>1, <1>2, <1>3, <1>4, <1>5 DEF TypeOK, Admitted

(* The type invariant: a pass and a Job always hold a resource that was     *)
(* admitted, and a Job never retries more often than it may (Reconcile,     *)
(* collectionJob).                                                         *)
THEOREM TypeCorrect == Spec => []TypeOK
<1>1. Init => TypeOK /\ Admitted
  BY InitTyped
<1>2. TypeOK /\ Admitted /\ [Next]_vars => (TypeOK /\ Admitted)'
  BY TypedStays, AdmittedStays
<1>. QED BY <1>1, <1>2, PTL DEF Spec

-------------------------------------------------------------------------------
(***************************************************************************)
(* What each party knows as long as nobody edited what it looked at: the    *)
(* inventory is the target's and was listed with the credential there is,   *)
(* a pass has the credential it read, and a Job one that can be used.       *)
(***************************************************************************)
Current(res) == secrets[res.credentialsSecret][CredentialKey(res)]

Listed ==
  inventory # {} /\ ~ sinceDiscovery =>
    resource # None /\ inventory \subseteq Owns[OwnerOf(resource)] /\ Current(resource) = "good"

Reading ==
  pc # "idle" =>
    /\ Usable(pass.value)
    /\ ~ pass.edited => Current(pass.res) = pass.value
    /\ ~ pass.outdated => pass.res = resource
    /\ ~ pass.fresh => pass.inventory = inventory
    /\ pass.inventory # {} /\ ~ pass.unproven =>
         pass.inventory \subseteq Owns[OwnerOf(pass.res)] /\ (pass.edited \/ pass.value = "good")
    /\ pass.fresh => pass.value = "good" /\ ~ pass.unproven

Zero(res) == res.collectLifecycle = "zero" \/ res.collectWorkflows = "zero"

Rendered(r) ==
  jobs[r] # None =>
    /\ ~ jobs[r].edited => Usable(Current(jobs[r].res))
    /\ ~ jobs[r].edited /\ ~ jobs[r].unproven => Current(jobs[r].res) = "good"
    /\ ~ jobs[r].unproven => r \in Owns[OwnerOf(jobs[r].res)]
    /\ jobs[r].exit = "load" => jobs[r].edited \/ Zero(jobs[r].res)
    /\ jobs[r].exit = "auth" => jobs[r].edited \/ jobs[r].unproven

Inv == TypeOK /\ Admitted /\ Listed /\ Reading /\ \A r \in Repo : Rendered(r)

(* Load and New ask for nothing that the rules and the reconciler did not   *)
(* ask for, but for positive durations.                                    *)
LEMMA StartedHolds ==
  ASSUME NEW res \in Resources, Valid(res)
  PROVE  /\ Usable(Current(res)) /\ Started(res) = "load" => Zero(res)
         /\ Current(res) = "good" => Started(res) # "auth"
<1>. DEFINE env == Env(res)
<1>1. res \in Resource
  BY ConfigurationAssumption
<1>2. Target(env) # None
  BY <1>1 DEF Env, Target, Valid, Resource
<1>3. env.collectLifecycle => env.addr
  BY <1>1 DEF Env, Valid, Resource
<1>4. ~ Zero(res) => DurationOk(env.window) /\ DurationOk(env.lookback)
  BY <1>1 DEF Env, Zero, DurationOk, Resource, Setting
<1>5. AppComplete(env) <=> res.authMode = "app"
  BY <1>1 DEF Env, AppComplete, Valid, Resource
<1>6. res.authMode # "app" => env.token = Current(res)
  BY DEF Env, Current
<1>7. Usable(Current(res)) => AppComplete(env) \/ env.token # "empty"
  BY <1>5, <1>6 DEF Usable
<1>8. Current(res) = "good" => Authenticates(env, Current(res))
  BY <1>5, <1>6 DEF Authenticates
<1>9. Usable(Current(res)) /\ ~ Zero(res) => Load(env)
  BY <1>2, <1>3, <1>4, <1>7 DEF Load
<1>. HIDE DEF env
<1>10. Started(res) = IF ~ Load(env) THEN "load"
                      ELSE IF ~ Authenticates(env, Current(res)) THEN "auth" ELSE "none"
  BY DEF Started, Current, env
<1>. QED BY <1>8, <1>9, <1>10

LEMMA TargetIsOwner == ASSUME NEW res PROVE Target(Env(res)) = OwnerOf(res)
BY DEF Target, Env, OwnerOf

(***************************************************************************)
(* Every step keeps it.                                                    *)
(***************************************************************************)
LEMMA InitKnown == ASSUME Init PROVE Inv
<1>1. Listed /\ Reading
  BY DEF Init, Listed, Reading
<1>2. \A r \in Repo : Rendered(r)
  BY DEF Init, Rendered
<1>. QED BY <1>1, <1>2, InitTyped DEF Inv

LEMMA ApplyKnown == ASSUME Inv, NEW res \in Resources, Apply(res)
                    PROVE  (Listed /\ Reading /\ \A r \in Repo : Rendered(r))'
<1>1. sinceDiscovery' /\ UNCHANGED <<secrets, jobs, status, pc>>
  BY DEF Apply
<1>2. Listed'
  BY <1>1 DEF Listed
<1>3. Reading'
  <2>. SUFFICES ASSUME pc # "idle" PROVE Reading'
    BY <1>1 DEF Reading
  <2>1. pass' = [pass EXCEPT !.outdated = TRUE] /\ pass \in Pass
    BY DEF Apply, Inv, TypeOK
  <2>2. /\ pass'.res = pass.res /\ pass'.value = pass.value /\ pass'.inventory = pass.inventory
        /\ pass'.fresh = pass.fresh /\ pass'.edited = pass.edited /\ pass'.outdated
        /\ pass'.unproven = pass.unproven
    BY <2>1 DEF Pass
  <2>3. inventory' = inventory
    BY <1>1 DEF status
  <2>4. Current(pass.res)' = Current(pass.res)
    BY <1>1, <2>2 DEF Current
  <2>. QED BY <1>1, <2>2, <2>3, <2>4 DEF Inv, Reading
<1>4. ASSUME NEW r \in Repo PROVE Rendered(r)'
  BY <1>1 DEF Inv, Rendered, Current
<1>. QED BY <1>2, <1>3, <1>4

LEMMA EditSecretKnown ==
  ASSUME Inv, NEW s \in Secret, NEW k \in Key, NEW v \in Value, EditSecret(s, k, v)
  PROVE  (Listed /\ Reading /\ \A r \in Repo : Rendered(r))'
<1>1. UNCHANGED <<resource, status, pc>> /\ secrets' = [secrets EXCEPT ![s][k] = v]
  BY DEF EditSecret
<1>2. ASSUME NEW res, res.credentialsSecret \in Secret, res.credentialsSecret # s
      PROVE  secrets'[res.credentialsSecret][CredentialKey(res)] = Current(res)
  BY <1>1, <1>2 DEF Inv, TypeOK, Secrets, Current
<1>3. \A res \in Resources : res.credentialsSecret \in Secret
  BY ConfigurationAssumption DEF Resource
<1>4. Listed'
  <2>. SUFFICES ASSUME inventory # {}, ~ sinceDiscovery'
                PROVE  /\ resource # None /\ inventory \subseteq Owns[OwnerOf(resource)]
                       /\ Current(resource)' = "good"
    BY <1>1 DEF Listed, status
  <2>1. ~ sinceDiscovery /\ ~ (resource # None /\ resource.credentialsSecret = s)
    BY DEF EditSecret, Inv, TypeOK
  <2>2. resource # None /\ inventory \subseteq Owns[OwnerOf(resource)] /\ Current(resource) = "good"
    BY <2>1 DEF Inv, Listed
  <2>3. resource \in Resources
    BY <2>2 DEF Inv, TypeOK
  <2>. QED BY <1>1, <1>2, <1>3, <2>1, <2>2, <2>3 DEF Current
<1>5. Reading'
  <2>. SUFFICES ASSUME pc # "idle" PROVE Reading'
    BY <1>1 DEF Reading
  <2>1. pass \in Pass /\ pass' = IF pass.res.credentialsSecret = s
                                 THEN [pass EXCEPT !.edited = TRUE] ELSE pass
    BY DEF EditSecret, Inv, TypeOK
  <2>2. /\ pass'.res = pass.res /\ pass'.value = pass.value /\ pass'.inventory = pass.inventory
        /\ pass'.fresh = pass.fresh /\ pass'.outdated = pass.outdated
        /\ pass'.unproven = pass.unproven /\ (pass.edited => pass'.edited)
        /\ (pass.res.credentialsSecret = s => pass'.edited)
    BY <2>1 DEF Pass
  <2>3. ~ pass'.edited => Current(pass.res)' = pass.value
    <3>. SUFFICES ASSUME ~ pass'.edited PROVE Current(pass.res)' = pass.value
      OBVIOUS
    <3>1. pass.res \in Resources /\ pass.res.credentialsSecret # s /\ Current(pass.res) = pass.value
      BY <2>1, <2>2 DEF Pass, Inv, Reading
    <3>. QED BY <1>2, <1>3, <2>2, <3>1 DEF Current
  <2>4. inventory' = inventory
    BY <1>1 DEF status
  <2>5. Reading
    BY DEF Inv
  <2>. QED BY <1>1, <2>2, <2>3, <2>4, <2>5 DEF Reading, Current
<1>6. ASSUME NEW r \in Repo PROVE Rendered(r)'
  <2>. SUFFICES ASSUME jobs'[r] # None PROVE Rendered(r)'
    BY DEF Rendered
  <2>1. jobs'[r] = IF jobs[r] # None /\ jobs[r].res.credentialsSecret = s
                   THEN [jobs[r] EXCEPT !.edited = TRUE] ELSE jobs[r]
    BY DEF EditSecret
  <2>2. jobs[r] # None /\ jobs[r] \in Job
    BY <2>1 DEF Inv, TypeOK
  <2>3. /\ jobs'[r].res = jobs[r].res /\ jobs'[r].unproven = jobs[r].unproven
        /\ jobs'[r].exit = jobs[r].exit /\ (jobs[r].edited => jobs'[r].edited)
        /\ (jobs[r].res.credentialsSecret = s => jobs'[r].edited)
    BY <2>1, <2>2 DEF Job
  <2>4. ~ jobs'[r].edited =>
          secrets'[jobs[r].res.credentialsSecret][CredentialKey(jobs[r].res)] = Current(jobs[r].res)
    BY <1>2, <1>3, <2>2, <2>3 DEF Job
  <2>5. Rendered(r)
    BY DEF Inv
  <2>. QED BY <2>2, <2>3, <2>4, <2>5 DEF Rendered, Current
<1>. QED BY <1>4, <1>5, <1>6

LEMMA ReconcileKnown == ASSUME Inv, Reconcile
                        PROVE  (Listed /\ Reading /\ \A r \in Repo : Rendered(r))'
<1>. USE DEF Current
<1>1. ASSUME UNCHANGED <<secrets, jobs>> PROVE \A r \in Repo : Rendered(r)'
  BY <1>1 DEF Inv, Rendered
<1>2. ASSUME UNCHANGED <<resource, secrets, inventory, sinceDiscovery>> PROVE Listed'
  BY <1>2 DEF Inv, Listed
<1>3. ASSUME UNCHANGED <<resource, secrets, inventory, pass>>, pc # "idle" PROVE Reading'
  BY <1>3 DEF Inv, Reading
<1>4. CASE Refuse
  <2>1. Reading'
    BY <1>4 DEF Refuse, Reconciles, Reading
  <2>. QED BY <1>1, <1>2, <1>4, <2>1 DEF Refuse, cluster, history
<1>5. CASE Begin
  <2>1. /\ UNCHANGED <<resource, secrets, inventory>>
        /\ pass'.res = resource /\ pass'.value = Credential /\ pass'.inventory = inventory
        /\ pass'.fresh = FALSE /\ pass'.outdated = FALSE /\ pass'.unproven = sinceDiscovery
        /\ pass'.edited = (cache[resource.credentialsSecret] # secrets[resource.credentialsSecret])
    BY <1>5 DEF Begin, cluster, status
  <2>2. Usable(Credential)
    BY <1>5 DEF Begin
  <2>3. ~ pass'.edited => Current(resource) = Credential
    BY <2>1 DEF Credential
  <2>4. Listed
    BY DEF Inv
  <2>5. pass'.inventory # {} /\ ~ pass'.unproven =>
          /\ pass'.inventory \subseteq Owns[OwnerOf(resource)]
          /\ pass'.edited \/ pass'.value = "good"
    BY <2>1, <2>3, <2>4 DEF Listed
  <2>6. Reading'
    BY <2>1, <2>2, <2>3, <2>5 DEF Reading
  <2>. QED BY <1>1, <1>2, <1>5, <2>6 DEF Begin, cluster, status, history
<1>6. CASE ReuseInventory
  <2>1. Reading'
    BY <1>3, <1>6 DEF ReuseInventory, cluster, status
  <2>. QED BY <1>1, <1>2, <1>6, <2>1 DEF ReuseInventory, cluster, status, history
<1>7. CASE Discover
  <2>1. pass \in Pass /\ pc # "idle"
    BY <1>7 DEF Discover, Inv, TypeOK
  <2>2. /\ pass'.res = pass.res /\ pass'.value = pass.value /\ pass'.edited = pass.edited
        /\ pass'.outdated = pass.outdated /\ pass'.fresh = TRUE /\ pass'.unproven = FALSE
        /\ pass'.inventory = Owns[OwnerOf(pass.res)]
    BY <1>7, <2>1 DEF Discover, Pass
  <2>3. Reading'
    BY <1>7, <2>1, <2>2 DEF Discover, Inv, Reading, cluster, Usable
  <2>. QED BY <1>1, <1>2, <1>7, <2>3 DEF Discover, cluster, status, history
<1>8. CASE DiscoveryFails
  <2>1. Reading'
    BY <1>8 DEF DiscoveryFails, Reading
  <2>. QED BY <1>1, <1>2, <1>8, <2>1 DEF DiscoveryFails, cluster, history
<1>9. CASE DispatchJobs
  <2>1. Reading' /\ Listed'
    BY <1>2, <1>3, <1>9 DEF DispatchJobs, status, history
  <2>2. ASSUME NEW r \in Repo, jobs'[r] # None PROVE Rendered(r)'
    <3>1. CASE jobs'[r] = jobs[r]
      BY <1>9, <3>1 DEF DispatchJobs, Inv, Rendered
    <3>2. CASE jobs'[r] # jobs[r]
      <4>1. r \in pass.inventory /\ jobs'[r] = NewJob
        BY <1>9, <3>2 DEF DispatchJobs
      <4>2. Reading /\ pc # "idle" /\ UNCHANGED secrets
        BY <1>9 DEF DispatchJobs, Inv
      <4>3. /\ jobs'[r].res = pass.res /\ jobs'[r].exit = "none" /\ jobs'[r].edited = pass.edited
            /\ jobs'[r].unproven = pass.unproven
        BY <4>1 DEF NewJob
      <4>. QED BY <4>1, <4>2, <4>3 DEF Reading, Rendered
    <3>. QED BY <3>1, <3>2
  <2>3. ASSUME NEW r \in Repo, ~ (jobs'[r] # None) PROVE Rendered(r)'
    BY <2>3 DEF Rendered
  <2>. QED BY <2>1, <2>2, <2>3
<1>10. CASE UpdateStatus
  <2>1. Reading' /\ UNCHANGED <<resource, secrets, jobs>>
    BY <1>10 DEF UpdateStatus, Reading, cluster
  <2>2. CASE pass.outdated
    BY <1>1, <1>2, <1>10, <2>1, <2>2 DEF UpdateStatus, status
  <2>3. CASE ~ pass.outdated
    <3>1. /\ inventory' = pass.inventory
          /\ sinceDiscovery' = IF pass.fresh THEN pass.edited ELSE sinceDiscovery
      BY <1>10, <2>3 DEF UpdateStatus
    <3>2. Reading /\ pc # "idle" /\ pass.res = resource /\ Listed
      BY <1>10, <2>3 DEF UpdateStatus, Inv, Reading
    <3>3. resource # None
      BY <3>2, ConfigurationAssumption DEF Inv, TypeOK, Pass
    <3>4. CASE pass.fresh
      <4>1. Listed'
        BY <2>1, <3>1, <3>2, <3>3, <3>4 DEF Reading, Listed
      <4>. QED BY <1>1, <2>1, <4>1
    <3>5. CASE ~ pass.fresh
      <4>1. inventory' = inventory /\ sinceDiscovery' = sinceDiscovery
        BY <3>1, <3>2, <3>5 DEF Reading
      <4>. QED BY <1>1, <1>2, <2>1, <4>1
    <3>. QED BY <3>4, <3>5
  <2>. QED BY <2>2, <2>3
<1>. QED BY <1>4, <1>5, <1>6, <1>7, <1>8, <1>9, <1>10 DEF Reconcile

LEMMA PodsKnown == ASSUME Inv, Pods PROVE (Listed /\ Reading /\ \A r \in Repo : Rendered(r))'
<1>. USE DEF Current
<1>1. PICK r \in Repo : Start(r) \/ PodFails(r) \/ JobSucceeds(r) \/ JobExpires(r)
  BY DEF Pods
<1>2. UNCHANGED <<resource, secrets, inventory, pc, pass, sinceDiscovery>>
  BY <1>1, PodStep DEF Inv, status, history
<1>3. PICK j : jobs' = [jobs EXCEPT ![r] = j] /\ (j # None => Follows(j, r))
  BY <1>1, PodStep DEF Inv
<1>4. Listed' /\ Reading'
  BY <1>2 DEF Inv, Listed, Reading
<1>5. ASSUME NEW q \in Repo, jobs'[q] # None PROVE Rendered(q)'
  <2>1. CASE q = r
    <3>1. jobs'[q] = j /\ Follows(j, q)
      BY <1>3, <1>5, <2>1 DEF Inv, TypeOK
    <3>2. jobs[q] # None /\ jobs[q].res \in Resources /\ Valid(jobs[q].res)
      BY <3>1 DEF Follows, Inv, TypeOK, Job, Admitted
    <3>3. Rendered(q)
      BY DEF Inv
    <3>4. /\ Usable(Current(jobs[q].res)) /\ Started(jobs[q].res) = "load" => Zero(jobs[q].res)
          /\ Current(jobs[q].res) = "good" => Started(jobs[q].res) # "auth"
      BY <3>2, StartedHolds
    <3>. QED BY <1>2, <3>1, <3>2, <3>3, <3>4 DEF Follows, Rendered
  <2>2. CASE q # r
    <3>1. jobs'[q] = jobs[q]
      BY <1>3, <2>2 DEF Inv, TypeOK
    <3>. QED BY <1>2, <3>1 DEF Inv, Rendered
  <2>. QED BY <2>1, <2>2
<1>6. ASSUME NEW q \in Repo, ~ (jobs'[q] # None) PROVE Rendered(q)'
  BY <1>6 DEF Rendered
<1>. QED BY <1>4, <1>5, <1>6

LEMMA InvStays == ASSUME Inv, [Next]_vars PROVE Inv'
<1>1. (TypeOK /\ Admitted)'
  BY TypedStays, AdmittedStays DEF Inv
<1>2. CASE Users
  BY <1>1, <1>2, ApplyKnown, EditSecretKnown DEF Users, Inv
<1>3. CASE Reconcile
  BY <1>1, <1>3, ReconcileKnown DEF Inv
<1>4. CASE Pods
  BY <1>1, <1>4, PodsKnown DEF Inv
<1>5. CASE SyncSecrets \/ IntervalElapses \/ UNCHANGED vars
  <2>1. UNCHANGED <<resource, secrets, inventory, jobs, pc, pass, sinceDiscovery>>
    BY <1>5 DEF SyncSecrets, IntervalElapses, vars, cluster, status, history
  <2>. QED BY <1>1, <2>1 DEF Inv, Listed, Reading, Rendered, Current
<1>. QED BY <1>2, <1>3, <1>4, <1>5 DEF Next

LEMMA InvExplains == ASSUME Inv PROVE ExitsAreExplained
<1>. SUFFICES ASSUME NEW r \in Repo, jobs[r] # None
              PROVE  /\ jobs[r].exit = "load" => jobs[r].edited \/ Zero(jobs[r].res)
                     /\ jobs[r].exit = "auth" => jobs[r].edited \/ jobs[r].unproven
                     /\ r \notin Owns[Target(Env(jobs[r].res))] => jobs[r].unproven
  BY DEF ExitsAreExplained, Zero
<1>. QED BY TargetIsOwner DEF Inv, Rendered

(* The rules, the webhook, the reconciler and the exporter agree on what a   *)
(* resource needs: a pod that finds its configuration wanting is explained  *)
(* by an edit or a zero duration, and one that collects for the wrong target *)
(* by an inventory from before an edit (config.Load, New, collectionJob).   *)
THEOREM ExitsExplained == Spec => []ExitsAreExplained
<1>1. Init => Inv
  BY InitKnown
<1>2. Inv /\ [Next]_vars => Inv'
  BY InvStays
<1>3. Inv => ExitsAreExplained
  BY InvExplains
<1>. QED BY <1>1, <1>2, <1>3, PTL DEF Spec

-------------------------------------------------------------------------------
(***************************************************************************)
(* Webhook and reconciler.                                                 *)
(***************************************************************************)
(* The webhook has seen the credential of every resource there is.         *)
Seen == Webhook /\ resource # None /\ ~ sinceApply => Current(resource) # "absent"

LEMMA SeenStays == ASSUME TypeOK, Admitted, Seen, [Next]_vars PROVE Seen'
<1>. USE DEF Current
<1>1. ASSUME NEW res \in Resources, Apply(res) PROVE Seen'
  BY <1>1, ValidNames DEF Apply, Validate, Seen
<1>2. ASSUME NEW s \in Secret, NEW k \in Key, NEW v \in Value, EditSecret(s, k, v)
      PROVE  Seen'
  <2>1. resource' = resource /\ secrets' = [secrets EXCEPT ![s][k] = v]
        /\ sinceApply' = (sinceApply \/ (resource # None /\ resource.credentialsSecret = s))
    BY <1>2 DEF EditSecret
  <2>. SUFFICES ASSUME Webhook, resource # None, ~ sinceApply' PROVE Current(resource)' # "absent"
    BY <2>1 DEF Seen
  <2>2. Current(resource) # "absent" /\ resource.credentialsSecret # s
    BY <2>1 DEF Seen, TypeOK
  <2>3. resource.credentialsSecret \in Secret
    BY ValidNames DEF TypeOK, Admitted
  <2>. QED BY <2>1, <2>2, <2>3 DEF TypeOK, Secrets
<1>3. CASE Reconcile \/ SyncSecrets \/ IntervalElapses \/ UNCHANGED vars
  <2>1. UNCHANGED <<resource, secrets, sinceApply>>
    BY <1>3 DEF Reconcile, Refuse, Begin, ReuseInventory, Discover, DiscoveryFails, DispatchJobs,
                UpdateStatus, SyncSecrets, IntervalElapses, vars, cluster, history
  <2>. QED BY <2>1 DEF Seen
<1>4. CASE Pods
  <2>1. UNCHANGED <<resource, secrets, sinceApply>>
    BY <1>4, PodStep DEF Pods, history
  <2>. QED BY <2>1 DEF Seen
<1>. QED BY <1>1, <1>2, <1>3, <1>4 DEF Next, Users

(* A resource that the webhook admitted is refused by the reconciler only   *)
(* for news: an edit, an empty value or a cache that is behind              *)
(* (validateCredentialsSecret, loadSecret, githubAuth).                    *)
THEOREM RefusedForNews == Spec => RefusalsAreNews
<1>1. Init => TypeOK /\ Admitted /\ Seen
  BY InitTyped DEF Init, Seen
<1>2. TypeOK /\ Admitted /\ Seen /\ [Next]_vars => (TypeOK /\ Admitted /\ Seen)'
  BY TypedStays, AdmittedStays, SeenStays
<1>3. ASSUME Seen, TypeOK
      PROVE  Refuse /\ Webhook => sinceApply \/ Credential = "empty" \/ cache # secrets
  <2>. SUFFICES ASSUME Refuse, Webhook, ~ sinceApply, cache = secrets PROVE Credential = "empty"
    BY <1>3 DEF TypeOK
  <2>1. Credential = Current(resource) /\ resource # None
    BY DEF Refuse, Reconciles, Credential, Current
  <2>2. Credential # "absent"
    BY <1>3, <2>1 DEF Seen
  <2>. QED BY <2>2 DEF Refuse, Usable
<1>4. TypeOK /\ Admitted /\ Seen /\ [Next]_vars =>
        [Refuse /\ Webhook => sinceApply \/ Credential = "empty" \/ cache # secrets]_vars
  BY <1>3
<1>. QED BY <1>1, <1>2, <1>4, PTL DEF Spec, RefusalsAreNews
===============================================================================
