---------------------------- MODULE DispatchProofs ----------------------------
(***************************************************************************)
(* What holds of Dispatch and DispatchCycles for every set of repositories, *)
(* every list a discovery may return and every setting of the parameters.  *)
(***************************************************************************)
EXTENDS DispatchCycles, FiniteSetTheorems, SequenceTheorems, TLAPS

-------------------------------------------------------------------------------
(***************************************************************************)
(* Type correctness.                                                       *)
(***************************************************************************)

(* Ending a pass leaves its local variables well typed. *)
LEMMA ConcludeType ==
  ASSUME NEW p \in Pass, NEW reason \in Reason, NEW wait \in 0 .. Interval,
         Conclude(p, reason, wait)
  PROVE  pc' \in PC /\ pass' \in Pass
<1> DEFINE s == [p.status EXCEPT !.reason = reason, !.observed = TRUE]
<1>1. s \in Status
  BY DEF Pass, Status
<1>2. << >> \in Seq(Repo)
  OBVIOUS
<1>3. [p EXCEPT !.status = s, !.requeue = wait, !.seen = {}, !.active = 0, !.todo = << >>] \in Pass
  BY <1>1, <1>2 DEF Pass
<1>4. pass' = [p EXCEPT !.status = s, !.requeue = wait, !.seen = {}, !.active = 0, !.todo = << >>]
  BY DEF Conclude, Pass
<1> QED
  BY <1>3, <1>4 DEF Conclude, PC

(* The number of Jobs a reader counts as running is a number. *)
LEMMA RunningFinite ==
  ASSUME NEW jobs
  PROVE  IsFiniteSet(Running(jobs)) /\ Cardinality(Running(jobs)) \in Nat
<1>1. IsFiniteSet(Repo)
  BY DispatchAssumption
<1>2. Running(jobs) \subseteq Repo
  BY DEF Running
<1>3. IsFiniteSet(Running(jobs))
  BY <1>1, <1>2, FS_Subset
<1> QED
  BY <1>3, FS_CardinalityType

(* Time changes ages and countdowns within their ranges. *)
LEMMA OlderType == ASSUME NEW s \in Status PROVE Older(s) \in Status
BY DispatchAssumption DEF Older, Status

(* The initial status and the locals between passes are well typed. *)
LEMMA EmptyStatusType == EmptyStatus \in Status /\ NoPass \in Pass
BY DispatchAssumption DEF EmptyStatus, NoPass, Status, Pass, Reason

(* Storing a Job's phase and announcing it. *)
LEMMA PublishType ==
  ASSUME TypeOK, NEW r \in Repo, NEW p \in Phase, Publish(r, p)
  PROVE  phase' \in [Repo -> Phase] /\ watch' \in Seq(JobEvent)
BY DEF TypeOK, Publish, JobEvent

(* The operator starts well typed. *)
LEMMA InitType == Init => TypeOK
BY DispatchAssumption, EmptyStatusType
DEF Init, TypeOK, Phase, PC, NoRequeue

(* Every step of a reconcile pass preserves the type invariant. *)
LEMMA ReconcileType == TypeOK /\ Reconcile => TypeOK'
<1> SUFFICES ASSUME TypeOK, Reconcile PROVE TypeOK'
  OBVIOUS
<1> USE DispatchAssumption
<1>1. CASE Begin
  <2> DEFINE p == [NoPass EXCEPT !.status = view, !.current = viewCurrent]
  <2>1. p \in Pass
    BY EmptyStatusType DEF NoPass, Pass, TypeOK
  <2>2. pc' \in PC /\ pass' \in Pass
    <3>1. CASE pc' = "gate" /\ pass' = p
      BY <3>1, <2>1 DEF PC
    <3>2. CASE Conclude(p, "CredentialsInvalid", Soon)
      BY <3>2, <2>1, ConcludeType DEF Reason, Soon
    <3> QED
      BY <1>1, <3>1, <3>2 DEF Begin
  <2> QED
    BY <1>1, <2>2 DEF Begin, TypeOK, apiVars, cacheVars
<1>2. CASE BudgetLow
  <2>1. pc' \in PC /\ pass' \in Pass
    BY <1>2, ConcludeType DEF BudgetLow, TypeOK, Reason
  <2> QED
    BY <1>2, <2>1 DEF BudgetLow, TypeOK, apiVars, cacheVars, Fault
<1>3. CASE ReuseInventory
  BY <1>3 DEF ReuseInventory, TypeOK, apiVars, cacheVars, PC
<1>4. ASSUME NEW l \in Listings, DiscoverRepos(l) PROVE TypeOK'
  <2> DEFINE s == [pass.status EXCEPT !.inventory = l, !.age = 0]
  <2>1. pass' \in Pass
    <3>1. s \in Status /\ pass \in Pass
      <4>1. l \in Seq(Repo) /\ 0 \in 0 .. Interval
        OBVIOUS
      <4>2. pass.status \in Status /\ pass \in Pass
        BY DEF TypeOK, Pass
      <4> QED
        BY <4>1, <4>2 DEF Status
    <3>2. pass' = [pass EXCEPT !.status = s, !.discovered = TRUE]
      BY <1>4, <3>1 DEF DiscoverRepos, Pass
    <3> QED
      BY <3>1, <3>2 DEF Pass
  <2> QED
    BY <1>4, <2>1 DEF DiscoverRepos, TypeOK, apiVars, cacheVars, PC
<1>5. CASE DiscoveryFails
  <2>1. pc' \in PC /\ pass' \in Pass
    BY <1>5, ConcludeType DEF DiscoveryFails, TypeOK, Reason, Soon
  <2> QED
    BY <1>5, <2>1 DEF DiscoveryFails, TypeOK, apiVars, cacheVars, Fault
<1>6. CASE ListJobs
  <2>1. pass' \in Pass
    BY <1>6, RunningFinite DEF ListJobs, TypeOK, Pass, Status
  <2> QED
    BY <1>6, <2>1 DEF ListJobs, TypeOK, apiVars, cacheVars, PC
<1>7. CASE AllDispatched
  <2>1. pc' \in PC /\ pass' \in Pass
    BY <1>7, ConcludeType DEF AllDispatched, TypeOK, Reason
  <2> QED
    BY <1>7, <2>1 DEF AllDispatched, TypeOK, apiVars, cacheVars
<1>8. CASE DispatchFails
  <2>1. pc' \in PC /\ pass' \in Pass
    BY <1>8, ConcludeType DEF DispatchFails, TypeOK, Reason, Soon
  <2> QED
    BY <1>8, <2>1 DEF DispatchFails, TypeOK, apiVars, cacheVars, Fault
<1>9. pass.todo # << >> => NextRepo \in Pass
  <2>1. pass \in Pass /\ pass.todo \in Seq(Repo)
    BY DEF TypeOK, Pass
  <2>2. pass.todo # << >> => Tail(pass.todo) \in Seq(Repo)
    BY <2>1
  <2> QED
    BY <2>1, <2>2 DEF NextRepo, Pass
<1>10. ASSUME NEW r \in Repo, SkipExisting(r) \/ AlreadyExists(r) PROVE TypeOK'
  <2>1. pass' \in Pass
    BY <1>9, <1>10 DEF SkipExisting, AlreadyExists, AtRepo
  <2> QED
    BY <1>10, <2>1 DEF SkipExisting, AlreadyExists, TypeOK, apiVars, cacheVars
<1>11. ASSUME NEW r \in Repo, CapReached(r) PROVE TypeOK'
  <2>1. pc' \in PC /\ pass' \in Pass
    BY <1>11, ConcludeType DEF CapReached, TypeOK, Reason, Soon
  <2> QED
    BY <1>11, <2>1 DEF CapReached, TypeOK, apiVars, cacheVars
<1>12. ASSUME NEW r \in Repo, CreateJob(r) PROVE TypeOK'
  <2>1. pass' \in Pass
    <3>1. NextRepo \in Pass /\ pass' = [NextRepo EXCEPT !.active = @ + 1]
      BY <1>9, <1>12 DEF CreateJob, AtRepo
    <3>2. NextRepo.active + 1 \in Nat
      BY <3>1 DEF Pass
    <3> QED
      BY <3>1, <3>2 DEF Pass
  <2>2. phase' \in [Repo -> Phase] /\ watch' \in Seq(JobEvent)
    BY <1>12, PublishType DEF CreateJob, Phase
  <2> QED
    BY <1>12, <2>1, <2>2 DEF CreateJob, TypeOK
<1>13. CASE UpdateStatus
  <2>1. status' \in Status /\ viewCurrent' \in BOOLEAN
    BY <1>13 DEF UpdateStatus, TypeOK, Pass
  <2>2. timer' \in 0 .. NoRequeue
    BY <1>13 DEF UpdateStatus, TypeOK, Pass, Sooner, NoRequeue
  <2> QED
    BY <1>13, <2>1, <2>2, EmptyStatusType DEF UpdateStatus, TypeOK, PC
<1>14. CASE UpdateFails
  BY <1>14, EmptyStatusType
  DEF UpdateFails, TypeOK, PC, Fault, apiVars, cacheVars, Soon, NoRequeue
<1> QED
  BY <1>1, <1>2, <1>3, <1>4, <1>5, <1>6, <1>7, <1>8, <1>10, <1>11, <1>12,
     <1>13, <1>14
  DEF Reconcile, Discover, DispatchLoop

(* So does every step of the caches, the cluster and time. *)
LEMMA EnvironmentType == TypeOK /\ (Caches \/ Cluster \/ Tick) => TypeOK'
<1> SUFFICES ASSUME TypeOK, Caches \/ Cluster \/ Tick PROVE TypeOK'
  OBVIOUS
<1> USE DispatchAssumption
<1>1. CASE DeliverJobEvent
  <2>1. Head(watch) \in JobEvent /\ Tail(watch) \in Seq(JobEvent)
    BY <1>1 DEF DeliverJobEvent, TypeOK
  <2>2. cache' \in [Repo -> Phase]
    BY <1>1, <2>1 DEF DeliverJobEvent, TypeOK, JobEvent
  <2> QED
    BY <1>1, <2>1, <2>2 DEF DeliverJobEvent, TypeOK, apiVars
<1>2. CASE SyncView
  BY <1>2 DEF SyncView, TypeOK, apiVars
<1>3. CASE RequeueFires
  BY <1>3 DEF RequeueFires, TypeOK, apiVars, cacheVars, NoRequeue
<1>4. CASE Restart
  BY <1>4, EmptyStatusType DEF Restart, TypeOK, apiVars, Fault, PC, NoRequeue
<1>5. CASE SecretBreaks \/ SecretRepaired
  <2>1. secret' \in BOOLEAN
    BY <1>5 DEF SecretBreaks, SecretRepaired
  <2>2. faults' \in 0 .. MaxFaults
    BY <1>5 DEF SecretBreaks, SecretRepaired, TypeOK, Fault
  <2> QED
    BY <1>5, <2>1, <2>2 DEF SecretBreaks, SecretRepaired, TypeOK, cacheVars, opVars
<1>6. CASE SpecEdited
  <2>1. status' \in Status
    BY <1>6 DEF SpecEdited, TypeOK, Status
  <2>2. pass' \in Pass
    <3>1. pass \in Pass /\ pass' = [pass EXCEPT !.current = FALSE]
      BY <1>6 DEF SpecEdited, TypeOK
    <3> QED
      BY <3>1 DEF Pass
  <2> QED
    <3>1. faults' \in 0 .. MaxFaults
      BY <1>6 DEF SpecEdited, TypeOK, Fault
    <3>2. viewCurrent' \in BOOLEAN
      BY <1>6 DEF SpecEdited
    <3> QED
      BY <1>6, <2>1, <2>2, <3>1, <3>2 DEF SpecEdited, TypeOK
<1>7. ASSUME NEW r \in Repo, PodFails(r) \/ JobFinishes(r) \/ JobExpires(r)
      PROVE  TypeOK'
  <2>1. phase' \in [Repo -> Phase] /\ watch' \in Seq(JobEvent)
    BY <1>7, PublishType DEF PodFails, JobFinishes, JobExpires, Phase
  <2>2. ttl' \in [Repo -> 0 .. TTL]
    <3>1. TTL \in 0 .. TTL /\ ttl \in [Repo -> 0 .. TTL]
      BY DEF TypeOK
    <3>2. ttl' = ttl \/ ttl' = [ttl EXCEPT ![r] = TTL]
      BY <1>7 DEF PodFails, JobFinishes, JobExpires
    <3> QED
      BY <3>1, <3>2
  <2> QED
    BY <1>7, <2>1, <2>2 DEF PodFails, JobFinishes, JobExpires, TypeOK, opVars
<1>8. CASE Tick
  <2>1. status' \in Status /\ view' \in Status
    BY <1>8, OlderType DEF Tick, TypeOK
  <2>2. pass' \in Pass
    <3>1. pass.status \in Status /\ Older(pass.status) \in Status
      BY OlderType DEF TypeOK, Pass
    <3>2. CASE pc = "idle"
      BY <1>8, <3>2 DEF Tick, TypeOK
    <3>3. CASE pc # "idle"
      <4>1. pass' = [pass EXCEPT !.status = Older(pass.status), !.ticks = pass.ticks + 1]
        BY <1>8, <3>3 DEF Tick
      <4>2. pass \in Pass /\ pass.ticks + 1 \in 0 .. MaxPass
        BY <1>8, <3>3 DEF Tick, TypeOK, Pass
      <4> QED
        BY <3>1, <4>1, <4>2 DEF Pass
    <3> QED
      BY <3>2, <3>3
  <2>3. ttl' \in [Repo -> 0 .. TTL] /\ timer' \in 0 .. NoRequeue
    BY <1>8 DEF Tick, TypeOK, NoRequeue
  <2> QED
    BY <1>8, <2>1, <2>2, <2>3 DEF Tick, TypeOK
<1> QED
  BY <1>1, <1>2, <1>3, <1>4, <1>5, <1>6, <1>7, <1>8 DEF Caches, Cluster

(* A step that changes nothing keeps the types. *)
LEMMA StutterType == TypeOK /\ UNCHANGED vars => TypeOK'
BY DEF TypeOK, vars, apiVars, cacheVars, opVars

(* Every variable of the operator and of what it talks to keeps its type;   *)
(* in particular the pass never asks for a requeue later than the interval *)
(* and its active count is a number.                                       *)
THEOREM TypeCorrect == Spec => []TypeOK
<1>1. Init => TypeOK
  BY InitType
<1>2. TypeOK /\ [Next]_vars => TypeOK'
  BY ReconcileType, EnvironmentType, StutterType DEF Next
<1> QED
  BY <1>1, <1>2, PTL DEF Spec

-------------------------------------------------------------------------------
(***************************************************************************)
(* A status write never goes back in time.  The cached resource is as old   *)
(* as the stored one when it is current, and a pass whose version is still  *)
(* the latest knows nothing older than the stored status.                  *)
(***************************************************************************)
AgesAgree ==
  /\ viewCurrent => view.age = status.age
  /\ pc # "idle" /\ pass.current => pass.status.age <= status.age

(* What concluding a pass leaves of its local variables. *)
LEMMA ConcludeKeeps ==
  ASSUME NEW p \in Pass, NEW reason, NEW wait, Conclude(p, reason, wait)
  PROVE  /\ pc' = "update"
         /\ pass'.current = p.current
         /\ pass'.status.age = p.status.age
         /\ pass'.status.inventory = p.status.inventory
         /\ pass'.status.reason = reason
         /\ pass'.requeue = wait
BY DEF Conclude, Pass, Status

(* Both of two ages grow with time, and in step. *)
LEMMA OlderAge ==
  ASSUME NEW s \in Status, NEW t \in Status, s.age <= t.age
  PROVE  Older(s).age <= Older(t).age
BY DispatchAssumption DEF Older, Status

(* Every step keeps the ages of the three statuses in order. *)
LEMMA AgesAgreeStep == TypeOK /\ AgesAgree /\ [Next]_vars => AgesAgree'
<1> SUFFICES ASSUME TypeOK, AgesAgree, [Next]_vars PROVE AgesAgree'
  OBVIOUS
<1> USE DispatchAssumption
<1>0. pass \in Pass /\ status \in Status /\ view \in Status /\ pass.status \in Status
  BY DEF TypeOK, Pass
<1>1. CASE Begin
  <2> DEFINE p == [NoPass EXCEPT !.status = view, !.current = viewCurrent]
  <2>1. p \in Pass /\ p.current = viewCurrent /\ p.status = view
    BY EmptyStatusType DEF NoPass, Pass, TypeOK
  <2>2. pass'.current = viewCurrent /\ pass'.status.age = view.age
    BY <1>1, <2>1, ConcludeKeeps DEF Begin
  <2> QED
    BY <1>0, <1>1, <2>2 DEF Begin, AgesAgree, apiVars, cacheVars, Status
<1>2. CASE \E reason, wait : Conclude(pass, reason, wait) /\ pc # "idle"
                            /\ UNCHANGED <<apiVars, cacheVars>>
  BY <1>0, <1>2, ConcludeKeeps DEF AgesAgree, apiVars, cacheVars
<1>3. CASE pass'.status = pass.status /\ pass'.current = pass.current /\ pc # "idle"
           /\ UNCHANGED <<apiVars, cacheVars>>
  BY <1>3 DEF AgesAgree, apiVars, cacheVars
<1>4. ASSUME NEW l \in Listings, DiscoverRepos(l) PROVE AgesAgree'
  <2>1. pass'.status.age = 0 /\ pass'.current = pass.current
    BY <1>0, <1>4 DEF DiscoverRepos, Pass, Status
  <2>2. status.age \in 0 .. Interval
    BY <1>0 DEF Status
  <2> QED
    BY <1>4, <2>1, <2>2 DEF DiscoverRepos, AgesAgree, apiVars, cacheVars
<1>5. CASE UNCHANGED <<status, view, viewCurrent, pc, pass>>
  BY <1>5 DEF AgesAgree
<1>6. ASSUME NEW r \in Repo, CreateJob(r) PROVE AgesAgree'
  BY <1>0, <1>6 DEF CreateJob, NextRepo, AtRepo, AgesAgree, Pass
<1>7. CASE UpdateStatus
  BY <1>7 DEF UpdateStatus, AgesAgree
<1>8. CASE UpdateFails
  BY <1>8 DEF UpdateFails, AgesAgree, apiVars, cacheVars
<1>9. CASE SyncView
  BY <1>0, <1>9 DEF SyncView, AgesAgree, apiVars
<1>10. CASE Restart
  BY <1>10 DEF Restart, AgesAgree, apiVars
<1>11. CASE SpecEdited
  <2>1. pass'.current = FALSE
    BY <1>0, <1>11 DEF SpecEdited, Pass
  <2> QED
    BY <1>11, <2>1 DEF SpecEdited, AgesAgree
<1>12. CASE Tick
  <2>1. viewCurrent => view'.age = status'.age
    BY <1>0, <1>12 DEF Tick, AgesAgree, Older, Status
  <2>2. pc # "idle" => pass'.current = pass.current /\ pass'.status = Older(pass.status)
    BY <1>0, <1>12 DEF Tick, Pass
  <2> QED
    BY <1>0, <1>12, <2>1, <2>2, OlderAge DEF Tick, AgesAgree
<1> QED
  <2>1. CASE BudgetLow \/ DiscoveryFails \/ DispatchFails \/ AllDispatched
             \/ \E r \in Repo : CapReached(r)
    BY <1>2, <2>1
    DEF BudgetLow, DiscoveryFails, DispatchFails, AllDispatched, CapReached, AtRepo
  <2>2. CASE ReuseInventory \/ ListJobs \/ \E r \in Repo : SkipExisting(r) \/ AlreadyExists(r)
    <3>1. pass'.status = pass.status /\ pass'.current = pass.current
      BY <1>0, <2>2
      DEF ReuseInventory, ListJobs, SkipExisting, AlreadyExists, NextRepo, Pass
    <3> QED
      BY <1>3, <2>2, <3>1
      DEF ReuseInventory, ListJobs, SkipExisting, AlreadyExists, AtRepo
  <2>3. CASE DeliverJobEvent \/ RequeueFires \/ SecretBreaks \/ SecretRepaired
             \/ (\E r \in Repo : PodFails(r) \/ JobFinishes(r) \/ JobExpires(r))
             \/ UNCHANGED vars
    BY <1>5, <2>3
    DEF DeliverJobEvent, RequeueFires, SecretBreaks, SecretRepaired, PodFails,
        JobFinishes, JobExpires, vars, apiVars, cacheVars, opVars
  <2> QED
    BY <1>1, <1>4, <1>6, <1>7, <1>8, <1>9, <1>10, <1>11, <1>12, <2>1, <2>2, <2>3
    DEF Next, Reconcile, Discover, DispatchLoop, Caches, Cluster

(* A pass never moves the stored lastDiscoveryTime back, whatever it read   *)
(* and whenever it was interrupted: optimistic concurrency refuses the     *)
(* write of every pass that has missed an update.                          *)
THEOREM NoRollback == Spec => StatusNeverRollsBack
<1>1. Init => AgesAgree
  BY DEF Init, AgesAgree
<1>2. TypeOK /\ AgesAgree /\ [Next]_vars
      => [pc = "update" /\ pc' = "idle" => status'.age <= status.age]_vars
  <2> SUFFICES ASSUME TypeOK, AgesAgree, Next, pc = "update", pc' = "idle"
               PROVE  status'.age <= status.age
    OBVIOUS
  <2>1. status.age \in Int
    BY DEF TypeOK, Status
  <2>2. CASE UpdateStatus
    BY <2>2 DEF UpdateStatus, AgesAgree
  <2>3. CASE UpdateFails \/ Restart
    BY <2>1, <2>3 DEF UpdateFails, Restart, apiVars
  <2>4. ~(BudgetLow \/ Discover \/ ListJobs \/ DispatchLoop \/ Begin)
    BY DEF BudgetLow, Discover, ReuseInventory, DiscoveryFails, DiscoverRepos, ListJobs,
           DispatchLoop, AllDispatched, DispatchFails, SkipExisting, CapReached,
           CreateJob, AlreadyExists, AtRepo, Begin
  <2>5. ~(DeliverJobEvent \/ SyncView \/ RequeueFires \/ Cluster \/ Tick)
    BY DEF DeliverJobEvent, SyncView, RequeueFires, Cluster, SecretBreaks,
           SecretRepaired, SpecEdited, PodFails, JobFinishes, JobExpires, Tick, opVars
  <2> QED
    BY <2>2, <2>3, <2>4, <2>5 DEF Next, Reconcile, Caches
<1> QED
  BY <1>1, <1>2, AgesAgreeStep, TypeCorrect, PTL DEF Spec, StatusNeverRollsBack

-------------------------------------------------------------------------------
(***************************************************************************)
(* The parallelism cap, as the reconciler counts.  A running Job that the   *)
(* cache does not show as such has an event on its way, so the count a pass *)
(* starts from is short by no more than the events the cache is behind, and *)
(* right when it is up to date; from then on only the pass itself adds      *)
(* running Jobs, and it counts each one.                                   *)
(***************************************************************************)

(* Events explain every difference between a Job and its cached copy. *)
WatchExplains ==
  /\ \A r \in Repo :
       (\A i \in 1 .. Len(watch) : watch[i].repo # r) => cache[r] = phase[r]
  /\ \A i \in 1 .. Len(watch) :
       (\A j \in 1 .. Len(watch) : j > i => watch[j].repo # watch[i].repo)
         => watch[i].phase = phase[watch[i].repo]

CapInv ==
  /\ WatchExplains /\ Len(watch) <= MaxLag
  /\ OvershootWithinLag
  /\ pc = "dispatch" => Cardinality(Running(phase)) <= pass.active + MaxLag

(* A Job event announces what the API server now stores. *)
LEMMA PublishExplains ==
  ASSUME TypeOK, WatchExplains, cache' = cache, NEW r \in Repo, NEW p \in Phase,
         Publish(r, p)
  PROVE  WatchExplains'
<1> DEFINE e == [repo |-> r, phase |-> p]
           n == Len(watch)
<1>1. /\ watch \in Seq(JobEvent) /\ n \in Nat /\ e \in JobEvent
      /\ watch' = Append(watch, e)
  BY DEF TypeOK, Publish, JobEvent
<1>2. /\ Len(watch') = n + 1
      /\ watch'[n + 1] = e
      /\ \A i \in 1 .. n : watch'[i] = watch[i] /\ watch[i].repo \in Repo
  <2>1. Len(watch') = n + 1 /\ watch'[n + 1] = e
    BY <1>1
  <2>2. ASSUME NEW i \in 1 .. n PROVE watch'[i] = watch[i] /\ watch[i] \in JobEvent
    BY <1>1
  <2>3. \A x \in JobEvent : x.repo \in Repo
    BY DEF JobEvent
  <2> QED
    BY <2>1, <2>2, <2>3
<1>3. /\ phase'[r] = p
      /\ \A q \in Repo : q # r => phase'[q] = phase[q]
  BY DEF TypeOK, Publish
<1>4. ASSUME NEW q \in Repo, \A i \in 1 .. n + 1 : watch'[i].repo # q
      PROVE  cache'[q] = phase'[q]
  <2>1. q # r /\ \A i \in 1 .. n : watch[i].repo # q
    BY <1>1, <1>2, <1>4
  <2> QED
    BY <1>3, <2>1 DEF WatchExplains
<1>5. ASSUME NEW i \in 1 .. n + 1,
             \A j \in 1 .. n + 1 : j > i => watch'[j].repo # watch'[i].repo
      PROVE  watch'[i].phase = phase'[watch'[i].repo]
  <2>1. CASE i = n + 1
    BY <1>2, <1>3, <2>1
  <2>2. CASE i \in 1 .. n
    <3>1. watch[i].repo # r
      BY <1>1, <1>2, <1>5, <2>2
    <3>2. \A j \in 1 .. n : j > i => watch[j].repo # watch[i].repo
      BY <1>1, <1>2, <1>5, <2>2
    <3>3. watch[i].phase = phase[watch[i].repo]
      BY <2>2, <3>2 DEF WatchExplains
    <3> QED
      BY <1>2, <1>3, <2>2, <3>1, <3>3
  <2> QED
    BY <1>1, <2>1, <2>2
<1> QED
  BY <1>2, <1>4, <1>5 DEF WatchExplains

(* An event that reaches the cache takes its explanation with it. *)
LEMMA DeliverExplains == TypeOK /\ WatchExplains /\ DeliverJobEvent => WatchExplains'
<1> SUFFICES ASSUME TypeOK, WatchExplains, DeliverJobEvent PROVE WatchExplains'
  OBVIOUS
<1> DEFINE n == Len(watch)
           h == watch[1]
<1>1. /\ watch \in Seq(JobEvent) /\ n \in Nat \ {0}
      /\ h \in JobEvent /\ h = Head(watch)
      /\ watch' = Tail(watch) /\ phase' = phase
  BY DEF TypeOK, DeliverJobEvent, apiVars
<1>2. /\ Len(watch') = n - 1
      /\ \A i \in 1 .. n - 1 : watch'[i] = watch[i + 1]
  BY <1>1
<1>3. /\ cache'[h.repo] = h.phase
      /\ \A q \in Repo : q # h.repo => cache'[q] = cache[q]
  BY <1>1 DEF TypeOK, DeliverJobEvent, JobEvent
<1>4. ASSUME NEW q \in Repo, \A i \in 1 .. n - 1 : watch'[i].repo # q
      PROVE  cache'[q] = phase'[q]
  <2>1. \A j \in 2 .. n : watch[j].repo # q
    <3> SUFFICES ASSUME NEW j \in 2 .. n PROVE watch[j].repo # q
      OBVIOUS
    <3>1. j - 1 \in 1 .. n - 1 /\ watch'[j - 1] = watch[j]
      BY <1>1, <1>2
    <3> QED
      BY <1>4, <3>1
  <2>2. CASE q = h.repo
    BY <1>1, <1>3, <2>1, <2>2 DEF WatchExplains
  <2>3. CASE q # h.repo
    BY <1>1, <1>3, <2>1, <2>3 DEF WatchExplains
  <2> QED
    BY <2>2, <2>3
<1>5. ASSUME NEW i \in 1 .. n - 1,
             \A j \in 1 .. n - 1 : j > i => watch'[j].repo # watch'[i].repo
      PROVE  watch'[i].phase = phase'[watch'[i].repo]
  <2>1. ASSUME NEW k \in 1 .. n, k > i + 1 PROVE watch[k].repo # watch[i + 1].repo
    <3>1. k - 1 \in 1 .. n - 1 /\ k - 1 > i
      BY <1>1, <2>1
    <3>2. watch'[k - 1] = watch[k] /\ watch'[i] = watch[i + 1]
      BY <1>1, <1>2, <3>1
    <3> QED
      BY <1>5, <3>1, <3>2
  <2>2. i + 1 \in 1 .. n
    BY <1>1
  <2>3. watch[i + 1].phase = phase[watch[i + 1].repo]
    BY <2>1, <2>2 DEF WatchExplains
  <2> QED
    BY <1>1, <1>2, <2>3
<1> QED
  BY <1>2, <1>4, <1>5 DEF WatchExplains

(* Every step keeps the cache explained by the events on their way. *)
LEMMA ExplainsStep == TypeOK /\ WatchExplains /\ [Next]_vars => WatchExplains'
<1> SUFFICES ASSUME TypeOK, WatchExplains, [Next]_vars PROVE WatchExplains'
  OBVIOUS
<1>1. CASE UNCHANGED <<phase, cache, watch>>
  BY <1>1 DEF WatchExplains
<1>2. ASSUME NEW r \in Repo, NEW p \in Phase, Publish(r, p), cache' = cache
      PROVE  WatchExplains'
  BY <1>2, PublishExplains
<1>3. CASE DeliverJobEvent
  BY <1>3, DeliverExplains
<1>4. CASE Restart
  <2>1. cache' = phase' /\ watch' = << >>
    BY <1>4 DEF Restart, apiVars
  <2> QED
    BY <2>1 DEF WatchExplains
<1>5. ASSUME NEW r \in Repo, CreateJob(r) \/ PodFails(r) \/ JobFinishes(r) \/ JobExpires(r)
      PROVE  WatchExplains'
  BY <1>2, <1>5 DEF CreateJob, PodFails, JobFinishes, JobExpires, Phase
<1>6. CASE Reconcile /\ ~ \E r \in Repo : CreateJob(r)
  BY <1>1, <1>6
  DEF Reconcile, Begin, BudgetLow, Discover, ReuseInventory, DiscoveryFails,
      DiscoverRepos, ListJobs, DispatchLoop, AllDispatched, DispatchFails,
      SkipExisting, CapReached, AlreadyExists, UpdateStatus, UpdateFails,
      apiVars, cacheVars
<1>7. CASE SyncView \/ RequeueFires \/ SecretBreaks \/ SecretRepaired \/ SpecEdited
           \/ Tick \/ UNCHANGED vars
  BY <1>1, <1>7
  DEF SyncView, RequeueFires, SecretBreaks, SecretRepaired, SpecEdited, Tick,
      vars, apiVars, cacheVars
<1> QED
  BY <1>3, <1>4, <1>5, <1>6, <1>7 DEF Next, Reconcile, DispatchLoop, Caches, Cluster

(* There are never more events on their way than MaxLag. *)
LEMMA LagStep == TypeOK /\ Len(watch) <= MaxLag /\ [Next]_vars => Len(watch') <= MaxLag
<1> SUFFICES ASSUME TypeOK, Len(watch) <= MaxLag, [Next]_vars PROVE Len(watch') <= MaxLag
  OBVIOUS
<1>1. watch \in Seq(JobEvent) /\ Len(watch) \in Nat /\ MaxLag \in Nat
  BY DispatchAssumption DEF TypeOK
<1>2. ASSUME NEW r \in Repo, NEW p \in Phase, Publish(r, p) PROVE Len(watch') <= MaxLag
  <2>1. Len(watch) < MaxLag /\ Len(watch') = Len(watch) + 1
    BY <1>1, <1>2 DEF Publish, JobEvent
  <2> QED
    BY <1>1, <2>1
<1>3. CASE UNCHANGED watch
  BY <1>3
<1>4. CASE DeliverJobEvent
  <2>1. Len(watch') = Len(watch) - 1
    BY <1>1, <1>4 DEF DeliverJobEvent
  <2> QED
    BY <1>1, <2>1
<1>5. CASE Restart
  BY <1>1, <1>5 DEF Restart
<1>6. ASSUME NEW r \in Repo, CreateJob(r) \/ PodFails(r) \/ JobFinishes(r) \/ JobExpires(r)
      PROVE  Len(watch') <= MaxLag
  BY <1>2, <1>6 DEF CreateJob, PodFails, JobFinishes, JobExpires, Phase
<1>7. CASE Reconcile /\ ~ \E r \in Repo : CreateJob(r)
  BY <1>3, <1>7
  DEF Reconcile, Begin, BudgetLow, Discover, ReuseInventory, DiscoveryFails,
      DiscoverRepos, ListJobs, DispatchLoop, AllDispatched, DispatchFails,
      SkipExisting, CapReached, AlreadyExists, UpdateStatus, UpdateFails,
      apiVars, cacheVars
<1>8. CASE SyncView \/ RequeueFires \/ SecretBreaks \/ SecretRepaired \/ SpecEdited
           \/ Tick \/ UNCHANGED vars
  BY <1>3, <1>8
  DEF SyncView, RequeueFires, SecretBreaks, SecretRepaired, SpecEdited, Tick,
      vars, apiVars, cacheVars
<1> QED
  BY <1>4, <1>5, <1>6, <1>7, <1>8 DEF Next, Reconcile, DispatchLoop, Caches, Cluster

(* The cache misses at most one running Job per event on its way. *)
LEMMA CacheMissesFew ==
  ASSUME TypeOK, WatchExplains
  PROVE  Cardinality(Running(phase)) <= Cardinality(Running(cache)) + Len(watch)
<1> DEFINE n == Len(watch)
           named == {watch[i].repo : i \in 1 .. n}
           repoOf == [i \in 1 .. n |-> watch[i].repo]
           known == Running(cache) \cup named
<1>1. n \in Nat
  BY DEF TypeOK
<1>2. IsFiniteSet(1 .. n) /\ Cardinality(1 .. n) = n
  BY <1>1, FS_Interval
<1>3. repoOf \in Surjection(1 .. n, named)
  BY DEF Surjection
<1>4. IsFiniteSet(named) /\ Cardinality(named) <= n
  BY <1>2, <1>3, FS_Surjection
<1>5. IsFiniteSet(Running(cache)) /\ Cardinality(Running(cache)) \in Nat
  BY RunningFinite
<1>6. IsFiniteSet(known) /\ Cardinality(known) <= Cardinality(Running(cache)) + n
  <2>1. /\ IsFiniteSet(known)
        /\ Cardinality(known) = Cardinality(Running(cache)) + Cardinality(named)
                                  - Cardinality(Running(cache) \cap named)
    BY <1>4, <1>5, FS_Union
  <2>2. Cardinality(named) \in Nat /\ Cardinality(Running(cache) \cap named) \in Nat
    BY <1>4, <1>5, FS_Intersection, FS_CardinalityType
  <2> QED
    BY <1>1, <1>4, <1>5, <2>1, <2>2
<1>7. Running(phase) \subseteq known
  <2> SUFFICES ASSUME NEW r \in Repo, phase[r] = "running", r \notin named
               PROVE  cache[r] = "running"
    BY DEF Running
  <2>1. \A i \in 1 .. n : watch[i].repo # r
    OBVIOUS
  <2> QED
    BY <2>1 DEF WatchExplains
<1>8. Cardinality(Running(phase)) <= Cardinality(known)
  BY <1>6, <1>7, FS_Subset
<1>9. Cardinality(Running(phase)) \in Nat /\ Cardinality(known) \in Nat
  BY <1>6, RunningFinite, FS_CardinalityType
<1> QED
  BY <1>1, <1>5, <1>6, <1>8, <1>9

(* Storing a Job that is not running takes none of the running ones away    *)
(* from the cap; storing a running one takes at most one.                  *)
LEMMA RunningAfterPublish ==
  ASSUME TypeOK, NEW r \in Repo, NEW p \in Phase, Publish(r, p)
  PROVE  /\ p # "running" => Cardinality(Running(phase)') <= Cardinality(Running(phase))
         /\ Cardinality(Running(phase)') <= Cardinality(Running(phase)) + 1
<1>1. /\ IsFiniteSet(Running(phase)) /\ Cardinality(Running(phase)) \in Nat
      /\ IsFiniteSet(Running(phase')) /\ Cardinality(Running(phase')) \in Nat
  BY RunningFinite
<1>2. \A q \in Repo : phase'[q] = IF q = r THEN p ELSE phase[q]
  BY DEF TypeOK, Publish
<1>3. ASSUME p # "running"
      PROVE  Cardinality(Running(phase')) <= Cardinality(Running(phase))
  <2>1. Running(phase') \subseteq Running(phase)
    BY <1>2, <1>3 DEF Running
  <2> QED
    BY <1>1, <2>1, FS_Subset
<1>4. Cardinality(Running(phase')) <= Cardinality(Running(phase)) + 1
  <2> DEFINE grown == Running(phase) \cup {r}
  <2>1. Running(phase') \subseteq grown
    BY <1>2 DEF Running
  <2>2. IsFiniteSet(grown) /\ Cardinality(grown) <= Cardinality(Running(phase)) + 1
    <3>1. /\ IsFiniteSet(grown)
          /\ Cardinality(grown) = IF r \in Running(phase) THEN Cardinality(Running(phase))
                                  ELSE Cardinality(Running(phase)) + 1
      BY <1>1, FS_AddElement
    <3> QED
      BY <1>1, <3>1
  <2>3. Cardinality(Running(phase')) <= Cardinality(grown)
    BY <2>1, <2>2, FS_Subset
  <2>4. Cardinality(grown) \in Nat
    BY <2>2, FS_CardinalityType
  <2> QED
    BY <1>1, <2>2, <2>3, <2>4
<1>5. Running(phase)' = Running(phase')
  BY DEF Running
<1> QED
  BY <1>3, <1>4, <1>5

(* Every step keeps the count of a pass, and the cap, within the lag. *)
LEMMA CapStep == TypeOK /\ CapInv /\ [Next]_vars => CapInv'
<1> SUFFICES ASSUME TypeOK, CapInv, [Next]_vars PROVE CapInv'
  OBVIOUS
<1> USE DispatchAssumption
<1> DEFINE count == Cardinality(Running(phase))
<1>0. /\ WatchExplains' /\ Len(watch)' <= MaxLag /\ count \in Nat /\ MaxLag \in Nat
      /\ pass \in Pass /\ pass.active \in Nat
  <2>1. Len(watch') = Len(watch)'
    OBVIOUS
  <2> QED
    BY <2>1, ExplainsStep, LagStep, RunningFinite DEF CapInv, TypeOK, Pass
<1>1. CASE phase' = phase /\ (pc' = "dispatch" => pc = "dispatch" /\ pass'.active = pass.active)
  <2>1. Running(phase)' = Running(phase)
    BY <1>1 DEF Running
  <2> QED
    BY <1>0, <1>1, <2>1 DEF CapInv, OvershootWithinLag
<1>2. CASE ListJobs
  <2>1. pass'.active = Cardinality(Running(cache)) /\ Running(phase)' = Running(phase)
    BY <1>0, <1>2, RunningFinite DEF ListJobs, Pass, Running, apiVars
  <2>2. Len(watch) <= MaxLag /\ Len(watch) \in Nat
    BY <1>2 DEF ListJobs, CapInv, TypeOK
  <2>3. count <= Cardinality(Running(cache)) + Len(watch)
    BY CacheMissesFew DEF CapInv
  <2>4. count <= pass'.active + MaxLag
    BY <1>0, <2>1, <2>2, <2>3, RunningFinite
  <2> QED
    BY <1>0, <2>1, <2>4 DEF CapInv, OvershootWithinLag
<1>3. ASSUME NEW r \in Repo, CreateJob(r) PROVE CapInv'
  <2>1. count <= pass.active + MaxLag /\ pass.active < Parallelism
    BY <1>3 DEF CreateJob, AtRepo, CapInv
  <2>2. count' <= count + 1 /\ count' \in Nat
    <3>1. Running(phase)' = Running(phase')
      BY DEF Running
    <3> QED
      BY <1>3, <3>1, RunningAfterPublish, RunningFinite DEF CreateJob, Phase
  <2>3. pass'.active = pass.active + 1
    <3>1. pass' = [NextRepo EXCEPT !.active = NextRepo.active + 1]
      BY <1>3 DEF CreateJob
    <3>2. NextRepo.active = pass.active /\ NextRepo = [pass EXCEPT !.todo = Tail(pass.todo)]
      BY <1>0 DEF NextRepo, Pass
    <3> QED
      BY <1>0, <3>1, <3>2 DEF Pass
  <2>4. count' <= pass'.active + MaxLag /\ count' <= Parallelism + MaxLag
    BY <1>0, <2>1, <2>2, <2>3
  <2> QED
    BY <1>0, <2>4 DEF CapInv, OvershootWithinLag
<1>4. ASSUME NEW r \in Repo, PodFails(r) \/ JobFinishes(r) \/ JobExpires(r) PROVE CapInv'
  <2>1. count' <= count
    BY <1>4, RunningAfterPublish DEF PodFails, JobFinishes, JobExpires, Phase
  <2>2. count' \in Nat
    <3>1. Running(phase)' = Running(phase')
      BY DEF Running
    <3> QED
      BY <3>1, RunningFinite
  <2>3. pc' = pc /\ pass' = pass
    BY <1>4 DEF PodFails, JobFinishes, JobExpires, opVars
  <2>4. count <= Parallelism + MaxLag /\ (pc = "dispatch" => count <= pass.active + MaxLag)
    BY DEF CapInv, OvershootWithinLag
  <2>5. count' <= Parallelism + MaxLag /\ (pc' = "dispatch" => count' <= pass'.active + MaxLag)
    BY <1>0, <2>1, <2>2, <2>3, <2>4
  <2> QED
    BY <1>0, <2>5 DEF CapInv, OvershootWithinLag
<1>5. CASE Begin \/ BudgetLow \/ Discover \/ UpdateStatus \/ UpdateFails
  BY <1>1, <1>5
  DEF Begin, BudgetLow, Discover, ReuseInventory, DiscoveryFails, DiscoverRepos,
      UpdateStatus, UpdateFails, Conclude, apiVars
<1>6. CASE AllDispatched \/ DispatchFails \/ \E r \in Repo : CapReached(r)
  BY <1>1, <1>6 DEF AllDispatched, DispatchFails, CapReached, Conclude, apiVars
<1>7. ASSUME NEW r \in Repo, SkipExisting(r) \/ AlreadyExists(r) PROVE CapInv'
  <2>1. pass'.active = pass.active
    BY <1>0, <1>7 DEF SkipExisting, AlreadyExists, NextRepo, Pass
  <2> QED
    BY <1>1, <1>7, <2>1 DEF SkipExisting, AlreadyExists, AtRepo, apiVars
<1>8. CASE DeliverJobEvent \/ SyncView \/ RequeueFires \/ Restart \/ SecretBreaks
           \/ SecretRepaired \/ UNCHANGED vars
  BY <1>1, <1>8
  DEF DeliverJobEvent, SyncView, RequeueFires, Restart, SecretBreaks,
      SecretRepaired, vars, apiVars, opVars
<1>9. CASE SpecEdited \/ Tick
  <2>1. pass'.active = pass.active
    BY <1>0, <1>9 DEF SpecEdited, Tick, Pass
  <2> QED
    BY <1>1, <1>9, <2>1 DEF SpecEdited, Tick
<1> QED
  BY <1>2, <1>3, <1>4, <1>5, <1>6, <1>7, <1>8, <1>9
  DEF Next, Reconcile, DispatchLoop, Caches, Cluster

(* No Job runs at the start. *)
LEMMA CapInit == Init => CapInv
<1> SUFFICES ASSUME Init PROVE CapInv
  OBVIOUS
<1>1. Running(phase) = {}
  BY DEF Init, Running
<1>2. Cardinality(Running(phase)) = 0
  BY <1>1, FS_EmptySet
<1> QED
  BY <1>2, DispatchAssumption DEF Init, CapInv, WatchExplains, OvershootWithinLag

(* The cap of dispatchJobs with the cache it really reads: it is exceeded    *)
(* by no more Jobs than there are Job events the cache is behind, whatever  *)
(* the passes before created, whatever finishes while one dispatches, and   *)
(* however often the operator restarts.                                    *)
THEOREM OvershootBounded == Spec => []OvershootWithinLag
<1>1. Init => CapInv
  BY CapInit
<1>2. TypeOK /\ CapInv /\ [Next]_vars => CapInv'
  BY CapStep
<1>3. CapInv => OvershootWithinLag
  BY DEF CapInv
<1> QED
  BY <1>1, <1>2, <1>3, TypeCorrect, PTL DEF Spec

-------------------------------------------------------------------------------
(***************************************************************************)
(* No lost wake-up, with caches as far behind as they like.  A pass skips   *)
(* a repository only if it saw a Job of it; should that Job be gone by      *)
(* then, or go before the pass ends, the event of its deletion is still to  *)
(* come or has queued the key, which stays queued until the next pass.      *)
(***************************************************************************)
Awake == queued \/ watch # << >>

Owed(l) == \E i \in DOMAIN l : phase[l[i]] = "absent"

OwedInv ==
  /\ WatchExplains
  /\ OwedWorkIsScheduled
  /\ pc = "update" /\ pass.requeue # Soon /\ pass.status.reason # "RateLimited"
       /\ Owed(pass.status.inventory) => Awake
  /\ pc = "dispatch" =>
       /\ \A r \in pass.seen : phase[r] = "absent" => Awake
       /\ \A i \in DOMAIN pass.status.inventory :
            LET r == pass.status.inventory[i]
            IN  phase[r] = "absent" => Awake \/ \E j \in DOMAIN pass.todo : pass.todo[j] = r

(* The key is queued at the start. *)
LEMMA OwedInit == Init => OwedInv
BY DEF Init, OwedInv, WatchExplains, OwedWorkIsScheduled, Awake

(* What was to be dispatched is the head of the list or in its tail. *)
LEMMA HeadOrTail ==
  ASSUME NEW l \in Seq(Repo), l # << >>, NEW j \in DOMAIN l
  PROVE  l[j] = Head(l) \/ \E k \in DOMAIN Tail(l) : Tail(l)[k] = l[j]
<1>1. CASE j = 1
  BY <1>1
<1>2. CASE j # 1
  <2>1. j \in 2 .. Len(l) /\ Len(l) \in Nat /\ DOMAIN Tail(l) = 1 .. Len(l) - 1
    BY <1>2
  <2>2. j - 1 \in DOMAIN Tail(l) /\ Tail(l)[j - 1] = l[j]
    BY <2>1
  <2> QED
    BY <2>2
<1> QED
  BY <1>1, <1>2

(* Every step leaves the operator about to wake, or nothing owed. *)
LEMMA OwedStep == TypeOK /\ OwedInv /\ [Next]_vars => OwedInv'
<1> SUFFICES ASSUME TypeOK, OwedInv, [Next]_vars PROVE OwedInv'
  OBVIOUS
<1> USE DispatchAssumption
<1>0. /\ WatchExplains'
      /\ pass \in Pass /\ pass.status \in Status /\ status \in Status
      /\ pass.todo \in Seq(Repo) /\ pass.seen \subseteq Repo
  BY ExplainsStep DEF OwedInv, TypeOK, Pass
<1>1. CASE Awake'
  BY <1>0, <1>1 DEF OwedInv, OwedWorkIsScheduled, Awake
<1>2. CASE ~Awake'
  <2>1. \A r \in Repo, p \in Phase : ~Publish(r, p)
    BY <1>2 DEF Awake, Publish, TypeOK
  <2>2. ~(DeliverJobEvent \/ SyncView \/ RequeueFires \/ Restart)
    BY <1>2 DEF DeliverJobEvent, SyncView, RequeueFires, Restart, Awake
  <2>3. ~ \E r \in Repo : CreateJob(r) \/ PodFails(r) \/ JobFinishes(r) \/ JobExpires(r)
    BY <2>1 DEF CreateJob, PodFails, JobFinishes, JobExpires, Phase
  <2>4. CASE Begin
    <3> DEFINE p == [NoPass EXCEPT !.status = view, !.current = viewCurrent]
    <3>1. p \in Pass
      BY EmptyStatusType DEF NoPass, Pass, TypeOK
    <3>2. pc' = "gate" \/ (pc' = "update" /\ pass'.requeue = Soon)
      BY <2>4, <3>1, ConcludeKeeps DEF Begin
    <3> QED
      BY <1>0, <3>2 DEF OwedInv, OwedWorkIsScheduled
  <2>5. CASE \E reason : /\ Conclude(pass, reason, Soon)
                         /\ pc # "idle"
    <3>1. pc' = "update" /\ pass'.requeue = Soon
      BY <1>0, <2>5, ConcludeKeeps
    <3> QED
      BY <1>0, <3>1 DEF OwedInv, OwedWorkIsScheduled
  <2>6. CASE BudgetLow
    <3>1. pc' = "update" /\ pass'.status.reason = "RateLimited"
      BY <1>0, <2>6, ConcludeKeeps DEF BudgetLow
    <3> QED
      BY <1>0, <3>1 DEF OwedInv, OwedWorkIsScheduled
  <2>7. CASE ReuseInventory \/ \E l \in Listings : DiscoverRepos(l)
    BY <1>0, <2>7 DEF ReuseInventory, DiscoverRepos, OwedInv, OwedWorkIsScheduled
  <2>8. CASE ListJobs
    <3>1. watch = << >> /\ phase' = phase
      BY <1>2, <2>8 DEF ListJobs, Awake, apiVars, cacheVars
    <3>2. \A r \in Repo : cache[r] = phase[r]
      BY <3>1 DEF OwedInv, WatchExplains
    <3>3. pass'.seen = {r \in Repo : cache[r] # "absent"}
      BY <1>0, <2>8 DEF ListJobs, Pass
    <3>4. pass'.status = pass.status /\ pass'.todo = pass.status.inventory /\ pc' = "dispatch"
      BY <1>0, <2>8 DEF ListJobs, Pass
    <3> QED
      BY <1>0, <3>1, <3>2, <3>3, <3>4 DEF OwedInv, OwedWorkIsScheduled
  <2>9. ASSUME NEW r \in Repo, SkipExisting(r) \/ AlreadyExists(r) PROVE OwedInv'
    <3>1. /\ pc = "dispatch" /\ pc' = "dispatch" /\ phase' = phase
          /\ pass.todo # << >> /\ r = Head(pass.todo)
          /\ ~Awake
      BY <1>2, <2>9 DEF SkipExisting, AlreadyExists, AtRepo, Awake, apiVars, cacheVars
    <3>2. /\ pass'.status = pass.status /\ pass'.seen = pass.seen
          /\ pass'.todo = Tail(pass.todo)
      BY <1>0, <2>9 DEF SkipExisting, AlreadyExists, NextRepo, Pass
    <3>3. phase[r] # "absent"
      BY <2>9, <3>1 DEF SkipExisting, AlreadyExists, OwedInv
    <3>4. ASSUME NEW i \in DOMAIN pass.status.inventory,
                 phase[pass.status.inventory[i]] = "absent"
          PROVE  \E k \in DOMAIN Tail(pass.todo) : Tail(pass.todo)[k] = pass.status.inventory[i]
      <4>1. PICK j \in DOMAIN pass.todo : pass.todo[j] = pass.status.inventory[i]
        BY <3>1, <3>4 DEF OwedInv
      <4> QED
        BY <1>0, <3>1, <3>3, <3>4, <4>1, HeadOrTail
    <3>5. \A q \in pass.seen : phase[q] # "absent"
      BY <3>1 DEF OwedInv
    <3> QED
      BY <1>0, <3>1, <3>2, <3>4, <3>5 DEF OwedInv, OwedWorkIsScheduled
  <2>10. CASE AllDispatched
    <3>1. /\ pc' = "update" /\ pass'.status.inventory = pass.status.inventory
          /\ phase' = phase /\ ~Awake /\ pc = "dispatch" /\ DOMAIN pass.todo = {}
      BY <1>0, <1>2, <2>10, ConcludeKeeps
      DEF AllDispatched, Awake, apiVars, cacheVars
    <3>2. ~Owed(pass.status.inventory)
      BY <3>1 DEF OwedInv, Owed
    <3> QED
      BY <1>0, <3>1, <3>2 DEF OwedInv, OwedWorkIsScheduled, Owed
  <2>11. CASE UpdateStatus
    <3>1. /\ pc = "update" /\ pc' = "idle" /\ status' = pass.status /\ phase' = phase
          /\ timer' = Sooner(timer, pass.requeue) /\ ~Awake
      BY <1>2, <2>11 DEF UpdateStatus, Awake
    <3>2. CASE pass.requeue = Soon
      <4>1. timer' = Soon
        BY <3>1, <3>2 DEF Sooner, Soon, TypeOK, NoRequeue
      <4> QED
        BY <1>0, <3>1, <4>1 DEF OwedInv, OwedWorkIsScheduled
    <3>3. CASE pass.requeue # Soon
      BY <1>0, <3>1, <3>3 DEF OwedInv, OwedWorkIsScheduled, Owed
    <3> QED
      BY <3>2, <3>3
  <2>12. CASE UpdateFails
    BY <1>0, <2>12 DEF UpdateFails, OwedInv, OwedWorkIsScheduled
  <2>13. CASE SecretBreaks \/ SecretRepaired \/ UNCHANGED vars
    <3>1. UNCHANGED <<phase, status, watch, viewCurrent, queued, timer, pc, pass>>
      BY <2>13 DEF SecretBreaks, SecretRepaired, vars, apiVars, cacheVars, opVars
    <3> QED
      BY <1>0, <3>1 DEF OwedInv, OwedWorkIsScheduled, Owed, Awake
  <2>14. CASE SpecEdited
    <3>1. /\ UNCHANGED <<phase, watch, queued, pc>> /\ ~viewCurrent'
          /\ \A f \in {"status", "seen", "todo", "requeue"} : pass'[f] = pass[f]
      BY <1>0, <2>14 DEF SpecEdited, Pass
    <3> QED
      BY <1>0, <3>1 DEF OwedInv, OwedWorkIsScheduled, Owed, Awake
  <2>15. CASE Tick
    <3>1. /\ UNCHANGED <<phase, watch, viewCurrent, queued, pc>>
          /\ timer = Soon => timer' = Soon
          /\ status'.inventory = status.inventory /\ status'.reason = status.reason
      BY <1>0, <2>15 DEF Tick, Older, Status, Soon
    <3>2. ASSUME pc # "idle"
          PROVE  /\ pass'.status.inventory = pass.status.inventory
                 /\ pass'.status.reason = pass.status.reason
                 /\ pass'.seen = pass.seen /\ pass'.todo = pass.todo
                 /\ pass'.requeue = pass.requeue
      <4>1. pass' = [pass EXCEPT !.status = Older(pass.status), !.ticks = pass.ticks + 1]
        BY <2>15, <3>2 DEF Tick
      <4>2. /\ Older(pass.status).inventory = pass.status.inventory
            /\ Older(pass.status).reason = pass.status.reason
        BY <1>0 DEF Older, Status
      <4> QED
        BY <1>0, <4>1, <4>2 DEF Pass
    <3> QED
      BY <1>0, <3>1, <3>2 DEF OwedInv, OwedWorkIsScheduled, Owed, Awake
  <2>16. CASE DiscoveryFails \/ DispatchFails \/ \E r \in Repo : CapReached(r)
    BY <2>5, <2>16 DEF DiscoveryFails, DispatchFails, CapReached, AtRepo
  <2> QED
    BY <2>2, <2>3, <2>4, <2>6, <2>7, <2>8, <2>9, <2>10, <2>11, <2>12, <2>13, <2>14,
       <2>15, <2>16
    DEF Next, Reconcile, Discover, DispatchLoop, Caches, Cluster
<1> QED
  BY <1>1, <1>2

(* An idle operator that owes a repository a Job is about to wake up.       *)
THEOREM NoLostWakeup == Spec => []OwedWorkIsScheduled
<1>1. Init => OwedInv
  BY OwedInit
<1>2. TypeOK /\ OwedInv /\ [Next]_vars => OwedInv'
  BY OwedStep
<1>3. OwedInv => OwedWorkIsScheduled
  BY DEF OwedInv
<1> QED
  BY <1>1, <1>2, <1>3, TypeCorrect, PTL DEF Spec

-------------------------------------------------------------------------------
(***************************************************************************)
(* No edit and no failure is forgotten.  Whatever version a pass has read,  *)
(* it observes it and asks for a short requeue with every failure it is     *)
(* about to report, and a refused write is retried at once.                *)
(***************************************************************************)
Failed(s) == s.reason \in {"CredentialsInvalid", "DiscoveryFailed", "DispatchFailed"}

SettleInv ==
  /\ UnsettledIsRetried
  /\ pc = "update" =>
       /\ pass.status.observed
       /\ Failed(pass.status) => pass.requeue = Soon

(* A pass concludes with the version it has read marked as observed. *)
LEMMA ConcludeObserves ==
  ASSUME NEW p \in Pass, NEW reason, NEW wait, Conclude(p, reason, wait)
  PROVE  pass'.status.observed
BY DEF Conclude, Pass, Status

(* Every step leaves the operator settled, or about to look again. *)
LEMMA SettleStep == TypeOK /\ SettleInv /\ [Next]_vars => SettleInv'
<1> SUFFICES ASSUME TypeOK, SettleInv, [Next]_vars PROVE SettleInv'
  OBVIOUS
<1> USE DispatchAssumption
<1>0. pass \in Pass /\ pass.status \in Status /\ status \in Status
  BY DEF TypeOK, Pass
<1>1. ASSUME NEW p \in Pass, NEW reason, NEW wait, Conclude(p, reason, wait),
             reason \in {"CredentialsInvalid", "DiscoveryFailed", "DispatchFailed"}
               => wait = Soon
      PROVE  SettleInv'
  <2>1. /\ pc' = "update" /\ pass'.status.observed
        /\ pass'.status.reason = reason /\ pass'.requeue = wait
    BY <1>1, ConcludeKeeps, ConcludeObserves
  <2> QED
    BY <1>1, <2>1 DEF SettleInv, UnsettledIsRetried, Failed
<1>2. CASE Begin
  <2> DEFINE p == [NoPass EXCEPT !.status = view, !.current = viewCurrent]
  <2>1. p \in Pass
    BY EmptyStatusType DEF NoPass, Pass, TypeOK
  <2>2. CASE pc' = "gate"
    BY <2>2 DEF SettleInv, UnsettledIsRetried
  <2>3. CASE Conclude(p, "CredentialsInvalid", Soon)
    BY <1>1, <2>1, <2>3
  <2> QED
    BY <1>2, <2>2, <2>3 DEF Begin
<1>3. CASE BudgetLow \/ DiscoveryFails \/ DispatchFails \/ AllDispatched
           \/ \E r \in Repo : CapReached(r)
  BY <1>0, <1>1, <1>3 DEF BudgetLow, DiscoveryFails, DispatchFails, AllDispatched, CapReached
<1>4. CASE ReuseInventory \/ ListJobs \/ (\E l \in Listings : DiscoverRepos(l))
           \/ \E r \in Repo : SkipExisting(r) \/ CreateJob(r) \/ AlreadyExists(r)
  <2>1. pc' \in {"list", "dispatch"}
    BY <1>4
    DEF ReuseInventory, ListJobs, DiscoverRepos, SkipExisting, CreateJob,
        AlreadyExists, AtRepo
  <2> QED
    BY <2>1 DEF SettleInv, UnsettledIsRetried
<1>5. CASE UpdateStatus
  <2>1. pc' = "idle" /\ status' = pass.status /\ pass.status.observed
    BY <1>5 DEF UpdateStatus, SettleInv
  <2>2. Failed(pass.status) => timer' = Soon
    BY <1>5 DEF UpdateStatus, SettleInv, Sooner, Soon, TypeOK, NoRequeue
  <2> QED
    BY <2>1, <2>2 DEF SettleInv, UnsettledIsRetried, Failed
<1>6. CASE UpdateFails
  BY <1>6 DEF UpdateFails, SettleInv, UnsettledIsRetried
<1>7. CASE DeliverJobEvent \/ SyncView \/ RequeueFires \/ Restart
  <2>1. queued' /\ ((pc' = pc /\ pass' = pass) \/ pc' = "idle")
    BY <1>7 DEF DeliverJobEvent, SyncView, RequeueFires, Restart
  <2> QED
    BY <2>1 DEF SettleInv, UnsettledIsRetried
<1>8. CASE SecretBreaks \/ SecretRepaired \/ UNCHANGED vars
           \/ \E r \in Repo : PodFails(r) \/ JobFinishes(r) \/ JobExpires(r)
  <2>1. UNCHANGED <<status, viewCurrent, queued, timer, pc, pass>>
    BY <1>8
    DEF SecretBreaks, SecretRepaired, PodFails, JobFinishes, JobExpires, vars,
        apiVars, cacheVars, opVars
  <2> QED
    BY <2>1 DEF SettleInv, UnsettledIsRetried, Failed
<1>9. CASE SpecEdited
  <2>1. ~viewCurrent' /\ pc' = pc /\ pass'.status = pass.status /\ pass'.requeue = pass.requeue
    BY <1>0, <1>9 DEF SpecEdited, Pass
  <2> QED
    BY <2>1 DEF SettleInv, UnsettledIsRetried, Failed
<1>10. CASE Tick
  <2>1. /\ UNCHANGED <<viewCurrent, queued, pc>> /\ (timer = Soon => timer' = Soon)
        /\ status'.observed = status.observed /\ status'.reason = status.reason
    BY <1>0, <1>10 DEF Tick, Older, Status, Soon
  <2>2. ASSUME pc # "idle"
        PROVE  /\ pass'.status.observed = pass.status.observed
               /\ pass'.status.reason = pass.status.reason
               /\ pass'.requeue = pass.requeue
    <3>1. pass' = [pass EXCEPT !.status = Older(pass.status), !.ticks = pass.ticks + 1]
      BY <1>10, <2>2 DEF Tick
    <3>2. /\ Older(pass.status).observed = pass.status.observed
          /\ Older(pass.status).reason = pass.status.reason
      BY <1>0 DEF Older, Status
    <3> QED
      BY <1>0, <3>1, <3>2 DEF Pass
  <2> QED
    BY <2>1, <2>2 DEF SettleInv, UnsettledIsRetried, Failed
<1> QED
  BY <1>2, <1>3, <1>4, <1>5, <1>6, <1>7, <1>8, <1>9, <1>10
  DEF Next, Reconcile, Discover, DispatchLoop, Caches, Cluster

(* The operator reconciles again, and soon, for as long as its status does  *)
(* not observe the latest edit or reports a failure.                       *)
THEOREM NothingLeftUnsettled == Spec => []UnsettledIsRetried
<1>1. Init => SettleInv
  BY DEF Init, SettleInv, UnsettledIsRetried
<1>2. TypeOK /\ SettleInv /\ [Next]_vars => SettleInv'
  BY SettleStep
<1>3. SettleInv => UnsettledIsRetried
  BY DEF SettleInv
<1> QED
  BY <1>1, <1>2, <1>3, TypeCorrect, PTL DEF Spec

-------------------------------------------------------------------------------
(***************************************************************************)
(* How many Jobs a repository gets in a discovery cycle.  A status is never *)
(* younger than the cycle (no later discovery is on record anywhere), so a  *)
(* pass that reuses the inventory runs before the interval is over; and     *)
(* every Job made in the cycle that is gone was kept for its whole TTL, so  *)
(* the cycle is at least as old as that took (SpacedJob).                  *)
(***************************************************************************)
NotYounger(s) == cycleAge <= s.age \/ s.age = Interval

(* How long n Jobs of a repository, one after the other, are kept. *)
Kept(n) == n * TTL

SpacedJob(r) ==
  /\ Kept(made[r]) - TTL <= cycleAge /\ Kept(made[r]) - TTL < CycleBound
  /\ \/ cycleAge = CycleBound
     \/ phase[r] = "absent" /\ Kept(made[r]) <= cycleAge
     \/ phase[r] = "finished" /\ Kept(made[r]) <= cycleAge + ttl[r]
     \/ phase[r] \in {"running", "retrying"}

(* The part of the invariant that the history and the Jobs share. *)
JobsInv ==
  /\ CycleTypeOK
  /\ \A r \in Repo : made[r] > 0 => SpacedJob(r)

(* The part that the history and the statuses share. *)
AgesInv ==
  /\ NotYounger(status) /\ NotYounger(view)
  /\ pc # "idle" => NotYounger(pass.status)
  /\ pc \in {"list", "dispatch"} => cycleAge < Interval + pass.ticks

CycleInv == JobsInv /\ AgesInv

(* The history variables constrain nothing. *)
LEMMA CycleStepsAreSteps == [CycleNext]_cycleVars => [Next]_vars
BY DEF CycleNext, CycleStep, CycleTick, Next, cycleVars

(* Types are kept with the history as without it. *)
LEMMA CycleTypeCorrect == CycleSpec => []TypeOK
<1>1. CycleInit => TypeOK
  BY InitType DEF CycleInit
<1>2. TypeOK /\ [CycleNext]_cycleVars => TypeOK'
  BY CycleStepsAreSteps, ReconcileType, EnvironmentType, StutterType DEF Next
<1> QED
  BY <1>1, <1>2, PTL DEF CycleSpec

(* The first cycle has no predecessor. *)
LEMMA CycleInvInit == CycleInit => CycleInv
<1> SUFFICES ASSUME CycleInit PROVE CycleInv
  OBVIOUS
<1>1. status.age = Interval /\ view.age = Interval
  BY DEF CycleInit, Init, EmptyStatus
<1> QED
  BY <1>1, DispatchAssumption
  DEF CycleInit, Init, CycleInv, JobsInv, AgesInv, CycleTypeOK, CycleBound, NotYounger

(* One Job more is kept for one TTL more. *)
LEMMA KeptGrows ==
  ASSUME NEW n \in Nat
  PROVE  Kept(n) \in Nat /\ Kept(0) = 0 /\ Kept(n + 1) = Kept(n) + TTL
BY DispatchAssumption DEF Kept

(* Jobs are made while the cycle is young. *)
LEMMA MadeInTime ==
  ASSUME TypeOK, CycleInv, NEW r \in Repo, CreateJob(r)
  PROVE  cycleAge < CycleBound
<1>1. cycleAge < Interval + pass.ticks /\ pass.ticks \in 0 .. MaxPass /\ cycleAge \in Nat
  BY DispatchAssumption
  DEF CreateJob, AtRepo, CycleInv, AgesInv, JobsInv, CycleTypeOK, CycleBound, TypeOK, Pass
<1> QED
  BY <1>1, DispatchAssumption DEF CycleBound

(* A step other than time: who was served, and what became of the Job. *)
LEMMA JobsInvStep ==
  ASSUME TypeOK, CycleInv, CycleStep
  PROVE  JobsInv'
<1> USE DispatchAssumption
<1>0. /\ cycleAge \in 0 .. CycleBound /\ CycleBound \in Nat /\ made \in [Repo -> Nat]
      /\ JobsInv
  BY DEF CycleInv, JobsInv, CycleTypeOK, CycleBound
<1>1. CASE Discovered
  <2>1. made' = [r \in Repo |-> 0] /\ cycleAge' = 0
    BY <1>1 DEF CycleStep
  <2> QED
    BY <1>0, <2>1 DEF JobsInv, CycleTypeOK, CycleBound
<1>2. CASE ~Discovered
  <2>1. /\ made' = [r \in Repo |-> IF Created(r) THEN made[r] + 1 ELSE made[r]]
        /\ cycleAge' = cycleAge
    BY <1>2 DEF CycleStep
  <2>0. CycleTypeOK'
    BY <1>0, <2>1 DEF CycleTypeOK, CycleBound
  <2>2. ASSUME NEW q \in Repo, phase'[q] = phase[q], ttl'[q] = ttl[q], made'[q] > 0
        PROVE  SpacedJob(q)'
    <3>1. made'[q] = made[q]
      BY <2>1, <2>2 DEF Created
    <3> QED
      BY <1>0, <2>1, <2>2, <3>1 DEF JobsInv, SpacedJob, CycleBound
  <2>3. ASSUME NEW r \in Repo, CreateJob(r) \/ PodFails(r) \/ JobFinishes(r) \/ JobExpires(r)
        PROVE  JobsInv'
    <3>1. \A q \in Repo \ {r} : phase'[q] = phase[q] /\ ttl'[q] = ttl[q]
      BY <2>3 DEF CreateJob, PodFails, JobFinishes, JobExpires, Publish, TypeOK
    <3>2. /\ made[r] \in Nat /\ Kept(made[r]) \in Nat /\ TTL \in Nat
          /\ made[r] > 0 => SpacedJob(r)
      BY <1>0, KeptGrows DEF JobsInv
    <3>3. CASE CreateJob(r)
      <4>1. phase[r] = "absent" /\ phase'[r] = "running" /\ cycleAge < CycleBound
        BY <3>3, MadeInTime DEF CreateJob, Publish, TypeOK
      <4>2. made'[r] = made[r] + 1
        BY <1>0, <2>1, <4>1 DEF Created
      <4>3. Kept(made'[r]) = Kept(made[r]) + TTL
        BY <3>2, <4>2, KeptGrows
      <4>4. Kept(made[r]) <= cycleAge
        <5>1. CASE made[r] = 0
          BY <1>0, <5>1, KeptGrows
        <5>2. CASE made[r] > 0
          BY <1>0, <3>2, <4>1, <5>2 DEF SpacedJob
        <5> QED
          BY <3>2, <5>1, <5>2
      <4>5. Kept(made'[r]) - TTL <= cycleAge' /\ Kept(made'[r]) - TTL < CycleBound
        BY <1>0, <2>1, <3>2, <4>1, <4>3, <4>4
      <4> QED
        BY <2>0, <2>2, <3>1, <4>1, <4>5 DEF JobsInv, SpacedJob, CycleBound
    <3>4. CASE PodFails(r) \/ JobFinishes(r)
      <4>1. /\ phase[r] # "absent"
            /\ \/ phase'[r] = "retrying"
               \/ phase'[r] = "finished" /\ ttl'[r] = TTL
        BY <3>4 DEF PodFails, JobFinishes, Publish, TypeOK
      <4>2. made'[r] = made[r]
        BY <2>1, <4>1 DEF Created
      <4>3. made'[r] > 0 => SpacedJob(r)'
        BY <1>0, <2>1, <3>2, <4>1, <4>2 DEF SpacedJob, CycleBound
      <4> QED
        BY <2>0, <2>2, <3>1, <4>3 DEF JobsInv
    <3>5. CASE JobExpires(r)
      <4>1. phase[r] = "finished" /\ phase'[r] = "absent" /\ ttl[r] = 0
        BY <3>5 DEF JobExpires, Publish, TypeOK
      <4>2. made'[r] = made[r]
        BY <2>1, <4>1 DEF Created
      <4>3. made'[r] > 0 => SpacedJob(r)'
        BY <1>0, <2>1, <3>2, <4>1, <4>2 DEF SpacedJob, CycleBound
      <4> QED
        BY <2>0, <2>2, <3>1, <4>3 DEF JobsInv
    <3> QED
      BY <2>3, <3>3, <3>4, <3>5
  <2>4. CASE phase' = phase /\ ttl' = ttl
    BY <2>0, <2>2, <2>4 DEF JobsInv
  <2>5. CASE Reconcile /\ ~ \E r \in Repo : CreateJob(r)
    BY <2>4, <2>5
    DEF Reconcile, Begin, BudgetLow, Discover, ReuseInventory, DiscoveryFails,
        DiscoverRepos, ListJobs, DispatchLoop, AllDispatched, DispatchFails,
        SkipExisting, CapReached, AlreadyExists, UpdateStatus, UpdateFails, apiVars
  <2>6. CASE Caches \/ SecretBreaks \/ SecretRepaired \/ SpecEdited
    BY <2>4, <2>6
    DEF Caches, DeliverJobEvent, SyncView, RequeueFires, Restart, SecretBreaks,
        SecretRepaired, SpecEdited, apiVars
  <2> QED
    BY <2>3, <2>5, <2>6 DEF CycleStep, Reconcile, DispatchLoop, Cluster
<1> QED
  BY <1>1, <1>2

(* Time takes from a finished Job what it adds to the cycle. *)
LEMMA JobsInvTick == TypeOK /\ JobsInv /\ CycleTick => JobsInv'
<1> SUFFICES ASSUME TypeOK, JobsInv, CycleTick PROVE JobsInv'
  OBVIOUS
<1> USE DispatchAssumption
<1>1. /\ cycleAge \in 0 .. CycleBound /\ CycleBound \in Nat /\ made \in [Repo -> Nat]
      /\ cycleAge' = IF cycleAge < CycleBound THEN cycleAge + 1 ELSE cycleAge
      /\ made' = made /\ phase' = phase
  BY DEF JobsInv, CycleTypeOK, CycleBound, CycleTick, Tick
<1>2. ASSUME NEW r \in Repo, made[r] > 0 PROVE SpacedJob(r)'
  <2>1. SpacedJob(r) /\ Kept(made[r]) \in Nat /\ TTL \in Nat
    BY <1>1, <1>2, KeptGrows DEF JobsInv
  <2>2. /\ ttl[r] \in Nat
        /\ phase[r] = "finished" => ttl'[r] = IF ttl[r] > 0 THEN ttl[r] - 1 ELSE ttl[r]
    BY DEF CycleTick, Tick, TypeOK
  <2> QED
    BY <1>1, <2>1, <2>2 DEF SpacedJob, CycleBound
<1>3. CycleTypeOK'
  BY <1>1 DEF CycleTypeOK, CycleBound
<1> QED
  BY <1>1, <1>2, <1>3 DEF JobsInv

(* A step other than time: no status gets younger than the cycle. *)
LEMMA AgesInvStep == TypeOK /\ CycleInv /\ CycleStep => AgesInv'
<1> SUFFICES ASSUME TypeOK, CycleInv, CycleStep PROVE AgesInv'
  OBVIOUS
<1> USE DispatchAssumption
<1>0. /\ cycleAge \in Nat /\ pass \in Pass /\ pass.status \in Status /\ pass.ticks \in Nat
      /\ status \in Status /\ view \in Status
      /\ AgesInv
  BY DEF CycleInv, JobsInv, CycleTypeOK, CycleBound, TypeOK, Pass
<1>1. ASSUME NEW l \in Listings, DiscoverRepos(l) PROVE AgesInv'
  <2>1. pass'.discovered /\ pass'.ticks = pass.ticks
    BY <1>0, <1>1 DEF DiscoverRepos, Pass, Status
  <2>2. cycleAge' = 0
    BY <1>1, <2>1 DEF CycleStep, Discovered, DiscoverRepos
  <2>3. pass'.status.age = 0
    BY <1>0, <1>1 DEF DiscoverRepos, Pass, Status
  <2>4. status'.age \in Nat /\ view'.age \in Nat
    BY <1>0, <1>1 DEF DiscoverRepos, Status, apiVars, cacheVars
  <2> QED
    BY <1>0, <2>1, <2>2, <2>3, <2>4 DEF AgesInv, NotYounger
<1>2. CASE ReuseInventory
  <2>1. pass.status.age < Interval /\ pass.status.age \in Nat
    BY <1>0, <1>2 DEF ReuseInventory, NeedsDiscovery, Status
  <2>2. cycleAge < Interval
    BY <1>0, <1>2, <2>1 DEF ReuseInventory, AgesInv, NotYounger
  <2>3. cycleAge' = cycleAge \/ cycleAge' = 0
    BY DEF CycleStep
  <2> QED
    BY <1>0, <1>2, <2>2, <2>3
    DEF ReuseInventory, AgesInv, NotYounger, apiVars, cacheVars, Status
<1>3. CASE pc # "gate" \/ pc' # "list"
  <2>1. cycleAge' = cycleAge
    BY <1>3 DEF CycleStep, Discovered
  <2>2. CASE Begin
    <3> DEFINE p == [NoPass EXCEPT !.status = view, !.current = viewCurrent]
    <3>1. p \in Pass /\ p.status = view
      BY EmptyStatusType DEF NoPass, Pass, TypeOK
    <3>2. pass'.status.age = view.age /\ pc' \in {"gate", "update"}
      BY <2>2, <3>1, ConcludeKeeps DEF Begin
    <3> QED
      BY <1>0, <2>1, <2>2, <3>2 DEF Begin, AgesInv, NotYounger, apiVars, cacheVars
  <2>3. CASE /\ \E reason, wait : Conclude(pass, reason, wait)
             /\ pc # "idle" /\ UNCHANGED <<apiVars, cacheVars>>
    <3>1. pass'.status.age = pass.status.age /\ pc' = "update"
      BY <1>0, <2>3, ConcludeKeeps
    <3> QED
      BY <1>0, <2>1, <2>3, <3>1 DEF AgesInv, NotYounger, apiVars, cacheVars
  <2>4. CASE /\ pass'.status = pass.status /\ pass'.ticks = pass.ticks
             /\ pc \in {"list", "dispatch"} /\ UNCHANGED <<status, view>>
    BY <1>0, <2>1, <2>4 DEF AgesInv, NotYounger
  <2>5. CASE UNCHANGED <<status, view, pc, pass>>
    BY <1>0, <2>1, <2>5 DEF AgesInv, NotYounger
  <2>6. CASE UpdateStatus \/ UpdateFails \/ Restart \/ SyncView
    BY <1>0, <2>1, <2>6
    DEF UpdateStatus, UpdateFails, Restart, SyncView, AgesInv, NotYounger, apiVars, cacheVars
  <2>7. CASE SpecEdited
    <3>1. pass'.status = pass.status /\ pass'.ticks = pass.ticks /\ status'.age = status.age
      BY <1>0, <2>7 DEF SpecEdited, Pass, Status
    <3> QED
      BY <1>0, <2>1, <2>7, <3>1 DEF SpecEdited, AgesInv, NotYounger
  <2>8. CASE BudgetLow \/ DiscoveryFails \/ DispatchFails \/ AllDispatched
             \/ \E r \in Repo : CapReached(r)
    BY <2>3, <2>8
    DEF BudgetLow, DiscoveryFails, DispatchFails, AllDispatched, CapReached, AtRepo
  <2>9. CASE ListJobs \/ \E r \in Repo : SkipExisting(r) \/ CreateJob(r) \/ AlreadyExists(r)
    <3>1. NextRepo.status = pass.status /\ NextRepo.ticks = pass.ticks
      BY <1>0 DEF NextRepo, Pass
    <3>2. pass'.status = pass.status /\ pass'.ticks = pass.ticks
      BY <1>0, <2>9, <3>1
      DEF ListJobs, SkipExisting, CreateJob, AlreadyExists, NextRepo, Pass
    <3> QED
      BY <2>4, <2>9, <3>2
      DEF ListJobs, SkipExisting, CreateJob, AlreadyExists, AtRepo, apiVars, cacheVars
  <2>10. CASE DeliverJobEvent \/ RequeueFires \/ SecretBreaks \/ SecretRepaired
              \/ \E r \in Repo : PodFails(r) \/ JobFinishes(r) \/ JobExpires(r)
    BY <2>5, <2>10
    DEF DeliverJobEvent, RequeueFires, SecretBreaks, SecretRepaired, PodFails,
        JobFinishes, JobExpires, apiVars, cacheVars, opVars
  <2>11. ~(ReuseInventory \/ \E l \in Listings : DiscoverRepos(l))
    BY <1>3 DEF ReuseInventory, DiscoverRepos
  <2> QED
    BY <2>2, <2>6, <2>7, <2>8, <2>9, <2>10, <2>11
    DEF CycleStep, Reconcile, Discover, DispatchLoop, Caches, Cluster
<1>4. CASE pc = "gate" /\ pc' = "list"
  <2>1. ReuseInventory \/ \E l \in Listings : DiscoverRepos(l)
    BY <1>4
    DEF CycleStep, Reconcile, Begin, BudgetLow, Discover, DiscoveryFails, ListJobs,
        DispatchLoop, AllDispatched, DispatchFails, SkipExisting, CapReached,
        CreateJob, AlreadyExists, AtRepo, UpdateStatus, UpdateFails, Conclude,
        Caches, DeliverJobEvent, SyncView, RequeueFires, Restart, Cluster,
        SecretBreaks, SecretRepaired, SpecEdited, PodFails, JobFinishes, JobExpires,
        opVars
  <2> QED
    BY <1>1, <1>2, <2>1
<1> QED
  BY <1>3, <1>4

(* Time ages the cycle, the statuses and the pass in step. *)
LEMMA AgesInvTick == TypeOK /\ CycleInv /\ CycleTick => AgesInv'
<1> SUFFICES ASSUME TypeOK, CycleInv, CycleTick PROVE AgesInv'
  OBVIOUS
<1> USE DispatchAssumption
<1>0. /\ cycleAge \in 0 .. CycleBound /\ CycleBound \in Nat
      /\ pass \in Pass /\ pass.status \in Status /\ pass.ticks \in Nat
      /\ status \in Status /\ view \in Status
      /\ AgesInv
  BY DEF CycleInv, JobsInv, CycleTypeOK, CycleBound, TypeOK, Pass
<1>1. cycleAge' \in Nat /\ cycleAge' <= cycleAge + 1
  BY <1>0 DEF CycleTick
<1>2. ASSUME NEW s \in Status, NotYounger(s)
      PROVE  cycleAge' <= Older(s).age \/ Older(s).age = Interval
  <2>1. s.age \in 0 .. Interval /\ Interval \in Nat
    BY DEF Status
  <2>2. Older(s).age = IF s.age < Interval THEN s.age + 1 ELSE s.age
    BY DEF Older, Status
  <2>3. cycleAge <= s.age \/ s.age = Interval
    BY <1>2 DEF NotYounger
  <2> QED
    BY <1>0, <1>1, <2>1, <2>2, <2>3
<1>3. status' = Older(status) /\ view' = Older(view) /\ pc' = pc
  BY DEF CycleTick, Tick
<1>4. pc # "idle" => pass'.status = Older(pass.status) /\ pass'.ticks = pass.ticks + 1
  BY <1>0 DEF CycleTick, Tick, Pass
<1>5. NotYounger(status)' /\ NotYounger(view)' /\ (pc' # "idle" => NotYounger(pass.status)')
  BY <1>0, <1>2, <1>3, <1>4 DEF AgesInv, NotYounger
<1>6. pc' \in {"list", "dispatch"} => cycleAge' < Interval + pass'.ticks
  BY <1>0, <1>1, <1>3, <1>4 DEF AgesInv
<1> QED
  BY <1>5, <1>6 DEF AgesInv

(* Every step keeps the history, the Jobs and the statuses in agreement. *)
LEMMA CycleInvStep == TypeOK /\ CycleInv /\ [CycleNext]_cycleVars => CycleInv'
<1> SUFFICES ASSUME TypeOK, CycleInv, [CycleNext]_cycleVars PROVE CycleInv'
  OBVIOUS
<1>1. CASE UNCHANGED cycleVars
  BY <1>1
  DEF cycleVars, vars, apiVars, cacheVars, opVars, CycleInv, JobsInv, AgesInv,
      CycleTypeOK, CycleBound, NotYounger, SpacedJob
<1> QED
  BY <1>1, JobsInvStep, JobsInvTick, AgesInvStep, AgesInvTick DEF CycleNext, CycleInv

(* A repository gets a further Job in a cycle only after each of the ones   *)
(* before was kept for its TTL: fewer than CycleBound / TTL further ones,   *)
(* for any interval and TTL (the shipped ones included), with caches        *)
(* however stale, failed passes, restarts and edits.                       *)
THEOREM JobsSpaced == CycleSpec => []JobsAreSpaced
<1>1. CycleInit => CycleInv
  BY CycleInvInit
<1>2. TypeOK /\ CycleInv /\ [CycleNext]_cycleVars => CycleInv'
  BY CycleInvStep
<1>3. CycleInv => JobsAreSpaced
  <2> SUFFICES ASSUME CycleInv, NEW r \in Repo PROVE (made[r] - 1) * TTL < CycleBound
    BY DEF JobsAreSpaced
  <2>1. made[r] \in Nat /\ TTL \in Nat /\ CycleBound \in Nat \ {0}
    BY DispatchAssumption DEF CycleInv, JobsInv, CycleTypeOK, CycleBound
  <2>2. (made[r] - 1) * TTL = Kept(made[r]) - TTL
    BY <2>1 DEF Kept
  <2>3. CASE made[r] = 0
    BY <2>1, <2>3
  <2>4. CASE made[r] > 0
    BY <2>2, <2>4 DEF CycleInv, JobsInv, SpacedJob
  <2> QED
    BY <2>1, <2>3, <2>4
<1> QED
  BY <1>1, <1>2, <1>3, CycleTypeCorrect, PTL DEF CycleSpec

===============================================================================
