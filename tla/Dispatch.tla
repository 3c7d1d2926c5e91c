------------------------------- MODULE Dispatch -------------------------------
(***************************************************************************)
(* The operator: one GitHubMetricsExporter or GitLabMetricsExporter        *)
(* resource, the reconciler that discovers its repositories and dispatches *)
(* one collection Job per repository, the Kubernetes API server it talks   *)
(* to, the informer caches it reads from, and the workqueue that wakes it. *)
(*                                                                         *)
(* A reconcile pass is not atomic.  It reads the resource from a cache,    *)
(* probes the API budget, lists repositories over the network, lists Jobs  *)
(* from a cache, creates Jobs one by one and writes the status at the end; *)
(* each of these is an action here, and Jobs finish, events arrive, time   *)
(* passes and the operator may stop between any two of them.               *)
(*                                                                         *)
(* Time advances in ticks.  Five minutes a tick gives the shipped values   *)
(* TTL = 2 (jobTTLSeconds) and Interval = 3 (the default interval).        *)
(***************************************************************************)
EXTENDS Integers, Sequences, FiniteSets

CONSTANTS
  Repo,          \* repository names (bare names on GitHub, full paths on GitLab)
  Listings,      \* the repository lists a successful discovery may return
  Parallelism,   \* spec.parallelism
  Interval,      \* spec.discoveryInterval, in ticks
  TTL,           \* ttlSecondsAfterFinished of a collection Job, in ticks
  BackoffLimit,  \* how many failed pods a collection Job retries
  Prompt,        \* TRUE: the operator is faster than Jobs and time
  MaxPass,       \* bound: ticks one reconcile pass may take
  MaxLag,        \* bound: Job events the informer cache may be behind
  MaxFaults      \* bound: failures, edits and restarts in a behaviour

ASSUME DispatchAssumption ==
  /\ IsFiniteSet(Repo)
  /\ Listings \subseteq Seq(Repo)
  /\ Parallelism \in Nat \ {0}
  /\ Interval \in Nat \ {0}
  /\ TTL \in Nat
  /\ BackoffLimit \in Nat
  /\ Prompt \in BOOLEAN
  /\ MaxPass \in Nat
  /\ MaxLag \in Nat \ {0}
  /\ MaxFaults \in Nat

(***************************************************************************)
(* A Job is "running" until a pod of it has failed or it has finished: the *)
(* reconciler counts exactly these as active.  "retrying" is an unfinished *)
(* Job with a failed pod, "finished" one that succeeded or gave up.        *)
(***************************************************************************)
Phase == {"absent", "running", "retrying", "finished"}

Reason == {"Unknown", "CredentialsInvalid", "RateLimited", "DiscoveryFailed",
           "DispatchFailed", "Discovered"}

(* Delays of a requeue: pendingRequeue (30s) and credentialRequeue (1m) are *)
(* over within the tick; no requeue is pending when the timer is NoRequeue. *)
Soon == 0
NoRequeue == Interval + 1

(* The parts of the resource's status that steer the reconciler.  age is   *)
(* the time since lastDiscoveryTime; it stops at Interval, which also      *)
(* stands for a status without a lastDiscoveryTime.  observed says whether *)
(* observedGeneration is the resource's generation.                        *)
Status == [inventory : Seq(Repo), age : 0 .. Interval, reason : Reason,
           observed : BOOLEAN]

EmptyStatus == [inventory |-> << >>, age |-> Interval, reason |-> "Unknown",
                observed |-> FALSE]

(* Reasons whose message may differ from one pass to the next. *)
VaryingMessage == Reason \ {"Discovered"}

(* The local variables of Reconcile and dispatchJobs. *)
Pass == [status : Status, current : BOOLEAN, discovered : BOOLEAN,
         seen : SUBSET Repo, active : Nat, todo : Seq(Repo),
         requeue : 0 .. Interval, ticks : 0 .. MaxPass]

NoPass == [status |-> EmptyStatus, current |-> FALSE, discovered |-> FALSE,
           seen |-> {}, active |-> 0, todo |-> << >>,
           requeue |-> 0, ticks |-> 0]

VARIABLES
  \* in the API server
  phase,        \* phase[r]: the collection Job of repository r
  ttl,          \* ttl[r]: ticks until the finished Job of r may be deleted
  status,       \* the stored status of the resource
  secret,       \* does the credentials Secret hold a usable key?
  \* in the informer caches of the operator
  cache,        \* cache[r]: the Job of r as the cache shows it
  watch,        \* Job events on their way to the cache, oldest first
  view,         \* the status as the cache shows it
  viewCurrent,  \* is the cached resource the latest version?
  \* the operator process
  queued,       \* is the resource's key in the workqueue?
  timer,        \* ticks until the delayed requeue is due, or NoRequeue
  pc,           \* where the running pass is
  pass,         \* its local variables
  \* the environment's budget
  faults        \* failures, edits and restarts so far

apiVars   == <<phase, ttl, status, secret>>
cacheVars == <<cache, watch, view, viewCurrent>>
opVars    == <<queued, timer, pc, pass>>
vars      == <<apiVars, cacheVars, opVars, faults>>

PC == {"idle", "gate", "list", "dispatch", "update"}

JobEvent == [repo : Repo, phase : Phase]

TypeOK ==
  /\ phase \in [Repo -> Phase]
  /\ ttl \in [Repo -> 0 .. TTL]
  /\ status \in Status
  /\ secret \in BOOLEAN
  /\ cache \in [Repo -> Phase]
  /\ watch \in Seq(JobEvent)
  /\ view \in Status
  /\ viewCurrent \in BOOLEAN
  /\ queued \in BOOLEAN
  /\ timer \in 0 .. NoRequeue
  /\ pc \in PC
  /\ pass \in Pass
  /\ faults \in 0 .. MaxFaults

-------------------------------------------------------------------------------
(***************************************************************************)
(* Helpers.                                                                *)
(***************************************************************************)
Older(s) == [s EXCEPT !.age = IF @ < Interval THEN @ + 1 ELSE @]

Running(jobs) == {r \in Repo : jobs[r] = "running"}

(* A delayed requeue never postpones one already pending. *)
Sooner(t, w) == IF t < w THEN t ELSE w

Fault == faults < MaxFaults /\ faults' = faults + 1

(* The API server stores a Job's new phase and announces it to watchers. *)
Publish(r, p) ==
  /\ Len(watch) < MaxLag
  /\ phase' = [phase EXCEPT ![r] = p]
  /\ watch' = Append(watch, [repo |-> r, phase |-> p])

(* The pass is over but for the status write: what it will write, and how   *)
(* long until the next pass.                                               *)
Conclude(p, reason, wait) ==
  /\ pc' = "update"
  /\ pass' = [p EXCEPT !.status.reason = reason, !.status.observed = TRUE,
                       !.requeue = wait,
                       !.seen = {}, !.active = 0, !.todo = << >>]

(* The dispatch loop is at repository r, and moves on to the next one. *)
AtRepo(r) == pc = "dispatch" /\ pass.todo # << >> /\ r = Head(pass.todo)

NextRepo == [pass EXCEPT !.todo = Tail(@)]

(* A mutant: the interval never makes the inventory stale. *)
NeverRediscovers(s) == s.inventory = << >>

NeedsDiscovery(s) == s.inventory = << >> \/ s.age >= Interval

Init ==
  /\ phase = [r \in Repo |-> "absent"]
  /\ ttl = [r \in Repo |-> 0]
  /\ status = EmptyStatus
  /\ secret \in BOOLEAN
  /\ cache = phase
  /\ watch = << >>
  /\ view = EmptyStatus
  /\ viewCurrent = TRUE
  /\ queued = TRUE
  /\ timer = NoRequeue
  /\ pc = "idle"
  /\ pass = NoPass
  /\ faults = 0

-------------------------------------------------------------------------------
(***************************************************************************)
(* Mutants: actions with the slip of a hand in them, to show that the       *)
(* properties below can tell.  No specification uses them.                 *)
(***************************************************************************)

(* Missing credentials end the pass without a requeue. *)
BeginGivesUp ==
  /\ pc = "idle" /\ queued
  /\ queued' = FALSE
  /\ IF secret THEN /\ pc' = "gate"
                    /\ pass' = [NoPass EXCEPT !.status = view, !.current = viewCurrent]
     ELSE UNCHANGED <<pc, pass>>
  /\ UNCHANGED <<apiVars, cacheVars, timer, faults>>

(* The cap is reached, and the next pass comes only after the interval. *)
CapWaitsForInterval(r) ==
  /\ AtRepo(r) /\ r \notin pass.seen /\ pass.active >= Parallelism
  /\ Conclude(pass, "Discovered", Interval)
  /\ UNCHANGED <<apiVars, cacheVars, queued, timer, faults>>

(* A created Job is not added to the active count. *)
CreateUncounted(r) ==
  /\ AtRepo(r) /\ r \notin pass.seen /\ pass.active < Parallelism
  /\ phase[r] = "absent" /\ Publish(r, "running")
  /\ pass' = NextRepo
  /\ UNCHANGED <<ttl, status, secret, cache, view, viewCurrent, queued, timer,
                 pc, faults>>

(* No RequeueAfter once every repository has its Job. *)
NeverRequeues ==
  /\ pc = "dispatch" /\ pass.todo = << >>
  /\ Conclude(pass, "Discovered", NoRequeue)
  /\ UNCHANGED <<apiVars, cacheVars, queued, timer, faults>>

(* The status is written whatever version the pass has read. *)
OverwriteStatus ==
  /\ pc = "update"
  /\ status' = pass.status /\ viewCurrent' = FALSE
  /\ timer' = Sooner(timer, pass.requeue)
  /\ pc' = "idle" /\ pass' = NoPass
  /\ UNCHANGED <<phase, ttl, secret, cache, watch, view, queued, faults>>

(* A failed status write is logged and forgotten. *)
SwallowUpdateError ==
  /\ pc = "update"
  /\ IF pass.current THEN Fault ELSE UNCHANGED faults
  /\ pc' = "idle" /\ pass' = NoPass
  /\ UNCHANGED <<apiVars, cacheVars, queued, timer>>

-------------------------------------------------------------------------------
(***************************************************************************)
(* The reconcile pass.                                                     *)
(***************************************************************************)

(* A worker takes the key: Get the resource from the cache and load the     *)
(* credentials.  A missing Secret, or a missing or empty key, ends the pass *)
(* with a requeue after credentialRequeue.                                 *)
Begin ==
  /\ pc = "idle" /\ queued
  /\ queued' = FALSE
  /\ LET p == [NoPass EXCEPT !.status = view, !.current = viewCurrent]
     IN  \/ /\ secret
            /\ pc' = "gate" /\ pass' = p
         \/ /\ ~secret
            /\ Conclude(p, "CredentialsInvalid", Soon)
  /\ UNCHANGED <<apiVars, cacheVars, timer, faults>>

(* rateLimited: the budget is known to be below the threshold.  The requeue *)
(* waits for the provider's reset (bound: Interval), and at least           *)
(* pendingRequeue.  An unknown or sufficient budget, a threshold of zero    *)
(* and a failed probe all let the pass go on to discovery.                 *)
BudgetLow ==
  /\ pc = "gate" /\ Fault
  /\ \E wait \in 0 .. Interval : Conclude(pass, "RateLimited", wait)
  /\ UNCHANGED <<apiVars, cacheVars, queued, timer>>

ReuseInventory ==
  /\ pc = "gate" /\ ~NeedsDiscovery(pass.status)
  /\ pc' = "list"
  /\ UNCHANGED <<apiVars, cacheVars, queued, timer, pass, faults>>

DiscoverRepos(l) ==
  /\ pc = "gate" /\ NeedsDiscovery(pass.status)
  /\ pc' = "list"
  /\ pass' = [pass EXCEPT !.status.inventory = l, !.status.age = 0,
                          !.discovered = TRUE]
  /\ UNCHANGED <<apiVars, cacheVars, queued, timer, faults>>

DiscoveryFails ==
  /\ pc = "gate" /\ NeedsDiscovery(pass.status) /\ Fault
  /\ Conclude(pass, "DiscoveryFailed", Soon)
  /\ UNCHANGED <<apiVars, cacheVars, queued, timer>>

(* dispatchJobs lists the resource's Jobs from the cache: any Job counts as *)
(* existing, and one with neither a failed nor a succeeded pod as active.   *)
ListJobs ==
  /\ pc = "list"
  /\ pc' = "dispatch"
  /\ pass' = [pass EXCEPT !.seen = {r \in Repo : cache[r] # "absent"},
                          !.active = Cardinality(Running(cache)),
                          !.todo = pass.status.inventory]
  /\ UNCHANGED <<apiVars, cacheVars, queued, timer, faults>>

SkipExisting(r) ==
  /\ AtRepo(r) /\ r \in pass.seen
  /\ pass' = NextRepo
  /\ UNCHANGED <<apiVars, cacheVars, queued, timer, pc, faults>>

CapReached(r) ==
  /\ AtRepo(r) /\ r \notin pass.seen /\ pass.active >= Parallelism
  /\ Conclude(pass, "Discovered", Soon)
  /\ UNCHANGED <<apiVars, cacheVars, queued, timer, faults>>

CreateJob(r) ==
  /\ AtRepo(r) /\ r \notin pass.seen /\ pass.active < Parallelism
  /\ phase[r] = "absent" /\ Publish(r, "running")
  /\ pass' = [NextRepo EXCEPT !.active = @ + 1]
  /\ UNCHANGED <<ttl, status, secret, cache, view, viewCurrent, queued, timer,
                 pc, faults>>

(* The API server already has the Job although the cache did not show it:   *)
(* the loop goes on, and the Job is not added to the active count.         *)
AlreadyExists(r) ==
  /\ AtRepo(r) /\ r \notin pass.seen /\ pass.active < Parallelism
  /\ phase[r] # "absent"
  /\ pass' = NextRepo
  /\ UNCHANGED <<apiVars, cacheVars, queued, timer, pc, faults>>

(* Listing, or creating a Job, returns any other error. *)
DispatchFails ==
  /\ pc = "list" \/ \E r \in Repo : AtRepo(r) /\ r \notin pass.seen
                                    /\ pass.active < Parallelism
  /\ Fault
  /\ Conclude(pass, "DispatchFailed", Soon)
  /\ UNCHANGED <<apiVars, cacheVars, queued, timer>>

AllDispatched ==
  /\ pc = "dispatch" /\ pass.todo = << >>
  /\ Conclude(pass, "Discovered", Interval)
  /\ UNCHANGED <<apiVars, cacheVars, queued, timer, faults>>

(* Status().Update succeeds only against the version the pass has read.  A  *)
(* write that changes nothing, not even a message, makes no new version and *)
(* no event.                                                               *)
UpdateStatus ==
  /\ pc = "update" /\ pass.current
  /\ status' = pass.status
  /\ LET same == pass.status = status /\ ~pass.discovered
     IN  \/ /\ same => pass.status.reason \in VaryingMessage
            /\ viewCurrent' = FALSE
         \/ same /\ UNCHANGED viewCurrent
  /\ timer' = Sooner(timer, pass.requeue)
  /\ pc' = "idle" /\ pass' = NoPass
  /\ UNCHANGED <<phase, ttl, secret, cache, watch, view, queued, faults>>

(* The write is refused (the version read is no longer the latest) or fails: *)
(* Reconcile returns the error, and the workqueue retries with backoff.     *)
UpdateFails ==
  /\ pc = "update"
  /\ IF pass.current THEN Fault ELSE UNCHANGED faults
  /\ timer' = Soon
  /\ pc' = "idle" /\ pass' = NoPass
  /\ UNCHANGED <<apiVars, cacheVars, queued>>

-------------------------------------------------------------------------------
(***************************************************************************)
(* Wake-ups and caches: For(resource) and Owns(Job) queue the key when an   *)
(* event reaches the cache; a delayed requeue queues it when it is due.     *)
(***************************************************************************)
DeliverJobEvent ==
  /\ watch # << >>
  /\ cache' = [cache EXCEPT ![Head(watch).repo] = Head(watch).phase]
  /\ watch' = Tail(watch)
  /\ queued' = TRUE
  /\ UNCHANGED <<apiVars, view, viewCurrent, timer, pc, pass, faults>>

SyncView ==
  /\ ~viewCurrent
  /\ view' = status /\ viewCurrent' = TRUE
  /\ queued' = TRUE
  /\ UNCHANGED <<apiVars, cache, watch, timer, pc, pass, faults>>

RequeueFires ==
  /\ timer = 0
  /\ timer' = NoRequeue /\ queued' = TRUE
  /\ UNCHANGED <<apiVars, cacheVars, pc, pass, faults>>

(* The operator process stops, and its replacement fills its caches anew    *)
(* and reconciles every resource it finds.                                 *)
Restart ==
  /\ Fault
  /\ cache' = phase /\ watch' = << >> /\ view' = status /\ viewCurrent' = TRUE
  /\ queued' = TRUE /\ timer' = NoRequeue /\ pc' = "idle" /\ pass' = NoPass
  /\ UNCHANGED <<apiVars>>

-------------------------------------------------------------------------------
(***************************************************************************)
(* The cluster: the Job and TTL controllers, people, and time.             *)
(***************************************************************************)

(* Where Prompt singles out a fast operator: Jobs move only between passes,  *)
(* with current caches, and time only when there is no pass to begin.       *)
Settled == pc = "idle" /\ watch = << >> /\ viewCurrent

PodFails(r) ==
  /\ Prompt => Settled
  /\ phase[r] = "running" /\ BackoffLimit > 0
  /\ Publish(r, "retrying")
  /\ UNCHANGED <<ttl, status, secret, cache, view, viewCurrent, opVars, faults>>

JobFinishes(r) ==
  /\ Prompt => Settled
  /\ phase[r] \in {"running", "retrying"}
  /\ Publish(r, "finished")
  /\ ttl' = [ttl EXCEPT ![r] = TTL]
  /\ UNCHANGED <<status, secret, cache, view, viewCurrent, opVars, faults>>

JobExpires(r) ==
  /\ Prompt => Settled
  /\ phase[r] = "finished" /\ ttl[r] = 0
  /\ Publish(r, "absent")
  /\ UNCHANGED <<ttl, status, secret, cache, view, viewCurrent, opVars, faults>>

(* Secrets are not watched: an edit of one queues nothing. *)
SecretBreaks ==
  /\ secret /\ Fault
  /\ secret' = FALSE
  /\ UNCHANGED <<phase, ttl, status, cacheVars, opVars>>

SecretRepaired ==
  /\ ~secret
  /\ secret' = TRUE
  /\ UNCHANGED <<phase, ttl, status, cacheVars, opVars, faults>>

(* Someone edits the resource: a new version, which no pass has read yet. *)
SpecEdited ==
  /\ Fault
  /\ status' = [status EXCEPT !.observed = FALSE]
  /\ viewCurrent' = FALSE
  /\ pass' = [pass EXCEPT !.current = FALSE]
  /\ UNCHANGED <<phase, ttl, secret, cache, watch, view, queued, timer, pc>>

Tick ==
  /\ pc # "idle" => pass.ticks < MaxPass
  /\ Prompt => Settled /\ ~queued
  /\ status' = Older(status) /\ view' = Older(view)
  /\ pass' = IF pc = "idle" THEN pass
             ELSE [pass EXCEPT !.status = Older(@), !.ticks = @ + 1]
  /\ ttl' = [r \in Repo |-> IF phase[r] = "finished" /\ ttl[r] > 0
                            THEN ttl[r] - 1 ELSE ttl[r]]
  /\ timer' = IF timer \in 1 .. Interval THEN timer - 1 ELSE timer
  /\ UNCHANGED <<phase, secret, cache, watch, viewCurrent, queued, pc, faults>>

-------------------------------------------------------------------------------
Discover == ReuseInventory \/ DiscoveryFails \/ \E l \in Listings : DiscoverRepos(l)

DispatchLoop ==
  \/ AllDispatched \/ DispatchFails
  \/ \E r \in Repo : SkipExisting(r) \/ CapReached(r) \/ CreateJob(r) \/ AlreadyExists(r)

Reconcile ==
  Begin \/ BudgetLow \/ Discover \/ ListJobs \/ DispatchLoop
  \/ UpdateStatus \/ UpdateFails

Caches == DeliverJobEvent \/ SyncView \/ RequeueFires \/ Restart

Cluster ==
  \/ SecretBreaks \/ SecretRepaired \/ SpecEdited
  \/ \E r \in Repo : PodFails(r) \/ JobFinishes(r) \/ JobExpires(r)

Next == Reconcile \/ Caches \/ Cluster \/ Tick

Spec == Init /\ [][Next]_vars

(***************************************************************************)
(* The worker, the informers and the workqueue keep running, Jobs finish    *)
(* (their pods are bounded and retried at most BackoffLimit times), expired *)
(* Jobs are deleted and time passes.  Strong fairness where MaxLag, a bound *)
(* the cluster does not have, may disable the step for a moment.  Nothing   *)
(* is assumed of people, and nothing of failures except that there are at   *)
(* most MaxFaults of them.                                                 *)
(***************************************************************************)
Fairness ==
  /\ WF_vars(Reconcile)
  /\ WF_vars(DeliverJobEvent) /\ WF_vars(SyncView) /\ WF_vars(RequeueFires)
  /\ SF_vars(Tick)
  /\ \A r \in Repo : SF_vars(JobFinishes(r)) /\ SF_vars(JobExpires(r))

FairSpec == Spec /\ Fairness

-------------------------------------------------------------------------------
(***************************************************************************)
(* Properties.                                                             *)
(***************************************************************************)

(* "at most parallelism Jobs are active (running or pending) at once",       *)
(* counting Jobs as dispatchJobs does (no failed pod yet).  The list it     *)
(* counts in comes from a cache, so this is not what the code keeps.        *)
RunningWithinCap == Cardinality(Running(phase)) <= Parallelism

(* What the code keeps: the cap is exceeded by no more Jobs than there are  *)
(* Job events the cache may be behind.  A pass lists Jobs from the cache and *)
(* counts on while it creates; Jobs of the pass before may be missing from  *)
(* the list, those found to exist already are not counted, and others       *)
(* finish, fail and expire meanwhile.                                      *)
OvershootWithinLag == Cardinality(Running(phase)) <= Parallelism + MaxLag

(* No lost wake-up: an idle operator whose stored inventory has a           *)
(* repository without a Job, and which is not pausing for the rate limit,   *)
(* looks again within a short requeue or on an event already under way; it  *)
(* never sleeps through the rest of the discovery interval.                 *)
OwedWorkIsScheduled ==
  /\ pc = "idle" /\ status.reason # "RateLimited"
  /\ \E i \in DOMAIN status.inventory : phase[status.inventory[i]] = "absent"
  => queued \/ timer = Soon \/ watch # << >> \/ ~viewCurrent

(* No edit and no failure is forgotten: an idle operator whose status does  *)
(* not observe the latest edit, or reports bad credentials, a failed        *)
(* discovery or a failed dispatch, reconciles again within a short requeue  *)
(* or on an event already under way, although a status write may be refused *)
(* and nothing wakes it when a Secret is repaired.                         *)
UnsettledIsRetried ==
  /\ pc = "idle"
  /\ \/ ~status.observed
     \/ status.reason \in {"CredentialsInvalid", "DiscoveryFailed", "DispatchFailed"}
  => queued \/ timer = Soon \/ ~viewCurrent

(* A pass that read an outdated resource never overwrites a newer status:   *)
(* the stored lastDiscoveryTime does not move back when a pass ends.        *)
StatusNeverRollsBack ==
  [][pc = "update" /\ pc' = "idle" => status'.age <= status.age]_vars

(* Once the credentials stay valid, the resource becomes and stays Ready,   *)
(* although nothing wakes the operator when the Secret is repaired and      *)
(* although status writes may be refused on the way.                        *)
ReadyOnceCredentialsHold == <>[]secret => <>[](status.reason = "Discovered")

(* The latest edit of the resource is eventually reflected in its status    *)
(* (observedGeneration), whether or not its credentials ever work: a pass   *)
(* that read the resource before the edit must not mark it as observed.     *)
EditsAreObserved == <>[]status.observed

(* "ensures a collection Job exists for each repo": while the credentials   *)
(* are valid, every repository is collected again and again.               *)
EveryRepoCollected == <>[]secret => \A r \in Repo : []<>(phase[r] = "running")

===============================================================================
