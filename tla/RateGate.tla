------------------------------- MODULE RateGate -------------------------------
(***************************************************************************)
(* The credential's API budget, the gate the reconciler puts before each     *)
(* pass, and everyone who spends from the budget: the probe itself, the      *)
(* discovery, the collection Jobs, which are granted by one pass and spend   *)
(* during the next ones, and whoever else has the credential.               *)
(*                                                                         *)
(* What wakes the operator is here as well, since a pass that pauses writes  *)
(* a status, and a status that changes wakes the operator again.            *)
(*                                                                         *)
(* Jobs are counted, not named: Dispatch has which repository gets one.  The *)
(* list of Jobs and the resource are read up to date here.  A tick is 15s.  *)
(***************************************************************************)
EXTENDS Integers

CONSTANTS
  Bucket,         \* GitHub: 1 for REST core, 2 for GraphQL; GitLab has 1
  ProbeCost,      \* requests a probe spends: 0 for /rate_limit, 1 for GET /version
  Threshold,      \* spec.rateLimitThreshold
  Limit, Window,  \* the budget of a window, and its ticks
  Parallelism,    \* spec.parallelism
  Interval,       \* spec.discoveryInterval, in ticks
  JobCost,        \* the most requests a Job spends of one bucket
  DiscoveryCost,  \* the most a discovery does
  Sizes,          \* how many repositories a discovery may find
  Stales,         \* may the reported reset lie in the past?
  MaxFaults       \* bound: failures and events from outside in a behaviour

ASSUME GateAssumption ==
  /\ Bucket \in {{1}, {1, 2}}
  /\ ProbeCost \in Nat /\ Threshold \in Nat /\ Limit \in Nat
  /\ Window \in Nat \ {0} /\ Parallelism \in Nat \ {0} /\ Interval \in Nat \ {0}
  /\ JobCost \in Nat /\ DiscoveryCost \in Nat
  /\ Sizes \subseteq Nat /\ Stales \subseteq BOOLEAN /\ MaxFaults \in Nat

rateLimitBuffer == 1
pendingRequeue == 2
credentialRequeue == 4
NoTimer == -1

(* A status: the Ready condition with what its message says, and the cached *)
(* inventory.  until counts down with the reset it shows; 0 is over.        *)
Reason == {"Unknown", "CredentialsInvalid", "RateLimited", "DiscoveryFailed",
           "DispatchFailed", "Discovered"}
Status == [reason : Reason, left : 0 .. Limit, until : 0 .. Window,
           found : Nat, age : 0 .. Interval]

VARIABLES
  \* the provider
  remaining,   \* requests left of each bucket
  resets,      \* ticks until it is refilled
  stale,       \* does it report resets that are over?
  \* the Jobs
  active,      \* those dispatchJobs counts
  retrying,    \* those with a failed pod, which it does not count
  owed,        \* what all of them may still spend of each bucket
  \* the operator
  status,      \* the stored status
  queued,      \* why the resource is in the workqueue
  timer,       \* ticks until its requeue
  pc,          \* where in a pass it is
  next, wait,  \* the status and the requeue the pass will end with
  listed,      \* has it listed the repositories?
  \* what the properties remember
  sure,        \* has only the operator spent since a probe that sufficed?
  echoes,      \* passes in a row that only the writes of a pause caused
  faults

provider == <<remaining, resets, stale>>
jobs == <<active, retrying, owed>>
queue == <<queued, timer>>
pass == <<next, wait, listed>>
vars == <<provider, jobs, status, queue, pc, pass, sure, echoes, faults>>

Lasting == IF Window + rateLimitBuffer > Interval THEN Window + rateLimitBuffer ELSE Interval
Delays == 0 .. Lasting + credentialRequeue

TypeOK ==
  /\ remaining \in [Bucket -> 0 .. Limit]
  /\ resets \in [Bucket -> 1 .. Window]
  /\ stale \in BOOLEAN
  /\ active \in 0 .. Parallelism /\ retrying \in Nat /\ owed \in [Bucket -> Nat]
  /\ status \in Status /\ next \in Status
  /\ queued \subseteq {"self", "other"}
  /\ timer \in Delays \cup {NoTimer} /\ wait \in Delays
  /\ pc \in {"idle", "discover", "dispatch", "update"}
  /\ listed \in BOOLEAN /\ sure \in BOOLEAN /\ echoes \in 0 .. 4
  /\ faults \in 0 .. MaxFaults

EmptyStatus ==
  [reason |-> "Unknown", left |-> 0, until |-> 0, found |-> 0, age |-> Interval]

Init ==
  /\ remaining \in [Bucket -> 0 .. Limit]
  /\ resets \in [Bucket -> 1 .. Window] /\ stale \in Stales
  /\ active = 0 /\ retrying = 0 /\ owed = [b \in Bucket |-> 0]
  /\ status = EmptyStatus /\ next = EmptyStatus /\ wait = 0
  /\ queued = {"other"} /\ timer = NoTimer /\ pc = "idle" /\ listed = FALSE
  /\ sure = FALSE /\ echoes = 0 /\ faults = 0

-------------------------------------------------------------------------------
Fault == faults < MaxFaults /\ faults' = faults + 1

(* A request beyond the budget is refused.                                 *)
Less(n, m) == IF n > m THEN n - m ELSE 0
Spend(b, n) == [remaining EXCEPT ![b] = Less(@, n)]

(* The budget the probe reports: the tighter bucket, REST core on a tie.    *)
(* The mutant reports the last bucket it looked at.                        *)
LastBucket(left) == CHOOSE b \in Bucket : \A c \in Bucket : c <= b

Tightest(left) ==
  CHOOSE b \in Bucket :
    \A c \in Bucket : left[b] < left[c] \/ (left[b] = left[c] /\ b <= c)

ReportedReset(b) == IF stale THEN 0 ELSE resets[b]

(* Until the reset and a little longer, but never sooner than               *)
(* pendingRequeue.  Without that floor a reset long over gives a negative   *)
(* delay, which requeues nothing.                                          *)
Unfloored(reset) == IF reset = 0 THEN NoTimer ELSE reset + rateLimitBuffer
RateLimitRequeue(reset) ==
  IF reset + rateLimitBuffer < pendingRequeue THEN pendingRequeue ELSE reset + rateLimitBuffer

Sooner(d) == IF timer = NoTimer \/ (d # NoTimer /\ d < timer) THEN d ELSE timer

(* The workqueue hands the resource out: its requeue is due, or an event    *)
(* has put it there.                                                       *)
Woken ==
  /\ pc = "idle" /\ (timer = 0 \/ queued # {})
  /\ queued' = {} /\ timer' = IF timer = 0 THEN NoTimer ELSE timer

Echoed ==
  echoes' = IF timer = 0 \/ "other" \in queued \/ status.reason # "RateLimited" THEN 0
            ELSE IF echoes < 4 THEN echoes + 1 ELSE 4

(* needsDiscovery: nothing found yet, or the interval has elapsed. *)
NeedsDiscovery == status.found = 0 \/ status.age >= Interval

-------------------------------------------------------------------------------
(* A pass begins with the credentials.  Without them there is no probe. *)
AuthFails ==
  /\ Woken /\ Fault /\ echoes' = 0
  /\ next' = [status EXCEPT !.reason = "CredentialsInvalid"]
  /\ wait' = credentialRequeue /\ pc' = "update"
  /\ UNCHANGED <<provider, jobs, status, listed, sure>>

(* Then comes the probe.  Below the threshold it ends with the      *)
(* pause.                                                                  *)
BudgetLow ==
  /\ Woken /\ Echoed /\ Threshold > 0
  /\ remaining' = Spend(1, ProbeCost)
  /\ LET b == Tightest(remaining')
     IN  /\ remaining'[b] < Threshold
         /\ next' = [status EXCEPT !.reason = "RateLimited", !.left = remaining'[b],
                                   !.until = ReportedReset(b)]
         /\ wait' = RateLimitRequeue(ReportedReset(b))
  /\ pc' = "update"
  /\ UNCHANGED <<resets, stale, jobs, status, listed, sure, faults>>

BudgetSuffices ==
  /\ Woken /\ Echoed /\ Threshold > 0
  /\ remaining' = Spend(1, ProbeCost)
  /\ remaining'[Tightest(remaining')] >= Threshold
  /\ pc' = "discover" /\ sure' = (retrying = 0)
  /\ UNCHANGED <<resets, stale, jobs, status, pass, faults>>

(* No threshold, a probe that fails, or an answer without the headers: the  *)
(* pass goes on.                                                           *)
Ungated ==
  /\ Woken
  /\ IF Threshold = 0 THEN Echoed /\ UNCHANGED faults ELSE Fault /\ echoes' = 0
  /\ pc' = "discover" /\ sure' = FALSE
  /\ UNCHANGED <<provider, jobs, status, pass>>

ReuseInventory ==
  /\ pc = "discover" /\ ~ NeedsDiscovery
  /\ next' = status /\ pc' = "dispatch"
  /\ UNCHANGED <<provider, jobs, status, queue, wait, listed, sure, echoes, faults>>

DiscoverRepos(n) ==
  /\ pc = "discover" /\ NeedsDiscovery /\ remaining[1] >= DiscoveryCost
  /\ \E cost \in 0 .. DiscoveryCost : remaining' = Spend(1, cost)
  /\ next' = [status EXCEPT !.found = n, !.age = 0]
  /\ listed' = TRUE /\ pc' = "dispatch"
  /\ UNCHANGED <<resets, stale, jobs, status, queue, wait, sure, echoes, faults>>

(* The budget runs out, or something else goes wrong. *)
DiscoveryFails ==
  /\ pc = "discover" /\ NeedsDiscovery
  /\ \/ /\ remaining[1] < DiscoveryCost
        /\ remaining' = Spend(1, DiscoveryCost) /\ UNCHANGED <<echoes, faults>>
     \/ /\ Fault /\ echoes' = 0
        /\ \E cost \in 0 .. DiscoveryCost : remaining' = Spend(1, cost)
  /\ next' = [status EXCEPT !.reason = "DiscoveryFailed"]
  /\ wait' = credentialRequeue /\ pc' = "update"
  /\ UNCHANGED <<resets, stale, jobs, status, queue, listed, sure>>

(* dispatchJobs fills up to the cap, for some of the repositories without a *)
(* Job; it is pending when the cap stops it.  A Job that is created is an   *)
(* event, too.                                                             *)
Created(n) ==
  /\ pc = "dispatch"
  /\ active + n <= Parallelism /\ n <= next.found
  /\ active' = active + n
  /\ owed' = [b \in Bucket |-> owed[b] + n * JobCost]
  /\ queued' = IF n > 0 THEN queued \cup {"other"} ELSE queued
  /\ pc' = "update"
  /\ UNCHANGED <<provider, retrying, status, timer, listed, sure>>

DispatchJobs(n, pending) ==
  /\ Created(n) /\ (pending => active' = Parallelism)
  /\ next' = [next EXCEPT !.reason = "Discovered"]
  /\ wait' = IF pending THEN pendingRequeue ELSE Interval
  /\ UNCHANGED <<echoes, faults>>

DispatchFails(n) ==
  /\ Created(n) /\ Fault /\ echoes' = 0
  /\ next' = [next EXCEPT !.reason = "DispatchFailed"]
  /\ wait' = credentialRequeue

(* What a reader of the status sees: the reason, its message, the time of   *)
(* the last discovery and what it found.                                   *)
Shown(s) == [s EXCEPT !.left = IF s.reason = "RateLimited" THEN @ ELSE 0,
                      !.until = IF s.reason = "RateLimited" THEN @ ELSE 0]

(* A write that changes something is an event of the resource, which no     *)
(* predicate filters.  Times have seconds, so a discovery may leave the old *)
(* one, and the text of a failure may be a new one.  The mutant stamps the  *)
(* condition on every write.                                               *)
AlwaysChanged(changed) == changed
Changed(changed) ==
  IF Shown(next) # Shown(status) THEN changed
  ELSE changed => listed \/ next.reason = "DiscoveryFailed"

UpdateStatus ==
  /\ pc = "update"
  /\ \E changed \in BOOLEAN :
       /\ Changed(changed)
       /\ queued' = IF changed THEN queued \cup {"self"} ELSE queued
  /\ status' = next /\ timer' = Sooner(wait)
  /\ pc' = "idle" /\ next' = EmptyStatus /\ wait' = 0 /\ listed' = FALSE
  /\ UNCHANGED <<provider, jobs, sure, echoes, faults>>

(* The write is refused or fails: the workqueue retries the resource.       *)
UpdateFails ==
  /\ pc = "update" /\ Fault
  /\ timer' = 0
  /\ pc' = "idle" /\ next' = EmptyStatus /\ wait' = 0 /\ listed' = FALSE
  /\ UNCHANGED <<provider, jobs, status, queued, sure, echoes>>

-------------------------------------------------------------------------------
(* A Job makes a request; with nothing left it is refused, and the Job's    *)
(* source fails.                                                           *)
JobSpends(b) ==
  /\ owed[b] > 0
  /\ remaining' = Spend(b, 1) /\ owed' = [owed EXCEPT ![b] = @ - 1]
  /\ echoes' = 0
  /\ UNCHANGED <<resets, stale, active, retrying, status, queue, pc, pass, sure, faults>>

(* One ends, whatever it has left to spend, and those that stay have no     *)
(* more than theirs.                                                       *)
Rest(n) ==
  /\ owed' \in [Bucket -> 0 .. n * JobCost]
  /\ \A b \in Bucket : owed'[b] <= owed[b] /\ owed[b] - owed'[b] <= JobCost

JobEnds ==
  /\ active > 0 /\ active' = active - 1 /\ Rest(active' + retrying)
  /\ queued' = queued \cup {"other"}
  /\ UNCHANGED <<provider, retrying, status, timer, pc, pass, sure, echoes, faults>>

(* A pod fails: dispatchJobs counts its Job no more, and it spends on.      *)
PodFails ==
  /\ active > 0 /\ Fault
  /\ active' = active - 1 /\ retrying' = retrying + 1
  /\ queued' = queued \cup {"other"} /\ sure' = FALSE
  /\ UNCHANGED <<provider, owed, status, timer, pc, pass, echoes>>

RetryEnds ==
  /\ retrying > 0 /\ retrying' = retrying - 1 /\ Rest(active + retrying')
  /\ queued' = queued \cup {"other"}
  /\ UNCHANGED <<provider, active, status, timer, pc, pass, sure, echoes, faults>>

(* Another target with the same credential, or a person, spends. *)
OthersSpend(b) ==
  /\ Fault
  /\ \E n \in 1 .. Limit : remaining' = Spend(b, n)
  /\ sure' = FALSE /\ echoes' = 0
  /\ UNCHANGED <<resets, stale, jobs, status, queue, pc, pass>>

(* An edit, a restart, a Job that expires: something else wakes the         *)
(* operator.                                                               *)
Event ==
  /\ Fault /\ queued' = queued \cup {"other"}
  /\ UNCHANGED <<provider, jobs, status, timer, pc, pass, sure, echoes>>

Aged(s) == [s EXCEPT !.until = Less(@, 1), !.age = IF @ < Interval THEN @ + 1 ELSE @]

(* Time passes, and a bucket whose window is over is refilled.  A requeue   *)
(* that is due does not wait, and a pass is over within the tick.           *)
Tick ==
  /\ pc = "idle" /\ timer # 0
  /\ timer' = IF timer > 0 THEN timer - 1 ELSE timer
  /\ resets' = [b \in Bucket |-> IF resets[b] = 1 THEN Window ELSE resets[b] - 1]
  /\ remaining' = [b \in Bucket |-> IF resets[b] = 1 THEN Limit ELSE remaining[b]]
  /\ status' = Aged(status)
  /\ echoes' = IF remaining' = remaining THEN echoes ELSE 0
  /\ UNCHANGED <<stale, jobs, queued, pc, pass, sure, faults>>

Operator ==
  \/ AuthFails \/ BudgetLow \/ BudgetSuffices \/ Ungated
  \/ ReuseInventory \/ DiscoveryFails \/ \E n \in Sizes : DiscoverRepos(n)
  \/ \E n \in 0 .. Parallelism, pending \in BOOLEAN : DispatchJobs(n, pending)
  \/ \E n \in 0 .. Parallelism : DispatchFails(n)
  \/ UpdateStatus \/ UpdateFails

Jobs == (\E b \in Bucket : JobSpends(b)) \/ JobEnds \/ RetryEnds

Next ==
  \/ Operator \/ Jobs \/ Tick
  \/ PodFails \/ Event \/ \E b \in Bucket : OthersSpend(b)

Spec == Init /\ [][Next]_vars

(* The workqueue hands out what is due, a pass goes on, Jobs end, and time  *)
(* passes.                                                                 *)
FairSpec ==
  /\ Spec
  /\ WF_vars(Operator) /\ WF_vars(Tick) /\ WF_vars(JobEnds) /\ WF_vars(RetryEnds)

-------------------------------------------------------------------------------
(* What the gate is worth: since a probe that sufficed, and as long as      *)
(* nobody else spends and no Job retries, a budget never falls further      *)
(* below the threshold than one discovery and two generations of Jobs: the  *)
(* ones that ran at the probe, and the ones that pass dispatched in their   *)
(* places (rateLimited, dispatchJobs).                                     *)
FloorHolds ==
  sure => \A b \in Bucket :
            remaining[b] >= Threshold - DiscoveryCost - 2 * (Parallelism * JobCost)

(* "so the operator stops spending quota (discovery included) until the     *)
(* rate-limit window resets": left alone, an operator that pauses looks at  *)
(* most twice more, woken by its own status writes, and then sleeps.       *)
PauseIsQuiet == echoes <= 2

(* An operator that has paused sleeps with a requeue armed, which is due     *)
(* soon after the reset it reports (rateLimitRequeue): no write that fails, *)
(* no echo and no event leaves it without one.                              *)
PauseEnds ==
  pc = "idle" /\ status.reason = "RateLimited" => timer \in 0 .. status.until + pendingRequeue

(* A pause ends, even when the reset the provider reports is long over.     *)
Resumes == status.reason = "RateLimited" ~> status.reason # "RateLimited"

(* discoveryInterval is "how often the operator re-discovers repositories". *)
DiscoveriesPaced ==
  [][pc = "discover" /\ listed' => status.age >= Interval]_vars
===============================================================================
