# Verification of scm-metrics-exporter

TLA+ models of the operator and of the remediation pipeline of
scm-metrics-exporter, TLC runs that check them on small instances, and TLAPS
proofs of their main safety properties for every value of the constants.
`PROJECT.json` maps each definition to the source lines it stands for and lists
the runs, mutants, findings, hazards and theorems.

## The system

A Kubernetes operator watches `GitHubMetricsExporter` and
`GitLabMetricsExporter` resources. For each it lists the repositories of an
organisation, group or user, and creates one short-lived collection Job per
repository. A Job runs the exporter once: it polls the provider for that
repository, records resolved findings in a Valkey store if asked to, and pushes
everything over OTLP before it exits. The Job's TTL deletes it, and the
reconciler creates the next one.

| Component | State | Operations | Talks to |
|---|---|---|---|
| Reconcilers (`internal/controller`) | the resource's status: inventory, lastDiscoveryTime, Ready condition, observedGeneration | `Reconcile`, `dispatchJobs`, `rateLimited`, `needsDiscovery`, `updateStatus` | API server (writes, uncached), informer caches (reads), provider API, workqueue |
| Rendered Jobs (`render.go`) | none; name, labels, backoff limit and TTL decide what the reconciler sees | `collectionJob`, `jobName` | Job and TTL controllers |
| Discovery (`internal/discovery`) | none | `ListRepos`, `ListProjects`, rate budgets | provider API, page by page |
| Exporter command (`cmd/exporter`) | the process | `run`, `openRemediationStore`, deferred shutdown | collector, store, metrics |
| Collector (`internal/collector`) | last snapshot per provider, under a mutex | `PollOnce`, `Run`, `Latest` | provider (writer side), metric callbacks (reader side) |
| Providers (`internal/provider/...`) | none; a snapshot is built source by source | `Snapshot`, `SnapshotRepo`, `collectResolvedFindings` | provider API, page by page |
| Recording (`internal/lifecycle`) | none | `Record` | store |
| Store (`internal/store`) | Valkey: `counted:<scope>` sets with a TTL, `hist:<scope>` hashes, the `histkeys` index | `RecordIfNew` (a Lua script), `Remediation` (a read per key) | every Job of every resource |
| Metrics (`internal/metrics`) | instruments, callbacks, a periodic reader | export on a timer and once at shutdown | collector, store, OTLP backend |
| Admission (`api/v1alpha1`) | none | CEL rules, `validate` | API server, uncached |
| Configuration (`internal/config`) | none | `Load`, `validate` | environment, rendered by the reconciler |
| Operator command (`cmd/operator`) | manager, caches | start, stop | all of the operator |

What is hard in it:

* **The pass is not atomic.** `Reconcile` reads the resource and the Jobs from
  caches that lag, makes network calls in between, creates Jobs one by one and
  writes the status last. Jobs finish, retry and expire, people edit the
  resource and the Secret, and the operator may stop between any two steps.
* **Nothing but events and requeues wakes it.** Secrets are not watched.
* **Many writers, one store.** Jobs of one resource, of several resources and
  of overlapping cycles record the same findings and push the same histograms.
* **Two clocks.** The dedup TTL runs from the last write, the query window from
  the resolution; the Job TTL runs from the end of the Job, the discovery
  interval from the last discovery.
* **Lists are read page by page** while others change them, by the operator and
  by twenty-one readers of the exporter, each with its own way to fail.
* **The budget is spent by parties that do not know of each other**: the gate
  probes before a pass, Jobs of earlier passes spend after it, and a paused
  operator is woken by its own status writes.
* **One poll is many queries**, and findings are closed and repositories renamed
  between them.
* **Four parties check one configuration**, each at its own time: the API server
  with its webhook, the reconciler, the kubelet and the exporter.
* **Partial failure is success.** Most failures of a Job are recorded and the
  Job exits 0; what it missed is left to later runs.

Correctness, component by component, is what the properties below say; the
hazard list in `PROJECT.json` says where in the code each can go wrong.

## Modules

| Module | What it is |
|---|---|
| `Dispatch` | the operator: one resource, its reconcile pass, Jobs, caches, workqueue, Secret, time |
| `DispatchCycles` | `Dispatch` with history variables for discovery cycles |
| `DispatchProofs` | theorems about both |
| `MCRepos`, `MCDispatch`, `MCDispatchCycles` | instances for TLC |
| `Ledger` | abstract: what the remediation store promises |
| `Remediation` | the store, the Jobs that record and export, and the metrics backend |
| `RemediationProofs` | theorems about it, the refinement of `Ledger` among them |
| `MCRemediation` | instances for TLC |
| `Exporter` | the exporter process: polls, snapshot cache, error counter, metric reader, signals, Job retries |
| `ExporterProofs` | theorems about it |
| `MCExporter` | instance for TLC |
| `Listing` | a paged list: the forge, those who change it, and the 23 readers of the code |
| `RateGate` | the API budget, the gate before a pass, those who spend, and what wakes the operator |
| `Collect` | one poll of a provider: sources, their answers, the merged snapshot and two of its gauges |
| `Configuration` | from a resource and its Secrets to the configuration of a Job: admission, reconciler, kubelet, exporter |
| `ListingProofs`, `RateGateProofs`, `CollectProofs`, `ConfigurationProofs` | theorems about them |
| `MCListing`, `MCRateGate`, `MCCollect`, `MCConfiguration` | instances for TLC |

`DispatchCycles` extends `Dispatch`; `Remediation` is shown to implement
`Ledger`. The others meet in places which their properties name but no module
composes:

* a Job of `Dispatch` is a process of `Exporter`, whose exit code is what makes
  the Job finish or retry; `Configuration` has the exits before the first poll;
* the `record` step of `Exporter` is what `Remediation` has in detail;
* a poll of `Exporter` is what `Collect` has in detail, and a list that a query
  of `Collect` reads in one step is read page by page in `Listing`;
* the steps `DiscoverRepos` and `BudgetLow` of `Dispatch` are `Listing` and
  `RateGate` in detail.

### Dispatch

A reconcile pass is a sequence of actions, and `pc` says where it is:

| `pc` | Code | Actions out of it |
|---|---|---|
| `idle` | the worker waits for a key | `Begin` (Get from the cache, credentials) |
| `gate` | rate budget, then discovery | `BudgetLow`, `ReuseInventory`, `DiscoverRepos`, `DiscoveryFails` |
| `list` | `c.List` of the Jobs, from the cache | `ListJobs`, `DispatchFails` |
| `dispatch` | the loop over the repositories | `SkipExisting`, `CapReached`, `CreateJob`, `AlreadyExists`, `DispatchFails`, `AllDispatched` |
| `update` | `Status().Update` with optimistic locking | `UpdateStatus`, `UpdateFails` |

`pass` holds its local variables: the resource as read (`status`, and `current`,
which says whether that version still is the latest), the Jobs seen, the active
count, the repositories left and the requeue delay. `phase` is the truth about
Jobs in the API server; `cache` and `watch` are the informer's view of it and
the events under way; `view` and `viewCurrent` the same for the resource.
`queued` and `timer` are the workqueue. The reconcilers of both providers have
the same control; `Dispatch` is either.

A Job is *running* until a pod of it has failed, *retrying* after that,
*finished* when it succeeded or gave up: the three that `dispatchJobs` tells
apart by `Status.Succeeded` and `Status.Failed`.

A status write that changes nothing makes no event. `DiscoverRepos` sets
lastDiscoveryTime, and the messages of failures may differ between passes
(`VaryingMessage`), so those writes may be changes although the model's record
is the same.

Time is counted in ticks; `age` is the time since lastDiscoveryTime and stops at
`Interval`. The short requeues (30 s and 1 min) are `Soon`: due within the tick.

### Remediation

A Job's `pc` is `off`, `poll` (connected to the store, polling), `record`
(handing findings to `RecordIfNew`) or `flush` (the deferred `Shutdown`).
`exporting`, `unread` and `series` are the metric reader of the process, which
also exports on its own timer. The store is `counted`, `ttl`, `hist`, `index`;
`backend` is the last count received. `credited`, `handled` and `begun` are
history: which findings really were added, which a Job was told are recorded, and
what the store had when the export of a Job began.

`Mark` is SADD with EXPIRE, `AddToHistogram` the increments with the index,
`RecordScript` the Lua script that does both in one step. A histogram is its
`count` field; buckets and sum are incremented in the same step. A `Finding` is
one resolution of a finding that passes the checks of `lifecycle.Record`; what
is resolved twice is two of them, perhaps with one id. Findings are recorded in
any order.

`Ledger` says what the store is for: a set of credited findings and totals that
grow only by crediting a new finding. `ImplementsLedger` is the refinement, with
the credited findings and `hist` for its variables.

### Exporter

One process at a time, in a Job (`once`) or as a long-running poller, of one of
the five kinds of provider the code has: GitHub owner or repository, GitLab
group, user or project. A provider is a list of sources queried one after the
other (`first`), the sources that only add to a usable snapshot (`later`), and
those without any of which there is none (`core`). A snapshot is told by the
sources that failed in it; what the others answered is data.

| `pc` | Code | Actions out of it |
|---|---|---|
| `off` | no process | `Start`, `StartWithoutStore` |
| `poll` | the sources of a snapshot | `SourceAnswers`, `SourceFails`, `SourceCut`, then `PollFails`, `PollCancelled` or `Assemble` |
| `later` | workflows, lifecycle | the same three, then `PollDone` |
| `count` | `onScrapeError` for each source error | `CountSources` |
| `store` | `c.store` | `StoreSnapshot` |
| `record` | `lifecycle.Record` | `Record`, `RecordFails` |
| `wait` | `select` of ticker and context | `NextPoll`, `Stop` |
| `stop`, `flush` | deferred `Shutdown`, its last export | `Abandon`, `Shutdown`, `FinalPush`, `FinalPushFails` |

`reader` and `batch` are the metric reader's goroutine. Its callback takes the
snapshot first, the counter is collected after it, and both are pushed together;
polling goes on meanwhile. The order is that of the OpenTelemetry SDK, which runs
callbacks before it aggregates. `Verdict` is the Job controller: a pod with exit
code 1, or killed, is followed by another up to `BackoffLimit`.

Whether the signal arrives in a call or between two calls makes no difference:
the call fails, and `cut` remembers why. Workflows and lifecycle are optional; a
source that is off is one that answers.

### Listing

`live` is the list, `repo` the attributes of its entries; an entry is the number
that sorts it. A reader reads one list (one state of the resolved alerts, the
projects or the merge requests of a group, the alerts of one of a user's
repositories) and is a record of how it differs from the others:

| Field | Meaning | Who |
|---|---|---|
| `mode` | numbered pages, or pages after a cursor | REST; GraphQL |
| `whole` | nothing is left after a failure, or what was read so far | discovery, user repositories, workflow and pipeline runs, resolved findings, and the alerts of one repository of a user: nothing |
| `refused` | 403, 404 or a null project fails, or ends the list without an error and keeps or drops what was read | code and secret scanning of a Job's repository and resolved findings keep it; of a user's repository they drop it |
| `filtered` | a selector is applied | discovery |

`Begin` is the call, `Fetch` one turn of its loop with the page the forge
answers with, `Fail` and `NotAccessible` the two ways a request goes wrong;
`Add`, `Remove` and `Edit` are the others. `listed` and `outcome` are what the
caller got; that a list was cut at the limit (`capped`) the caller cannot see.
`steady`, `lost` and `shifted` are history: which entries stayed as they were
since the call began, and whether one was removed or added where numbered pages
had been read. A rename is a removal and an addition. `Matches` and `Selects` are
the selector; a name pattern is the set of names it matches.

### RateGate

A pass is three or four actions: `AuthFails`, `BudgetLow`, `BudgetSuffices` or
`Ungated` (the credentials and the gate), `ReuseInventory`, `DiscoverRepos` or
`DiscoveryFails`, `DispatchJobs` or `DispatchFails`, `UpdateStatus` or
`UpdateFails`. `remaining` and `resets` are the provider's buckets; `owed` is what
the Jobs dispatched so far may still spend, which the probe does not know.
`active` and `retrying` count Jobs the way `dispatchJobs` does. `queued` says why
the resource is in the workqueue: its own status write (`self`) or anything else
(`other`); `timer` is its requeue. `Changed` decides whether a status write is a
change, and so an event: the message of a pause holds the budget and the reset.

`ProbeCost` tells the providers apart: GitHub's `/rate_limit` is free, GitLab's
budget is read from a request that counts. `sure` and `echoes` are history: has
nobody but the operator and its Jobs spent since a probe that sufficed, and how
many passes in a row were caused by nothing but the writes of a pause.

### Collect

A poll is a set of queries (`Ask`), each with its place in the order, its source,
what it asks for, in which states, and how: do its answers name the repositories
or are they filed under the name that was asked for, does what was read before a
failure count, is a refusal taken for an empty answer, is the number of alerts
capped. `GitHubOrg`, `GitHubUser`, `GitHubRepo`, `GitLabGroup`, `GitLabUser` and
`GitLabRepo` are the six polls of the code in these terms. `Answer`, `Fail` and
`Refuse` are a query's ends, `Assemble` is the merge (`Merged`) with the decision
that nothing is left of the poll. `found`, `resolved`, `counted` and `posture`
are what the snapshot says; `ReviewItems` and `ByState` what two gauges make of
it. Meanwhile findings are closed, reopened and grow older than the window, and
repositories are renamed (`Close`, `Reopen`, `Age`, `Rename`). A query reads its
list in one step; what pages add is in `Listing`.

### Configuration

| Party | Actions and operators | Code |
|---|---|---|
| API server, webhook | `Apply` with `Valid` and `Validate` | CEL rules, `validate`, `validateCredentialsSecret` |
| reconciler | `Refuse`, `Begin`, `ReuseInventory`, `Discover`, `DiscoveryFails`, `DispatchJobs`, `UpdateStatus` | `Reconcile`, `githubAuth`, `gitlabAuth`, `collectionJob` |
| kubelet | `Mounted` in `Start` | `secretKeyRef`, `githubCredentialVolume` |
| exporter | `Env`, `Load`, `Authenticates` in `Start` | `githubEnv`, `gitlabEnv`, `config.Load`, `authTransport` |

`secrets` are the keys of the Secrets, each absent, empty, bad (a revoked token,
an unreadable key) or good; `cache` is what the operator's informer shows of
them. A Job keeps the resource it was rendered from, but reads the Secrets when
its pod starts. `edited`, `outdated` and `unproven` say, for a pass and for the
Jobs of it, whether the credential was edited since the pass read it, whether the
resource was, and whether either was since the inventory was discovered.
## Runs

Passing:

| Run | Instance | Checks |
|---|---|---|
| `dispatch_cap` | 3 repositories, cap 1, a cache one Job event behind, 1 fault | `TypeOK`, `OvershootWithinLag` |
| `dispatch_stale` | 2 repositories that come and go, cap 1, interval 1, TTL 1, stale caches, passes of up to 1 tick, 1 fault | `OwedWorkIsScheduled`, `UnsettledIsRetried`, `JobsAreSpaced`, `StatusNeverRollsBack` |
| `dispatch_live` | 1 repository, stale caches, 2 faults, fairness | `ReadyOnceCredentialsHold`, `EditsAreObserved`, `EveryRepoCollected` |
| `ledger` | 2 Jobs, 2 findings in one histogram, 2 faults, data loss, fairness | `TypeOK`, `NothingDropped`, `CountedOnce`, `NothingInvented`, `ImplementsLedger`, `HistogramsReported`, `PushesAreCurrent` |
| `counted_in_time` | 1 Job at a time, 3 findings, window 2 or 5, 1 fault, a run per tick | `CountedInTime`, `RecountsAreSpaced` |
| `exporter` | 5 providers, both modes, 1 retry, 2 faults, fairness | `TypeOK`, `GapsAreExplained`, `SuccessIsCollected`, `RetriedOnlyForNothing`, `TerminationEnds` |
| `listing` | all 23 readers, 3 entries of 2 kinds, 3 selectors, 2 pages of 1, 1 change, 1 failure, a forge that may promise too many pages, fairness | `TypeOK`, `Exact`, `TakenOnce`, `Ends`, `Settles` |
| `rate_gate` | GitHub's 2 buckets of 5, threshold 4, cap 1, resets that may be over, 1 fault, fairness | `TypeOK`, `FloorHolds`, `PauseIsQuiet`, `PauseEnds`, `Resumes` |
| `poll` | the 6 polls, 2 repositories, 3 findings, 3 names, 1 change, 1 failure | `TypeOK`, `FindingsAreCounted`, `ZeroIsExplained` |
| `configuration` | 2 owners, 8 forms of a resource in 2 namespaces, 3 edits, 1 failure, fairness | `TypeOK`, `ExitsAreExplained`, `RefusalsAreNews`, `EditsTakeEffect` |

Each property of a passing run has a mutant, an operator with a plausible slip
in it that stands next to the operation it replaces; with the mutant in place
TLC finds the property violated.

Violated, each a place where the code does not do what a comment or document of
the repository says:

| Run | Said | Found |
|---|---|---|
| `starvation` | `common.go:120`: ensures a Job for each repo | every pass starts at the first repository, and the last is passed over forever |
| `gitlab_pause` | `gitlabmetricsexporter_controller.go:59`: stops spending quota until the window resets | the probe spends, its result is in the message, and the status write that changes it starts the next probe |

### More statements the code does not keep

Each of these is a property that TLC finds violated in the configuration of a
passing run, changed as the table says, with that property in the place of
the run's own.

| Property | Configuration | Said | Found |
|---|---|---|---|
| `RunningWithinCap` | `dispatch_cap` | `common.go:120`: at most `parallelism` Jobs are active at once | the Jobs are counted in a list from the cache, and one that turns out to exist already is not added: one Job more for each event the cache is behind, and no more (`OvershootBounded`) |
| `OneJobPerCycle` | `dispatch_stale`, `TTL = 2`, `Interval = 3` | `common.go:123`: a Job is never recreated within a discovery cycle | the Job TTL, 10 minutes, is shorter than the default interval, 15 minutes, and the deletion wakes the reconciler; `JobsSpaced` proves that it gets two at most |
| `NothingDropped` | `ledger`, `IdOf <- SameId` | `store.go:1`: each remediation is counted exactly once | a reopened alert keeps its id; its second resolution is not counted |
| `CountersNeverFall` | `ledger` | `metrics.go:87`: monotonic counters | a Job pushes an older reading after another pushed a newer one, with as few as two Jobs; by how much a count falls is bounded (`CurrentIsPushed`), and it is put right by later pushes (`HistogramsReported`) |
| `ShutdownIsSilent` | `exporter` | `collector_test.go:254`: a cancelled poll records no scrape error; `collector.go:142`: keep last snapshot | a SIGTERM between two sources is counted as failures of the others, and the partial snapshot replaces the last one |
| `ReturnsTheRepositories` | `listing`, `MaxPages = 4`, `MaxFaults = 0` | `discovery/github.go:118`: the names of the target's repositories that pass the selector | a removal between two pages hides a repository that stays |
| `ReturnsTheRepositories` | `listing`, `MaxChanges = 0`, `MaxFaults = 0` | the same | at the page limit, 100 in the code, the rest is left out, without an error |
| `DiscoveriesPaced` | `gitlab_pause`, `Sizes = {0}` | `common_types.go:15`: discovers every `discoveryInterval` | with no matching repository every pass lists them again, and its status write starts the next pass |
| `ExactlyItsTarget` | `poll` | `github/graphql.go:44`: collects exactly its target | a renamed repository is reported under both names |
| `FailedSourceIsLeftOut` | `poll` | `runbook.md:74`: a failed source is partial, the other signals are pushed | the signal of the failed one is pushed too, as 0 |
| `OpenFindingsContribute` | `poll` | `README.md:121`: open findings contribute state="open" | of a repository's Dependabot alerts only the first 100 |
| `JobsAreForTheTarget` | `configuration` | `README.md:5`: Jobs for the repositories of the target | until the interval has passed, Jobs for the old target's repositories run against the new target |
| `InvalidMeansMissing` | `configuration` | `crd-reference.md:144`: CredentialsInvalid means missing | an empty value, which the webhook admits, is refused too |

What the models also show:

* A Job whose first pod failed is not counted while it retries
  (`common.go:144`), so `OvershootWithinLag` speaks of Jobs without a failed pod.
  Of unfinished Jobs, retrying ones included, there may be as many as there are
  repositories, whatever the cap.
* A pass that is woken ahead of the cache lists the repositories again before
  the interval has passed; its status write is refused.
* With a window that changes between 1 and 3 ticks, `CountedOnce` is violated:
  ids expire with the old window and findings return with the new one. How
  often a finding is counted is bounded all the same (`RecountsSpaced`).
* A finding that is closed and reopened, or reopened while the poll runs, may be
  in neither list of that poll; the next one has it.
* Archived projects of a GitLab group are left out of the REST list and not of
  the GraphQL sweeps, so they are exported with posture and 0 review items.
* A zero `resolutionWindow` or `workflowLookback` is admitted and reconciled, the
  status says Discovered, and every Job exits 1 until its retries are used up.
* A pod that refers to a missing key waits without a deadline: its Job counts as
  active until the Secret is repaired.

### Bounds

* `MaxFaults` bounds failures, edits, restarts and signals of a behaviour. The
  properties need one or two of them in combination with lag and time; each
  faulty step leads to a state other steps reach too, and the theorems hold for
  any number.
* `MaxLag` bounds Job events under way: one in every run, which reaches the bound
  of `OvershootWithinLag`; the theorem has every other lag.
* `MaxPass` bounds the ticks one pass takes. It is 0, a pass shorter than a
  tick, except in `dispatch_stale`, where `JobsAreSpaced` depends on it.
* `MaxRun` is the same for a collection Job: 0, a run shorter than a tick.
* Ages stop at the interval (`Dispatch`) or at `MaxAge`, which is larger than
  every window (`Remediation`): beyond that, nothing depends on them.
* Intervals, TTLs and windows are 0 to 3 ticks. That is enough for each order of
  the deadlines they stand for; but windows of 2 and 5 are needed in
  `counted_in_time`, for an id that is kept for the shorter one to expire while
  its finding is in sight of the longer. In `dispatch_stale` a cycle lasts up to
  2 ticks, twice the TTL, and a repository does get two Jobs in it.
* `dispatch_live` has one repository: what can be lost on the way to a Job is a
  wake-up, an edit or a status write. With several under a cap it is
  `starvation` that matters, and that run has three, with a TTL (1) below the
  interval (2), as shipped.
* `Prompt` is an operator that is faster than Jobs and time: Jobs move only
  between its passes, with current caches, and time only when it has no pass to
  begin. It is on in `starvation` alone, whose finding does not depend on
  staleness or on a slow operator; every passing run has it off.
* `EveryTick` makes each Job run once per tick, the assumption `CountedInTime`
  is about (it stands for `EveryRepoCollected`, with the tick for the time
  between two collections); two ticks of window and one failure are the smallest instance in
  which a failed run must be made up for.
* `BackoffLimit` of `Exporter` is 1 in `exporter` (the code has 2): one retry is
  enough to relate a pod to the one before it. A poller is restarted as often.
* `Listing`: `PerPage` is 1 and `MaxPages` 2, where the code has 50 or 100 and
  100. Three entries fill all pages and one more, so that the limit, a full last
  page and a shift by one each happen; `ListingProofs` has every other size.
  `Honesty` allows a forge that promises a next page that it does not have, again
  and again.
* `RateGate`: a tick is 15 s, `rateLimitBuffer`, and the requeues are 1, 2 and 4
  ticks as in the code; windows and intervals are 2 or 3 ticks, so that a reset
  comes before, with and after each requeue. Costs are 1 per Job and discovery;
  the floor is 1 of a budget of 5. `echoes` stops at 4, past every bound it is
  held against. The number of owed requests is bounded by the Jobs.
* `Collect`: `MaxAlerts` is 1, with two alerts that compete for it; one failure
  and one change are enough for a finding to move while its source, or another,
  fails. Names are numbers, since the first entry by name is what posture goes
  to. The two alerts may be exchanged, which `SYMMETRY` uses.
* `Configuration`: what is applied, then edited twice, is `MaxEdits`; the first
  edit is the creation. `Edits` has a form for each party to disagree about, and
  three that the CEL rules refuse; `ExitsExplained` has every combination.
  `BackoffLimit` is 1.
* `poll` and `configuration` do not check deadlock: a poll ends, and nobody has
  to apply a resource.

### Fairness

`Dispatch` assumes weak fairness of the worker, of event delivery and of the
delayed requeue: controller-runtime keeps its workers and informers running and
the key in the queue. It assumes strong fairness of Jobs finishing, of their
deletion and of time: the Job controller bounds the retries of a Job, the TTL
controller deletes finished Jobs, and only `MaxLag`, a bound of the model, may
disable those steps for a moment. Nothing is assumed of people or of failures,
but that there are at most `MaxFaults`. `ReadyOnceCredentialsHold` and
`EveryRepoCollected` are conditional on credentials that stay valid.

`Remediation` assumes weak fairness of each Job's own steps: Jobs are created
again and again and run to their end. It is what `EveryRepoCollected` gives for
repositories within the cap; for the others see `starvation`.

`Exporter` assumes weak fairness of run and of the metric reader: two goroutines
that the Go scheduler keeps running. `Stop` has strong fairness: the loop's
`select` may take the ticker instead of the cancelled context, but a poll with a
cancelled context is over at once and the ticker takes minutes, so the context is
alone at hand sooner or later. No fairness is assumed of signals or failures.

`Listing` assumes weak fairness of `Begin` and `Fetch`: the reconciler and the
collector call their readers again and again, and each request ends, by the
client's timeout at the latest. Nothing is assumed of the others or of failures.

`RateGate` assumes weak fairness of the operator as a whole (the workqueue hands
out what is due, and a pass goes on), of time, and of Jobs ending. Jobs need not
spend, people need do nothing.

`Configuration` assumes weak fairness of the reconciler, of the Secret informer,
of the interval elapsing, and for each repository of its pod starting once its
keys are there, of a pod that runs succeeding, and of the finished Job being
deleted. `PodFails` has none: a pod may fail, and retries are bounded.
`EditsTakeEffect` is conditional on Secrets that end up complete and good.

## Proofs

All proofs are checked by TLAPS with the SMT, Zenon and PTL backends. They
assume the named assumptions on the constants (`DispatchAssumption`,
`RemediationAssumption`, `ExporterAssumption`, `ListingAssumption`,
`GateAssumption`, `CollectAssumption`, `ConfigurationAssumption`), which TLC
evaluates in every run of the module, and what each theorem states in its own
ASSUME.

### DispatchProofs

* `TypeCorrect`: `Spec => []TypeOK`.
* `NoRollback`: `Spec => StatusNeverRollsBack`. The invariant (`AgesAgree`) says
  that a pass that still holds the latest version has an age no larger than
  what is stored; the write is refused to any other pass.
* `OvershootBounded`: `Spec => []OvershootWithinLag`, for any lag. The bound is
  not inductive by itself. The invariant adds, for a pass in its loop, that the
  running Jobs are at most its active count and the Jobs it could not see
  (`CapInv`), and that phases and cache differ only by events under way
  (`WatchExplains`). Cardinalities come from `FiniteSetTheorems`. With three
  repositories, a cap of one and a lag of one the bound is reached, so nothing
  better holds, and the cap itself (`RunningWithinCap`) does not.
* `NoLostWakeup`: `Spec => []OwedWorkIsScheduled`, with caches however stale. The invariant follows an owed repository through the pass: while
  the loop has not come to it yet, it is in `todo` or a Job of it is seen by the
  pass and the event of its disappearance is under way.
* `NothingLeftUnsettled`: `Spec => []UnsettledIsRetried`. The invariant
  (`SettleInv`) says of a pass about to write its status that it observed the
  generation it read and, if it reports a failure, asks for the short requeue.
  What makes it go through is that a write is lost in two ways only: with an
  error, which requeues, or with the operator, whose successor starts with the
  key in its queue. It is the safety core of `ReadyOnceCredentialsHold` and
  `EditsAreObserved`.
* `JobsSpaced`: `CycleSpec => []JobsAreSpaced`, for any interval and TTL. The
  invariant bounds the age of the status and of the pass by the age of the cycle
  (`AgesInv`), and says that a cycle in which a repository got `n` Jobs has
  lasted for the TTL of `n - 1` of them and for as long as the last one has been
  finished (`SpacedJob`, `Kept`, `JobsInv`). With the shipped values, five
  minutes a tick and a pass of up to a tick, that is two Jobs per cycle. A TTL of
  0 promises nothing, and nothing is proved of it.

### RemediationProofs

* `TypeCorrect`: `Spec => []TypeOK`.
* `CountsOnce` and `StoreImplementsLedger`, assuming one window that does not
  change and Jobs that take less than a tick (`Steady`). The invariant:
  findings a Job holds are in sight (`InSight`), and a counted finding that is
  in sight has its id in the dedup set, with as much TTL left as it stays in
  sight (`Remembered`). It is inductive because every record of any finding
  gives the set a full window again. With a window that is widened the
  theorem would be false.
* `RecordedIsCounted`, assuming ids that tell the findings of a scope apart
  (`DistinctIds`): an id in a dedup set stands for a counted finding
  (`MarkedCounted`). With `SameId` it fails.
* `CurrentIsPushed`: `Spec => PushesAreCurrent`, for any number of Jobs and with
  nothing assumed of windows, failures or loss of data. Of each histogram an
  export has a reading that is no older than its beginning, or has yet to make it
  (`CurrentOf`): a histogram with a count is in the index when the export reads
  that (`Registered`), and until the data is lost counts only grow. It is what is
  left of a monotonic counter (`CountersNeverFall`) when several Jobs push.
* `CountsInTime`, assuming `Recurring`: each Job runs every tick, the store keeps
  its data, ids tell findings apart, every finding is some Job's, and each window
  is at least `MaxFaults` and one run, or two if a run may take a tick. The
  invariant (`LateInv`) is the count the informal argument makes: a finding that
  is not counted is younger than the failures so far and the runs under way
  allow. With runs of up to a tick
  TLC finds the bound tight: a window shorter by one tick is too short.
* `CountsAreReal`, assuming `Steady` and finitely many findings:
  `Spec => []NothingInvented`. A histogram is the number of findings credited in
  it (`CountsExact`), and what Jobs have read of it, and the backend has, was
  true when it was read and stays below what was resolved (`ReadingsHonest`),
  also after the store has lost its data and begins to count again.
* `RecountsSpaced`, assuming only that ages go on until the slowest Job of the
  longest window has ended: `Spec => []RecountsAreSpaced`. Nothing is said of
  the windows, of how many Jobs run at once or of what is lost. What Jobs hold is
  in reach of the longest window (`InReach`), and a finding credited `n` times
  has lived through the TTLs of the `n - 1` ids before the last one, and the
  last one's so far (`SpacedOf`). It is what is left of `CountedOnce` when
  windows change; with one window and short runs it says the same, for then
  there is no room for a second count.

### ExporterProofs

For any retry limit and any number of failures:

* `TypeCorrect`: `Spec => []TypeOK`, with `PodsLeft`, which bounds the pods of a
  Job that is still active.
* `GapsExplained`: `Spec => []GapsAreExplained`. The invariant (`GapsInv`)
  follows a failure to the backend: when the snapshot is about to be stored, is
  in the cache, or is in a batch whose counters are still to be read, each of
  its failed sources is already counted (`Explained`). It rests on the two
  orders the `StoreFirst` mutant turns round: count before store, snapshot
  before counter.
* `SuccessCollects` and `RetriesAreDue`: `Spec => []SuccessIsCollected` and
  `Spec => RetriedOnlyForNothing`. One invariant (`DeliveryInv`) serves both:
  code 0 of a pod run once and not told to stop stands for a snapshot in the
  cache, then in the last batch (`SuccessInv`); code 1 stands for a cache,
  batch and backend without any, and so does every step of a first poll
  (`FailureInv`).

### ListingProofs

For any list, page size, page limit, reader and number of changes:

* `TypeCorrect`: `Spec => []TypeOK`.
* `NothingTakenTwice` and `ReadingIsExact`: `Spec => []TakenOnce` and
  `Spec => []Exact`. The invariant (`Frontier`) says where the reader stands in
  the list as it is now: what it has read lies behind the frontier, every steady
  entry behind the frontier was taken unless a removal shifted numbered pages
  past it (`Passed`), what was taken is wanted (`OnlyWanted`), and what lies ahead
  was not taken unless an addition pushed it there (`Fresh`). For numbered pages
  the frontier is a rank, the number of entries before an entry, and a step of
  the others moves ranks by at most one; the facts about ranks come from
  `FiniteSetTheorems`. For cursors it is the entry the last page ended with.

### RateGateProofs

* `TypeCorrect`: `Spec => []TypeOK`.
* `FloorHeld`, assuming `ProbeCost = 0`: `Spec => []FloorHolds`. The floor is not
  inductive: a probe that suffices says nothing of what Jobs that already run
  still may spend. The invariant bounds what is owed by the Jobs that run
  (`Load`), and says for each bucket that what remains less what is owed stays
  within what one discovery and two generations of Jobs take from the threshold,
  with one generation to come before the pass has dispatched and none after
  (`Floor`, `Within`, `Generation`).
* `PauseStaysQuiet`, assuming `ProbeCost = 0`: `Spec => []PauseIsQuiet`. The
  argument: a pass woken by nothing but a write of the pause finds what the
  status says already, unless a bucket was refilled or someone spent in between;
  a refill that changes no number is one of a full budget, and then the requeue,
  which is no echo, is due before the next one (`Quiet`, with a part for a pass
  that pauses, `Pausing`, and one for the sleep after it, `Paused`).
  With a probe that costs it is false, as `gitlab_pause` shows.
* `PauseHasAnEnd`: `Spec => []PauseEnds`, whatever the probe costs. The requeue of
  a pass that pauses is counted from the reset its status reports, and both age
  together; a write that fails does not leave the old status without a requeue
  (`Due`, `PauseDue`). It is the safety core of `Resumes`.

### CollectProofs

* `TypeCorrect`: `Spec => []TypeOK`.
* `Counted`: `Spec => []FindingsAreCounted`, for each of the six polls, any
  repositories and findings, and any number of changes and failures. The
  invariant (`Seen`) follows each finding through the queries still to come: an
  open one was read or a query for it is left (`OpenIsSeen`), one that was
  closed meanwhile was read as open, as closed, or a query for its new state is
  left (`ClosedIsSeen`), and one that nobody touched was read in no other state
  (`SeenAsItWas`). It rests on every query for closed findings coming after the
  ones for open findings, which `GitHubRepoBackwards` turns round.
* `ZerosExplained`: `Spec => []ZeroIsExplained`. The invariant (`Explained`) says
  of each repository that kept its name: it is listed and counted, or a query
  that does so is still to come, or the source that counts it failed. It rests on
  what the queries of each poll are (`CountedBySource`): repositories are listed
  before they are counted or by the same query, by one source, whose refusals
  are not tolerated.

### ConfigurationProofs

For any resources, Secrets, owners and edits:

* `TypeCorrect`: `Spec => []TypeOK`, with `Admitted`: what is stored, held by a
  pass or in a Job passes the CEL rules.
* `ExitsExplained`: `Spec => []ExitsAreExplained`. The invariant says that the
  inventory, unless edited since, is of the current resource's owner and its
  credential was good (`Listed`), that a pass holds the value of the credential
  unless that was edited (`Reading`), and the same of a Job (`Rendered`).
* `RefusedForNews`: `Spec => RefusalsAreNews`, from the fact that where the
  webhook is registered the key is there unless edited since (`Seen`).

Only model-checked: the liveness properties, since liveness under fairness is
beyond the prover: `ReadyOnceCredentialsHold`, `EditsAreObserved`,
`EveryRepoCollected`, `HistogramsReported`, `TerminationEnds`, `Ends`, `Settles`,
`Resumes` and `EditsTakeEffect`. Every invariant and action property that a
passing run checks is the statement of a theorem.

## Not modelled

* Metrics: labels and their cardinality, the gauges other than review items and
  findings by state, histogram buckets, open age. They are functions of a
  snapshot that the unit tests of `internal/metrics` cover.
* Providers: the mapping of severities, identifiers and titles, and the scope
  encoding: functions on strings.
* Two resources that share labels or scopes, and the deletion of a resource.
  Leader election is taken to keep one operator active.
* The pages of the queries of `Collect`: a query reads its list in one step.
  What changes between its pages shifts, and that a list is cut at `maxPages`
  (the merge-request sweep of a GitLab group, `rest.go:79`, leaves projects with
  too low a count), is in `Listing`, for one list at a time. Repositories are
  renamed but do not appear in the middle of a poll; they are the next one's.
* Job names, which end in a 32-bit hash: repositories are their own names.
* Configuration: defaults, integers, dimensions, base URLs, and variables
  that `spec.env` overrides.
* Resource requests and security contexts of the pods, the Helm chart, logging.

## Plan

In this order:

1. (done) `Dispatch`, `DispatchCycles` and their theorems.
2. (done) `Ledger`, `Remediation`, the refinement and its theorems.
3. (done) `Exporter` and its theorems.
4. (done) `Listing` and its theorems.
5. (done) `RateGate` and its theorems.
6. (done) `Collect` and `Configuration` and their theorems.
7. Two resources with one name (shared labels and active counts), as a
   composition of two `Dispatch` instances.
8. `Dispatch` with `Exporter`: Jobs that finish or retry by their exit code, and
   `EveryRepoCollected` in terms of delivered snapshots.
9. Histograms: bucket bounds, cumulative counts, open age; the scope encoding and
   its decoding; job names and their collisions.
10. (done) The number of running Jobs under stale reads, the Jobs of a cycle with
    the shipped TTL, `CountedInTime`, `PauseIsQuiet`, recounts under changing
    windows, and the safety cores of `Resumes` and `EditsAreObserved`.
11. Safety cores of `TerminationEnds` and `EditsTakeEffect`: what each step of a
    process told to stop, and of a Job of an old form, still has before it.
