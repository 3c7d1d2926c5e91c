------------------------------- MODULE Exporter -------------------------------
(***************************************************************************)
(* The exporter process, run once in a collection Job or as a long-running *)
(* poller: it queries the sources of a provider one after the other, merges *)
(* what they answer into a snapshot, counts the failures and caches the     *)
(* snapshot, while a metric reader in a goroutine of its own exports the    *)
(* cache and the counter.  SIGTERM may arrive, a source may fail and the    *)
(* process may be killed at any step.                                      *)
(*                                                                         *)
(* What the remediation store adds to this is in Remediation.              *)
(***************************************************************************)
EXTENDS Integers, Sequences

CONSTANTS
  Nothing,       \* no snapshot
  BackoffLimit,  \* how many failed pods a Job retries (bound: restarts of a poller)
  MaxFaults      \* bound: failures and signals in a behaviour

(***************************************************************************)
(* The providers: the sources a snapshot is made of, those queried only     *)
(* when it is usable, and those without any of which it is not.            *)
(***************************************************************************)
Source == {"graphql", "rest", "secret_scanning", "vulnerabilities", "posture",
           "workflows", "lifecycle"}

GitHubOwner == [first |-> <<"graphql", "rest", "secret_scanning">>, later |-> << >>,
                core |-> {"graphql", "rest", "secret_scanning"}]

GitHubRepo == [GitHubOwner EXCEPT !.later = <<"workflows", "lifecycle">>]

GitLabGroup == [first |-> <<"rest", "vulnerabilities", "posture">>, later |-> << >>,
                core |-> {"rest", "vulnerabilities"}]

GitLabUser == [first |-> <<"rest">>, later |-> << >>, core |-> {"rest"}]

GitLabRepo == [first |-> <<"rest", "vulnerabilities", "posture">>,
               later |-> <<"workflows", "lifecycle">>,
               core |-> {"rest", "vulnerabilities", "posture"}]

Provider == {GitHubOwner, GitHubRepo, GitLabGroup, GitLabUser, GitLabRepo}

(* The labels of scm.exporter.scrape_errors; no source label is "whole".   *)
Labels == {"graphql", "rest", "secret_scanning", "workflows", "lifecycle", "whole"}

Label == [s \in Source |-> IF s \in {"vulnerabilities", "posture"} THEN "graphql" ELSE s]

(* A snapshot is told by the sources that failed, and by those of them that *)
(* failed because the process was told to stop.                            *)
Snapshot == [failed : SUBSET Source, cut : SUBSET Source]
Cached == Snapshot \cup {Nothing}

ASSUME ExporterAssumption ==
  /\ Nothing \notin Snapshot
  /\ BackoffLimit \in Nat
  /\ MaxFaults \in Nat

NoErrors == [l \in Labels |-> 0]

VARIABLES
  once,       \* --once?
  provider,   \* the provider and target
  \* the Job, or the supervision of the poller
  pods,       \* pods started so far
  job,        \* the state of the Job
  killed,     \* was any pod killed?
  \* the process
  pc,         \* where run is
  left,       \* sources this poll has yet to query
  failed,     \* sources that failed in this poll
  cut,        \* those of them that failed because of the signal
  sigterm,    \* is the context cancelled?
  connected,  \* is the remediation store connected?
  code,       \* the exit code
  cache,      \* Collector.byName
  errors,     \* scm.exporter.scrape_errors
  \* its metric reader
  reader,     \* where the running export is
  batch,      \* what it has collected
  \* the metrics backend
  backend,    \* the last batch received
  delivered,  \* did the last export of the last pod arrive?
  \* the environment's budget
  faults      \* failures and signals so far

jobVars    == <<once, provider, pods, job, killed>>
pollVars   == <<left, failed, cut>>
metricVars == <<cache, errors>>
readVars   == <<reader, batch>>
endVars    == <<backend, delivered>>
vars == <<jobVars, pc, pollVars, sigterm, connected, code, metricVars, readVars,
          endVars, faults>>

PC == {"off", "poll", "later", "count", "store", "record", "wait", "stop", "flush"}

Batch == [pod : 0 .. BackoffLimit + 1, snap : Cached, errors : [Labels -> Nat]]

TypeOK ==
  /\ once \in BOOLEAN
  /\ provider \in Provider
  /\ pods \in 0 .. BackoffLimit + 1
  /\ job \in {"active", "succeeded", "failed"}
  /\ killed \in BOOLEAN
  /\ pc \in PC
  /\ left \in Seq(Source)
  /\ failed \subseteq Source /\ cut \subseteq failed
  /\ sigterm \in BOOLEAN
  /\ connected \in BOOLEAN
  /\ code \in {0, 1}
  /\ cache \in Cached
  /\ errors \in [Labels -> Nat]
  /\ reader \in {"idle", "counters", "push"}
  /\ batch \in Batch
  /\ backend \in Batch
  /\ delivered \in BOOLEAN
  /\ faults \in 0 .. MaxFaults

NoBatch == [pod |-> 0, snap |-> Nothing, errors |-> NoErrors]

Init ==
  /\ once \in BOOLEAN /\ provider \in Provider
  /\ pods = 0 /\ job = "active" /\ killed = FALSE
  /\ pc = "off" /\ left = << >> /\ failed = {} /\ cut = {}
  /\ sigterm = FALSE /\ connected = FALSE /\ code = 0
  /\ cache = Nothing /\ errors = NoErrors
  /\ reader = "idle" /\ batch = NoBatch
  /\ backend = NoBatch /\ delivered = FALSE
  /\ faults = 0

-------------------------------------------------------------------------------
(***************************************************************************)
(* Helpers.  Beside some stands a mutant, the same operation with the slip  *)
(* of a hand in it, to show that the properties can tell; no specification  *)
(* uses the mutants.                                                       *)
(***************************************************************************)
Fault == faults < MaxFaults /\ faults' = faults + 1

Count(l) == errors' = [errors EXCEPT ![l] = @ + 1]

StartPoll ==
  /\ pc' = "poll"
  /\ left' = provider.first /\ failed' = {} /\ cut' = {}

(* Nothing usable was collected. *)
Unusable == provider.core \subseteq failed

(* Each label at most once, although two GitLab sources share one.         *)
CountFailures ==
  errors' = [l \in Labels |->
               IF \E s \in failed : Label[s] = l THEN errors[l] + 1 ELSE errors[l]]

(* What pollOne does with a usable snapshot, in this order: it counts the   *)
(* failures, then stores it.  In the mutant it is the other way round.     *)
StoreFirst(step) ==
  IF step = "store" THEN CountFailures /\ UNCHANGED cache
  ELSE cache' = [failed |-> failed, cut |-> cut] /\ UNCHANGED errors

Settle(step) ==
  IF step = "count" THEN CountFailures /\ UNCHANGED cache
  ELSE cache' = [failed |-> failed, cut |-> cut] /\ UNCHANGED errors

(* A poll returned: run goes on to its end, a poller to its next tick.      *)
AfterPoll(c, next) ==
  /\ pc' = IF once THEN next ELSE "wait"
  /\ code' = IF once THEN c ELSE code

(* What becomes of the Job: a pod that failed is followed by another up to  *)
(* the limit.  In the mutant one more is started.                          *)
OneTooMany(c) == IF c = 0 /\ once THEN "succeeded" ELSE "active"

Verdict(c) ==
  IF c = 0 /\ once THEN "succeeded"
  ELSE IF pods <= BackoffLimit THEN "active" ELSE "failed"

EndExport == reader' = "idle" /\ batch' = NoBatch

(* The process is gone, with all it held in memory. *)
Exit(c) ==
  /\ pc' = "off" /\ job' = Verdict(c)
  /\ left' = << >> /\ failed' = {} /\ cut' = {}
  /\ cache' = Nothing /\ errors' = NoErrors
  /\ EndExport /\ connected' = FALSE

-------------------------------------------------------------------------------
(***************************************************************************)
(* A pod starts: the store is opened, unless it is unreachable, which is    *)
(* counted, or lifecycle collection is off.                                *)
(***************************************************************************)
Boot ==
  /\ pc = "off" /\ job = "active"
  /\ pods' = pods + 1
  /\ StartPoll
  /\ sigterm' = FALSE /\ code' = 0 /\ delivered' = FALSE
  /\ UNCHANGED <<once, provider, job, killed, cache, readVars, backend>>

Start ==
  /\ Boot
  /\ connected' \in BOOLEAN
  /\ UNCHANGED <<errors, faults>>

StartWithoutStore ==
  /\ Boot /\ Fault
  /\ connected' = FALSE
  /\ Count("lifecycle")

-------------------------------------------------------------------------------
(***************************************************************************)
(* A poll.                                                                 *)
(***************************************************************************)
Polling == pc \in {"poll", "later"} /\ left # << >>

(* The source answers all its pages, or that the feature is off (403, 404   *)
(* without a rate limit), or as far as the page limit.                     *)
SourceAnswers ==
  /\ Polling /\ ~sigterm
  /\ left' = Tail(left)
  /\ UNCHANGED <<jobVars, pc, failed, cut, sigterm, connected, code, metricVars,
                 readVars, endVars, faults>>

(* Any page fails, with its retries. *)
SourceFails ==
  /\ Polling /\ ~sigterm /\ Fault
  /\ left' = Tail(left) /\ failed' = failed \cup {Head(left)}
  /\ UNCHANGED <<jobVars, pc, cut, sigterm, connected, code, metricVars,
                 readVars, endVars>>

(* Every call made with a cancelled context fails. *)
SourceCut ==
  /\ Polling /\ sigterm
  /\ left' = Tail(left) /\ failed' = failed \cup {Head(left)}
  /\ cut' = cut \cup {Head(left)}
  /\ UNCHANGED <<jobVars, pc, sigterm, connected, code, metricVars, readVars,
                 endVars, faults>>

(* No usable snapshot, and the signal has no part in it: an error of the    *)
(* whole provider is counted, the last snapshot kept and the error returned. *)
PollFails ==
  /\ pc = "poll" /\ left = << >> /\ Unusable /\ cut = {}
  /\ Count("whole")
  /\ AfterPoll(1, "stop")
  /\ UNCHANGED <<jobVars, pollVars, sigterm, connected, cache, readVars, endVars, faults>>

(* No usable snapshot, and some source was cut off by the signal: the error *)
(* holds a cancellation, and pollOne returns none.  In the mutant it takes  *)
(* any failure for a cancellation.                                         *)
PollGivesUpOnAny ==
  /\ pc = "poll" /\ left = << >> /\ Unusable
  /\ AfterPoll(0, "stop")
  /\ UNCHANGED <<jobVars, pollVars, sigterm, connected, metricVars, readVars,
                 endVars, faults>>

PollCancelled ==
  /\ pc = "poll" /\ left = << >> /\ Unusable /\ cut # {}
  /\ AfterPoll(0, "stop")
  /\ UNCHANGED <<jobVars, pollVars, sigterm, connected, metricVars, readVars,
                 endVars, faults>>

(* A usable snapshot: the sources that only add to it are queried. *)
Assemble ==
  /\ pc = "poll" /\ left = << >> /\ ~Unusable
  /\ pc' = "later" /\ left' = provider.later
  /\ UNCHANGED <<jobVars, failed, cut, sigterm, connected, code, metricVars,
                 readVars, endVars, faults>>

PollDone ==
  /\ pc = "later" /\ left = << >>
  /\ pc' = "count"
  /\ UNCHANGED <<jobVars, pollVars, sigterm, connected, code, metricVars,
                 readVars, endVars, faults>>

CountSources ==
  /\ pc = "count"
  /\ Settle("count")
  /\ pc' = "store"
  /\ UNCHANGED <<jobVars, pollVars, sigterm, connected, code, readVars, endVars, faults>>

(* The mutant returns an error for a partial snapshot. *)
StoreAndFail ==
  /\ pc = "store"
  /\ Settle("store")
  /\ AfterPoll(IF failed = {} THEN 0 ELSE 1, "record")
  /\ UNCHANGED <<jobVars, pollVars, sigterm, connected, readVars, endVars, faults>>

StoreSnapshot ==
  /\ pc = "store"
  /\ Settle("store")
  /\ AfterPoll(0, "record")
  /\ UNCHANGED <<jobVars, pollVars, sigterm, connected, readVars, endVars, faults>>

(* lifecycle.Record of the snapshot: nothing to record, or all recorded. *)
Record ==
  /\ pc = "record"
  /\ pc' = "stop"
  /\ UNCHANGED <<jobVars, pollVars, sigterm, connected, code, metricVars,
                 readVars, endVars, faults>>

(* Some finding could not be recorded, for want of the store or of time. *)
RecordFails ==
  /\ pc = "record" /\ connected
  /\ IF sigterm THEN UNCHANGED faults ELSE Fault
  /\ Count("lifecycle")
  /\ pc' = "stop"
  /\ UNCHANGED <<jobVars, pollVars, sigterm, connected, code, cache, readVars, endVars>>

-------------------------------------------------------------------------------
(***************************************************************************)
(* The poll loop of a poller: when the next tick and the end of the context *)
(* are both at hand, select takes either.                                  *)
(***************************************************************************)
NextPoll ==
  /\ pc = "wait"
  /\ StartPoll
  /\ UNCHANGED <<jobVars, sigterm, connected, code, metricVars, readVars, endVars, faults>>

(* In the mutant the loop ends by the error of a poll, which a cancelled    *)
(* poll does not return, and not by the context.                           *)
StopOnError ==
  /\ pc = "wait" /\ errors["whole"] > 0
  /\ pc' = "stop"
  /\ UNCHANGED <<jobVars, pollVars, sigterm, connected, code, metricVars,
                 readVars, endVars, faults>>

Stop ==
  /\ pc = "wait" /\ sigterm
  /\ pc' = "stop"
  /\ UNCHANGED <<jobVars, pollVars, sigterm, connected, code, metricVars,
                 readVars, endVars, faults>>

-------------------------------------------------------------------------------
(***************************************************************************)
(* The metric reader: its callback takes the snapshot from the cache, then  *)
(* the counter is read, then both are pushed.  It runs on a timer of its    *)
(* own, and once more when run has returned.                               *)
(***************************************************************************)
Observe ==
  /\ batch' = [pod |-> pods, snap |-> cache, errors |-> NoErrors]
  /\ reader' = "counters"

StartExport ==
  /\ pc \notin {"off", "stop", "flush"} /\ reader = "idle"
  /\ Observe
  /\ UNCHANGED <<jobVars, pc, pollVars, sigterm, connected, code, metricVars,
                 endVars, faults>>

ReadCounters ==
  /\ reader = "counters"
  /\ batch' = [batch EXCEPT !.errors = errors]
  /\ reader' = "push"
  /\ UNCHANGED <<jobVars, pc, pollVars, sigterm, connected, code, metricVars,
                 endVars, faults>>

(* Shutdown waits for the running export, which may be given up for it, and *)
(* exports once more.                                                      *)
Abandon ==
  /\ pc = "stop" /\ reader # "idle"
  /\ EndExport
  /\ UNCHANGED <<jobVars, pc, pollVars, sigterm, connected, code, metricVars,
                 endVars, faults>>

Shutdown ==
  /\ pc = "stop" /\ reader = "idle"
  /\ pc' = "flush"
  /\ Observe
  /\ UNCHANGED <<jobVars, pollVars, sigterm, connected, code, metricVars, endVars, faults>>

Push ==
  /\ reader = "push" /\ pc # "flush"
  /\ backend' = batch
  /\ EndExport
  /\ UNCHANGED <<jobVars, pc, pollVars, sigterm, connected, code, metricVars,
                 delivered, faults>>

PushFails ==
  /\ reader # "idle" /\ pc # "flush" /\ Fault
  /\ EndExport
  /\ UNCHANGED <<jobVars, pc, pollVars, sigterm, connected, code, metricVars, endVars>>

FinalPush ==
  /\ reader = "push" /\ pc = "flush"
  /\ backend' = batch /\ delivered' = TRUE
  /\ Exit(code)
  /\ UNCHANGED <<once, provider, pods, killed, sigterm, code, faults>>

(* The final export fails or takes too long: a warning. *)
FinalPushFails ==
  /\ pc = "flush" /\ Fault
  /\ Exit(code)
  /\ UNCHANGED <<once, provider, pods, killed, sigterm, code, endVars>>

-------------------------------------------------------------------------------
(* SIGTERM or SIGINT; once run has returned it changes nothing. *)
Terminate ==
  /\ pc \notin {"off", "stop", "flush"} /\ ~sigterm /\ Fault
  /\ sigterm' = TRUE
  /\ UNCHANGED <<jobVars, pc, pollVars, connected, code, metricVars, readVars, endVars>>

Kill ==
  /\ pc # "off" /\ Fault
  /\ Exit(1) /\ killed' = TRUE
  /\ UNCHANGED <<once, provider, pods, sigterm, code, endVars>>

Poll ==
  \/ SourceAnswers \/ SourceFails \/ SourceCut \/ PollFails \/ PollCancelled
  \/ Assemble \/ PollDone \/ CountSources \/ StoreSnapshot

Run == Start \/ StartWithoutStore \/ Poll \/ Record \/ RecordFails \/ NextPoll \/ Stop

Export ==
  \/ ReadCounters \/ Abandon \/ Shutdown \/ Push \/ PushFails
  \/ FinalPush \/ FinalPushFails

(* The Job is over, or the poller is started no more (BackoffLimit). *)
Over == pc = "off" /\ job # "active" /\ UNCHANGED vars

Next == Run \/ Export \/ StartExport \/ Terminate \/ Kill \/ Over

Spec == Init /\ [][Next]_vars

(***************************************************************************)
(* Both goroutines keep running.  A cancelled poll is over in an instant    *)
(* and the ticker takes minutes, so the loop does not forever find its tick *)
(* before the end of the context.                                          *)
(***************************************************************************)
FairSpec == Spec /\ WF_vars(Run) /\ WF_vars(Export) /\ SF_vars(Stop)

-------------------------------------------------------------------------------
(***************************************************************************)
(* Properties.                                                             *)
(***************************************************************************)

(* A gap comes with its explanation: what the backend has of a source that  *)
(* failed (zero review items, no findings) was pushed together with a count *)
(* of that failure, also when the reader exports in the middle of a poll.   *)
GapsAreExplained ==
  backend.snap # Nothing =>
    \A s \in backend.snap.failed : backend.errors[Label[s]] > 0

(* A Job that succeeded has delivered a snapshot, from the very pod that    *)
(* succeeded: unless that pod was told to stop or its last export failed,   *)
(* exit code 0 means that the repository was collected.                    *)
SuccessIsCollected ==
  job = "succeeded" /\ ~sigterm /\ delivered =>
    backend.pod = pods /\ backend.snap # Nothing

(* "non-zero only when a provider yields nothing usable": a Job of which no *)
(* pod was killed is retried only as long as it has delivered no snapshot.  *)
RetriedOnlyForNothing ==
  [][once /\ pods' > pods /\ ~killed => backend.snap = Nothing]_vars

(* Told to stop, the process exits, in either mode and wherever it is.      *)
TerminationEnds == sigterm ~> pc = "off"

(* "cancellation during a slow poll must not record a scrape error", and    *)
(* "keep last snapshot, not a fault": when all that failed in a poll failed *)
(* because of the signal, it neither counts an error nor stores a snapshot. *)
ShutdownIsSilent ==
  [][failed # {} /\ failed = cut /\ pc \in {"count", "store"} =>
       UNCHANGED metricVars]_vars

===============================================================================
