----------------------------- MODULE Remediation ------------------------------
(***************************************************************************)
(* Counting remediated findings: the collection Jobs that fetch resolved    *)
(* findings and record them, the Valkey store that deduplicates them and    *)
(* keeps their histograms, and the metrics backend the Jobs push to.        *)
(*                                                                         *)
(* Any number of Jobs run at once and may report the same finding; every    *)
(* Job pushes the histograms of all scopes.  A Job may be cut off from the  *)
(* store, lose a reply, be terminated or killed at any step, and time       *)
(* passes between a Job's query and its writes.                            *)
(***************************************************************************)
EXTENDS Integers, FiniteSets

CONSTANTS
  Finding,      \* resolutions of findings, each of them once in time
  Scope,        \* histograms: provider, repository, category, resolution, severity
  Id,           \* finding ids, as the provider numbers them
  Job,          \* collection Jobs (one per repository and resource)
  ScopeOf,      \* ScopeOf[f]: the histogram f belongs to
  IdOf,         \* IdOf[f]: the id f is reported with
  Covers,       \* Covers[j]: the findings of the repository Job j collects
  Windows,      \* the values spec.resolutionWindow may have, in ticks
  MaxAge,       \* bound: the age at which a resolution is older than any window
  MaxRun,       \* bound: ticks one Job may take
  MaxFaults,    \* bound: failures and edits in a behaviour
  DataLoss,     \* TRUE: the store may lose its data
  EveryTick     \* TRUE: each Job is run at least once per tick

ASSUME RemediationAssumption ==
  /\ ScopeOf \in [Finding -> Scope]
  /\ IdOf \in [Finding -> Id]
  /\ Covers \in [Job -> SUBSET Finding]
  /\ Windows \subseteq Nat /\ Windows # {}
  /\ MaxAge \in Nat /\ \A w \in Windows : w < MaxAge
  /\ MaxRun \in Nat
  /\ MaxFaults \in Nat
  /\ DataLoss \in BOOLEAN
  /\ EveryTick \in BOOLEAN

(* The age of a finding that is not resolved yet, and the histogram reading *)
(* of a Job that is not exporting.                                         *)
Open == -1

VARIABLES
  \* the source code management platform and the resource
  age,        \* age[f]: ticks since f was resolved, or Open
  window,     \* spec.resolutionWindow
  \* the store
  counted,    \* counted[s]: ids in the dedup set of scope s
  ttl,        \* ttl[s]: ticks until that set expires
  hist,       \* hist[s]: the count field of the histogram of scope s
  index,      \* scopes registered for reading
  \* the Jobs
  pc,         \* where Job j is
  win,        \* its resolution window
  ticks,      \* how long it has been running
  todo,       \* fetched findings it has not recorded yet
  exporting,  \* is its metric reader collecting?
  unread,     \* scopes it has yet to read for this export
  series,     \* what it has read: series[j][s], 0 for nothing
  attempted,  \* Jobs that ran since the last tick
  \* the metrics backend
  backend,    \* backend[s]: the last count received
  \* history
  credited,   \* credited[f]: how often f was added to its histogram
  handled,    \* findings a Job was told are recorded
  begun,      \* begun[j]: the counts of the store when the export of j began
  faults      \* failures and edits so far

storeVars  == <<counted, ttl, hist, index>>
jobVars    == <<pc, win, ticks, todo>>
exportVars == <<exporting, unread, series, begun>>
ledgerVars == <<credited, handled>>
vars == <<age, window, storeVars, jobVars, exportVars, attempted, backend,
          ledgerVars, faults>>

PC == {"off", "poll", "record", "flush"}

TypeOK ==
  /\ age \in [Finding -> Open .. MaxAge]
  /\ window \in Windows
  /\ counted \in [Scope -> SUBSET Id]
  /\ ttl \in [Scope -> 0 .. MaxAge - 1]
  /\ hist \in [Scope -> Nat]
  /\ index \subseteq Scope
  /\ pc \in [Job -> PC]
  /\ win \in [Job -> Windows]
  /\ ticks \in [Job -> 0 .. MaxRun]
  /\ todo \in [Job -> SUBSET Finding]
  /\ exporting \in [Job -> BOOLEAN]
  /\ unread \in [Job -> SUBSET Scope]
  /\ series \in [Job -> [Scope -> Nat]]
  /\ begun \in [Job -> [Scope -> Nat]]
  /\ attempted \subseteq Job
  /\ backend \in [Scope -> Nat]
  /\ credited \in [Finding -> Nat]
  /\ handled \subseteq Finding
  /\ faults \in 0 .. MaxFaults

NoCounts == [s \in Scope |-> 0]

Init ==
  /\ age = [f \in Finding |-> Open]
  /\ window \in Windows
  /\ counted = [s \in Scope |-> {}]
  /\ ttl = NoCounts
  /\ hist = NoCounts
  /\ index = {}
  /\ pc = [j \in Job |-> "off"]
  /\ win = [j \in Job |-> window]
  /\ ticks = [j \in Job |-> 0]
  /\ todo = [j \in Job |-> {}]
  /\ exporting = [j \in Job |-> FALSE]
  /\ unread = [j \in Job |-> {}]
  /\ series = [j \in Job |-> NoCounts]
  /\ begun = [j \in Job |-> NoCounts]
  /\ attempted = {}
  /\ backend = NoCounts
  /\ credited = [f \in Finding |-> 0]
  /\ handled = {}
  /\ faults = 0

-------------------------------------------------------------------------------
(***************************************************************************)
(* Helpers.  Beside some stands a mutant, the same operation with the slip  *)
(* of a hand in it, to show that the properties can tell; no specification  *)
(* uses the mutants.                                                       *)
(***************************************************************************)
Fault == faults < MaxFaults /\ faults' = faults + 1

(* What the provider returns: resolutions not older than the Job's window.  *)
(* In the mutant those that are exactly as old are missed.                 *)
VisibleCutShort(j) == {f \in Covers[j] : age[f] \in 0 .. win[j] - 1}

Visible(j) == {f \in Covers[j] : age[f] \in 0 .. win[j]}

(* SADD and EXPIRE: the id joins the dedup set, whose TTL starts over        *)
(* whether or not the id is new.  In the mutants the set outlives the       *)
(* window, its TTL is set only when it is created, or its TTL is in the     *)
(* wrong unit and over before the next tick.                               *)
MarkTooLong(s, i, w) ==
  /\ counted' = [counted EXCEPT ![s] = @ \cup {i}]
  /\ ttl' = [ttl EXCEPT ![s] = w + 1]

MarkWithoutRefresh(s, i, w) ==
  /\ counted' = [counted EXCEPT ![s] = @ \cup {i}]
  /\ ttl' = [ttl EXCEPT ![s] = IF counted[s] = {} THEN w ELSE @]

MarkForTheMoment(s, i, w) ==
  /\ counted' = [counted EXCEPT ![s] = @ \cup {i}]
  /\ ttl' = [ttl EXCEPT ![s] = 0]

Mark(s, i, w) ==
  /\ counted' = [counted EXCEPT ![s] = @ \cup {i}]
  /\ ttl' = [ttl EXCEPT ![s] = w]

(* HINCRBY and SADD: the finding adds to its histogram, which is registered *)
(* for reading.  In the mutants it is not registered, or the count is the   *)
(* size of the dedup set.                                                  *)
AddUnregistered(f) ==
  /\ hist' = [hist EXCEPT ![ScopeOf[f]] = @ + 1]
  /\ credited' = [credited EXCEPT ![f] = @ + 1]
  /\ UNCHANGED index

AddSetSize(f) ==
  /\ hist' = [hist EXCEPT ![ScopeOf[f]] = Cardinality(counted[ScopeOf[f]]) + 1]
  /\ credited' = [credited EXCEPT ![f] = @ + 1]
  /\ index' = index \cup {ScopeOf[f]}

AddToHistogram(f) ==
  /\ hist' = [hist EXCEPT ![ScopeOf[f]] = @ + 1]
  /\ credited' = [credited EXCEPT ![f] = @ + 1]
  /\ index' = index \cup {ScopeOf[f]}

(* recordScript, one atomic step.  In the mutant its two halves are separate *)
(* calls, and the second may not happen.                                   *)
RecordInTwoCalls(j, f) ==
  /\ Mark(ScopeOf[f], IdOf[f], win[j])
  /\ \/ IdOf[f] \notin counted[ScopeOf[f]] /\ AddToHistogram(f)
     \/ UNCHANGED <<hist, credited, index>>

RecordScript(j, f) ==
  /\ Mark(ScopeOf[f], IdOf[f], win[j])
  /\ \/ IdOf[f] \notin counted[ScopeOf[f]] /\ AddToHistogram(f)
     \/ IdOf[f] \in counted[ScopeOf[f]] /\ UNCHANGED <<hist, credited, index>>

(* The metric reader of Job j starts to collect: it reads the index. *)
BeginExport(j) ==
  /\ exporting' = [exporting EXCEPT ![j] = TRUE]
  /\ unread' = [unread EXCEPT ![j] = index]
  /\ begun' = [begun EXCEPT ![j] = hist]

Forget(j) ==
  /\ exporting' = [exporting EXCEPT ![j] = FALSE]
  /\ unread' = [unread EXCEPT ![j] = {}]
  /\ series' = [series EXCEPT ![j] = NoCounts]
  /\ begun' = [begun EXCEPT ![j] = NoCounts]

(* The process of Job j is gone, and with it what it held in memory. *)
Exit(j) ==
  /\ pc' = [pc EXCEPT ![j] = "off"]
  /\ ticks' = [ticks EXCEPT ![j] = 0]
  /\ todo' = [todo EXCEPT ![j] = {}]
  /\ Forget(j)
  /\ attempted' = attempted \cup {j}

-------------------------------------------------------------------------------
(***************************************************************************)
(* A collection Job: cmd/exporter run with --once.                         *)
(***************************************************************************)

(* A process starts, in a new Job with the window of the resource or in a   *)
(* retried one with the window it was rendered with, and the store answers  *)
(* its PING.                                                               *)
Start(j) ==
  /\ pc[j] = "off"
  /\ pc' = [pc EXCEPT ![j] = "poll"]
  /\ \E w \in {window, win[j]} : win' = [win EXCEPT ![j] = w]
  /\ UNCHANGED <<age, window, storeVars, ticks, todo, exportVars, attempted,
                 backend, ledgerVars, faults>>

(* The store is unreachable at start: a scrape error is counted, and this   *)
(* run neither records findings nor exports histograms.                    *)
StartWithoutStore(j) ==
  /\ pc[j] = "off" /\ Fault
  /\ attempted' = attempted \cup {j}
  /\ UNCHANGED <<age, window, storeVars, jobVars, exportVars, backend, ledgerVars>>

(* PollOnce succeeds: the snapshot holds every resolved finding in sight. *)
Fetch(j) ==
  /\ pc[j] = "poll"
  /\ pc' = [pc EXCEPT ![j] = "record"]
  /\ todo' = [todo EXCEPT ![j] = Visible(j)]
  /\ UNCHANGED <<age, window, storeVars, win, ticks, exportVars, attempted,
                 backend, ledgerVars, faults>>

(* A source answers 403 or 404 (the findings collected so far are kept), or *)
(* fails, or the whole poll fails or is cancelled (there are none).         *)
FetchIncomplete(j) ==
  /\ pc[j] = "poll" /\ Fault
  /\ pc' = [pc EXCEPT ![j] = "record"]
  /\ \E some \in SUBSET Visible(j) : todo' = [todo EXCEPT ![j] = some]
  /\ UNCHANGED <<age, window, storeVars, win, ticks, exportVars, attempted,
                 backend, ledgerVars>>

(* lifecycle.Record hands one finding to RecordIfNew, and is told that it   *)
(* is in the store, whether by this call or before.                        *)
Record(j, f) ==
  /\ pc[j] = "record" /\ f \in todo[j]
  /\ RecordScript(j, f)
  /\ todo' = [todo EXCEPT ![j] = @ \ {f}]
  /\ handled' = handled \cup {f}
  /\ UNCHANGED <<age, window, pc, win, ticks, exportVars, attempted, backend, faults>>

(* The script runs and its reply is lost: the client sends it again, or     *)
(* gives up (RecordFails).                                                 *)
RecordReplyLost(j, f) ==
  /\ pc[j] = "record" /\ f \in todo[j] /\ Fault
  /\ RecordScript(j, f)
  /\ UNCHANGED <<age, window, jobVars, exportVars, attempted, backend, handled>>

(* RecordIfNew returns an error; Record goes on with the next finding. *)
RecordFails(j, f) ==
  /\ pc[j] = "record" /\ f \in todo[j] /\ Fault
  /\ todo' = [todo EXCEPT ![j] = @ \ {f}]
  /\ UNCHANGED <<age, window, storeVars, pc, win, ticks, exportVars, attempted,
                 backend, ledgerVars>>

(* run returns, and the deferred Shutdown makes the reader export once more. *)
Finish(j) ==
  /\ pc[j] = "record" /\ todo[j] = {} /\ ~exporting[j]
  /\ pc' = [pc EXCEPT ![j] = "flush"]
  /\ BeginExport(j)
  /\ UNCHANGED <<age, window, storeVars, win, ticks, todo, series, attempted,
                 backend, ledgerVars, faults>>

(* SIGTERM cancels the context: the poll is given up without an error, or   *)
(* every call to the store that is left to make fails.                     *)
Terminate(j) ==
  /\ pc[j] \in {"poll", "record"} /\ Fault
  /\ pc' = [pc EXCEPT ![j] = "record"]
  /\ todo' = [todo EXCEPT ![j] = {}]
  /\ UNCHANGED <<age, window, storeVars, win, ticks, exportVars, attempted,
                 backend, ledgerVars>>

(* The process is killed, or dies. *)
Crash(j) ==
  /\ pc[j] # "off" /\ Fault
  /\ Exit(j)
  /\ UNCHANGED <<age, window, storeVars, win, backend, ledgerVars>>

(***************************************************************************)
(* The periodic metric reader of the process exports on its own clock too,  *)
(* also while findings are being recorded.  Remediation reads the index,    *)
(* then each histogram by itself; only then are all series pushed.          *)
(***************************************************************************)
StartExport(j) ==
  /\ pc[j] \in {"poll", "record"} /\ ~exporting[j]
  /\ BeginExport(j)
  /\ UNCHANGED <<age, window, storeVars, jobVars, series, attempted, backend,
                 ledgerVars, faults>>

(* HGETALL; a histogram that is gone by now is left out. *)
ReadHist(j, s) ==
  /\ s \in unread[j]
  /\ unread' = [unread EXCEPT ![j] = @ \ {s}]
  /\ series' = [series EXCEPT ![j][s] = hist[s]]
  /\ UNCHANGED <<age, window, storeVars, jobVars, exporting, begun, attempted,
                 backend, ledgerVars, faults>>

(* After the last export the process exits. *)
EndExport(j) ==
  IF pc[j] = "flush"
  THEN Exit(j) /\ UNCHANGED win
  ELSE Forget(j) /\ UNCHANGED <<jobVars, attempted>>

(* A mutant: a histogram that could not be read is left out, and the others *)
(* are pushed.                                                             *)
PushPartial(j) ==
  /\ exporting[j]
  /\ backend' = [s \in Scope |-> IF series[j][s] > 0 THEN series[j][s] ELSE backend[s]]
  /\ EndExport(j)
  /\ UNCHANGED <<age, window, storeVars, ledgerVars, faults>>

Push(j) ==
  /\ exporting[j] /\ unread[j] = {}
  /\ backend' = [s \in Scope |-> IF series[j][s] > 0 THEN series[j][s] ELSE backend[s]]
  /\ EndExport(j)
  /\ UNCHANGED <<age, window, storeVars, ledgerVars, faults>>

(* A read fails, which drops every series of this export, or the push does. *)
ExportFails(j) ==
  /\ exporting[j] /\ Fault
  /\ EndExport(j)
  /\ UNCHANGED <<age, window, storeVars, backend, ledgerVars>>

-------------------------------------------------------------------------------
(***************************************************************************)
(* The environment.                                                        *)
(***************************************************************************)
Resolve(f) ==
  /\ age[f] = Open
  /\ age' = [age EXCEPT ![f] = 0]
  /\ UNCHANGED <<window, storeVars, jobVars, exportVars, attempted, backend,
                 ledgerVars, faults>>

(* Someone edits spec.resolutionWindow; Jobs rendered from now on have it. *)
EditWindow ==
  /\ Fault
  /\ \E w \in Windows \ {window} : window' = w
  /\ UNCHANGED <<age, storeVars, jobVars, exportVars, attempted, backend, ledgerVars>>

(* The volume is wiped or the instance replaced. *)
LoseData ==
  /\ DataLoss /\ Fault
  /\ counted' = [s \in Scope |-> {}] /\ ttl' = NoCounts
  /\ hist' = NoCounts /\ index' = {}
  /\ credited' = [f \in Finding |-> 0] /\ handled' = {}
  /\ begun' = [j \in Job |-> NoCounts]
  /\ UNCHANGED <<age, window, jobVars, exporting, unread, series, attempted, backend>>

Tick ==
  /\ \A j \in Job : pc[j] # "off" => ticks[j] < MaxRun
  /\ EveryTick => attempted = Job
  /\ attempted' = {}
  /\ ticks' = [j \in Job |-> IF pc[j] = "off" THEN 0 ELSE ticks[j] + 1]
  /\ age' = [f \in Finding |-> IF age[f] \in 0 .. MaxAge - 1 THEN age[f] + 1 ELSE age[f]]
  /\ counted' = [s \in Scope |-> IF ttl[s] = 0 THEN {} ELSE counted[s]]
  /\ ttl' = [s \in Scope |-> IF ttl[s] = 0 THEN 0 ELSE ttl[s] - 1]
  /\ UNCHANGED <<window, hist, index, pc, win, todo, exportVars, backend,
                 ledgerVars, faults>>

-------------------------------------------------------------------------------
Run(j) ==
  \/ Start(j) \/ Fetch(j) \/ Finish(j) \/ Push(j)
  \/ \E f \in Finding : Record(j, f)
  \/ \E s \in Scope : ReadHist(j, s)

Fails(j) ==
  \/ StartWithoutStore(j) \/ FetchIncomplete(j) \/ Terminate(j) \/ Crash(j) \/ ExportFails(j)
  \/ \E f \in Finding : RecordReplyLost(j, f) \/ RecordFails(j, f)

Environment == Tick \/ EditWindow \/ LoseData \/ \E f \in Finding : Resolve(f)

Next == Environment \/ \E j \in Job : Run(j) \/ StartExport(j) \/ Fails(j)

Spec == Init /\ [][Next]_vars

(* Jobs are created again and again (Dispatch, EveryRepoCollected) and run  *)
(* to their end.                                                           *)
FairSpec == Spec /\ \A j \in Job : WF_vars(Run(j))

-------------------------------------------------------------------------------
(***************************************************************************)
(* Properties.                                                             *)
(***************************************************************************)

(* The store keeps the ledger: a histogram grows only by crediting a        *)
(* finding that was never credited, although several Jobs report the same   *)
(* finding run after run, replies get lost and the dedup set expires.       *)
L == INSTANCE Ledger WITH done <- {f \in Finding : credited[f] > 0}, total <- hist

ImplementsLedger == L!Spec

(* "re-running collection Jobs never double-counts a resolved finding".     *)
CountedOnce == \A f \in Finding : credited[f] <= 1

(* A finding a Job was told is recorded is in its histogram: no id is       *)
(* marked as counted with its contribution dropped.                        *)
NothingDropped == \A f \in handled : credited[f] > 0

(* However many Jobs push what they have read, in whatever order, and even  *)
(* when the store loses its data, the backend is never told of more         *)
(* findings than were resolved.                                            *)
Resolved(s) == {f \in Finding : ScopeOf[f] = s /\ age[f] # Open}
NothingInvented == \A s \in Scope : backend[s] <= Cardinality(Resolved(s))

(* A finding is out of sight only after it was counted, as long as each Job *)
(* runs every tick and fewer things go wrong than the window has ticks: a   *)
(* failed run is made up for by the next.                                  *)
CountedInTime == \A f \in Finding : age[f] = MaxAge => credited[f] > 0

(* A finding is counted again only once its dedup set was left to expire,    *)
(* which takes more than the shortest window since it was counted before,   *)
(* while the finding is in sight of the longest: whatever becomes of the    *)
(* windows of the Jobs, it is recounted (long + MaxRun) \div (short + 1)    *)
(* times at most.                                                          *)
RecountsAreSpaced ==
  \A short, long \in 0 .. MaxAge :
    Windows \subseteq short .. long =>
      \A f \in Finding : (credited[f] - 1) * (short + 1) <= long + MaxRun

(* "monotonic counters": what the backend is told of a histogram never      *)
(* falls.  A Job may push what it has read after another pushed what it     *)
(* read later, so this is not what the code keeps.                         *)
CountersNeverFall == [][\A s \in Scope : backend'[s] >= backend[s]]_backend

(* What the code keeps: a push leaves no histogram of the backend below     *)
(* what the store had of it when that export began (or when it last lost    *)
(* its data), although the index and each histogram are read by themselves  *)
(* while other Jobs record and push.  So, while the store keeps its data, a *)
(* count falls by no more than was added during one export, and never when  *)
(* no other Job has pushed since it began.                                 *)
PushesAreCurrent ==
  [][\A j \in Job : Push(j) => \A s \in Scope : backend'[s] >= begun[j][s]]_vars

(* Every histogram is eventually reported as it stands in the store, also   *)
(* when its own Job never runs again: each Job pushes all of them.          *)
HistogramsReported == <>[](\A s \in Scope : hist[s] > 0 => backend[s] = hist[s])

===============================================================================
