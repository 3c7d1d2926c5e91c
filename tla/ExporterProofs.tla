---------------------------- MODULE ExporterProofs ----------------------------
(***************************************************************************)
(* Proofs about Exporter, for any number of retries and of failures.       *)
(***************************************************************************)
EXTENDS Exporter, TLAPS

USE ExporterAssumption DEF jobVars, pollVars, metricVars, readVars, endVars

-------------------------------------------------------------------------------
(***************************************************************************)
(* Type correctness.                                                       *)
(***************************************************************************)

(* Every provider's sources are lists of sources, and its core a set.      *)
LEMMA ProviderType ==
  ASSUME NEW p \in Provider
  PROVE  p.first \in Seq(Source) /\ p.later \in Seq(Source)
<1> DEFINE github == <<"graphql", "rest", "secret_scanning">>
           gitlab == <<"rest", "vulnerabilities", "posture">>
           extra  == <<"workflows", "lifecycle">>
<1>1. /\ github \in Seq(Source) /\ gitlab \in Seq(Source) /\ extra \in Seq(Source)
      /\ <<"rest">> \in Seq(Source) /\ << >> \in Seq(Source)
  BY DEF Source
<1>2. /\ GitHubOwner.first = github /\ GitHubOwner.later = << >>
      /\ GitHubRepo.first = github /\ GitHubRepo.later = extra
      /\ GitLabGroup.first = gitlab /\ GitLabGroup.later = << >>
      /\ GitLabUser.first = <<"rest">> /\ GitLabUser.later = << >>
      /\ GitLabRepo.first = gitlab /\ GitLabRepo.later = extra
  BY DEF GitHubOwner, GitHubRepo, GitLabGroup, GitLabUser, GitLabRepo
<1>3. p \in {GitHubOwner, GitHubRepo, GitLabGroup, GitLabUser, GitLabRepo}
  BY DEF Provider
<1> HIDE DEF github, gitlab, extra
<1> QED BY <1>1, <1>2, <1>3

(* Every source has a label of the counter. *)
LEMMA LabelType == \A s \in Source : Label[s] \in Labels
BY DEF Label, Labels, Source

(* Nothing counted, nothing collected. *)
LEMMA NoBatchType ==
  NoErrors \in [Labels -> Nat] /\ NoBatch \in Batch /\ NoBatch.snap = Nothing
BY DEF NoErrors, NoBatch, Batch, Cached

(* A pod is started only when the Job has one left. *)
PodsLeft == pc = "off" /\ job = "active" => pods <= BackoffLimit

TypeInv == TypeOK /\ PodsLeft

(* Initially. *)
LEMMA InitType == Init => TypeInv
<1> SUFFICES ASSUME Init PROVE TypeInv
  OBVIOUS
<1>1. pods \in 0 .. BackoffLimit + 1 /\ pods <= BackoffLimit /\ faults \in 0 .. MaxFaults
  BY DEF Init
<1>2. cache \in Cached /\ errors \in [Labels -> Nat] /\ batch \in Batch /\ backend \in Batch
  BY NoBatchType DEF Init, Cached
<1>3. left \in Seq(Source) /\ failed \subseteq Source /\ cut \subseteq failed
  BY DEF Init
<1> QED BY <1>1, <1>2, <1>3 DEF Init, TypeInv, TypeOK, PodsLeft, PC

(* A poll starts with the sources of the provider. *)
LEMMA StartPollType ==
  ASSUME TypeOK, StartPoll
  PROVE  /\ pc' \in PC /\ pc' # "off" /\ left' \in Seq(Source)
         /\ failed' \subseteq Source /\ cut' \subseteq failed'
BY ProviderType DEF TypeOK, StartPoll, PC

(* A failure is counted. *)
LEMMA CountType ==
  ASSUME TypeOK, NEW l \in Labels, Count(l)
  PROVE  errors' \in [Labels -> Nat]
BY DEF TypeOK, Count

(* The failures of a poll are counted, or its snapshot is stored. *)
LEMMA SettleType ==
  ASSUME TypeOK, NEW step, Settle(step)
  PROVE  errors' \in [Labels -> Nat] /\ cache' \in Cached
<1>1. CASE step = "count"
  <2>1. \A l \in Labels : errors[l] \in Nat /\ errors[l] + 1 \in Nat
    BY DEF TypeOK
  <2> QED BY <1>1, <2>1 DEF TypeOK, Settle, CountFailures
<1>2. CASE step # "count"
  BY <1>2 DEF TypeOK, Settle, Cached, Snapshot
<1> QED BY <1>1, <1>2

(* The process is gone. *)
LEMMA ExitType ==
  ASSUME TypeInv, NEW c, Exit(c), UNCHANGED <<once, pods>>
  PROVE  /\ PodsLeft'
         /\ pc' \in PC /\ job' \in {"active", "succeeded", "failed"}
         /\ left' \in Seq(Source) /\ failed' \subseteq Source /\ cut' \subseteq failed'
         /\ cache' \in Cached /\ errors' \in [Labels -> Nat]
         /\ reader' \in {"idle", "counters", "push"} /\ batch' \in Batch
         /\ connected' \in BOOLEAN
<1>1. pods \in 0 .. BackoffLimit + 1 /\ once \in BOOLEAN
  BY DEF TypeInv, TypeOK
<1>2. job' \in {"active", "succeeded", "failed"} /\ PodsLeft'
  BY <1>1 DEF Exit, Verdict, PodsLeft
<1>3. left' \in Seq(Source) /\ failed' \subseteq Source /\ cut' \subseteq failed'
  BY DEF Exit
<1>4. cache' \in Cached /\ errors' \in [Labels -> Nat] /\ batch' \in Batch
  BY NoBatchType DEF Exit, EndExport, Cached
<1> QED BY <1>2, <1>3, <1>4 DEF Exit, EndExport, PC

(* Failures and signals are counted up to their bound. *)
LEMMA FaultType == ASSUME TypeOK, Fault PROVE faults' \in 0 .. MaxFaults
BY DEF TypeOK, Fault

(* A poll keeps the types. *)
LEMMA PollType == ASSUME TypeInv, Poll PROVE TypeInv'
<1> USE DEF TypeInv, PodsLeft
<1>1. CASE SourceAnswers
  BY <1>1 DEF TypeOK, SourceAnswers, Polling
<1>2. CASE SourceFails
  BY <1>2, FaultType DEF TypeOK, SourceFails, Polling
<1>3. CASE SourceCut
  BY <1>3 DEF TypeOK, SourceCut, Polling
<1>4. CASE PollFails
  <2>1. errors' \in [Labels -> Nat]
    BY <1>4, CountType DEF PollFails, Labels
  <2> QED BY <1>4, <2>1 DEF TypeOK, PollFails, AfterPoll, PC
<1>5. CASE PollCancelled
  BY <1>5 DEF TypeOK, PollCancelled, AfterPoll, PC
<1>6. CASE Assemble
  BY <1>6, ProviderType DEF TypeOK, Assemble, PC
<1>7. CASE PollDone
  BY <1>7 DEF TypeOK, PollDone, PC
<1>8. CASE CountSources
  BY <1>8, SettleType DEF TypeOK, CountSources, PC
<1>9. CASE StoreSnapshot
  BY <1>9, SettleType DEF TypeOK, StoreSnapshot, AfterPoll, PC
<1> QED BY <1>1, <1>2, <1>3, <1>4, <1>5, <1>6, <1>7, <1>8, <1>9 DEF Poll

(* So does the rest of run. *)
LEMMA RunType == ASSUME TypeInv, Run PROVE TypeInv'
<1> USE DEF TypeInv, PodsLeft
<1>1. ASSUME Boot PROVE pods' \in 0 .. BackoffLimit + 1
  BY <1>1 DEF TypeOK, Boot
<1>2. CASE Start
  BY <1>1, <1>2, StartPollType DEF TypeOK, Start, Boot
<1>3. CASE StartWithoutStore
  <2>1. errors' \in [Labels -> Nat]
    BY <1>3, CountType DEF StartWithoutStore, Labels
  <2> QED BY <1>1, <1>3, <2>1, StartPollType, FaultType DEF TypeOK, StartWithoutStore, Boot
<1>4. CASE Record
  BY <1>4 DEF TypeOK, Record, PC
<1>5. CASE RecordFails
  <2>1. errors' \in [Labels -> Nat]
    BY <1>5, CountType DEF RecordFails, Labels
  <2>2. faults' \in 0 .. MaxFaults
    BY <1>5, FaultType DEF RecordFails, TypeOK
  <2> QED BY <1>5, <2>1, <2>2 DEF TypeOK, RecordFails, PC
<1>6. CASE NextPoll
  BY <1>6, StartPollType DEF TypeOK, NextPoll
<1>7. CASE Stop
  BY <1>7 DEF TypeOK, Stop, PC
<1> QED BY <1>2, <1>3, <1>4, <1>5, <1>6, <1>7, PollType DEF Run

(* What the reader collects first. *)
LEMMA ObserveType ==
  ASSUME TypeOK, Observe
  PROVE  batch' \in Batch /\ reader' \in {"idle", "counters", "push"}
BY NoBatchType DEF TypeOK, Observe, Batch

(* The reader, the last export included, keeps the types. *)
LEMMA ExportType == ASSUME TypeInv, Export \/ StartExport PROVE TypeInv'
<1> USE NoBatchType DEF TypeInv, PodsLeft
<1>1. CASE StartExport
  BY <1>1, ObserveType DEF TypeOK, StartExport
<1>2. CASE ReadCounters
  <2>1. batch' \in Batch
    BY <1>2 DEF TypeOK, ReadCounters, Batch
  <2> QED BY <1>2, <2>1 DEF TypeOK, ReadCounters
<1>3. CASE Abandon
  BY <1>3 DEF TypeOK, Abandon, EndExport
<1>4. CASE Shutdown
  BY <1>4, ObserveType DEF TypeOK, Shutdown, PC
<1>5. CASE Push
  BY <1>5 DEF TypeOK, Push, EndExport
<1>6. CASE PushFails
  BY <1>6, FaultType DEF TypeOK, PushFails, EndExport
<1>7. CASE FinalPush
  BY <1>7, ExitType DEF TypeOK, FinalPush
<1>8. CASE FinalPushFails
  BY <1>8, ExitType, FaultType DEF TypeOK, FinalPushFails
<1> QED BY <1>1, <1>2, <1>3, <1>4, <1>5, <1>6, <1>7, <1>8 DEF Export

(* Every step keeps the types. *)
LEMMA NextType == ASSUME TypeInv, [Next]_vars PROVE TypeInv'
<1>1. CASE Terminate
  BY <1>1, FaultType DEF TypeInv, PodsLeft, TypeOK, Terminate
<1>2. CASE Kill
  BY <1>2, FaultType, ExitType DEF TypeInv, TypeOK, Kill
<1>3. CASE Over
  BY <1>3 DEF TypeInv, PodsLeft, TypeOK, Over, vars
<1>4. CASE UNCHANGED vars
  BY <1>4 DEF TypeInv, PodsLeft, TypeOK, vars
<1> QED BY <1>1, <1>2, <1>3, <1>4, RunType, ExportType DEF Next

(* Every variable keeps its type. *)
THEOREM TypeCorrect == Spec => []TypeOK
<1>1. TypeInv => TypeOK
  BY DEF TypeInv
<1> QED BY <1>1, InitType, NextType, PTL DEF Spec

(* The strengthened form, for the proofs below. *)
LEMMA TypeInvariant == Spec => []TypeInv
BY InitType, NextType, PTL DEF Spec

-------------------------------------------------------------------------------
(***************************************************************************)
(* A gap comes with its explanation.  On its way from a poll to the backend *)
(* a failure is always ahead of the snapshot it made partial: it is counted *)
(* before the snapshot is stored, and read after the snapshot is.          *)
(***************************************************************************)

(* Each source that failed in the snapshot has been counted. *)
Explained(snap, errs) ==
  snap # Nothing => \A s \in snap.failed : errs[Label[s]] > 0

GapsInv ==
  /\ pc = "store" => \A s \in failed : errors[Label[s]] > 0
  /\ Explained(cache, errors)
  /\ reader = "counters" => Explained(batch.snap, errors)
  /\ reader = "push" => Explained(batch.snap, batch.errors)
  /\ Explained(backend.snap, backend.errors)

(* An empty batch explains itself. *)
LEMMA NothingToExplain == \A errs : Explained(Nothing, errs) /\ Explained(NoBatch.snap, errs)
BY NoBatchType DEF Explained

(* Counting more failures leaves what is explained so. *)
LEMMA ExplainedGrows ==
  ASSUME NEW snap \in Cached, Explained(snap, errors), TypeOK,
         errors' \in [Labels -> Nat], \A l \in Labels : errors'[l] >= errors[l]
  PROVE  Explained(snap, errors')
<1> SUFFICES ASSUME snap # Nothing, NEW s \in snap.failed PROVE errors'[Label[s]] > 0
  BY DEF Explained
<1>1. s \in Source /\ Label[s] \in Labels
  BY LabelType DEF Cached, Snapshot
<1>2. errors[Label[s]] > 0
  BY DEF Explained
<1>3. errors[Label[s]] \in Nat /\ errors'[Label[s]] \in Nat
  BY <1>1 DEF TypeOK
<1> QED BY <1>1, <1>2, <1>3

(* What a step does to the errors counted. *)
LEMMA CountRises ==
  ASSUME TypeOK, NEW l \in Labels, Count(l)
  PROVE  \A m \in Labels : errors'[m] >= errors[m]
BY DEF TypeOK, Count

(* Counting the failures of a poll leaves none uncounted. *)
LEMMA CountFailuresRises ==
  ASSUME TypeOK, CountFailures
  PROVE  /\ errors' \in [Labels -> Nat]
         /\ \A m \in Labels : errors'[m] >= errors[m]
         /\ \A s \in failed : errors'[Label[s]] > 0
<1>1. \A l \in Labels : errors[l] \in Nat /\ errors[l] + 1 \in Nat
  BY DEF TypeOK
<1>2. \A s \in failed : Label[s] \in Labels
  BY LabelType DEF TypeOK
<1>3. errors' \in [Labels -> Nat]
  BY <1>1 DEF CountFailures
<1>4. \A m \in Labels : errors'[m] = errors[m] + 1 \/ errors'[m] = errors[m]
  BY DEF CountFailures
<1>5. \A s \in failed : errors'[Label[s]] = errors[Label[s]] + 1
  BY <1>2 DEF CountFailures
<1>6. \A m \in Labels : errors'[m] >= errors[m]
  BY <1>1, <1>4
<1>7. \A s \in failed : errors'[Label[s]] > 0
  BY <1>1, <1>2, <1>5
<1> QED BY <1>3, <1>6, <1>7

(* A step of run that only counts, and does not store, keeps GapsInv. *)
LEMMA CountingKeepsGaps ==
  ASSUME TypeOK, GapsInv, errors' \in [Labels -> Nat],
         \A m \in Labels : errors'[m] >= errors[m],
         pc' = "store" => \A s \in failed' : errors'[Label[s]] > 0,
         UNCHANGED <<cache, reader, batch, backend>>
  PROVE  GapsInv'
<1>1. cache \in Cached /\ batch.snap \in Cached
  BY DEF TypeOK, Batch
<1>2. Explained(cache, errors')
  BY <1>1, ExplainedGrows DEF GapsInv
<1>3. reader = "counters" => Explained(batch.snap, errors')
  BY <1>1, ExplainedGrows DEF GapsInv
<1> QED BY <1>2, <1>3 DEF GapsInv

(* The process is gone: only the backend has anything left. *)
LEMMA ExitKeepsGaps ==
  ASSUME NEW c, Exit(c), Explained(backend'.snap, backend'.errors)
  PROVE  GapsInv'
BY NothingToExplain DEF Exit, EndExport, GapsInv

(* Every step keeps GapsInv. *)
LEMMA GapsStep ==
  ASSUME TypeInv, GapsInv, [Next]_vars
  PROVE  GapsInv'
<1> TypeOK /\ TypeOK'
  BY NextType DEF TypeInv
<1>1. CASE Start
  BY <1>1, NothingToExplain DEF Start, Boot, StartPoll, GapsInv
<1>2. CASE StartWithoutStore
  <2>1. Count("lifecycle") /\ "lifecycle" \in Labels
    BY <1>2 DEF StartWithoutStore, Labels
  <2>2. errors' \in [Labels -> Nat] /\ \A m \in Labels : errors'[m] >= errors[m]
    BY <2>1, CountRises DEF TypeOK
  <2> QED BY <1>2, <2>2, CountingKeepsGaps DEF StartWithoutStore, Boot, StartPoll
<1>3. CASE SourceAnswers \/ SourceFails \/ SourceCut
  BY <1>3 DEF SourceAnswers, SourceFails, SourceCut, Polling, GapsInv
<1>4. CASE PollFails
  <2>1. Count("whole") /\ "whole" \in Labels
    BY <1>4 DEF PollFails, Labels
  <2>2. errors' \in [Labels -> Nat] /\ \A m \in Labels : errors'[m] >= errors[m]
    BY <2>1, CountRises DEF TypeOK
  <2> QED BY <1>4, <2>2, CountingKeepsGaps DEF PollFails, AfterPoll
<1>5. CASE PollCancelled \/ Assemble \/ PollDone
  BY <1>5 DEF PollCancelled, Assemble, PollDone, AfterPoll, GapsInv
<1>6. CASE CountSources
  <2>1. CountFailures /\ UNCHANGED <<cache, failed, reader, batch, backend>>
    BY <1>6 DEF CountSources, Settle
  <2> QED BY <2>1, CountFailuresRises, CountingKeepsGaps
<1>7. CASE StoreSnapshot
  <2>1. cache'.failed = failed /\ UNCHANGED errors /\ pc = "store" /\ pc' # "store"
    BY <1>7 DEF StoreSnapshot, Settle, AfterPoll
  <2>2. Explained(cache', errors')
    BY <2>1 DEF Explained, GapsInv
  <2> QED BY <1>7, <2>1, <2>2 DEF StoreSnapshot, GapsInv
<1>8. CASE Record \/ NextPoll \/ Stop
  BY <1>8 DEF Record, NextPoll, Stop, StartPoll, GapsInv
<1>9. CASE RecordFails
  <2>1. Count("lifecycle") /\ "lifecycle" \in Labels
    BY <1>9 DEF RecordFails, Labels
  <2>2. errors' \in [Labels -> Nat] /\ \A m \in Labels : errors'[m] >= errors[m]
    BY <2>1, CountRises DEF TypeOK
  <2> QED BY <1>9, <2>2, CountingKeepsGaps DEF RecordFails
<1>10. CASE StartExport \/ Shutdown
  BY <1>10 DEF StartExport, Shutdown, Observe, GapsInv
<1>11. CASE ReadCounters
  <2>1. batch'.snap = batch.snap /\ batch'.errors = errors
    BY <1>11 DEF ReadCounters, TypeOK, Batch
  <2> QED BY <1>11, <2>1 DEF ReadCounters, GapsInv
<1>12. CASE Abandon \/ PushFails
  BY <1>12 DEF Abandon, PushFails, EndExport, GapsInv
<1>13. CASE Push
  BY <1>13 DEF Push, EndExport, GapsInv
<1>14. CASE FinalPush
  BY <1>14, ExitKeepsGaps DEF FinalPush, GapsInv
<1>15. CASE FinalPushFails \/ Kill
  BY <1>15, ExitKeepsGaps DEF FinalPushFails, Kill, GapsInv
<1>16. CASE Terminate \/ Over \/ UNCHANGED vars
  BY <1>16 DEF Terminate, Over, vars, GapsInv
<1> QED BY <1>1, <1>2, <1>3, <1>4, <1>5, <1>6, <1>7, <1>8, <1>9, <1>10, <1>11,
           <1>12, <1>13, <1>14, <1>15, <1>16 DEF Next, Run, Poll, Export

(* What the backend has of a source that failed was pushed together with a  *)
(* count of that failure, whenever the reader exports.                     *)
THEOREM GapsExplained == Spec => []GapsAreExplained
<1>1. Init => GapsInv
  BY NothingToExplain DEF Init, GapsInv
<1>2. GapsInv => GapsAreExplained
  BY DEF GapsInv, Explained, GapsAreExplained
<1> QED BY <1>1, <1>2, TypeInvariant, GapsStep, PTL DEF Spec

-------------------------------------------------------------------------------
(***************************************************************************)
(* Exit codes mean what they say.  A pod that is run once and not told to   *)
(* stop ends with code 0 only if its cache holds a snapshot, which the last *)
(* export takes; it ends with code 1 only if nothing was ever in its cache. *)
(***************************************************************************)

(* A pod runs only while the Job is active, and run once it waits for no    *)
(* tick; a failure is put down to the signal only after it came; its last   *)
(* export is its own.                                                      *)
PodInv ==
  /\ pc # "off" => job = "active" /\ ~delivered
  /\ pc = "off" => reader = "idle"
  /\ once => pc # "wait"
  /\ job = "succeeded" => once
  /\ cut # {} => sigterm
  /\ pc = "flush" => reader # "idle" /\ batch.pod = pods

(* Code 0 stands for a snapshot. *)
SuccessInv ==
  /\ once /\ code = 0 /\ ~sigterm /\ pc \in {"record", "stop"} => cache # Nothing
  /\ once /\ code = 0 /\ ~sigterm /\ pc = "flush" => batch.snap # Nothing
  /\ SuccessIsCollected

(* Nothing has left this pod, or any pod before it. *)
Empty == cache = Nothing /\ batch.snap = Nothing /\ backend.snap = Nothing

(* Code 1 stands for none. *)
FailureInv ==
  once /\ ~killed =>
    /\ pc \in {"poll", "later", "count", "store"} => Empty
    /\ pc = "record" => code = 0
    /\ pc \in {"stop", "flush"} /\ code # 0 => Empty
    /\ pc = "off" /\ job = "active" => Empty

DeliveryInv == PodInv /\ SuccessInv /\ FailureInv

(* A stored snapshot is not no snapshot. *)
LEMMA SnapshotIsSomething ==
  ASSUME TypeOK
  PROVE  [failed |-> failed, cut |-> cut] # Nothing
<1>1. [failed |-> failed, cut |-> cut] \in Snapshot
  BY DEF TypeOK, Snapshot
<1> QED BY <1>1

(* Initially. *)
LEMMA DeliveryInit == Init => DeliveryInv
BY NoBatchType DEF Init, DeliveryInv, PodInv, SuccessInv, SuccessIsCollected, FailureInv, Empty

(* A pod starts after one that failed. *)
LEMMA DeliveryBoot == ASSUME TypeOK, DeliveryInv, Boot PROVE DeliveryInv'
BY DEF Boot, StartPoll, TypeOK, DeliveryInv, PodInv, SuccessInv, SuccessIsCollected, FailureInv, Empty

(* A poll. *)
LEMMA DeliveryPoll == ASSUME TypeOK, DeliveryInv, Poll PROVE DeliveryInv'
<1> USE DEF DeliveryInv, PodInv, SuccessInv, SuccessIsCollected, FailureInv, Empty
<1>1. CASE SourceAnswers \/ SourceFails \/ SourceCut
  BY <1>1 DEF SourceAnswers, SourceFails, SourceCut, Polling, TypeOK
<1>2. CASE PollFails
  BY <1>2 DEF PollFails, AfterPoll
<1>3. CASE PollCancelled
  BY <1>3 DEF PollCancelled, AfterPoll
<1>4. CASE Assemble \/ PollDone
  BY <1>4 DEF Assemble, PollDone
<1>5. CASE CountSources
  BY <1>5 DEF CountSources, Settle
<1>6. CASE StoreSnapshot
  BY <1>6, SnapshotIsSomething DEF StoreSnapshot, AfterPoll, Settle
<1> QED BY <1>1, <1>2, <1>3, <1>4, <1>5, <1>6 DEF Poll

(* The reader. *)
LEMMA DeliveryExport ==
  ASSUME TypeOK, DeliveryInv, Export \/ StartExport
  PROVE  DeliveryInv'
<1> USE NoBatchType DEF DeliveryInv, PodInv, SuccessInv, SuccessIsCollected, FailureInv, Empty
<1>1. CASE StartExport
  BY <1>1 DEF StartExport, Observe
<1>2. CASE ReadCounters
  <2>1. batch'.snap = batch.snap /\ batch'.pod = batch.pod
    BY <1>2 DEF ReadCounters, TypeOK, Batch
  <2> QED BY <1>2, <2>1 DEF ReadCounters
<1>3. CASE Abandon
  BY <1>3 DEF Abandon, EndExport
<1>4. CASE Shutdown
  BY <1>4 DEF Shutdown, Observe
<1>5. CASE Push
  BY <1>5 DEF Push, EndExport
<1>6. CASE PushFails
  BY <1>6 DEF PushFails, EndExport
<1>7. CASE FinalPush
  BY <1>7 DEF FinalPush, Exit, Verdict, EndExport
<1>8. CASE FinalPushFails
  BY <1>8 DEF FinalPushFails, Exit, Verdict, EndExport
<1> QED BY <1>1, <1>2, <1>3, <1>4, <1>5, <1>6, <1>7, <1>8 DEF Export

(* Every step. *)
LEMMA DeliveryStep == ASSUME TypeInv, DeliveryInv, [Next]_vars PROVE DeliveryInv'
<1> TypeOK
  BY DEF TypeInv
<1>1. CASE Start \/ StartWithoutStore
  BY <1>1, DeliveryBoot DEF Start, StartWithoutStore
<1>2. CASE Record \/ RecordFails
  BY <1>2 DEF Record, RecordFails, DeliveryInv, PodInv, SuccessInv, SuccessIsCollected, FailureInv, Empty
<1>3. CASE NextPoll \/ Stop
  BY <1>3 DEF NextPoll, Stop, StartPoll, DeliveryInv, PodInv, SuccessInv, SuccessIsCollected, FailureInv, Empty
<1>4. CASE Terminate
  BY <1>4 DEF Terminate, DeliveryInv, PodInv, SuccessInv, SuccessIsCollected, FailureInv, Empty
<1>5. CASE Kill
  BY <1>5 DEF Kill, Exit, Verdict, EndExport, DeliveryInv, PodInv, SuccessInv, SuccessIsCollected, FailureInv
<1>6. CASE Over \/ UNCHANGED vars
  BY <1>6 DEF Over, vars, DeliveryInv, PodInv, SuccessInv, SuccessIsCollected, FailureInv, Empty
<1> QED BY <1>1, <1>2, <1>3, <1>4, <1>5, <1>6, DeliveryPoll, DeliveryExport DEF Next, Run

(* So it is always as DeliveryInv says. *)
LEMMA DeliveryInvariant == Spec => []DeliveryInv
BY DeliveryInit, DeliveryStep, TypeInvariant, PTL DEF Spec

(* A Job that succeeded, and was not told to stop, has delivered a snapshot *)
(* of the pod that succeeded if its last export arrived.                   *)
THEOREM SuccessCollects == Spec => []SuccessIsCollected
<1>1. DeliveryInv => SuccessIsCollected
  BY DEF DeliveryInv, SuccessInv
<1> QED BY <1>1, DeliveryInvariant, PTL

(* A Job of which no pod was killed is retried only as long as it has       *)
(* delivered no snapshot.                                                  *)
THEOREM RetriesAreDue == Spec => RetriedOnlyForNothing
<1>1. ASSUME TypeInv, DeliveryInv, [Next]_vars
      PROVE  once /\ pods' > pods /\ ~killed => backend.snap = Nothing
  <2>1. CASE Boot
    BY <1>1, <2>1 DEF Boot, DeliveryInv, FailureInv, Empty
  <2>2. CASE pods' = pods
    BY <1>1, <2>2 DEF TypeInv, TypeOK
  <2>3. Boot \/ pods' = pods
    BY <1>1 DEF Next, Run, Poll, Export, Start, StartWithoutStore, SourceAnswers,
       SourceFails, SourceCut, PollFails, PollCancelled, Assemble, PollDone,
       CountSources, StoreSnapshot, Record, RecordFails, NextPoll, Stop, StartExport,
       ReadCounters, Abandon, Shutdown, Push, PushFails, FinalPush, FinalPushFails,
       Terminate, Kill, Over, vars
  <2> QED BY <2>1, <2>2, <2>3
<1> QED BY <1>1, TypeInvariant, DeliveryInvariant, PTL DEF Spec, RetriedOnlyForNothing

===============================================================================
