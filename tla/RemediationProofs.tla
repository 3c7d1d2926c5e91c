--------------------------- MODULE RemediationProofs ---------------------------
(***************************************************************************)
(* Proofs about Remediation, for any findings, histograms, Jobs, windows    *)
(* and any number of failures.                                             *)
(***************************************************************************)
EXTENDS Remediation, FiniteSetTheorems, TLAPS

USE DEF Open, PC

-------------------------------------------------------------------------------
(***************************************************************************)
(* Type correctness.                                                       *)
(***************************************************************************)

(* A window is a number of ticks shorter than MaxAge. *)
LEMMA WindowType ==
  ASSUME NEW w \in Windows
  PROVE  w \in Nat /\ w < MaxAge /\ w \in 0 .. MaxAge - 1
<1>1. w \in Nat /\ w < MaxAge /\ MaxAge \in Nat
  BY RemediationAssumption
<1> QED BY <1>1

(* The stores of ids and counts keep their types when a finding is recorded. *)
LEMMA RecordScriptType ==
  ASSUME TypeOK, NEW j \in Job, NEW f \in Finding, RecordScript(j, f)
  PROVE  /\ counted' \in [Scope -> SUBSET Id]
         /\ ttl' \in [Scope -> 0 .. MaxAge - 1]
         /\ hist' \in [Scope -> Nat]
         /\ index' \subseteq Scope
         /\ credited' \in [Finding -> Nat]
<1>1. ScopeOf[f] \in Scope /\ IdOf[f] \in Id
  BY RemediationAssumption
<1>2. win[j] \in 0 .. MaxAge - 1
  BY WindowType DEF TypeOK
<1>3. counted' \in [Scope -> SUBSET Id] /\ ttl' \in [Scope -> 0 .. MaxAge - 1]
  BY <1>1, <1>2 DEF TypeOK, RecordScript, Mark
<1>4. hist' \in [Scope -> Nat]
  <2>1. hist' = hist \/ hist' = [hist EXCEPT ![ScopeOf[f]] = @ + 1]
    BY DEF RecordScript, AddToHistogram
  <2>2. hist \in [Scope -> Nat]
    BY DEF TypeOK
  <2> QED BY <1>1, <2>1, <2>2
<1>5. index' \subseteq Scope
  BY <1>1 DEF TypeOK, RecordScript, AddToHistogram
<1>6. credited' \in [Finding -> Nat]
  <2>1. credited' = credited \/ credited' = [credited EXCEPT ![f] = @ + 1]
    BY DEF RecordScript, AddToHistogram
  <2>2. credited \in [Finding -> Nat] /\ credited[f] + 1 \in Nat
    BY DEF TypeOK
  <2> QED BY <2>1, <2>2
<1> QED BY <1>3, <1>4, <1>5, <1>6

(* The empty counts. *)
LEMMA NoCountsType == NoCounts \in [Scope -> Nat] /\ \A s \in Scope : NoCounts[s] = 0
BY DEF NoCounts

(* A process that goes away leaves well-typed variables behind. *)
LEMMA ExitType ==
  ASSUME TypeOK, NEW j \in Job, Exit(j)
  PROVE  /\ pc' \in [Job -> PC]
         /\ ticks' \in [Job -> 0 .. MaxRun]
         /\ todo' \in [Job -> SUBSET Finding]
         /\ exporting' \in [Job -> BOOLEAN]
         /\ unread' \in [Job -> SUBSET Scope]
         /\ series' \in [Job -> [Scope -> Nat]]
         /\ begun' \in [Job -> [Scope -> Nat]]
         /\ attempted' \subseteq Job
BY NoCountsType, RemediationAssumption DEF TypeOK, Exit, Forget

(* The same of an export that ends, with or without the process. *)
LEMMA EndExportType ==
  ASSUME TypeOK, NEW j \in Job, EndExport(j)
  PROVE  /\ pc' \in [Job -> PC]
         /\ win' \in [Job -> Windows]
         /\ ticks' \in [Job -> 0 .. MaxRun]
         /\ todo' \in [Job -> SUBSET Finding]
         /\ exporting' \in [Job -> BOOLEAN]
         /\ unread' \in [Job -> SUBSET Scope]
         /\ series' \in [Job -> [Scope -> Nat]]
         /\ begun' \in [Job -> [Scope -> Nat]]
         /\ attempted' \subseteq Job
<1>1. CASE pc[j] = "flush"
  BY <1>1, ExitType DEF TypeOK, EndExport
<1>2. CASE pc[j] # "flush"
  BY <1>2, NoCountsType DEF TypeOK, EndExport, Forget, jobVars
<1> QED BY <1>1, <1>2

(* Failures are counted up to their bound. *)
LEMMA FaultType == ASSUME TypeOK, Fault PROVE faults' \in 0 .. MaxFaults
BY RemediationAssumption DEF TypeOK, Fault

(* What a Job does keeps the types. *)
LEMMA RunType ==
  ASSUME TypeOK, NEW j \in Job, Run(j) \/ StartExport(j)
  PROVE  TypeOK'
<1> USE RemediationAssumption DEF storeVars, jobVars, exportVars, ledgerVars
<1>1. CASE Start(j)
  BY <1>1 DEF TypeOK, Start
<1>2. CASE Fetch(j)
  BY <1>2 DEF TypeOK, Fetch, Visible
<1>3. CASE Finish(j)
  BY <1>3 DEF TypeOK, Finish, BeginExport
<1>4. CASE Push(j)
  <2>1. backend' \in [Scope -> Nat]
    BY <1>4 DEF TypeOK, Push
  <2> QED BY <1>4, <2>1, EndExportType DEF TypeOK, Push
<1>5. ASSUME NEW f \in Finding, Record(j, f) PROVE TypeOK'
  BY <1>5, RecordScriptType DEF TypeOK, Record
<1>6. ASSUME NEW s \in Scope, ReadHist(j, s) PROVE TypeOK'
  BY <1>6 DEF TypeOK, ReadHist
<1>7. CASE StartExport(j)
  BY <1>7 DEF TypeOK, StartExport, BeginExport
<1> QED BY <1>1, <1>2, <1>3, <1>4, <1>5, <1>6, <1>7 DEF Run

(* So do its failures. *)
LEMMA FailsType ==
  ASSUME TypeOK, NEW j \in Job, Fails(j)
  PROVE  TypeOK'
<1> USE RemediationAssumption DEF storeVars, jobVars, exportVars, ledgerVars
<1>1. CASE StartWithoutStore(j)
  BY <1>1, FaultType DEF TypeOK, StartWithoutStore
<1>2. CASE FetchIncomplete(j)
  <2>1. todo' \in [Job -> SUBSET Finding]
    BY <1>2 DEF TypeOK, FetchIncomplete, Visible
  <2> QED BY <1>2, <2>1, FaultType DEF TypeOK, FetchIncomplete
<1>3. CASE Terminate(j)
  BY <1>3, FaultType DEF TypeOK, Terminate
<1>4. CASE Crash(j)
  BY <1>4, FaultType, ExitType DEF TypeOK, Crash
<1>5. CASE ExportFails(j)
  BY <1>5, FaultType, EndExportType DEF TypeOK, ExportFails
<1>6. ASSUME NEW f \in Finding, RecordReplyLost(j, f) PROVE TypeOK'
  BY <1>6, FaultType, RecordScriptType DEF TypeOK, RecordReplyLost
<1>7. ASSUME NEW f \in Finding, RecordFails(j, f) PROVE TypeOK'
  BY <1>7, FaultType DEF TypeOK, RecordFails
<1> QED BY <1>1, <1>2, <1>3, <1>4, <1>5, <1>6, <1>7 DEF Fails

(* So does the environment. *)
LEMMA EnvironmentType ==
  ASSUME TypeOK, Environment
  PROVE  TypeOK'
<1> USE RemediationAssumption DEF storeVars, jobVars, exportVars, ledgerVars
<1>1. CASE EditWindow
  BY <1>1, FaultType DEF TypeOK, EditWindow
<1>2. CASE LoseData
  BY <1>2, FaultType, NoCountsType DEF TypeOK, LoseData
<1>3. ASSUME NEW f \in Finding, Resolve(f) PROVE TypeOK'
  BY <1>3 DEF TypeOK, Resolve
<1>4. CASE Tick
  <2>1. age' \in [Finding -> Open .. MaxAge]
    BY <1>4 DEF TypeOK, Tick
  <2>2. counted' \in [Scope -> SUBSET Id]
    BY <1>4 DEF TypeOK, Tick
  <2>3. ttl' \in [Scope -> 0 .. MaxAge - 1]
    <3>1. \A n \in 0 .. MaxAge - 1 : (IF n = 0 THEN 0 ELSE n - 1) \in 0 .. MaxAge - 1
      OBVIOUS
    <3> QED BY <1>4, <3>1 DEF TypeOK, Tick
  <2>4. ticks' \in [Job -> 0 .. MaxRun]
    BY <1>4 DEF TypeOK, Tick
  <2> QED BY <1>4, <2>1, <2>2, <2>3, <2>4 DEF TypeOK, Tick
<1> QED BY <1>1, <1>2, <1>3, <1>4 DEF Environment

(* Every step keeps the types. *)
LEMMA TypeStep == TypeOK /\ [Next]_vars => TypeOK'
<1> SUFFICES ASSUME TypeOK, [Next]_vars PROVE TypeOK'
  OBVIOUS
<1>1. CASE UNCHANGED vars
  BY <1>1 DEF TypeOK, vars, storeVars, jobVars, exportVars, ledgerVars
<1>2. CASE Environment
  BY <1>2, EnvironmentType
<1>3. ASSUME NEW j \in Job, Run(j) \/ StartExport(j) \/ Fails(j) PROVE TypeOK'
  BY <1>3, RunType, FailsType
<1> QED BY <1>1, <1>2, <1>3 DEF Next

(* Init is well typed. *)
LEMMA TypeInit == Init => TypeOK
BY NoCountsType, RemediationAssumption DEF Init, TypeOK

(* Every variable keeps its type: ages and TTLs within the longest window,  *)
(* counts natural, failures within their bound.                            *)
THEOREM TypeCorrect == Spec => []TypeOK
<1>1. Init => TypeOK
  BY TypeInit
<1>2. TypeOK /\ [Next]_vars => TypeOK'
  BY TypeStep
<1> QED BY <1>1, <1>2, PTL DEF Spec

-------------------------------------------------------------------------------
(***************************************************************************)
(* Each finding is counted once.                                           *)
(*                                                                         *)
(* A finding in sight of a Job was resolved at most a window ago.  If it    *)
(* has been counted then its id still is in the dedup set, and will be for  *)
(* as long as the finding stays in sight (Remembered): recording any        *)
(* finding of the scope gives the set a full window again.  This takes a    *)
(* window that stays the same, and Jobs whose run is short against a tick,  *)
(* so that what they have fetched is in sight still (InSight).             *)
(***************************************************************************)
Steady == MaxRun = 0 /\ \A v, w \in Windows : v = w

InSight ==
  /\ \A j \in Job : pc[j] = "off" => todo[j] = {}
  /\ \A j \in Job : \A f \in todo[j] : age[f] >= 0 /\ age[f] <= window

Remembered ==
  \A f \in Finding :
    credited[f] > 0 =>
      /\ age[f] >= 0
      /\ age[f] <= window => /\ IdOf[f] \in counted[ScopeOf[f]]
                             /\ age[f] + ttl[ScopeOf[f]] >= window

CountInv == InSight /\ Remembered /\ CountedOnce

(* Every Job has the one window there is. *)
LEMMA OneWindow ==
  ASSUME Steady, TypeOK
  PROVE  /\ window \in Nat /\ window < MaxAge /\ MaxAge \in Nat
         /\ \A j \in Job : win[j] = window
         /\ TypeOK' => window' = window
<1>1. window \in Nat /\ window < MaxAge
  BY WindowType DEF TypeOK
<1> QED BY <1>1, RemediationAssumption DEF Steady, TypeOK

(* Recording a fetched finding counts it only if it was not counted before. *)
LEMMA RecordCounts ==
  ASSUME Steady, TypeOK, CountInv,
         NEW j \in Job, NEW f \in todo[j], RecordScript(j, f)
  PROVE  /\ f \in Finding
         /\ \/ credited[f] = 0 /\ AddToHistogram(f)
            \/ UNCHANGED <<hist, credited, index>>
<1>1. f \in Finding
  BY DEF TypeOK
<1>2. credited[f] > 0 => IdOf[f] \in counted[ScopeOf[f]]
  BY <1>1 DEF CountInv, InSight, Remembered
<1>3. credited[f] \in Nat
  BY <1>1 DEF TypeOK
<1> QED BY <1>1, <1>2, <1>3 DEF RecordScript

(* Recording keeps the invariant, whatever becomes of the reply. *)
LEMMA RecordKeeps ==
  ASSUME Steady, TypeOK, TypeOK', CountInv,
         NEW j \in Job, NEW f \in todo[j], RecordScript(j, f),
         UNCHANGED <<age, window>>
  PROVE  Remembered' /\ CountedOnce'
<1>1. f \in Finding /\ age[f] >= 0 /\ ScopeOf[f] \in Scope
  BY RemediationAssumption DEF TypeOK, CountInv, InSight
<1>2. /\ counted' = [counted EXCEPT ![ScopeOf[f]] = @ \cup {IdOf[f]}]
      /\ ttl' = [ttl EXCEPT ![ScopeOf[f]] = window]
  BY OneWindow DEF RecordScript, Mark
<1>3. /\ \A g \in Finding : g # f => credited'[g] = credited[g]
      /\ credited'[f] <= 1
  <2>1. CASE credited[f] = 0 /\ AddToHistogram(f)
    BY <1>1, <2>1 DEF TypeOK, AddToHistogram
  <2>2. CASE UNCHANGED credited
    BY <1>1, <2>2 DEF CountInv, CountedOnce
  <2> QED BY <2>1, <2>2, RecordCounts
<1>4. CountedOnce'
  BY <1>3 DEF CountInv, CountedOnce
<1>5. ASSUME NEW g \in Finding, credited'[g] > 0
      PROVE  /\ age'[g] >= 0
             /\ age'[g] <= window' => /\ IdOf[g] \in counted'[ScopeOf[g]]
                                      /\ age'[g] + ttl'[ScopeOf[g]] >= window'
  <2>1. age'[g] = age[g] /\ window' = window /\ age[g] \in Int /\ window \in Nat
    BY OneWindow DEF TypeOK
  <2>2. age[g] >= 0 /\ ScopeOf[g] \in Scope
    BY <1>1, <1>3, <1>5, RemediationAssumption DEF CountInv, Remembered
  <2>3. CASE ScopeOf[g] = ScopeOf[f]
    <3>1. ttl'[ScopeOf[g]] = window
      BY <1>2, <2>2, <2>3 DEF TypeOK
    <3>2. age[g] <= window => IdOf[g] \in counted'[ScopeOf[g]]
      BY <1>1, <1>2, <1>3, <1>5, <2>2, <2>3 DEF TypeOK, CountInv, Remembered
    <3> QED BY <2>1, <2>2, <3>1, <3>2
  <2>4. CASE ScopeOf[g] # ScopeOf[f]
    <3>1. g # f /\ credited[g] > 0
      BY <1>3, <1>5, <2>4
    <3>2. counted'[ScopeOf[g]] = counted[ScopeOf[g]] /\ ttl'[ScopeOf[g]] = ttl[ScopeOf[g]]
      BY <1>2, <2>2, <2>4 DEF TypeOK
    <3> QED BY <2>1, <3>1, <3>2 DEF CountInv, Remembered
  <2> QED BY <2>3, <2>4
<1> QED BY <1>4, <1>5 DEF Remembered

(* Time passes only between runs of the Jobs; a dedup set that expires was   *)
(* last touched more than a window ago.                                    *)
LEMMA TickKeeps ==
  ASSUME Steady, TypeOK, CountInv, Tick
  PROVE  CountInv'
<1>1. \A j \in Job : todo[j] = {}
  <2> SUFFICES ASSUME NEW j \in Job PROVE todo[j] = {}
    OBVIOUS
  <2>1. ticks[j] = 0
    BY DEF TypeOK, Steady
  <2>2. pc[j] = "off"
    BY <2>1 DEF Tick, Steady
  <2> QED BY <2>2 DEF CountInv, InSight
<1>2. InSight'
  BY <1>1 DEF InSight, Tick
<1>3. CountedOnce'
  BY DEF CountInv, CountedOnce, Tick, ledgerVars
<1>4. ASSUME NEW f \in Finding, credited'[f] > 0
      PROVE  /\ age'[f] >= 0
             /\ age'[f] <= window' => /\ IdOf[f] \in counted'[ScopeOf[f]]
                                      /\ age'[f] + ttl'[ScopeOf[f]] >= window'
  <2>1. /\ credited[f] > 0 /\ window' = window
        /\ window \in Nat /\ window < MaxAge /\ MaxAge \in Nat
    BY <1>4, OneWindow DEF Tick, ledgerVars
  <2>2. age[f] >= 0 /\ age[f] \in Int /\ age[f] <= MaxAge
    BY <2>1, RemediationAssumption DEF TypeOK, CountInv, Remembered
  <2>3. age'[f] = IF age[f] < MaxAge THEN age[f] + 1 ELSE age[f]
    BY <2>2, RemediationAssumption DEF Tick
  <2>4. ASSUME age'[f] <= window
        PROVE  /\ IdOf[f] \in counted'[ScopeOf[f]]
               /\ age'[f] + ttl'[ScopeOf[f]] >= window
    <3> DEFINE s == ScopeOf[f]
    <3>1. s \in Scope /\ ttl[s] \in Nat
      BY RemediationAssumption DEF TypeOK
    <3>2. age[f] < window /\ age'[f] = age[f] + 1
      BY <2>1, <2>2, <2>3, <2>4
    <3>3. IdOf[f] \in counted[s] /\ age[f] + ttl[s] >= window
      BY <2>1, <2>2, <3>2 DEF CountInv, Remembered
    <3>4. ttl[s] # 0
      BY <2>1, <2>2, <3>1, <3>2, <3>3
    <3>5. counted'[s] = counted[s] /\ ttl'[s] = ttl[s] - 1
      BY <3>1, <3>4 DEF Tick
    <3> HIDE DEF s
    <3>6. IdOf[f] \in counted'[s] /\ age'[f] + ttl'[s] >= window
      BY <2>1, <2>2, <3>1, <3>2, <3>3, <3>5
    <3> QED BY <3>6 DEF s
  <2> QED BY <2>1, <2>2, <2>3, <2>4
<1> QED BY <1>2, <1>3, <1>4 DEF CountInv, Remembered

(* What a Job does, other than recording, leaves the ledger alone and adds  *)
(* to its findings only what is in sight.                                  *)
LEMMA JobKeeps ==
  ASSUME Steady, TypeOK, CountInv, NEW j \in Job,
         \/ Start(j) \/ Fetch(j) \/ Finish(j) \/ Push(j) \/ StartExport(j)
         \/ \E s \in Scope : ReadHist(j, s)
         \/ StartWithoutStore(j) \/ FetchIncomplete(j) \/ Terminate(j)
         \/ Crash(j) \/ ExportFails(j)
         \/ \E f \in Finding : RecordFails(j, f)
  PROVE  CountInv' /\ UNCHANGED <<hist, credited>>
<1> USE DEF storeVars, jobVars, exportVars, ledgerVars
<1>1. UNCHANGED <<age, window, counted, ttl, credited, hist>>
  BY DEF Start, Fetch, Finish, Push, StartExport, ReadHist, StartWithoutStore,
         FetchIncomplete, Terminate, Crash, ExportFails, RecordFails
<1>2. Remembered' /\ CountedOnce'
  BY <1>1 DEF CountInv, Remembered, CountedOnce
<1>3. InSight'
  <2>1. \A f \in Visible(j) : age[f] >= 0 /\ age[f] <= window
    BY OneWindow DEF Visible, TypeOK
  <2>2. ASSUME /\ \A i \in Job : i # j => pc'[i] = pc[i] /\ todo'[i] = todo[i]
               /\ pc'[j] = "off" => todo'[j] = {}
               /\ todo'[j] \subseteq todo[j] \cup Visible(j)
        PROVE  InSight'
    <3>1. \A i \in Job : pc'[i] = "off" => todo'[i] = {}
      BY <2>2 DEF CountInv, InSight
    <3>2. \A i \in Job : \A f \in todo'[i] : age[f] >= 0 /\ age[f] <= window
      BY <2>1, <2>2 DEF CountInv, InSight
    <3> QED BY <1>1, <3>1, <3>2 DEF InSight
  <2>3. CASE Start(j) \/ Finish(j) \/ StartExport(j) \/ StartWithoutStore(j)
             \/ \E s \in Scope : ReadHist(j, s)
    BY <1>1, <2>3 DEF TypeOK, CountInv, InSight, Start, Finish, StartExport,
                      StartWithoutStore, ReadHist
  <2>4. CASE Fetch(j)
    BY <2>2, <2>4 DEF TypeOK, Fetch
  <2>5. CASE FetchIncomplete(j)
    <3>1. PICK some \in SUBSET Visible(j) : todo' = [todo EXCEPT ![j] = some]
      BY <2>5 DEF FetchIncomplete
    <3> QED BY <2>2, <2>5, <3>1 DEF TypeOK, FetchIncomplete
  <2>6. CASE Terminate(j)
    BY <2>2, <2>6 DEF TypeOK, Terminate
  <2>7. ASSUME NEW f \in Finding, RecordFails(j, f) PROVE InSight'
    <3>1. pc[j] = "record" /\ pc' = pc /\ todo' = [todo EXCEPT ![j] = @ \ {f}]
      BY <2>7 DEF RecordFails
    <3> QED BY <2>2, <3>1 DEF TypeOK
  <2>8. CASE Crash(j) \/ Push(j) \/ ExportFails(j)
    <3>1. CASE Exit(j)
      BY <2>2, <3>1 DEF TypeOK, Exit
    <3>2. CASE UNCHANGED <<pc, todo>>
      BY <1>1, <3>2 DEF CountInv, InSight
    <3> QED BY <2>8, <3>1, <3>2 DEF Crash, Push, ExportFails, EndExport
  <2> QED BY <2>3, <2>4, <2>5, <2>6, <2>7, <2>8
<1> QED BY <1>1, <1>2, <1>3 DEF CountInv

(* Init satisfies the invariant. *)
LEMMA CountInit == Init => CountInv
BY DEF Init, CountInv, InSight, Remembered, CountedOnce

(* The state of the abstract ledger. *)
Done == {f \in Finding : credited[f] > 0}

LedgerStep ==
  \/ UNCHANGED <<Done, hist>>
  \/ Done' = {} /\ hist' = NoCounts
  \/ \E f \in Finding : /\ f \notin Done
                        /\ Done' = Done \cup {f}
                        /\ hist' = [hist EXCEPT ![ScopeOf[f]] = @ + 1]

(* The invariant is kept, and every step is a step of the ledger. *)
LEMMA CountStep ==
  ASSUME Steady, TypeOK, TypeOK', CountInv, [Next]_vars
  PROVE  CountInv' /\ LedgerStep
<1> USE DEF storeVars, jobVars, exportVars, ledgerVars
<1>1. CASE UNCHANGED vars
  BY <1>1 DEF vars, CountInv, InSight, Remembered, CountedOnce, LedgerStep, Done
<1>2. CASE Tick
  BY <1>2, TickKeeps DEF Tick, LedgerStep, Done
<1>3. CASE EditWindow
  BY <1>3 DEF EditWindow, Steady, TypeOK
<1>4. CASE LoseData
  <2>1. Done' = {} /\ hist' = NoCounts
    BY <1>4 DEF LoseData, Done
  <2>2. CountInv'
    BY <1>4 DEF LoseData, CountInv, InSight, Remembered, CountedOnce
  <2> QED BY <2>1, <2>2 DEF LedgerStep
<1>5. ASSUME NEW f \in Finding, Resolve(f) PROVE CountInv' /\ LedgerStep
  <2>0. age[f] = Open /\ credited[f] \in Nat
    BY <1>5 DEF Resolve, TypeOK
  <2>1. credited[f] = 0 /\ \A j \in Job : f \notin todo[j]
    <3>1. ~(age[f] >= 0)
      BY <2>0
    <3>2. ~(credited[f] > 0)
      BY <3>1 DEF CountInv, Remembered
    <3>3. \A j \in Job : f \notin todo[j]
      BY <3>1 DEF CountInv, InSight
    <3> QED BY <2>0, <3>2, <3>3
  <2>2. \A g \in Finding : g # f => age'[g] = age[g]
    BY <1>5 DEF Resolve, TypeOK
  <2>3. InSight'
    BY <1>5, <2>1, <2>2 DEF Resolve, CountInv, InSight, TypeOK
  <2>4. Remembered' /\ CountedOnce'
    BY <1>5, <2>1, <2>2 DEF Resolve, CountInv, Remembered, CountedOnce
  <2> QED BY <1>5, <2>3, <2>4 DEF Resolve, CountInv, LedgerStep, Done
<1>6. ASSUME NEW j \in Job, NEW f \in Finding, Record(j, f) \/ RecordReplyLost(j, f)
      PROVE  CountInv' /\ LedgerStep
  <2>1. f \in todo[j] /\ RecordScript(j, f) /\ UNCHANGED <<age, window, pc>>
    BY <1>6 DEF Record, RecordReplyLost
  <2>2. InSight'
    <3>1. todo' = [todo EXCEPT ![j] = @ \ {f}] \/ todo' = todo
      BY <1>6 DEF Record, RecordReplyLost, jobVars
    <3>2. todo \in [Job -> SUBSET Finding]
      BY DEF TypeOK
    <3>3. \A i \in Job : todo'[i] \subseteq todo[i]
      BY <3>1, <3>2
    <3> QED BY <2>1, <3>3 DEF CountInv, InSight
  <2>3. Remembered' /\ CountedOnce'
    BY <2>1, RecordKeeps
  <2>4. CASE UNCHANGED <<hist, credited>>
    BY <2>2, <2>3, <2>4 DEF CountInv, LedgerStep, Done
  <2>5. CASE credited[f] = 0 /\ AddToHistogram(f)
    <3>1. f \notin Done
      BY <2>5 DEF Done
    <3>2. Done' = Done \cup {f}
      BY <2>5 DEF Done, AddToHistogram, TypeOK
    <3> QED BY <2>2, <2>3, <2>5, <3>1, <3>2 DEF CountInv, LedgerStep, AddToHistogram
  <2> QED BY <2>1, <2>4, <2>5, RecordCounts
<1>7. ASSUME NEW j \in Job,
             \/ Start(j) \/ Fetch(j) \/ Finish(j) \/ Push(j) \/ StartExport(j)
             \/ \E s \in Scope : ReadHist(j, s)
             \/ StartWithoutStore(j) \/ FetchIncomplete(j) \/ Terminate(j)
             \/ Crash(j) \/ ExportFails(j)
             \/ \E f \in Finding : RecordFails(j, f)
      PROVE  CountInv' /\ LedgerStep
  BY <1>7, JobKeeps DEF LedgerStep, Done
<1> QED BY <1>1, <1>2, <1>3, <1>4, <1>5, <1>6, <1>7 DEF Next, Environment, Run, Fails

(* "re-running collection Jobs never double-counts a resolved finding":     *)
(* with a window that stays the same and runs that are short against a      *)
(* tick, no finding is added to its histogram twice, however many Jobs      *)
(* report it, however often, and whatever fails.                           *)
THEOREM CountsOnce ==
  ASSUME Steady
  PROVE  Spec => []CountedOnce
<1>1. Init => TypeOK /\ CountInv
  BY TypeInit, CountInit
<1>2. TypeOK /\ CountInv /\ [Next]_vars => TypeOK' /\ CountInv'
  BY TypeStep, CountStep
<1>3. CountInv => CountedOnce
  BY DEF CountInv
<1> QED BY <1>1, <1>2, <1>3, PTL DEF Spec

(* Under the same conditions the store implements the ledger: a histogram   *)
(* changes only by the credit of a finding not credited yet, or when the    *)
(* database is lost.                                                       *)
THEOREM StoreImplementsLedger ==
  ASSUME Steady
  PROVE  Spec => ImplementsLedger
<1>1. Init => TypeOK /\ CountInv
  BY TypeInit, CountInit
<1>2. TypeOK /\ CountInv /\ [Next]_vars => TypeOK' /\ CountInv'
  BY TypeStep, CountStep
<1>3. Init => L!Init
  BY DEF Init, L!Init, NoCounts
<1>4. TypeOK /\ CountInv /\ [Next]_vars => [L!Next]_<<Done, hist>>
  <2>1. TypeOK /\ CountInv /\ [Next]_vars => LedgerStep
    BY TypeStep, CountStep
  <2>2. LedgerStep => [L!Next]_<<Done, hist>>
    BY DEF LedgerStep, L!Next, L!Credit, L!Wipe, Done, NoCounts
  <2> QED BY <2>1, <2>2
<1>5. L!Spec <=> L!Init /\ [][L!Next]_<<Done, hist>>
  BY DEF L!Spec, Done
<1> QED BY <1>1, <1>2, <1>3, <1>4, <1>5, PTL DEF Spec, ImplementsLedger

-------------------------------------------------------------------------------
(***************************************************************************)
(* No finding is dropped.                                                  *)
(*                                                                         *)
(* An id in a dedup set stands for a finding that has been counted: the id  *)
(* and the count are written in one step.  This takes ids that tell the     *)
(* findings of a scope apart.                                              *)
(***************************************************************************)
DistinctIds ==
  \A f, g \in Finding : ScopeOf[f] = ScopeOf[g] /\ IdOf[f] = IdOf[g] => f = g

MarkedCounted ==
  \A f \in Finding : IdOf[f] \in counted[ScopeOf[f]] => credited[f] > 0

(* Recording marks and counts together, and takes no credit back. *)
LEMMA RecordMarksCounted ==
  ASSUME DistinctIds, TypeOK, MarkedCounted,
         NEW j \in Job, NEW f \in Finding, RecordScript(j, f)
  PROVE  /\ MarkedCounted'
         /\ credited'[f] > 0
         /\ \A g \in Finding : credited[g] > 0 => credited'[g] > 0
<1>1. ScopeOf \in [Finding -> Scope] /\ credited \in [Finding -> Nat]
  BY RemediationAssumption DEF TypeOK
<1>2. /\ credited'[f] > 0
      /\ \A g \in Finding : credited[g] > 0 => credited'[g] > 0
  <2>1. CASE AddToHistogram(f)
    BY <1>1, <2>1 DEF AddToHistogram
  <2>2. CASE IdOf[f] \in counted[ScopeOf[f]] /\ UNCHANGED credited
    BY <1>1, <2>2 DEF MarkedCounted
  <2> QED BY <2>1, <2>2 DEF RecordScript
<1>3. ASSUME NEW g \in Finding, IdOf[g] \in counted'[ScopeOf[g]], g # f
      PROVE  IdOf[g] \in counted[ScopeOf[g]]
  <2>1. counted' = [counted EXCEPT ![ScopeOf[f]] = @ \cup {IdOf[f]}]
    BY DEF RecordScript, Mark
  <2> QED BY <1>1, <1>3, <2>1 DEF TypeOK, DistinctIds
<1>4. MarkedCounted'
  BY <1>1, <1>2, <1>3 DEF MarkedCounted
<1> QED BY <1>2, <1>4

(* Every step keeps marks and credits together. *)
LEMMA DropStep ==
  ASSUME DistinctIds, TypeOK, MarkedCounted, NothingDropped, [Next]_vars
  PROVE  MarkedCounted' /\ NothingDropped'
<1> USE DEF storeVars, jobVars, exportVars, ledgerVars
<1>1. ASSUME NEW j \in Job, NEW f \in Finding, Record(j, f)
      PROVE  MarkedCounted' /\ NothingDropped'
  <2>1. handled' = handled \cup {f} /\ RecordScript(j, f)
    BY <1>1 DEF Record
  <2> QED BY <2>1, RecordMarksCounted DEF NothingDropped, TypeOK
<1>2. ASSUME NEW j \in Job, NEW f \in Finding, RecordReplyLost(j, f)
      PROVE  MarkedCounted' /\ NothingDropped'
  <2>1. handled' = handled /\ RecordScript(j, f)
    BY <1>2 DEF RecordReplyLost
  <2> QED BY <2>1, RecordMarksCounted DEF NothingDropped, TypeOK
<1>3. CASE LoseData
  BY <1>3, RemediationAssumption DEF LoseData, MarkedCounted, NothingDropped
<1>4. CASE Tick
  <2>1. \A s \in Scope : counted'[s] \subseteq counted[s]
    BY <1>4 DEF Tick
  <2> QED BY <1>4, <2>1, RemediationAssumption DEF Tick, MarkedCounted, NothingDropped
<1>5. CASE UNCHANGED <<counted, credited, handled>>
  BY <1>5 DEF MarkedCounted, NothingDropped
<1>6. ASSUME NEW j \in Job,
             \/ Start(j) \/ Fetch(j) \/ Finish(j) \/ Push(j) \/ StartExport(j)
             \/ \E s \in Scope : ReadHist(j, s)
             \/ StartWithoutStore(j) \/ FetchIncomplete(j) \/ Terminate(j)
             \/ Crash(j) \/ ExportFails(j)
             \/ \E f \in Finding : RecordFails(j, f)
      PROVE  UNCHANGED <<counted, credited, handled>>
  BY <1>6 DEF Start, Fetch, Finish, Push, StartExport, ReadHist, StartWithoutStore,
              FetchIncomplete, Terminate, Crash, ExportFails, RecordFails
<1>7. EditWindow \/ (\E f \in Finding : Resolve(f)) \/ UNCHANGED vars
        => UNCHANGED <<counted, credited, handled>>
  BY DEF EditWindow, Resolve, vars
<1> QED BY <1>1, <1>2, <1>3, <1>4, <1>5, <1>6, <1>7 DEF Next, Environment, Run, Fails

(* "each remediation is counted exactly once", the other half: a finding a   *)
(* Job was told is recorded is in its histogram, however runs interleave,   *)
(* whatever reply is lost and whatever expires, if ids tell the findings of *)
(* a histogram apart.                                                      *)
THEOREM RecordedIsCounted ==
  ASSUME DistinctIds
  PROVE  Spec => []NothingDropped
<1>1. Init => TypeOK /\ MarkedCounted /\ NothingDropped
  BY TypeInit, RemediationAssumption DEF Init, MarkedCounted, NothingDropped
<1>2. TypeOK /\ MarkedCounted /\ NothingDropped /\ [Next]_vars
        => TypeOK' /\ MarkedCounted' /\ NothingDropped'
  BY TypeStep, DropStep
<1> QED BY <1>1, <1>2, PTL DEF Spec

-------------------------------------------------------------------------------
(***************************************************************************)
(* Pushed counts are current.                                              *)
(*                                                                         *)
(* Of each histogram an export has, from its beginning to its end, either a *)
(* reading that is no older than its beginning or one it has yet to make:   *)
(* every histogram with a count is in the index, and while the store keeps  *)
(* its data counts only grow.                                              *)
(***************************************************************************)
Registered == \A s \in Scope : hist[s] > 0 => s \in index

CurrentOf(j, s) ==
  /\ begun[j][s] <= hist[s]
  /\ begun[j][s] > 0 => s \in unread[j] \/ series[j][s] >= begun[j][s]

CurrentInv == Registered /\ \A j \in Job : \A s \in Scope : CurrentOf(j, s)

(* The end of an export clears what was read for it. *)
LEMMA EndExportForgets ==
  ASSUME NEW j \in Job, EndExport(j)
  PROVE  Forget(j)
BY DEF EndExport, Exit

(* A histogram only grows when a finding is recorded, and is registered. *)
LEMMA RecordGrows ==
  ASSUME TypeOK, Registered, NEW j \in Job, NEW f \in Finding, RecordScript(j, f)
  PROVE  /\ hist' \in [Scope -> Nat] /\ \A s \in Scope : hist'[s] >= hist[s]
         /\ Registered'
<1>1. hist \in [Scope -> Nat] /\ ScopeOf[f] \in Scope
  BY RemediationAssumption DEF TypeOK
<1> QED BY <1>1 DEF RecordScript, AddToHistogram, Registered

(* The beginning and the end of an export. *)
LEMMA ExportCurrent ==
  ASSUME TypeOK, CurrentInv, NEW j \in Job, UNCHANGED <<hist, index>>,
         (BeginExport(j) /\ series' = series) \/ Forget(j)
  PROVE  CurrentInv'
<1>1. /\ hist \in [Scope -> Nat] /\ begun \in [Job -> [Scope -> Nat]]
      /\ series \in [Job -> [Scope -> Nat]] /\ unread \in [Job -> SUBSET Scope]
  BY DEF TypeOK
<1>2. Registered'
  BY DEF CurrentInv, Registered
<1>3. ASSUME NEW i \in Job, i # j, NEW s \in Scope PROVE CurrentOf(i, s)'
  BY <1>1, <1>3 DEF CurrentInv, CurrentOf, BeginExport, Forget
<1>4. ASSUME NEW s \in Scope PROVE CurrentOf(j, s)'
  <2>1. CASE BeginExport(j)
    BY <1>1, <2>1 DEF CurrentInv, CurrentOf, Registered, BeginExport
  <2>2. CASE Forget(j)
    BY <1>1, <2>2, NoCountsType DEF CurrentOf, Forget
  <2> QED BY <2>1, <2>2
<1> QED BY <1>2, <1>3, <1>4 DEF CurrentInv

(* Every step keeps readings current. *)
LEMMA CurrentStep == TypeOK /\ CurrentInv /\ [Next]_vars => CurrentInv'
<1> SUFFICES ASSUME TypeOK, CurrentInv, [Next]_vars PROVE CurrentInv'
  OBVIOUS
<1> USE DEF storeVars, jobVars, exportVars, ledgerVars
<1>0. /\ hist \in [Scope -> Nat] /\ begun \in [Job -> [Scope -> Nat]]
      /\ series \in [Job -> [Scope -> Nat]] /\ unread \in [Job -> SUBSET Scope]
  BY DEF TypeOK
<1>1. ASSUME NEW j \in Job, NEW f \in Finding, Record(j, f) \/ RecordReplyLost(j, f)
      PROVE  CurrentInv'
  <2>1. UNCHANGED exportVars /\ RecordScript(j, f)
    BY <1>1 DEF Record, RecordReplyLost
  <2>2. Registered' /\ hist' \in [Scope -> Nat] /\ \A s \in Scope : hist'[s] >= hist[s]
    BY <2>1, RecordGrows DEF CurrentInv
  <2> QED BY <1>0, <2>1, <2>2 DEF CurrentInv, CurrentOf
<1>2. ASSUME NEW j \in Job, NEW s \in Scope, ReadHist(j, s) PROVE CurrentInv'
  <2>1. /\ UNCHANGED <<hist, index, begun>>
        /\ unread' = [unread EXCEPT ![j] = @ \ {s}]
        /\ series' = [series EXCEPT ![j][s] = hist[s]]
    BY <1>2 DEF ReadHist
  <2>2. Registered'
    BY <2>1 DEF CurrentInv, Registered
  <2>3. ASSUME NEW i \in Job, NEW t \in Scope PROVE CurrentOf(i, t)'
    <3>1. CASE i = j /\ t = s
      BY <1>0, <2>1, <3>1 DEF CurrentInv, CurrentOf
    <3>2. CASE i # j \/ t # s
      BY <1>0, <2>1, <3>2 DEF CurrentInv, CurrentOf
    <3> QED BY <3>1, <3>2
  <2> QED BY <2>2, <2>3 DEF CurrentInv
<1>3. ASSUME NEW j \in Job, Finish(j) \/ StartExport(j) PROVE CurrentInv'
  BY <1>3, ExportCurrent DEF Finish, StartExport
<1>4. ASSUME NEW j \in Job, Push(j) \/ Crash(j) \/ ExportFails(j) PROVE CurrentInv'
  BY <1>4, ExportCurrent, EndExportForgets DEF Push, Crash, ExportFails, Exit
<1>5. CASE LoseData
  BY <1>0, <1>5, NoCountsType DEF LoseData, CurrentInv, CurrentOf, Registered
<1>6. CASE UNCHANGED <<hist, index, exportVars>>
  BY <1>6 DEF CurrentInv, CurrentOf, Registered
<1>7. ASSUME NEW j \in Job,
             \/ Start(j) \/ Fetch(j) \/ StartWithoutStore(j) \/ FetchIncomplete(j)
             \/ Terminate(j) \/ \E f \in Finding : RecordFails(j, f)
      PROVE  UNCHANGED <<hist, index, exportVars>>
  BY <1>7 DEF Start, Fetch, StartWithoutStore, FetchIncomplete, Terminate, RecordFails
<1>8. EditWindow \/ Tick \/ (\E f \in Finding : Resolve(f)) \/ UNCHANGED vars
        => UNCHANGED <<hist, index, exportVars>>
  BY DEF EditWindow, Tick, Resolve, vars
<1> QED BY <1>1, <1>2, <1>3, <1>4, <1>5, <1>6, <1>7, <1>8
        DEF Next, Environment, Run, Fails

(* A push leaves no count below what the store had when its export began,   *)
(* for any number of Jobs, whatever else they record, push and lose.        *)
THEOREM CurrentIsPushed == Spec => PushesAreCurrent
<1>1. Init => TypeOK /\ CurrentInv
  BY TypeInit, NoCountsType DEF Init, CurrentInv, CurrentOf, Registered
<1>2. TypeOK /\ CurrentInv /\ [Next]_vars => TypeOK' /\ CurrentInv'
  BY TypeStep, CurrentStep
<1>3. TypeOK /\ CurrentInv /\ [Next]_vars
        => [\A j \in Job : Push(j) => \A s \in Scope : backend'[s] >= begun[j][s]]_vars
  <2> SUFFICES ASSUME TypeOK, CurrentInv, NEW j \in Job, Push(j), NEW s \in Scope
               PROVE  backend'[s] >= begun[j][s]
    OBVIOUS
  <2>1. /\ unread[j] = {}
        /\ backend'[s] = IF series[j][s] > 0 THEN series[j][s] ELSE backend[s]
    BY DEF Push
  <2>2. series[j][s] \in Nat /\ backend[s] \in Nat /\ begun[j][s] \in Nat
    BY DEF TypeOK
  <2> QED BY <2>1, <2>2 DEF CurrentInv, CurrentOf
<1> QED BY <1>1, <1>2, <1>3, PTL DEF Spec, PushesAreCurrent

-------------------------------------------------------------------------------
(***************************************************************************)
(* Each finding is counted in time.                                        *)
(*                                                                         *)
(* A Job whose run sees a finding either counts it or fails, and a failure  *)
(* spoils one run.  So the age of a finding that is not counted yet is at   *)
(* most the number of failures so far, and one more tick for the run in     *)
(* which it was resolved; two when a run may outlast a tick, since the run  *)
(* that ends next may have asked before the finding was resolved.           *)
(***************************************************************************)

(* The run of Job j will not count f any more. *)
Missed(j, f) == pc[j] \in {"record", "flush"} /\ f \notin todo[j]

(* The ticks f may be older than the failures explain, as Job j stands.     *)
Behind(j, f) ==
  IF MaxRun = 0 THEN IF Missed(j, f) \/ j \in attempted THEN 0 ELSE 1
  ELSE (IF Missed(j, f) THEN 0 ELSE 1) + (IF j \in attempted THEN 0 ELSE 1)

Runs == IF MaxRun = 0 THEN 1 ELSE 2

(* Every finding is covered by some Job, each Job runs every tick, and fewer *)
(* things go wrong than the shortest window has ticks.                     *)
Recurring ==
  /\ EveryTick /\ ~DataLoss /\ DistinctIds
  /\ \A f \in Finding : \E j \in Job : f \in Covers[j]
  /\ \A w \in Windows : MaxFaults + Runs <= w

Late ==
  \A j \in Job : \A f \in Covers[j] :
    credited[f] = 0 /\ age[f] >= 0 => age[f] <= faults + Behind(j, f)

NothingLeft == \A j \in Job : pc[j] = "flush" => todo[j] = {}

LateInv == MarkedCounted /\ NothingDropped /\ NothingLeft /\ Late

LEMMA BehindType ==
  ASSUME NEW j, NEW f
  PROVE  /\ Behind(j, f) \in Nat /\ Behind(j, f) <= Runs
         /\ Behind(j, f)' \in Nat
BY DEF Behind, Runs

LEMMA SameBehind ==
  ASSUME NEW j, NEW f, Missed(j, f)' <=> Missed(j, f), j \in attempted' <=> j \in attempted
  PROVE  Behind(j, f)' = Behind(j, f)
BY DEF Behind

(* What the invariant asks for of a step in which no time passes: as much   *)
(* less to explain as there are new failures.                              *)
LEMMA LateKept ==
  ASSUME TypeOK, Late, UNCHANGED age, faults' \in Nat,
         \A f \in Finding : credited[f] > 0 => credited'[f] > 0,
         \A j \in Job : \A f \in Covers[j] :
           credited'[f] = 0 /\ age[f] >= 0 => faults + Behind(j, f) <= faults' + Behind(j, f)'
  PROVE  Late'
<1> SUFFICES ASSUME NEW j \in Job, NEW f \in Covers[j], credited'[f] = 0, age'[f] >= 0
             PROVE  age'[f] <= faults' + Behind(j, f)'
  BY DEF Late
<1>1. f \in Finding
  BY RemediationAssumption
<1>2. credited[f] = 0 /\ age[f] >= 0 /\ age[f] \in Int
  <2>1. age[f] \in Int /\ credited[f] \in Nat
    BY <1>1 DEF TypeOK
  <2> QED BY <1>1, <2>1
<1>3. age[f] <= faults + Behind(j, f) /\ faults + Behind(j, f) <= faults' + Behind(j, f)'
  BY <1>2 DEF Late
<1>4. faults \in Nat /\ faults' \in Nat /\ Behind(j, f) \in Nat /\ Behind(j, f)' \in Nat
  BY BehindType DEF TypeOK
<1> QED BY <1>2, <1>3, <1>4

(* No credit is taken back as long as the store keeps its data. *)
LEMMA CreditStays ==
  ASSUME DistinctIds, ~DataLoss, TypeOK, MarkedCounted, [Next]_vars
  PROVE  \A f \in Finding : credited[f] > 0 => credited'[f] > 0
<1> USE DEF storeVars, jobVars, exportVars, ledgerVars
<1>1. ASSUME NEW j \in Job, NEW f \in Finding, Record(j, f) \/ RecordReplyLost(j, f)
      PROVE  \A g \in Finding : credited[g] > 0 => credited'[g] > 0
  <2>1. RecordScript(j, f)
    BY <1>1 DEF Record, RecordReplyLost
  <2> QED BY <2>1, RecordMarksCounted
<1>2. ASSUME NEW j \in Job,
             \/ Start(j) \/ Fetch(j) \/ Finish(j) \/ Push(j) \/ StartExport(j)
             \/ \E s \in Scope : ReadHist(j, s)
             \/ StartWithoutStore(j) \/ FetchIncomplete(j) \/ Terminate(j)
             \/ Crash(j) \/ ExportFails(j)
             \/ \E f \in Finding : RecordFails(j, f)
      PROVE  UNCHANGED credited
  BY <1>2 DEF Start, Fetch, Finish, Push, StartExport, ReadHist, StartWithoutStore,
              FetchIncomplete, Terminate, Crash, ExportFails, RecordFails
<1>3. EditWindow \/ Tick \/ (\E f \in Finding : Resolve(f)) \/ UNCHANGED vars
        => UNCHANGED credited
  BY DEF EditWindow, Tick, Resolve, vars
<1>4. ~LoseData
  BY DEF LoseData
<1> QED BY <1>1, <1>2, <1>3, <1>4 DEF Next, Environment, Run, Fails

(* A run that ends, or goes on without its export. *)
LEMMA EndExportLocal ==
  ASSUME TypeOK, NothingLeft, NEW j \in Job, EndExport(j)
  PROVE  \/ /\ pc[j] = "flush" /\ todo[j] = {}
            /\ pc' = [pc EXCEPT ![j] = "off"] /\ todo' = [todo EXCEPT ![j] = {}]
            /\ attempted' = attempted \cup {j}
         \/ UNCHANGED <<pc, todo, attempted>>
BY DEF NothingLeft, EndExport, Exit, jobVars

(* What one step of Job j does to where the Jobs are. *)
LEMMA OneJobMoves ==
  ASSUME TypeOK, NEW j \in Job, Run(j) \/ StartExport(j) \/ Fails(j)
  PROVE  /\ age' = age
         /\ \A i \in Job : i # j => /\ pc'[i] = pc[i] /\ todo'[i] = todo[i]
                                    /\ i \in attempted' <=> i \in attempted
<1> USE DEF storeVars, jobVars, exportVars, ledgerVars, TypeOK
<1> DEFINE Others == \A i \in Job : i # j => /\ pc'[i] = pc[i] /\ todo'[i] = todo[i]
                                             /\ i \in attempted' <=> i \in attempted
<1>1. CASE Start(j) \/ Fetch(j) \/ Finish(j) \/ StartExport(j)
  BY <1>1 DEF Start, Fetch, Finish, StartExport
<1>2. ASSUME EndExport(j) PROVE Others
  <2>1. CASE Exit(j)
    BY <2>1 DEF Exit
  <2>2. CASE UNCHANGED <<jobVars, attempted>>
    BY <2>2
  <2> QED BY <1>2, <2>1, <2>2 DEF EndExport
<1>3. CASE Push(j) \/ ExportFails(j)
  BY <1>2, <1>3 DEF Push, ExportFails
<1>4. CASE Crash(j)
  BY <1>4 DEF Crash, Exit
<1>5. CASE StartWithoutStore(j) \/ FetchIncomplete(j) \/ Terminate(j)
  BY <1>5 DEF StartWithoutStore, FetchIncomplete, Terminate
<1>6. ASSUME NEW f \in Finding, Record(j, f) \/ RecordReplyLost(j, f) \/ RecordFails(j, f)
      PROVE  age' = age /\ Others
  BY <1>6 DEF Record, RecordReplyLost, RecordFails
<1>7. ASSUME NEW s \in Scope, ReadHist(j, s) PROVE age' = age /\ Others
  BY <1>7 DEF ReadHist
<1> QED BY <1>1, <1>3, <1>4, <1>5, <1>6, <1>7 DEF Run, Fails

(* A run that fetches now sees every finding that is not counted. *)
LEMMA StillInSight ==
  ASSUME Recurring, TypeOK, Late, NEW j \in Job, NEW f \in Covers[j],
         credited[f] = 0, age[f] >= 0
  PROVE  f \in Visible(j)
<1>1. f \in Finding /\ win[j] \in Windows
  BY RemediationAssumption DEF TypeOK
<1>2. win[j] \in Nat /\ MaxFaults + Runs <= win[j]
  BY <1>1, WindowType DEF Recurring
<1>3. age[f] <= faults + Behind(j, f) /\ faults \in Nat /\ faults <= MaxFaults /\ MaxFaults \in Nat
  BY RemediationAssumption DEF TypeOK, Late
<1>4. Behind(j, f) \in Nat /\ Behind(j, f) <= Runs /\ Runs \in Nat
  BY BehindType DEF Runs
<1>5. age[f] \in Int
  BY <1>1 DEF TypeOK
<1> QED BY <1>2, <1>3, <1>4, <1>5 DEF Visible

(* What a Job does without failing brings no finding further behind. *)
LEMMA RunBehind ==
  ASSUME Recurring, TypeOK, TypeOK', LateInv, NEW j \in Job, Run(j) \/ StartExport(j),
         NEW f \in Covers[j], credited'[f] = 0, credited[f] = 0, age[f] >= 0
  PROVE  faults' = faults /\ Behind(j, f) <= Behind(j, f)'
<1> USE DEF storeVars, jobVars, exportVars, ledgerVars
<1>0. /\ f \in Finding
      /\ pc \in [Job -> PC] /\ todo \in [Job -> SUBSET Finding]
      /\ Behind(j, f) \in Nat /\ Behind(j, f)' \in Nat
  BY BehindType, RemediationAssumption DEF TypeOK
<1>1. ASSUME Missed(j, f)' <=> Missed(j, f), j \in attempted' <=> j \in attempted
      PROVE  Behind(j, f) <= Behind(j, f)'
  BY <1>0, <1>1, SameBehind
<1>2. CASE Start(j)
  BY <1>0, <1>1, <1>2 DEF Start, Missed
<1>3. CASE Fetch(j)
  <2>1. f \in Visible(j)
    BY StillInSight DEF LateInv
  <2> QED BY <1>0, <1>1, <1>3, <2>1 DEF Fetch, Missed
<1>4. CASE Finish(j)
  BY <1>0, <1>1, <1>4 DEF Finish, Missed
<1>5. CASE Push(j)
  <2>1. faults' = faults /\ EndExport(j)
    BY <1>5 DEF Push
  <2>2. CASE UNCHANGED <<pc, todo, attempted>>
    BY <1>1, <2>1, <2>2 DEF Missed
  <2>3. CASE /\ pc[j] = "flush" /\ todo[j] = {}
             /\ pc' = [pc EXCEPT ![j] = "off"] /\ todo' = [todo EXCEPT ![j] = {}]
             /\ attempted' = attempted \cup {j}
    <3>1. Missed(j, f) /\ ~Missed(j, f)' /\ j \in attempted'
      BY <1>0, <2>3 DEF Missed
    <3> QED BY <2>1, <3>1 DEF Behind
  <2> QED BY <2>1, <2>2, <2>3, EndExportLocal DEF LateInv
<1>6. ASSUME NEW g \in Finding, Record(j, g) PROVE faults' = faults /\ Behind(j, f) <= Behind(j, f)'
  <2>1. /\ faults' = faults /\ attempted' = attempted /\ pc' = pc
        /\ todo' = [todo EXCEPT ![j] = @ \ {g}] /\ RecordScript(j, g)
    BY <1>6 DEF Record
  <2>2. g # f
    <3>1. credited'[g] > 0
      BY <2>1, RecordMarksCounted DEF LateInv, Recurring
    <3> QED BY <3>1
  <2> QED BY <1>0, <1>1, <2>1, <2>2 DEF Missed
<1>7. ASSUME NEW s \in Scope, ReadHist(j, s) PROVE faults' = faults /\ Behind(j, f) <= Behind(j, f)'
  BY <1>1, <1>7 DEF ReadHist, Missed
<1>8. CASE StartExport(j)
  BY <1>1, <1>8 DEF StartExport, Missed
<1> QED BY <1>2, <1>3, <1>4, <1>5, <1>6, <1>7, <1>8 DEF Run

(* A failure spoils the run it hits, and no other. *)
LEMMA FailsBehind ==
  ASSUME TypeOK, LateInv, NEW j \in Job, Fails(j), NEW f \in Covers[j]
  PROVE  faults' = faults + 1 /\ Behind(j, f) <= 1 + Behind(j, f)'
<1> USE DEF storeVars, jobVars, exportVars, ledgerVars
<1>0. /\ f \in Finding
      /\ pc \in [Job -> PC] /\ todo \in [Job -> SUBSET Finding]
      /\ Behind(j, f) \in Nat /\ Behind(j, f)' \in Nat
  BY BehindType, RemediationAssumption DEF TypeOK
<1>1. faults' = faults + 1
  BY DEF Fails, StartWithoutStore, FetchIncomplete, Terminate, Crash, ExportFails,
         RecordReplyLost, RecordFails, Fault
<1>2. (j \in attempted' <=> j \in attempted) \/ ~Missed(j, f)'
  <2>1. CASE StartWithoutStore(j)
    BY <1>0, <2>1 DEF StartWithoutStore, Missed
  <2>2. CASE Crash(j)
    BY <1>0, <2>2 DEF Crash, Exit, Missed
  <2>3. CASE ExportFails(j)
    <3>1. EndExport(j)
      BY <2>3 DEF ExportFails
    <3>2. pc'[j] = "off" \/ attempted' = attempted
      BY <1>0, <3>1, EndExportLocal DEF LateInv
    <3> QED BY <3>2 DEF Missed
  <2>4. CASE FetchIncomplete(j) \/ Terminate(j)
             \/ \E g \in Finding : RecordReplyLost(j, g) \/ RecordFails(j, g)
    BY <2>4 DEF FetchIncomplete, Terminate, RecordReplyLost, RecordFails
  <2> QED BY <2>1, <2>2, <2>3, <2>4 DEF Fails
<1>3. CASE MaxRun = 0
  BY <1>0, <1>1, <1>3 DEF Behind
<1>4. CASE MaxRun # 0
  BY <1>0, <1>1, <1>2, <1>4 DEF Behind
<1> QED BY <1>1, <1>3, <1>4

(* Before its last export a run has recorded all it can. *)
LEMMA NothingLeftStep ==
  ASSUME TypeOK, NothingLeft, [Next]_vars
  PROVE  NothingLeft'
<1> USE DEF storeVars, jobVars, exportVars, ledgerVars
<1>0. pc \in [Job -> PC] /\ todo \in [Job -> SUBSET Finding]
  BY DEF TypeOK
<1>1. ASSUME NEW j \in Job, Run(j) \/ StartExport(j) \/ Fails(j)
      PROVE  NothingLeft'
  <2>1. \A i \in Job : i # j => pc'[i] = pc[i] /\ todo'[i] = todo[i]
    BY <1>1, OneJobMoves
  <2>2. pc'[j] = "flush" => todo'[j] = {}
    <3>1. CASE Start(j) \/ Fetch(j) \/ StartWithoutStore(j) \/ FetchIncomplete(j) \/ Terminate(j)
               \/ StartExport(j)
      BY <1>0, <3>1 DEF Start, Fetch, StartWithoutStore, FetchIncomplete, Terminate, StartExport,
                        NothingLeft
    <3>2. CASE Finish(j)
      BY <3>2 DEF Finish
    <3>3. CASE Push(j) \/ ExportFails(j)
      BY <1>0, <3>3, EndExportLocal DEF Push, ExportFails, NothingLeft
    <3>4. CASE Crash(j)
      BY <1>0, <3>4 DEF Crash, Exit
    <3>5. CASE \/ \E f \in Finding : Record(j, f) \/ RecordReplyLost(j, f) \/ RecordFails(j, f)
               \/ \E s \in Scope : ReadHist(j, s)
      <4>1. pc' = pc /\ todo'[j] \subseteq todo[j]
        BY <1>0, <3>5 DEF Record, RecordReplyLost, RecordFails, ReadHist
      <4> QED BY <4>1 DEF NothingLeft
    <3> QED BY <1>1, <3>1, <3>2, <3>3, <3>4, <3>5 DEF Run, Fails
  <2> QED BY <2>1, <2>2 DEF NothingLeft
<1>2. CASE Environment \/ UNCHANGED vars
  BY <1>2 DEF Environment, Tick, EditWindow, LoseData, Resolve, vars, NothingLeft
<1> QED BY <1>1, <1>2 DEF Next

(* A tick comes after every Job has run in it. *)
LEMMA LateTick ==
  ASSUME Recurring, TypeOK, Late, Tick
  PROVE  Late'
<1> SUFFICES ASSUME NEW j \in Job, NEW f \in Covers[j], credited'[f] = 0, age'[f] >= 0
             PROVE  age'[f] <= faults' + Behind(j, f)'
  BY DEF Late
<1>1. /\ f \in Finding /\ age[f] \in Open .. MaxAge /\ MaxAge \in Nat
      /\ faults \in Nat /\ ticks[j] \in 0 .. MaxRun /\ MaxRun \in Nat
  BY RemediationAssumption DEF TypeOK
<1>2. /\ credited' = credited /\ faults' = faults /\ pc' = pc /\ todo' = todo
      /\ j \in attempted /\ attempted' = {}
      /\ age'[f] = IF age[f] \in 0 .. MaxAge - 1 THEN age[f] + 1 ELSE age[f]
  BY <1>1 DEF Tick, Recurring, ledgerVars
<1>3. age[f] \in Nat /\ age'[f] <= age[f] + 1 /\ age'[f] \in Nat
  BY <1>1, <1>2
<1>4. age[f] <= faults + Behind(j, f)
  BY <1>2, <1>3 DEF Late
<1>5. Behind(j, f)' = Behind(j, f) + 1
  <2>1. CASE MaxRun = 0
    <3>1. pc[j] = "off"
      BY <1>1, <2>1 DEF Tick
    <3>2. ~Missed(j, f)' /\ j \notin attempted'
      BY <1>2, <3>1 DEF Missed
    <3> QED BY <1>2, <2>1, <3>2 DEF Behind
  <2>2. CASE MaxRun # 0
    <3>1. (Missed(j, f)' <=> Missed(j, f)) /\ j \notin attempted'
      BY <1>2 DEF Missed
    <3> QED BY <1>2, <2>2, <3>1 DEF Behind
  <2> QED BY <2>1, <2>2
<1>6. Behind(j, f) \in Nat
  BY BehindType
<1> QED BY <1>1, <1>2, <1>3, <1>4, <1>5, <1>6

(* Only failures count as such. *)
LEMMA RunFaults ==
  ASSUME TypeOK, NEW j \in Job, Run(j) \/ StartExport(j) \/ Fails(j)
  PROVE  faults <= faults'
<1>1. faults \in Nat
  BY RemediationAssumption DEF TypeOK
<1> QED
  BY <1>1 DEF Run, Start, Fetch, Finish, Push, Record, ReadHist, StartExport, Fails, Fault,
          StartWithoutStore, FetchIncomplete, Terminate, Crash, ExportFails, RecordReplyLost,
          RecordFails

LEMMA LateStep ==
  ASSUME Recurring, TypeOK, TypeOK', LateInv, [Next]_vars
  PROVE  LateInv'
<1> USE DEF storeVars, jobVars, exportVars, ledgerVars
<1>1. MarkedCounted' /\ NothingDropped' /\ NothingLeft'
  BY DropStep, NothingLeftStep DEF LateInv, Recurring
<1>2. \A f \in Finding : credited[f] > 0 => credited'[f] > 0
  BY CreditStays DEF LateInv, Recurring
<1>3. faults \in Nat /\ faults' \in Nat /\ MaxFaults \in Nat
  BY RemediationAssumption DEF TypeOK
<1>4. \A f \in Finding : credited'[f] = 0 => credited[f] = 0
  <2>1. \A f \in Finding : credited[f] \in Nat
    BY DEF TypeOK
  <2> QED BY <1>2, <2>1
<1>5. Late'
  <2>1. ASSUME NEW i \in Job, Run(i) \/ StartExport(i) \/ Fails(i) PROVE Late'
    <3>1. /\ age' = age
          /\ \A j \in Job : j # i => /\ pc'[j] = pc[j] /\ todo'[j] = todo[j]
                                     /\ j \in attempted' <=> j \in attempted
      BY <2>1, OneJobMoves
    <3>2. faults <= faults'
      BY <1>3, <2>1, RunFaults
    <3>3. ASSUME NEW j \in Job, NEW f \in Covers[j], credited'[f] = 0, age[f] >= 0
          PROVE  faults + Behind(j, f) <= faults' + Behind(j, f)'
      <4>0. f \in Finding /\ Behind(j, f) \in Nat /\ Behind(j, f)' \in Nat
        BY BehindType, RemediationAssumption
      <4>1. CASE j # i
        <5>1. Behind(j, f)' = Behind(j, f)
          BY <3>1, <4>1, SameBehind DEF Missed
        <5> QED BY <1>3, <3>2, <4>0, <5>1
      <4>2. CASE j = i /\ (Run(i) \/ StartExport(i))
        <5>1. faults' = faults /\ Behind(j, f) <= Behind(j, f)'
          BY <1>4, <3>3, <4>0, <4>2, RunBehind
        <5> QED BY <1>3, <4>0, <5>1
      <4>3. CASE j = i /\ Fails(i)
        <5>1. faults' = faults + 1 /\ Behind(j, f) <= 1 + Behind(j, f)'
          BY <4>3, FailsBehind
        <5> QED BY <1>3, <4>0, <5>1
      <4> QED BY <2>1, <4>1, <4>2, <4>3
    <3> QED BY <1>2, <1>3, <3>1, <3>3, LateKept DEF LateInv
  <2>2. CASE Tick
    BY <2>2, LateTick DEF LateInv
  <2>3. CASE EditWindow \/ UNCHANGED vars
    <3>1. /\ age' = age /\ pc' = pc /\ todo' = todo /\ attempted' = attempted
          /\ faults <= faults'
      BY <1>3, <2>3 DEF EditWindow, Fault, vars
    <3>2. ASSUME NEW j \in Job, NEW f \in Covers[j]
          PROVE  faults + Behind(j, f) <= faults' + Behind(j, f)'
      <4>1. Behind(j, f)' = Behind(j, f) /\ Behind(j, f) \in Nat
        BY <3>1, SameBehind, BehindType DEF Missed
      <4> QED BY <1>3, <3>1, <4>1
    <3> QED BY <1>2, <1>3, <3>1, <3>2, LateKept DEF LateInv
  <2>4. ASSUME NEW g \in Finding, Resolve(g) PROVE Late'
    <3>1. /\ credited' = credited /\ pc' = pc /\ todo' = todo /\ attempted' = attempted
          /\ faults' = faults /\ age' = [age EXCEPT ![g] = 0]
      BY <2>4 DEF Resolve
    <3> SUFFICES ASSUME NEW j \in Job, NEW f \in Covers[j], credited'[f] = 0, age'[f] >= 0
                 PROVE  age'[f] <= faults' + Behind(j, f)'
      BY DEF Late
    <3>2. f \in Finding /\ age'[f] = IF f = g THEN 0 ELSE age[f]
      BY <3>1, RemediationAssumption DEF TypeOK
    <3>3. Behind(j, f)' = Behind(j, f) /\ Behind(j, f) \in Nat
      BY <3>1, SameBehind, BehindType DEF Missed
    <3>4. CASE f = g
      BY <1>3, <3>1, <3>2, <3>3, <3>4
    <3>5. CASE f # g
      BY <3>1, <3>2, <3>3, <3>5 DEF LateInv, Late
    <3> QED BY <3>4, <3>5
  <2>5. ~LoseData
    BY DEF LoseData, Recurring
  <2> QED BY <2>1, <2>2, <2>3, <2>4, <2>5 DEF Next, Environment
<1> QED BY <1>1, <1>5 DEF LateInv

(* The window is what lets a later run make up for a failed one             *)
(* (lifecycle.Record, resolutionWindow): no finding goes out of sight       *)
(* uncounted, whatever fails, as long as Jobs recur and every window        *)
(* exceeds the number of failures.                                         *)
THEOREM CountsInTime ==
  ASSUME Recurring
  PROVE  Spec => []CountedInTime
<1>1. Init => TypeOK /\ LateInv
  <2>1. ASSUME Init PROVE LateInv
    <3>1. MarkedCounted /\ NothingDropped
      BY <2>1, RemediationAssumption DEF Init, MarkedCounted, NothingDropped
    <3>2. NothingLeft
      BY <2>1 DEF Init, NothingLeft
    <3>3. \A f \in Finding : age[f] = Open
      BY <2>1 DEF Init
    <3>4. Late
      BY <3>3, RemediationAssumption DEF Late
    <3> QED BY <3>1, <3>2, <3>4 DEF LateInv
  <2> QED BY <2>1, TypeInit
<1>2. TypeOK /\ LateInv /\ [Next]_vars => TypeOK' /\ LateInv'
  BY TypeStep, LateStep
<1>3. TypeOK /\ LateInv => CountedInTime
  <2> SUFFICES ASSUME TypeOK, LateInv, NEW f \in Finding, age[f] = MaxAge PROVE credited[f] > 0
    BY DEF CountedInTime
  <2>1. PICK j \in Job : f \in Covers[j]
    BY DEF Recurring
  <2>2. PICK w \in Windows : w \in Nat /\ w < MaxAge /\ MaxFaults + Runs <= w
    BY WindowType, RemediationAssumption DEF Recurring
  <2>3. faults \in Nat /\ faults <= MaxFaults /\ MaxFaults \in Nat /\ MaxAge \in Nat
    BY RemediationAssumption DEF TypeOK
  <2>4. Behind(j, f) \in Nat /\ Behind(j, f) <= Runs /\ Runs \in Nat
    BY BehindType DEF Runs
  <2>5. ~(age[f] <= faults + Behind(j, f))
    BY <2>2, <2>3, <2>4
  <2>6. credited[f] # 0
    BY <2>1, <2>3, <2>5 DEF LateInv, Late
  <2> QED BY <2>6 DEF TypeOK
<1> QED BY <1>1, <1>2, <1>3, PTL DEF Spec

-------------------------------------------------------------------------------
(***************************************************************************)
(* No count is invented.                                                   *)
(*                                                                         *)
(* A histogram stands at the number of its findings that were credited,     *)
(* each of which was resolved.  What a Job has read of it, and what the     *)
(* backend was told, may be older than that, or of a database that is gone, *)
(* but was such a number once, and the resolved findings only get more.     *)
(***************************************************************************)
CreditedIn(s) == {f \in Finding : ScopeOf[f] = s /\ credited[f] > 0}

CountsExact == \A s \in Scope : hist[s] = Cardinality(CreditedIn(s))

ReadingsHonest ==
  \A s \in Scope : \A j \in Job : series[j][s] <= Cardinality(Resolved(s))

Honest == CountInv /\ CountsExact /\ ReadingsHonest /\ NothingInvented

(* Both sets of findings are finite. *)
LEMMA FindingSets ==
  ASSUME IsFiniteSet(Finding), NEW s
  PROVE  /\ IsFiniteSet(CreditedIn(s)) /\ Cardinality(CreditedIn(s)) \in Nat
         /\ IsFiniteSet(Resolved(s)) /\ Cardinality(Resolved(s)) \in Nat
<1>1. CreditedIn(s) \subseteq Finding /\ Resolved(s) \subseteq Finding
  BY DEF CreditedIn, Resolved
<1> QED BY <1>1, FS_Subset, FS_CardinalityType

(* No finding is credited that was not resolved. *)
LEMMA CreditedResolved ==
  ASSUME IsFiniteSet(Finding), TypeOK, CountInv, NEW s
  PROVE  Cardinality(CreditedIn(s)) <= Cardinality(Resolved(s))
<1>1. CreditedIn(s) \subseteq Resolved(s)
  BY DEF CreditedIn, Resolved, CountInv, Remembered, Open
<1> QED BY <1>1, FindingSets, FS_Subset

(* What is resolved stays resolved. *)
LEMMA ResolvedGrow ==
  ASSUME IsFiniteSet(Finding), TypeOK, [Next]_vars, NEW s
  PROVE  /\ Cardinality(Resolved(s)) <= Cardinality(Resolved(s)')
         /\ Cardinality(Resolved(s)') \in Nat
<1>1. ASSUME NEW f \in Finding, age[f] # Open PROVE age'[f] # Open
  <2>1. age[f] \in Nat /\ age \in [Finding -> Open .. MaxAge]
    BY <1>1, RemediationAssumption DEF TypeOK, Open
  <2>2. CASE Tick
    BY <2>1, <2>2 DEF Tick, Open
  <2>3. ASSUME NEW g \in Finding, Resolve(g) PROVE age'[f] # Open
    BY <1>1, <2>1, <2>3 DEF Resolve, Open
  <2>4. CASE EditWindow \/ LoseData \/ UNCHANGED vars
    BY <1>1, <2>4 DEF EditWindow, LoseData, vars
  <2>5. ASSUME NEW j \in Job, Run(j) \/ StartExport(j) \/ Fails(j) PROVE age'[f] # Open
    BY <1>1, <2>5, OneJobMoves
  <2> QED BY <2>2, <2>3, <2>4, <2>5 DEF Next, Environment
<1>2. Resolved(s) \subseteq Resolved(s)' /\ Resolved(s)' \subseteq Finding
  BY <1>1 DEF Resolved
<1>3. IsFiniteSet(Resolved(s)')
  BY <1>2, FS_Subset
<1> QED BY <1>2, <1>3, FS_Subset, FS_CardinalityType

(* The ledger is exact: its steps add one finding and one to its count.     *)
LEMMA ExactStep ==
  ASSUME IsFiniteSet(Finding), TypeOK, CountsExact, LedgerStep
  PROVE  CountsExact'
<1>0. /\ hist \in [Scope -> Nat] /\ ScopeOf \in [Finding -> Scope]
      /\ \A s \in Scope : CreditedIn(s) = {f \in Done : ScopeOf[f] = s}
      /\ \A s \in Scope : CreditedIn(s)' = {f \in Done' : ScopeOf[f] = s}
  BY RemediationAssumption DEF TypeOK, CreditedIn, Done
<1>1. CASE UNCHANGED <<Done, hist>>
  BY <1>0, <1>1 DEF CountsExact
<1>2. CASE Done' = {} /\ hist' = NoCounts
  <2>1. \A s \in Scope : CreditedIn(s)' = {} /\ hist'[s] = 0
    BY <1>0, <1>2, NoCountsType
  <2> QED BY <2>1, FS_EmptySet DEF CountsExact
<1>3. ASSUME NEW f \in Finding, f \notin Done, Done' = Done \cup {f},
             hist' = [hist EXCEPT ![ScopeOf[f]] = @ + 1]
      PROVE  CountsExact'
  <2> SUFFICES ASSUME NEW s \in Scope PROVE hist'[s] = Cardinality(CreditedIn(s)')
    BY DEF CountsExact
  <2>1. hist[s] = Cardinality(CreditedIn(s)) /\ hist[s] \in Nat
    BY <1>0 DEF CountsExact
  <2>2. CASE ScopeOf[f] = s
    <3>1. CreditedIn(s)' = CreditedIn(s) \cup {f} /\ f \notin CreditedIn(s)
      BY <1>0, <1>3, <2>2
    <3>2. hist'[s] = hist[s] + 1
      BY <1>0, <1>3, <2>2
    <3> QED BY <2>1, <3>1, <3>2, FindingSets, FS_AddElement
  <2>3. CASE ScopeOf[f] # s
    <3>1. CreditedIn(s)' = CreditedIn(s) /\ hist'[s] = hist[s]
      BY <1>0, <1>3, <2>3
    <3> QED BY <2>1, <3>1
  <2> QED BY <2>2, <2>3
<1> QED BY <1>1, <1>2, <1>3 DEF LedgerStep

(* Whatever happens, a reading is an old one, nothing, or the count as it   *)
(* stands, and the backend has what it had or a reading.                    *)
LEMMA ReadingsMove ==
  ASSUME TypeOK, [Next]_vars, NEW s \in Scope
  PROVE  /\ \A i \in Job : series'[i][s] \in {series[i][s], 0, hist[s]}
         /\ backend'[s] = backend[s] \/ \E i \in Job : backend'[s] = series[i][s]
<1> USE DEF storeVars, jobVars, exportVars, ledgerVars
<1> DEFINE Moves == /\ \A i \in Job : series'[i][s] \in {series[i][s], 0, hist[s]}
                    /\ backend'[s] = backend[s] \/ \E i \in Job : backend'[s] = series[i][s]
<1>0. series \in [Job -> [Scope -> Nat]]
  BY DEF TypeOK
<1>1. CASE UNCHANGED <<series, backend>>
  BY <1>1
<1>2. ASSUME NEW j \in Job, NEW t \in Scope, ReadHist(j, t) PROVE Moves
  <2>1. UNCHANGED backend /\ series' = [series EXCEPT ![j][t] = hist[t]]
    BY <1>2 DEF ReadHist
  <2> QED BY <1>0, <2>1
<1>3. ASSUME NEW j \in Job, Push(j) \/ Crash(j) \/ ExportFails(j) PROVE Moves
  <2>1. series' = [series EXCEPT ![j] = NoCounts]
    BY <1>3, EndExportForgets DEF Push, Crash, ExportFails, Exit, Forget
  <2>2. \A i \in Job : series'[i][s] \in {series[i][s], 0}
    BY <1>0, <2>1, NoCountsType
  <2>3. backend'[s] = backend[s] \/ backend'[s] = series[j][s]
    BY <1>3 DEF Push, Crash, ExportFails
  <2> QED BY <2>2, <2>3
<1>4. ASSUME NEW j \in Job,
             \/ Start(j) \/ Fetch(j) \/ Finish(j) \/ StartExport(j)
             \/ StartWithoutStore(j) \/ FetchIncomplete(j) \/ Terminate(j)
             \/ \E f \in Finding : Record(j, f) \/ RecordReplyLost(j, f) \/ RecordFails(j, f)
      PROVE  UNCHANGED <<series, backend>>
  BY <1>4 DEF Start, Fetch, Finish, StartExport, StartWithoutStore, FetchIncomplete,
              Terminate, Record, RecordReplyLost, RecordFails
<1>5. Environment \/ UNCHANGED vars => UNCHANGED <<series, backend>>
  BY DEF Environment, Tick, EditWindow, LoseData, Resolve, vars
<1> QED BY <1>1, <1>2, <1>3, <1>4, <1>5 DEF Next, Run, Fails

LEMMA HonestStep ==
  ASSUME Steady, IsFiniteSet(Finding), TypeOK, TypeOK', Honest, [Next]_vars
  PROVE  Honest'
<1>1. CountInv' /\ CountsExact'
  BY CountStep, ExactStep DEF Honest
<1>2. ASSUME NEW s \in Scope
      PROVE  /\ backend'[s] <= Cardinality(Resolved(s)')
             /\ \A j \in Job : series'[j][s] <= Cardinality(Resolved(s)')
  <2> DEFINE most == Cardinality(Resolved(s))
             grown == Cardinality(Resolved(s)')
  <2>1. most \in Nat /\ grown \in Nat /\ most <= grown
    BY FindingSets, ResolvedGrow
  <2>2. hist[s] <= most
    BY CreditedResolved DEF Honest, CountsExact
  <2>3. backend[s] <= most /\ \A j \in Job : series[j][s] <= most
    BY DEF Honest, ReadingsHonest, NothingInvented
  <2>4. /\ hist[s] \in Nat /\ backend[s] \in Nat /\ backend'[s] \in Nat
        /\ \A j \in Job : series[j][s] \in Nat /\ series'[j][s] \in Nat
    BY DEF TypeOK
  <2> HIDE DEF most, grown
  <2>5. /\ \A i \in Job : series'[i][s] \in {series[i][s], 0, hist[s]}
        /\ backend'[s] = backend[s] \/ \E i \in Job : backend'[s] = series[i][s]
    BY ReadingsMove
  <2>6. backend'[s] <= grown
    BY <2>1, <2>3, <2>4, <2>5
  <2>7. ASSUME NEW j \in Job PROVE series'[j][s] <= grown
    BY <2>1, <2>2, <2>3, <2>4, <2>5
  <2> QED BY <2>6, <2>7 DEF grown
<1> QED BY <1>1, <1>2 DEF Honest, ReadingsHonest, NothingInvented

(* "so re-running collection Jobs never double-counts" as the backend sees   *)
(* it: with a window that stays the same and runs that are short against a  *)
(* tick, no histogram is ever reported above the number of findings that    *)
(* were resolved, however many Jobs push what they read and whenever, and   *)
(* also when the store loses its data and counts again.                    *)
THEOREM CountsAreReal ==
  ASSUME Steady, IsFiniteSet(Finding)
  PROVE  Spec => []NothingInvented
<1>1. ASSUME Init PROVE TypeOK /\ Honest
  <2>1. TypeOK /\ CountInv
    BY <1>1, TypeInit, CountInit
  <2>2. ASSUME NEW s \in Scope
        PROVE  /\ hist[s] = Cardinality(CreditedIn(s))
               /\ backend[s] <= Cardinality(Resolved(s))
               /\ \A j \in Job : series[j][s] <= Cardinality(Resolved(s))
    <3>1. hist[s] = 0 /\ backend[s] = 0 /\ \A j \in Job : series[j][s] = 0
      BY <1>1, NoCountsType DEF Init
    <3>2. CreditedIn(s) = {}
      BY <1>1 DEF Init, CreditedIn
    <3> QED BY <3>1, <3>2, FindingSets, FS_EmptySet
  <2> QED BY <2>1, <2>2 DEF Honest, CountsExact, ReadingsHonest, NothingInvented
<1>2. TypeOK /\ Honest /\ [Next]_vars => TypeOK' /\ Honest'
  BY TypeStep, HonestStep
<1>3. Honest => NothingInvented
  BY DEF Honest
<1> QED BY <1>1, <1>2, <1>3, PTL DEF Spec

-------------------------------------------------------------------------------
(***************************************************************************)
(* Recounts, whatever the windows.  A dedup set lives on for more than the  *)
(* shortest window after each of its findings was recorded, so a finding    *)
(* that has been counted n times is at least n - 1 such stretches old, and  *)
(* another one older before its id is forgotten again (SpacedOf); but what  *)
(* a Job records was in sight of the longest window when it was fetched     *)
(* (InReach).                                                              *)
(***************************************************************************)
InReach ==
  /\ \A j \in Job : pc[j] = "off" => todo[j] = {}
  /\ \A j \in Job : \A f \in todo[j] : 0 <= age[f] /\ age[f] <= win[j] + ticks[j]

(* The age below which a finding is not counted for the n-th and next time. *)
Due(n, short) == n * (short + 1)

SpacedOf(f, short, long) ==
  LET due == Due(credited[f], short)
      s == ScopeOf[f]
  IN  /\ 0 <= age[f] /\ due - (short + 1) <= age[f]
      /\ due - (short + 1) <= long + MaxRun
      /\ \/ age[f] = MaxAge
         \/ IdOf[f] \in counted[s] /\ due <= age[f] + ttl[s] + 1
         \/ IdOf[f] \notin counted[s] /\ due <= age[f]

Spaced(short, long) ==
  \A f \in Finding : credited[f] > 0 => SpacedOf(f, short, long)

(* The bounds of the windows, and time to record what was fetched. *)
Bounds(short, long) ==
  /\ short \in Nat /\ long \in Nat /\ Windows \subseteq short .. long
  /\ \A w \in Windows : w + MaxRun < MaxAge

LEMMA DueGrows ==
  ASSUME NEW n \in Nat, NEW short \in Nat
  PROVE  /\ Due(n, short) \in Nat
         /\ Due(0, short) = 0
         /\ Due(n + 1, short) = Due(n, short) + short + 1
BY DEF Due

(* The window and the clock of a Job. *)
LEMMA JobType ==
  ASSUME TypeOK, NEW j \in Job
  PROVE  /\ win[j] \in Windows /\ win[j] \in Nat
         /\ ticks[j] \in Nat /\ ticks[j] <= MaxRun /\ todo[j] \subseteq Finding
<1>1. win[j] \in Windows /\ ticks[j] \in 0 .. MaxRun /\ todo[j] \in SUBSET Finding
  BY DEF TypeOK
<1>2. win[j] \in Nat /\ MaxRun \in Nat
  BY <1>1, RemediationAssumption
<1>3. ticks[j] \in Nat /\ ticks[j] <= MaxRun
  BY <1>1, <1>2
<1> QED BY <1>1, <1>2, <1>3

(* A finding a Job holds is young enough for its window. *)
LEMMA HeldIsYoung ==
  ASSUME TypeOK, InReach, NEW short, NEW long, Bounds(short, long),
         NEW j \in Job, NEW f \in todo[j]
  PROVE  /\ f \in Finding /\ ScopeOf[f] \in Scope
         /\ age[f] \in Nat /\ age[f] <= long + MaxRun /\ age[f] < MaxAge
         /\ win[j] \in short .. long
<1>1. f \in Finding /\ ScopeOf[f] \in Scope /\ age[f] \in Int
  BY RemediationAssumption DEF TypeOK
<1>2. /\ win[j] \in Windows /\ win[j] \in Nat /\ win[j] \in short .. long
      /\ ticks[j] \in Nat /\ ticks[j] <= MaxRun /\ win[j] + MaxRun < MaxAge
  BY JobType DEF Bounds
<1>3. 0 <= age[f] /\ age[f] <= win[j] + ticks[j]
  BY DEF InReach
<1> QED BY <1>1, <1>2, <1>3, RemediationAssumption DEF Bounds

(* Recording a finding gives its set at least the shortest window again. *)
LEMMA SpacedRecord ==
  ASSUME TypeOK, InReach, NEW short, NEW long, Bounds(short, long),
         Spaced(short, long), NEW j \in Job, NEW f \in todo[j],
         RecordScript(j, f), UNCHANGED age
  PROVE  Spaced(short, long)'
<1> DEFINE s == ScopeOf[f]
<1>1. /\ f \in Finding /\ s \in Scope /\ age[f] \in Nat /\ age[f] <= long + MaxRun
      /\ age[f] < MaxAge /\ win[j] \in short .. long
  BY HeldIsYoung
<1>2. /\ counted' = [counted EXCEPT ![s] = @ \cup {IdOf[f]}]
      /\ ttl' = [ttl EXCEPT ![s] = win[j]]
  BY DEF RecordScript, Mark
<1>3. /\ counted'[s] = counted[s] \cup {IdOf[f]} /\ ttl'[s] = win[j]
      /\ \A t \in Scope \ {s} : counted'[t] = counted[t] /\ ttl'[t] = ttl[t]
  BY <1>1, <1>2 DEF TypeOK
<1>4. /\ \A g \in Finding \ {f} : credited'[g] = credited[g]
      /\ \/ credited'[f] = credited[f]
         \/ credited'[f] = credited[f] + 1 /\ IdOf[f] \notin counted[s]
      /\ \A g \in Finding : credited[g] \in Nat
  BY <1>1 DEF RecordScript, AddToHistogram, TypeOK
<1>5. short \in Nat /\ long \in Nat /\ MaxRun \in Nat /\ MaxAge \in Nat
  BY RemediationAssumption DEF Bounds
<1> HIDE DEF s
<1>6. ASSUME credited'[f] > 0 PROVE SpacedOf(f, short, long)'
  <2>1. IdOf[f] \in counted'[s] /\ ttl'[s] \in Nat /\ short <= ttl'[s] /\ age'[f] = age[f]
    BY <1>1, <1>3, <1>5
  <2>2. CASE credited'[f] = credited[f]
    <3>1. /\ Due(credited[f], short) \in Nat
          /\ Due(credited[f], short) - (short + 1) <= age[f]
          /\ Due(credited[f], short) - (short + 1) <= long + MaxRun
      BY <1>1, <1>4, <1>5, <1>6, <2>2, DueGrows DEF Spaced, SpacedOf
    <3>2. Due(credited'[f], short) <= age'[f] + ttl'[s] + 1
      BY <1>1, <1>5, <2>1, <2>2, <3>1
    <3> QED BY <1>1, <2>1, <2>2, <3>1, <3>2 DEF SpacedOf, s
  <2>3. CASE credited'[f] = credited[f] + 1 /\ IdOf[f] \notin counted[s]
    <3>1. /\ Due(credited[f], short) \in Nat
          /\ Due(credited'[f], short) = Due(credited[f], short) + short + 1
      BY <1>1, <1>4, <1>5, <2>3, DueGrows
    <3>2. Due(credited[f], short) <= age[f]
      <4>1. CASE credited[f] = 0
        BY <1>1, <1>5, <4>1, DueGrows
      <4>2. CASE credited[f] > 0
        BY <1>1, <1>5, <2>3, <4>2 DEF Spaced, SpacedOf, s
      <4> QED BY <1>1, <1>4, <4>1, <4>2
    <3>3. /\ Due(credited'[f], short) - (short + 1) <= age'[f]
          /\ Due(credited'[f], short) - (short + 1) <= long + MaxRun
          /\ Due(credited'[f], short) <= age'[f] + ttl'[s] + 1
      BY <1>1, <1>5, <2>1, <3>1, <3>2
    <3> QED BY <1>1, <2>1, <3>3 DEF SpacedOf, s
  <2> QED BY <1>4, <2>2, <2>3
<1>7. ASSUME NEW g \in Finding \ {f}, credited'[g] > 0 PROVE SpacedOf(g, short, long)'
  <2>1. /\ SpacedOf(g, short, long) /\ credited'[g] = credited[g] /\ age'[g] = age[g]
        /\ ScopeOf[g] \in Scope /\ age[g] \in Int /\ Due(credited[g], short) \in Nat
    <3>1. credited'[g] = credited[g] /\ credited[g] \in Nat
      BY <1>4, <1>7
    <3>2. ScopeOf[g] \in Scope /\ age[g] \in Int
      BY <1>7, RemediationAssumption DEF TypeOK
    <3> QED BY <1>5, <1>7, <3>1, <3>2, DueGrows DEF Spaced
  <2>2. CASE ScopeOf[g] # s
    <3>1. counted'[ScopeOf[g]] = counted[ScopeOf[g]] /\ ttl'[ScopeOf[g]] = ttl[ScopeOf[g]]
      BY <1>3, <2>1, <2>2
    <3> QED BY <2>1, <3>1 DEF SpacedOf
  <2>3. CASE ScopeOf[g] = s
    <3>1. ttl'[s] \in Nat /\ short <= ttl'[s]
      BY <1>1, <1>3, <1>5
    <3>2. Due(credited[g], short) <= age[g] + ttl'[s] + 1
      BY <1>5, <2>1, <3>1 DEF SpacedOf
    <3>3. IdOf[g] \notin counted'[s] => IdOf[g] \notin counted[s]
      BY <1>3
    <3>4. IdOf[g] \notin counted'[s] => age[g] = MaxAge \/ Due(credited[g], short) <= age[g]
      BY <2>1, <2>3, <3>3 DEF SpacedOf
    <3> QED BY <2>1, <2>3, <3>2, <3>4 DEF SpacedOf
  <2> QED BY <2>2, <2>3
<1> QED BY <1>6, <1>7 DEF Spaced

(* A tick makes a finding older by what it takes from its set. *)
LEMMA SpacedTick ==
  ASSUME TypeOK, InReach, NEW short, NEW long, Bounds(short, long),
         Spaced(short, long), Tick
  PROVE  InReach' /\ Spaced(short, long)'
<1>0. /\ short \in Nat /\ long \in Nat /\ MaxRun \in Nat /\ MaxAge \in Nat
      /\ \A f \in Finding : age[f] \in Open .. MaxAge /\ credited[f] \in Nat
      /\ UNCHANGED <<pc, win, todo, credited>>
  BY RemediationAssumption DEF Bounds, TypeOK, Tick, ledgerVars
<1>1. \A f \in Finding :
        age'[f] = IF age[f] \in 0 .. MaxAge - 1 THEN age[f] + 1 ELSE age[f]
  BY DEF Tick
<1>2. InReach'
  <2> SUFFICES ASSUME NEW j \in Job, NEW f \in todo[j], pc[j] # "off"
               PROVE  0 <= age'[f] /\ age'[f] <= win[j] + ticks'[j]
    BY <1>0 DEF InReach
  <2>1. ticks'[j] = ticks[j] + 1 /\ ticks[j] \in Nat /\ win[j] \in Nat /\ f \in Finding
    BY JobType DEF Tick
  <2>2. 0 <= age[f] /\ age[f] <= win[j] + ticks[j]
    BY DEF InReach
  <2> QED BY <1>0, <1>1, <2>1, <2>2
<1>3. ASSUME NEW f \in Finding, credited'[f] > 0 PROVE SpacedOf(f, short, long)'
  <2> DEFINE s == ScopeOf[f]
             due == Due(credited[f], short)
  <2>1. /\ due \in Nat /\ credited'[f] = credited[f] /\ credited[f] > 0
        /\ age[f] \in 0 .. MaxAge /\ s \in Scope /\ ttl[s] \in Nat
    BY <1>0, <1>3, DueGrows, RemediationAssumption DEF Spaced, SpacedOf, TypeOK
  <2>2. /\ due - (short + 1) <= age[f] /\ due - (short + 1) <= long + MaxRun
        /\ \/ age[f] = MaxAge
           \/ IdOf[f] \in counted[s] /\ due <= age[f] + ttl[s] + 1
           \/ IdOf[f] \notin counted[s] /\ due <= age[f]
    BY <2>1 DEF Spaced, SpacedOf
  <2>3. /\ counted'[s] = IF ttl[s] = 0 THEN {} ELSE counted[s]
        /\ ttl'[s] = IF ttl[s] = 0 THEN 0 ELSE ttl[s] - 1
    BY <2>1 DEF Tick
  <2> HIDE DEF s, due
  <2>4. CASE age[f] = MaxAge
    <3>1. age'[f] = age[f]
      BY <1>0, <1>1, <2>4
    <3> QED BY <2>1, <2>2, <2>4, <3>1 DEF SpacedOf, s, due
  <2>5. CASE age[f] # MaxAge
    <3>1. age'[f] = age[f] + 1 /\ age[f] \in Nat
      BY <1>0, <1>1, <2>1, <2>5
    <3>2. /\ 0 <= age'[f] /\ due - (short + 1) <= age'[f]
          /\ \/ IdOf[f] \in counted'[s] /\ due <= age'[f] + ttl'[s] + 1
             \/ IdOf[f] \notin counted'[s] /\ due <= age'[f]
      BY <1>0, <2>1, <2>2, <2>3, <2>5, <3>1
    <3> QED BY <2>1, <2>2, <3>2 DEF SpacedOf, s, due
  <2> QED BY <2>4, <2>5
<1> QED BY <1>2, <1>3 DEF Spaced

(* Whatever else a Job does, it holds what is in sight of its window. *)
LEMMA ReachKept ==
  ASSUME TypeOK, InReach, NEW j \in Job,
         \/ Start(j) \/ Fetch(j) \/ Finish(j) \/ Push(j) \/ StartExport(j)
         \/ \E s \in Scope : ReadHist(j, s)
         \/ StartWithoutStore(j) \/ FetchIncomplete(j) \/ Terminate(j)
         \/ Crash(j) \/ ExportFails(j)
         \/ \E f \in Finding : Record(j, f) \/ RecordReplyLost(j, f) \/ RecordFails(j, f)
  PROVE  InReach' /\ UNCHANGED age
<1> USE DEF storeVars, jobVars, exportVars, ledgerVars
<1> DEFINE Same(i) == /\ pc'[i] = pc[i] /\ todo'[i] = todo[i]
                      /\ win'[i] = win[i] /\ ticks'[i] = ticks[i]
           Grown == /\ pc'[j] # "off" /\ todo'[j] \subseteq todo[j] \cup Visible(j)
                    /\ win'[j] = win[j] /\ ticks'[j] = ticks[j]
<1>0. UNCHANGED age
  BY DEF Start, Fetch, Finish, Push, StartExport, ReadHist, StartWithoutStore,
         FetchIncomplete, Terminate, Crash, ExportFails, Record, RecordReplyLost,
         RecordFails
<1>1. /\ pc \in [Job -> PC] /\ todo \in [Job -> SUBSET Finding]
      /\ win \in [Job -> Windows] /\ ticks \in [Job -> 0 .. MaxRun]
      /\ win[j] \in Nat /\ ticks[j] \in Nat
  BY JobType DEF TypeOK
<1>2. \A f \in Visible(j) : 0 <= age[f] /\ age[f] <= win[j] + ticks[j]
  <2>1. \A f \in Visible(j) : age[f] \in 0 .. win[j]
    BY DEF Visible
  <2> QED BY <1>1, <2>1
<1>3. ASSUME \A i \in Job : i # j => Same(i), todo'[j] = {} \/ Grown PROVE InReach'
  <2>1. \A i \in Job : pc'[i] = "off" => todo'[i] = {}
    BY <1>3 DEF InReach
  <2>2. \A i \in Job : \A f \in todo'[i] : 0 <= age[f] /\ age[f] <= win'[i] + ticks'[i]
    BY <1>2, <1>3 DEF InReach
  <2> QED BY <1>0, <2>1, <2>2 DEF InReach
<1> HIDE DEF Same, Grown
<1>4. CASE Start(j)
  <2>1. todo[j] = {} /\ todo' = todo /\ ticks' = ticks
    BY <1>4 DEF Start, InReach
  <2>2. /\ pc' = [pc EXCEPT ![j] = "poll"]
        /\ \E w \in {window, win[j]} : win' = [win EXCEPT ![j] = w]
    BY <1>4 DEF Start
  <2>3. \A i \in Job : i # j => Same(i)
    BY <1>1, <2>1, <2>2 DEF Same
  <2> QED BY <1>0, <1>3, <2>1, <2>3
<1>5. CASE \/ StartExport(j) \/ StartWithoutStore(j) \/ \E s \in Scope : ReadHist(j, s)
           \/ \E f \in Finding : RecordReplyLost(j, f)
  <2>1. UNCHANGED <<pc, todo, win, ticks>>
    BY <1>5 DEF StartExport, StartWithoutStore, ReadHist, RecordReplyLost
  <2> QED BY <1>0, <2>1 DEF InReach
<1>6. CASE Fetch(j) \/ FetchIncomplete(j) \/ Terminate(j)
  <2>1. PICK some \in SUBSET Visible(j) : /\ pc' = [pc EXCEPT ![j] = "record"]
                                         /\ UNCHANGED <<win, ticks>>
                                         /\ todo' = [todo EXCEPT ![j] = some]
    BY <1>6 DEF Fetch, FetchIncomplete, Terminate
  <2>2. Grown /\ \A i \in Job : i # j => Same(i)
    BY <1>1, <2>1 DEF Same, Grown
  <2> QED BY <1>0, <1>3, <2>2
<1>7. CASE \E f \in Finding : Record(j, f) \/ RecordFails(j, f)
  <2>1. PICK f \in Finding : /\ UNCHANGED <<pc, win, ticks>> /\ pc[j] = "record"
                             /\ todo' = [todo EXCEPT ![j] = @ \ {f}]
    BY <1>7 DEF Record, RecordFails
  <2>2. Grown /\ \A i \in Job : i # j => Same(i)
    BY <1>1, <2>1 DEF Same, Grown
  <2> QED BY <1>0, <1>3, <2>2
<1>8. CASE Finish(j)
  <2>1. /\ UNCHANGED <<todo, win, ticks>> /\ todo[j] = {}
        /\ pc' = [pc EXCEPT ![j] = "flush"]
    BY <1>8 DEF Finish
  <2>2. \A i \in Job : i # j => Same(i)
    BY <1>1, <2>1 DEF Same
  <2> QED BY <1>0, <1>3, <2>1, <2>2
<1>9. CASE Crash(j) \/ Push(j) \/ ExportFails(j)
  <2>1. CASE Exit(j) /\ UNCHANGED win
    <3>1. todo'[j] = {} /\ \A i \in Job : i # j => Same(i)
      BY <1>1, <2>1 DEF Exit, Same
    <3> QED BY <1>0, <1>3, <3>1
  <2>2. CASE UNCHANGED <<pc, todo, win, ticks>>
    BY <1>0, <2>2 DEF InReach
  <2> QED BY <1>9, <2>1, <2>2 DEF Crash, Push, ExportFails, EndExport
<1> QED BY <1>0, <1>4, <1>5, <1>6, <1>7, <1>8, <1>9

(* Every step keeps the counts of a finding apart. *)
LEMMA SpacedStep ==
  ASSUME TypeOK, InReach, NEW short, NEW long, Bounds(short, long),
         Spaced(short, long), [Next]_vars
  PROVE  InReach' /\ Spaced(short, long)'
<1> USE DEF storeVars, jobVars, exportVars, ledgerVars
<1>1. CASE Tick
  BY <1>1, SpacedTick
<1>2. CASE LoseData
  <2>1. InReach'
    BY <1>2 DEF LoseData, InReach
  <2>2. \A f \in Finding : credited'[f] = 0
    BY <1>2 DEF LoseData
  <2> QED BY <2>1, <2>2 DEF Spaced
<1>3. ASSUME NEW f \in Finding, Resolve(f) PROVE InReach' /\ Spaced(short, long)'
  <2>1. /\ ~ 0 <= age[f] /\ UNCHANGED <<counted, ttl, credited, pc, todo, win, ticks>>
        /\ \A g \in Finding \ {f} : age'[g] = age[g]
    BY <1>3 DEF Resolve, TypeOK, Open
  <2>2. credited[f] \in Nat /\ \A j \in Job : todo[j] \subseteq Finding
    BY DEF TypeOK
  <2>3. ~ credited[f] > 0 /\ \A j \in Job : f \notin todo[j]
    BY <2>1 DEF Spaced, SpacedOf, InReach
  <2>4. InReach'
    BY <2>1, <2>2, <2>3 DEF InReach
  <2>5. ASSUME NEW g \in Finding \ {f}, credited[g] > 0 PROVE SpacedOf(g, short, long)'
    BY <2>1, <2>5 DEF Spaced, SpacedOf
  <2> QED BY <2>1, <2>3, <2>4, <2>5 DEF Spaced
<1>4. CASE EditWindow \/ UNCHANGED vars
  <2>1. UNCHANGED <<age, counted, ttl, credited, pc, todo, win, ticks>>
    BY <1>4 DEF EditWindow, vars
  <2> QED BY <2>1 DEF InReach, Spaced, SpacedOf
<1>5. ASSUME NEW j \in Job,
             \/ Start(j) \/ Fetch(j) \/ Finish(j) \/ Push(j) \/ StartExport(j)
             \/ \E s \in Scope : ReadHist(j, s)
             \/ StartWithoutStore(j) \/ FetchIncomplete(j) \/ Terminate(j)
             \/ Crash(j) \/ ExportFails(j)
             \/ \E f \in Finding : RecordFails(j, f)
      PROVE  InReach' /\ Spaced(short, long)'
  <2>1. UNCHANGED <<age, counted, ttl, credited>>
    BY <1>5 DEF Start, Fetch, Finish, Push, StartExport, ReadHist, StartWithoutStore,
                FetchIncomplete, Terminate, Crash, ExportFails, RecordFails
  <2>2. Spaced(short, long)'
    BY <2>1 DEF Spaced, SpacedOf
  <2> QED BY <1>5, <2>2, ReachKept
<1>6. ASSUME NEW j \in Job, NEW f \in Finding, Record(j, f) \/ RecordReplyLost(j, f)
      PROVE  InReach' /\ Spaced(short, long)'
  <2>1. f \in todo[j] /\ RecordScript(j, f) /\ UNCHANGED age
    BY <1>6 DEF Record, RecordReplyLost
  <2> QED BY <1>6, <2>1, ReachKept, SpacedRecord
<1> QED BY <1>1, <1>2, <1>3, <1>4, <1>5, <1>6 DEF Next, Environment, Run, Fails

(* However the windows of the Jobs differ, a finding is counted again at    *)
(* most (long + MaxRun) \div (short + 1) times, between Jobs that run at    *)
(* once, fail, are retried with an old window, or lose a reply.  (A bound   *)
(* on ages that lets the slowest Job finish is all that is assumed.)        *)
THEOREM RecountsSpaced ==
  ASSUME \A w \in Windows : w + MaxRun < MaxAge
  PROVE  Spec => []RecountsAreSpaced
<1> DEFINE Reach == \A short, long \in 0 .. MaxAge : Bounds(short, long) => Spaced(short, long)
<1>1. Init => TypeOK /\ InReach /\ Reach
  <2>1. Init => InReach /\ \A f \in Finding : credited[f] = 0
    BY DEF Init, InReach
  <2> QED BY <2>1, TypeInit DEF Spaced
<1>2. TypeOK /\ InReach /\ Reach /\ [Next]_vars => TypeOK' /\ InReach' /\ Reach'
  <2> SUFFICES ASSUME TypeOK, InReach, Reach, [Next]_vars
               PROVE  InReach' /\ Reach'
    BY TypeStep
  <2>1. ASSUME NEW short \in 0 .. MaxAge, NEW long \in 0 .. MaxAge, Bounds(short, long)
        PROVE  InReach' /\ Spaced(short, long)'
    <3>1. Spaced(short, long)
      BY <2>1
    <3> QED BY <2>1, <3>1, SpacedStep
  <2>2. Bounds(0, MaxAge)
    BY RemediationAssumption DEF Bounds
  <2>3. 0 \in 0 .. MaxAge /\ MaxAge \in 0 .. MaxAge
    BY RemediationAssumption
  <2>4. InReach'
    BY <2>1, <2>2, <2>3
  <2>5. Reach'
    BY <2>1 DEF Bounds
  <2> QED BY <2>4, <2>5
<1>3. TypeOK /\ Reach => RecountsAreSpaced
  <2> SUFFICES ASSUME TypeOK, Reach, NEW short \in 0 .. MaxAge, NEW long \in 0 .. MaxAge,
                      Windows \subseteq short .. long, NEW f \in Finding
               PROVE  (credited[f] - 1) * (short + 1) <= long + MaxRun
    BY DEF RecountsAreSpaced
  <2>1. short \in Nat /\ long \in Nat /\ MaxRun \in Nat /\ credited[f] \in Nat
    BY RemediationAssumption DEF TypeOK
  <2>2. Spaced(short, long)
    BY <2>1 DEF Bounds
  <2>3. CASE credited[f] = 0
    BY <2>1, <2>3
  <2>4. CASE credited[f] > 0
    <3>1. Due(credited[f], short) - (short + 1) <= long + MaxRun
      BY <2>2, <2>4 DEF Spaced, SpacedOf
    <3>2. (credited[f] - 1) * (short + 1) = Due(credited[f], short) - (short + 1)
      BY <2>1 DEF Due
    <3> QED BY <3>1, <3>2
  <2> QED BY <2>1, <2>3, <2>4
<1> HIDE DEF Reach
<1> QED BY <1>1, <1>2, <1>3, PTL DEF Spec

===============================================================================
