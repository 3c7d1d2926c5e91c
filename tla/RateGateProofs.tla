---------------------------- MODULE RateGateProofs ----------------------------
(***************************************************************************)
(* Proofs about RateGate: the type of its variables, and what the gate is    *)
(* worth for every threshold, cap and cost, when the probe is free.         *)
(*                                                                         *)
(* The argument: a probe that suffices leaves at most one generation of      *)
(* Jobs to spend below the threshold, the pass that follows adds one         *)
(* discovery and one more generation, and no other pass spends anything.    *)
(* That a pause is quiet and has an end follows from what a pass that has   *)
(* been woken by a status write can still find to be different (Quiet), and *)
(* from the reset that its requeue is counted from (Due).                  *)
(***************************************************************************)
EXTENDS RateGate, TLAPS

LEMMA Numbers ==
  /\ Threshold \in Nat /\ Limit \in Nat /\ Window \in Nat \ {0}
  /\ Parallelism \in Nat \ {0} /\ Interval \in Nat \ {0}
  /\ JobCost \in Nat /\ DiscoveryCost \in Nat /\ ProbeCost \in Nat /\ MaxFaults \in Nat
  /\ Sizes \subseteq Nat /\ Stales \subseteq BOOLEAN
  /\ Bucket \in {{1}, {1, 2}}
  BY GateAssumption

LEMMA LastingType ==
  /\ Lasting \in Nat /\ Window + 1 <= Lasting /\ Interval <= Lasting
  /\ Delays = 0 .. Lasting + 4
  BY Numbers DEF Lasting, rateLimitBuffer, credentialRequeue, Delays

(* The tighter bucket is one, none has less, and of equals it is the first.  *)
LEMMA TightestIsLeast ==
  ASSUME NEW left \in [Bucket -> Nat]
  PROVE  /\ Tightest(left) \in Bucket
         /\ \A c \in Bucket : left[Tightest(left)] <= left[c]
         /\ \A c \in Bucket : left[c] = left[Tightest(left)] => Tightest(left) <= c
<1> DEFINE Least(b) == \A c \in Bucket : left[b] < left[c] \/ (left[b] = left[c] /\ b <= c)
<1>1. \E b \in Bucket : Least(b)
  <2>1. CASE Bucket = {1}
    BY <2>1
  <2>2. CASE Bucket = {1, 2}
    <3>1. left[1] \in Nat /\ left[2] \in Nat
      BY <2>2
    <3>2. CASE left[1] <= left[2]
      <4>1. Least(1)
        BY <2>2, <3>1, <3>2
      <4> QED  BY <2>2, <4>1
    <3>3. CASE left[2] < left[1]
      <4>1. Least(2)
        BY <2>2, <3>1, <3>3
      <4> QED  BY <2>2, <4>1
    <3> QED  BY <3>1, <3>2, <3>3
  <2> QED  BY <2>1, <2>2, Numbers
<1>2. Tightest(left) \in Bucket /\ Least(Tightest(left))
  BY <1>1 DEF Tightest
<1>3. \A c \in Bucket : left[c] \in Nat
  OBVIOUS
<1>4. ASSUME NEW c \in Bucket
      PROVE  /\ left[Tightest(left)] <= left[c]
             /\ left[c] = left[Tightest(left)] => Tightest(left) <= c
  <2>1. left[c] \in Nat /\ left[Tightest(left)] \in Nat
    BY <1>2, <1>3
  <2>2. \/ left[Tightest(left)] < left[c]
        \/ left[Tightest(left)] = left[c] /\ Tightest(left) <= c
    BY <1>2
  <2> QED  BY <2>1, <2>2
<1> QED  BY <1>2, <1>4

LEMMA SpendType ==
  ASSUME remaining \in [Bucket -> 0 .. Limit], NEW b \in Bucket, NEW n \in Nat
  PROVE  /\ Spend(b, n) \in [Bucket -> 0 .. Limit]
         /\ \A c \in Bucket : /\ Spend(b, n)[c] \in Nat /\ remaining[c] \in Nat
                              /\ Spend(b, n)[c] <= remaining[c]
                              /\ Spend(b, n)[c] >= remaining[c] - n
                              /\ c # b => Spend(b, n)[c] = remaining[c]
<1>1. \A m \in 0 .. Limit : Less(m, n) \in 0 .. Limit /\ Less(m, n) <= m /\ Less(m, n) >= m - n
  BY Numbers DEF Less
<1>2. ASSUME NEW c \in Bucket
      PROVE  /\ remaining[c] \in 0 .. Limit
             /\ Spend(b, n)[c] = IF c = b THEN Less(remaining[c], n) ELSE remaining[c]
  BY DEF Spend
<1>3. Spend(b, n) = [c \in Bucket |-> IF c = b THEN Less(remaining[c], n) ELSE remaining[c]]
  BY DEF Spend
<1>4. \A c \in Bucket : Spend(b, n)[c] \in 0 .. Limit
  BY <1>1, <1>2
<1>5. Spend(b, n) \in [Bucket -> 0 .. Limit]
  BY <1>1, <1>2, <1>3
<1>6. ASSUME NEW c \in Bucket
      PROVE  /\ Spend(b, n)[c] \in Nat /\ remaining[c] \in Nat
             /\ Spend(b, n)[c] <= remaining[c]
             /\ Spend(b, n)[c] >= remaining[c] - n
             /\ c # b => Spend(b, n)[c] = remaining[c]
  <2>1. remaining[c] \in Nat /\ remaining[c] \in 0 .. Limit
    BY <1>2, Numbers
  <2>2. CASE c = b
    BY <1>1, <1>2, <2>1, <2>2, Numbers
  <2>3. CASE c # b
    BY <1>2, <2>1, <2>3
  <2> QED  BY <2>2, <2>3
<1> QED  BY <1>5, <1>6

(* What a pass writes into the status it will end with. *)
LEMMA StatusType ==
  ASSUME NEW s \in Status, NEW r \in Reason, NEW n \in Nat
  PROVE  /\ [s EXCEPT !.reason = r] \in Status
         /\ [s EXCEPT !.found = n, !.age = 0] \in Status
<1>1. 0 \in 0 .. Interval
  BY Numbers
<1> QED  BY <1>1 DEF Status

LEMMA OneIsABucket == 1 \in Bucket
  BY Numbers

-------------------------------------------------------------------------------
LEMMA TypeInit == ASSUME Init PROVE TypeOK
<1>1. EmptyStatus \in Status
  BY Numbers DEF EmptyStatus, Status, Reason
<1>2. 0 \in Delays /\ 0 \in 0 .. Parallelism /\ 0 \in 0 .. MaxFaults
  BY Numbers, LastingType
<1>3. owed \in [Bucket -> Nat] /\ stale \in BOOLEAN
  BY Numbers DEF Init
<1>4. active = 0 /\ retrying = 0 /\ wait = 0 /\ faults = 0 /\ echoes = 0
  BY DEF Init
<1>5. active \in 0 .. Parallelism /\ retrying \in Nat /\ wait \in Delays /\ faults \in 0 .. MaxFaults
      /\ echoes \in 0 .. 4
  BY <1>2, <1>4
<1> QED
  BY <1>1, <1>3, <1>5 DEF Init, TypeOK

(* What a pass that is woken does to the queue. *)
LEMMA WokenType ==
  ASSUME TypeOK, Woken PROVE queued' \subseteq {"self", "other"} /\ timer' \in Delays \cup {NoTimer}
  BY DEF Woken, TypeOK

LEMMA EchoedType == ASSUME TypeOK, Echoed PROVE echoes' \in 0 .. 4
  BY DEF Echoed, TypeOK

LEMMA FaultType == ASSUME TypeOK, Fault PROVE faults' \in 0 .. MaxFaults
  BY Numbers DEF Fault, TypeOK

LEMMA RequeueType ==
  ASSUME NEW r \in 0 .. Window PROVE RateLimitRequeue(r) \in Delays
  BY Numbers, LastingType DEF RateLimitRequeue, rateLimitBuffer, pendingRequeue

LEMMA TypeBudgetLow == ASSUME TypeOK, BudgetLow PROVE TypeOK'
<1>1. remaining' \in [Bucket -> 0 .. Limit]
  BY SpendType, OneIsABucket, Numbers DEF BudgetLow, TypeOK
<1>2. remaining' \in [Bucket -> Nat]
  BY <1>1, Numbers
<1>3. Tightest(remaining') \in Bucket
  BY <1>2, TightestIsLeast
<1>4. ReportedReset(Tightest(remaining')) \in 0 .. Window
  BY <1>3, Numbers DEF ReportedReset, TypeOK
<1>5. next' \in Status /\ wait' \in Delays
  <2>1. PICK b \in Bucket :
          /\ b = Tightest(remaining') /\ remaining'[b] \in 0 .. Limit
          /\ next' = [status EXCEPT !.reason = "RateLimited", !.left = remaining'[b],
                                    !.until = ReportedReset(b)]
          /\ wait' = RateLimitRequeue(ReportedReset(b))
    BY <1>1, <1>3 DEF BudgetLow
  <2> QED
    BY <1>4, <2>1, RequeueType DEF TypeOK, Status, Reason
<1> QED
  BY <1>1, <1>5, WokenType, EchoedType DEF BudgetLow, TypeOK, jobs

LEMMA TypeBudgetSuffices == ASSUME TypeOK, BudgetSuffices PROVE TypeOK'
<1>1. remaining' \in [Bucket -> 0 .. Limit]
  BY SpendType, OneIsABucket, Numbers DEF BudgetSuffices, TypeOK
<1> QED
  BY <1>1, WokenType, EchoedType DEF BudgetSuffices, TypeOK, jobs, pass

LEMMA TypeUngated == ASSUME TypeOK, Ungated PROVE TypeOK'
<1>1. faults' \in 0 .. MaxFaults /\ echoes' \in 0 .. 4
  BY FaultType, EchoedType DEF Ungated, TypeOK
<1> QED
  BY <1>1, WokenType DEF Ungated, TypeOK, provider, jobs, pass

LEMMA TypeDiscover ==
  ASSUME TypeOK, NEW n \in Sizes, DiscoverRepos(n) PROVE TypeOK'
<1>1. remaining' \in [Bucket -> 0 .. Limit]
  BY SpendType, OneIsABucket, Numbers DEF DiscoverRepos, TypeOK
<1>2. next' \in Status
  <2>1. n \in Nat
    BY Numbers
  <2>2. status \in Status
    BY DEF TypeOK
  <2>3. [status EXCEPT !.found = n, !.age = 0] \in Status
    BY <2>1, <2>2, StatusType DEF Reason
  <2> QED  BY <2>3 DEF DiscoverRepos
<1> QED
  BY <1>1, <1>2 DEF DiscoverRepos, TypeOK, jobs, queue

LEMMA TypeDiscoveryFails == ASSUME TypeOK, DiscoveryFails PROVE TypeOK'
<1>1. /\ remaining' \in [Bucket -> 0 .. Limit]
      /\ faults' \in 0 .. MaxFaults /\ echoes' \in 0 .. 4
  <2>1. CASE remaining' = Spend(1, DiscoveryCost) /\ UNCHANGED <<echoes, faults>>
    BY <2>1, SpendType, OneIsABucket, Numbers DEF TypeOK
  <2>2. CASE /\ Fault /\ echoes' = 0
             /\ \E cost \in 0 .. DiscoveryCost : remaining' = Spend(1, cost)
    BY <2>2, SpendType, OneIsABucket, FaultType, Numbers DEF TypeOK
  <2> QED  BY <2>1, <2>2 DEF DiscoveryFails
<1>2. next' \in Status /\ wait' \in Delays
  <2>1. status \in Status /\ "DiscoveryFailed" \in Reason /\ 0 \in Nat
    BY DEF TypeOK, Reason
  <2>2. [status EXCEPT !.reason = "DiscoveryFailed"] \in Status
    BY <2>1, StatusType
  <2>3. 4 \in Delays
    BY LastingType
  <2> QED  BY <2>2, <2>3 DEF DiscoveryFails, credentialRequeue
<1> QED
  BY <1>1, <1>2 DEF DiscoveryFails, TypeOK, jobs, queue

LEMMA TypeDispatch ==
  ASSUME TypeOK, NEW n \in 0 .. Parallelism,
         DispatchFails(n) \/ \E pending \in BOOLEAN : DispatchJobs(n, pending)
  PROVE  TypeOK'
<1>0. Created(n)
  BY DEF DispatchJobs, DispatchFails
<1>1. active' \in 0 .. Parallelism
  BY <1>0, Numbers DEF Created, TypeOK
<1>2. owed' \in [Bucket -> Nat]
  <2>1. n * JobCost \in Nat
    BY Numbers
  <2> QED  BY <1>0, <2>1 DEF Created, TypeOK
<1>3. next' \in Status /\ wait' \in Delays
  <2>1. next \in Status /\ {"Discovered", "DispatchFailed"} \subseteq Reason /\ 0 \in Nat
    BY DEF TypeOK, Reason
  <2>2. /\ [next EXCEPT !.reason = "Discovered"] \in Status
        /\ [next EXCEPT !.reason = "DispatchFailed"] \in Status
    BY <2>1, StatusType
  <2>3. 2 \in Delays /\ Interval \in Delays /\ 4 \in Delays
    BY Numbers, LastingType
  <2> QED  BY <2>2, <2>3 DEF DispatchJobs, DispatchFails, pendingRequeue, credentialRequeue
<1>4. queued' \subseteq {"self", "other"}
  BY <1>0 DEF Created, TypeOK
<1>5. echoes' \in 0 .. 4 /\ faults' \in 0 .. MaxFaults
  <2>1. CASE DispatchFails(n)
    <3>1. Fault /\ echoes' = 0
      BY <2>1 DEF DispatchFails
    <3> QED  BY <3>1, FaultType
  <2>2. CASE \E pending \in BOOLEAN : DispatchJobs(n, pending)
    BY <2>2 DEF DispatchJobs, TypeOK
  <2> QED  BY <2>1, <2>2
<1> QED
  BY <1>0, <1>1, <1>2, <1>3, <1>4, <1>5 DEF Created, TypeOK, provider

LEMMA TypeAuthFails == ASSUME TypeOK, AuthFails PROVE TypeOK'
<1>1. next' \in Status /\ wait' \in Delays
  <2>1. status \in Status /\ "CredentialsInvalid" \in Reason /\ 0 \in Nat
    BY DEF TypeOK, Reason
  <2>2. [status EXCEPT !.reason = "CredentialsInvalid"] \in Status
    BY <2>1, StatusType
  <2>3. 4 \in Delays
    BY LastingType
  <2> QED  BY <2>2, <2>3 DEF AuthFails, credentialRequeue
<1>2. faults' \in 0 .. MaxFaults /\ echoes' = 0
  <2>1. Fault /\ echoes' = 0
    BY DEF AuthFails
  <2> QED  BY <2>1, FaultType
<1> QED
  BY <1>1, <1>2, WokenType DEF AuthFails, TypeOK, provider, jobs

LEMMA TypeUpdate == ASSUME TypeOK, UpdateStatus \/ UpdateFails PROVE TypeOK'
<1>1. EmptyStatus \in Status /\ 0 \in Delays
  BY Numbers, LastingType DEF EmptyStatus, Status, Reason
<1>2. CASE UpdateStatus
  <2>1. queued' \subseteq {"self", "other"} /\ timer' \in Delays \cup {NoTimer}
    BY <1>2 DEF UpdateStatus, Sooner, TypeOK
  <2> QED
    BY <1>1, <1>2, <2>1 DEF UpdateStatus, TypeOK, provider, jobs
<1>3. CASE UpdateFails
  BY <1>1, <1>3, FaultType DEF UpdateFails, TypeOK, provider, jobs
<1> QED  BY <1>2, <1>3

LEMMA TypeJobs ==
  ASSUME TypeOK,
         (\E b \in Bucket : JobSpends(b)) \/ JobEnds \/ RetryEnds \/ PodFails
  PROVE  TypeOK'
<1>1. ASSUME NEW b \in Bucket, JobSpends(b) PROVE TypeOK'
  <2>1. remaining' \in [Bucket -> 0 .. Limit]
    BY <1>1, SpendType DEF JobSpends, TypeOK
  <2>2. owed' \in [Bucket -> Nat]
    BY <1>1 DEF JobSpends, TypeOK
  <2> QED
    BY <1>1, <2>1, <2>2 DEF JobSpends, TypeOK, queue, pass
<1>2. ASSUME NEW n \in Nat, Rest(n) PROVE owed' \in [Bucket -> Nat]
  <2>1. n * JobCost \in Nat
    BY Numbers
  <2> QED  BY <1>2, <2>1 DEF Rest
<1>3. CASE JobEnds
  <2>1. active' \in 0 .. Parallelism /\ active' + retrying \in Nat
    BY <1>3, Numbers DEF JobEnds, TypeOK
  <2>2. queued' \subseteq {"self", "other"}
    BY <1>3 DEF JobEnds, TypeOK
  <2> QED
    BY <1>2, <1>3, <2>1, <2>2 DEF JobEnds, TypeOK, provider, pass
<1>4. CASE RetryEnds
  <2>1. retrying' \in Nat /\ active + retrying' \in Nat
    BY <1>4, Numbers DEF RetryEnds, TypeOK
  <2>2. queued' \subseteq {"self", "other"}
    BY <1>4 DEF RetryEnds, TypeOK
  <2> QED
    BY <1>2, <1>4, <2>1, <2>2 DEF RetryEnds, TypeOK, provider, pass
<1>5. CASE PodFails
  <2>1. active' \in 0 .. Parallelism /\ retrying' \in Nat
    BY <1>5, Numbers DEF PodFails, TypeOK
  <2>2. queued' \subseteq {"self", "other"}
    BY <1>5 DEF PodFails, TypeOK
  <2> QED
    BY <1>5, <2>1, <2>2, FaultType DEF PodFails, TypeOK, provider, pass
<1> QED  BY <1>1, <1>3, <1>4, <1>5

LEMMA TypeOutside ==
  ASSUME TypeOK, Event \/ \E b \in Bucket : OthersSpend(b) PROVE TypeOK'
<1>1. CASE Event
  <2>1. queued' \subseteq {"self", "other"}
    BY <1>1 DEF Event, TypeOK
  <2> QED
    BY <1>1, <2>1, FaultType DEF Event, TypeOK, provider, jobs, pass
<1>2. ASSUME NEW b \in Bucket, OthersSpend(b) PROVE TypeOK'
  <2>1. remaining' \in [Bucket -> 0 .. Limit]
    <3>1. PICK n \in 1 .. Limit : remaining' = Spend(b, n)
      BY <1>2 DEF OthersSpend
    <3>2. n \in Nat
      BY Numbers
    <3> QED  BY <3>1, <3>2, SpendType DEF TypeOK
  <2>2. faults' \in 0 .. MaxFaults /\ sure' \in BOOLEAN /\ echoes' \in 0 .. 4
    <3>1. Fault /\ sure' = FALSE /\ echoes' = 0
      BY <1>2 DEF OthersSpend
    <3>2. faults' \in 0 .. MaxFaults
      BY <3>1, FaultType
    <3>3. sure' \in BOOLEAN
      BY <3>1
    <3>4. echoes' \in 0 .. 4
      BY <3>1
    <3> QED  BY <3>2, <3>3, <3>4
  <2>3. UNCHANGED <<resets, stale, active, retrying, owed, status, queued, timer, pc, next, wait, listed>>
    BY <1>2 DEF OthersSpend, jobs, queue, pass
  <2> QED
    BY <1>2, <2>1, <2>2, <2>3 DEF TypeOK
<1> QED  BY <1>1, <1>2

LEMMA TypeTick == ASSUME TypeOK, Tick PROVE TypeOK'
<1>1. timer' \in Delays \cup {NoTimer}
  BY LastingType DEF Tick, TypeOK, NoTimer
<1>2. resets' \in [Bucket -> 1 .. Window] /\ remaining' \in [Bucket -> 0 .. Limit]
  BY Numbers DEF Tick, TypeOK
<1>3. status' \in Status
  <2>1. status.until \in 0 .. Window /\ status.age \in 0 .. Interval
    BY DEF TypeOK, Status
  <2>2. Less(status.until, 1) \in 0 .. Window
    BY <2>1, Numbers DEF Less
  <2>3. (IF status.age < Interval THEN status.age + 1 ELSE status.age) \in 0 .. Interval
    BY <2>1, Numbers
  <2> QED
    BY <2>2, <2>3 DEF Tick, Aged, TypeOK, Status
<1>4. echoes' \in 0 .. 4
  BY DEF Tick, TypeOK
<1> QED
  BY <1>1, <1>2, <1>3, <1>4 DEF Tick, TypeOK, jobs, pass

LEMMA TypeStep == ASSUME TypeOK, [Next]_vars PROVE TypeOK'
<1>1. CASE ReuseInventory
  BY <1>1 DEF ReuseInventory, TypeOK, provider, jobs, queue
<1>2. CASE UNCHANGED vars
  BY <1>2 DEF vars, TypeOK, provider, jobs, queue, pass
<1> QED
  BY <1>1, <1>2, TypeAuthFails, TypeBudgetLow, TypeBudgetSuffices, TypeUngated, TypeDiscover,
     TypeDiscoveryFails, TypeDispatch, TypeUpdate, TypeJobs, TypeOutside, TypeTick
  DEF Next, Operator, Jobs

(* Every variable of the gate, of the Jobs and of the workqueue keeps its   *)
(* type; in particular no budget is overdrawn, and no more Jobs than the    *)
(* cap are counted.                                                        *)
THEOREM TypeCorrect == Spec => []TypeOK
<1>1. Init => TypeOK
  BY TypeInit
<1>2. TypeOK /\ [Next]_vars => TypeOK'
  BY TypeStep
<1> QED  BY <1>1, <1>2, PTL DEF Spec

-------------------------------------------------------------------------------
(* What is left below the threshold, and what the Jobs may still spend of   *)
(* it, at each point of a pass.                                            *)
Generation == Parallelism * JobCost

Within(below) == \A b \in Bucket : remaining[b] + below >= Threshold + owed[b]

Load == \A b \in Bucket : owed[b] <= (active + retrying) * JobCost

Floor ==
  sure => /\ retrying = 0 /\ Threshold <= Limit
          /\ Within(2 * Generation + DiscoveryCost)
          /\ pc = "discover" => Within(Generation)
          /\ pc = "dispatch" => Within(Generation + DiscoveryCost)

Gate == TypeOK /\ Load /\ Floor

(* As many Jobs as the cap spend at most a generation. *)
LEMMA Products ==
  ASSUME NEW n \in Nat, NEW m \in Nat, n <= m
  PROVE  /\ n * JobCost \in Nat /\ m * JobCost \in Nat /\ n * JobCost <= m * JobCost
         /\ (n + 1) * JobCost = n * JobCost + JobCost
<1>1. JobCost \in Nat
  BY Numbers
<1>2. n * JobCost \in Nat /\ m * JobCost \in Nat
  BY <1>1
<1>3. n * JobCost <= m * JobCost
  <2>1. PICK k \in Nat : m = n + k
    BY Numbers
  <2>2. m * JobCost = n * JobCost + k * JobCost /\ k * JobCost \in Nat
    BY <1>1, <2>1
  <2> QED  BY <1>2, <2>2
<1>4. (n + 1) * JobCost = n * JobCost + JobCost
  BY <1>1
<1> QED  BY <1>2, <1>3, <1>4

LEMMA Added ==
  ASSUME NEW n \in Nat, NEW m \in Nat PROVE (n + m) * JobCost = n * JobCost + m * JobCost
  BY Numbers

LEMMA GenerationType == Generation \in Nat
  BY Numbers DEF Generation

LEMMA LoadWithinGeneration ==
  ASSUME TypeOK, Load, retrying = 0, NEW b \in Bucket
  PROVE  owed[b] <= Generation /\ owed[b] \in Nat
<1>1. active \in Nat /\ active <= Parallelism /\ Parallelism \in Nat /\ active + retrying = active
  BY Numbers DEF TypeOK
<1>2. active * JobCost <= Generation /\ active * JobCost \in Nat
  BY <1>1, Products DEF Generation
<1>3. owed[b] \in Nat /\ owed[b] <= active * JobCost
  BY <1>1 DEF Load, TypeOK
<1> QED  BY <1>2, <1>3, GenerationType

LEMMA GateInit == ASSUME Init PROVE Gate
<1>1. Load
  <2>1. (active + retrying) * JobCost = 0
    BY Numbers DEF Init
  <2>2. \A b \in Bucket : owed[b] = 0
    BY DEF Init
  <2> DEFINE most == (active + retrying) * JobCost
  <2>3. most = 0
    BY <2>1
  <2> HIDE DEF most
  <2>4. ASSUME NEW b \in Bucket PROVE owed[b] <= most
    <3>1. owed[b] = 0
      BY <2>2
    <3> QED  BY <2>3, <3>1
  <2> QED  BY <2>4 DEF Load, most
<1>2. Floor
  BY DEF Floor, Init
<1> QED  BY <1>1, <1>2, TypeInit DEF Gate

(* A step that leaves the Jobs alone, and takes no more from the budget than *)
(* the pass may.                                                           *)
LEMMA LoadStill == ASSUME Load, UNCHANGED jobs PROVE Load'
  BY DEF Load, jobs

(* A free probe leaves the budget as it is. *)
LEMMA FreeProbe ==
  ASSUME TypeOK, ProbeCost = 0 PROVE Spend(1, ProbeCost) = remaining
<1>1. remaining[1] \in Nat
  BY OneIsABucket, Numbers DEF TypeOK
<1>2. Less(remaining[1], 0) = remaining[1]
  BY <1>1 DEF Less
<1> QED  BY <1>2 DEF Spend, TypeOK

LEMMA GateProbe ==
  ASSUME Gate, ProbeCost = 0, BudgetLow \/ BudgetSuffices PROVE Gate'
<1>1. TypeOK /\ TypeOK' /\ Load' /\ UNCHANGED jobs
  BY TypeBudgetLow, TypeBudgetSuffices, LoadStill DEF Gate, BudgetLow, BudgetSuffices
<1>2. remaining' = remaining
  BY <1>1, FreeProbe DEF BudgetLow, BudgetSuffices
<1>3. CASE BudgetLow
  <2>1. sure' = sure /\ pc' = "update" /\ owed' = owed /\ retrying' = retrying
    BY <1>3 DEF BudgetLow, jobs
  <2> QED
    BY <1>1, <1>2, <2>1 DEF Gate, Floor, Within
<1>4. CASE BudgetSuffices
  <2>1. pc' = "discover" /\ owed' = owed /\ retrying' = retrying /\ sure' = (retrying = 0)
    BY <1>4 DEF BudgetSuffices, jobs
  <2>2. remaining \in [Bucket -> Nat]
    BY <1>1, Numbers DEF TypeOK
  <2>3. \A b \in Bucket : remaining[b] >= Threshold
    <3>1. Tightest(remaining) \in Bucket /\ remaining[Tightest(remaining)] >= Threshold
      BY <1>2, <1>4, <2>2, TightestIsLeast DEF BudgetSuffices
    <3>2. ASSUME NEW b \in Bucket PROVE remaining[b] >= Threshold
      <4>1. remaining[Tightest(remaining)] <= remaining[b]
        BY <2>2, TightestIsLeast
      <4>2. remaining[b] \in Nat /\ remaining[Tightest(remaining)] \in Nat
        BY <2>2, <3>1
      <4> QED  BY <3>1, <4>1, <4>2, Numbers
    <3> QED  BY <3>2
  <2>4. Threshold <= Limit
    <3>1. remaining[1] \in 0 .. Limit /\ remaining[1] >= Threshold
      BY <1>1, <2>3, OneIsABucket DEF TypeOK
    <3> QED  BY <3>1, Numbers
  <2>5. ASSUME retrying = 0, NEW b \in Bucket
        PROVE  /\ remaining[b] + Generation >= Threshold + owed[b]
               /\ remaining[b] + (2 * Generation + DiscoveryCost) >= Threshold + owed[b]
    <3>1. owed[b] <= Generation /\ owed[b] \in Nat
      BY <1>1, <2>5, LoadWithinGeneration DEF Gate
    <3>2. remaining[b] \in Nat /\ remaining[b] >= Threshold
      BY <2>2, <2>3
    <3> QED  BY <3>1, <3>2, GenerationType, Numbers
  <2>6. Floor'
    BY <1>2, <2>1, <2>4, <2>5 DEF Floor, Within
  <2> QED  BY <1>1, <2>6 DEF Gate
<1> QED  BY <1>3, <1>4

(* The discovery takes at most its cost from one bucket. *)
LEMMA SpendWithin ==
  ASSUME TypeOK, NEW c \in 0 .. DiscoveryCost, NEW below \in Nat,
         remaining' = Spend(1, c), owed' = owed, Within(below)
  PROVE  Within(below + DiscoveryCost)'
<1>1. ASSUME NEW b \in Bucket PROVE remaining'[b] + (below + DiscoveryCost) >= Threshold + owed'[b]
  <2>1. /\ remaining'[b] \in Nat /\ remaining[b] \in Nat
        /\ remaining'[b] >= remaining[b] - c \/ remaining'[b] = remaining[b]
    BY SpendType, OneIsABucket, Numbers DEF TypeOK
  <2>2. owed[b] \in Nat /\ remaining[b] + below >= Threshold + owed[b]
    BY DEF TypeOK, Within
  <2>3. c \in Nat /\ c <= DiscoveryCost
    BY Numbers
  <2> QED  BY <2>1, <2>2, <2>3, Numbers
<1> QED  BY <1>1 DEF Within

LEMMA Wider ==
  ASSUME TypeOK, NEW few \in Nat, NEW many \in Nat, few <= many, Within(few)
  PROVE  Within(many)
<1>1. ASSUME NEW b \in Bucket PROVE remaining[b] + many >= Threshold + owed[b]
  <2>1. owed[b] \in Nat /\ remaining[b] \in Nat /\ remaining[b] + few >= Threshold + owed[b]
    BY Numbers DEF TypeOK, Within
  <2> QED  BY <2>1, Numbers
<1> QED  BY <1>1 DEF Within

LEMMA GateDiscovery ==
  ASSUME Gate, ReuseInventory \/ DiscoveryFails \/ \E n \in Sizes : DiscoverRepos(n)
  PROVE  Gate'
<1>1. TypeOK' /\ TypeOK
  BY TypeStep DEF Gate, Next, Operator
<1>2. /\ Load' /\ owed' = owed /\ retrying' = retrying /\ sure' = sure
      /\ pc = "discover" /\ pc' # "discover"
  BY LoadStill DEF Gate, ReuseInventory, DiscoveryFails, DiscoverRepos, jobs
<1>3. \E c \in 0 .. DiscoveryCost : remaining' = Spend(1, c)
  <2>1. 0 \in 0 .. DiscoveryCost /\ DiscoveryCost \in 0 .. DiscoveryCost
    BY Numbers
  <2>2. CASE ReuseInventory
    <3>1. remaining[1] \in Nat /\ remaining' = remaining
      BY <1>1, <2>2, OneIsABucket, Numbers DEF TypeOK, ReuseInventory, provider
    <3>2. remaining = Spend(1, 0)
      BY <1>1, <3>1 DEF Spend, Less, TypeOK
    <3> QED  BY <2>1, <3>1, <3>2
  <2>3. CASE DiscoveryFails
    BY <2>1, <2>3 DEF DiscoveryFails
  <2>4. CASE \E n \in Sizes : DiscoverRepos(n)
    BY <2>4 DEF DiscoverRepos
  <2> QED  BY <2>2, <2>3, <2>4
<1>4. ASSUME sure PROVE Within(Generation + DiscoveryCost)'
  <2>1. Within(Generation)
    BY <1>2, <1>4 DEF Gate, Floor
  <2> QED
    BY <1>1, <1>2, <1>3, <2>1, SpendWithin, GenerationType
<1>5. ASSUME sure PROVE Within(2 * Generation + DiscoveryCost)'
  <2>1. ASSUME NEW b \in Bucket
        PROVE  remaining'[b] + (2 * Generation + DiscoveryCost) >= Threshold + owed'[b]
    <3>1. remaining'[b] + (Generation + DiscoveryCost) >= Threshold + owed'[b]
      BY <1>4, <1>5 DEF Within
    <3>2. remaining'[b] \in Nat /\ owed'[b] \in Nat
      BY <1>1, Numbers DEF TypeOK
    <3> QED  BY <3>1, <3>2, GenerationType, Numbers
  <2> QED  BY <2>1 DEF Within
<1> QED
  BY <1>1, <1>2, <1>4, <1>5 DEF Gate, Floor

LEMMA GateDispatch ==
  ASSUME Gate, NEW n \in 0 .. Parallelism,
         DispatchFails(n) \/ \E pending \in BOOLEAN : DispatchJobs(n, pending)
  PROVE  Gate'
<1>0. Created(n)
  BY DEF DispatchJobs, DispatchFails
<1>1. TypeOK' /\ TypeOK
  BY TypeDispatch DEF Gate
<1>2. /\ n \in Nat /\ n <= Parallelism /\ active' = active + n /\ retrying' = retrying
      /\ remaining' = remaining /\ sure' = sure /\ pc = "dispatch" /\ pc' = "update"
      /\ \A b \in Bucket : owed'[b] = owed[b] + n * JobCost
  BY <1>0, Numbers DEF Created, provider
<1>3. n * JobCost \in Nat /\ n * JobCost <= Generation
  BY <1>2, Products, Numbers DEF Generation
<1>4. Load'
  <2>1. active \in Nat /\ retrying \in Nat
    BY <1>1, Numbers DEF TypeOK
  <2>2. (active' + retrying') * JobCost = (active + retrying) * JobCost + n * JobCost
    <3>1. active' + retrying' = (active + retrying) + n /\ active + retrying \in Nat
      BY <1>2, <2>1
    <3> QED  BY <1>2, <3>1, Added
  <2>3. (active + retrying) * JobCost \in Nat
    BY <2>1, Numbers
  <2>4. \A b \in Bucket : owed[b] \in Nat /\ owed[b] <= (active + retrying) * JobCost
    BY <1>1 DEF Gate, Load, TypeOK
  <2> QED  BY <1>2, <1>3, <2>2, <2>3, <2>4 DEF Load
<1>5. ASSUME sure, NEW b \in Bucket
      PROVE  remaining'[b] + (2 * Generation + DiscoveryCost) >= Threshold + owed'[b]
  <2>1. remaining[b] + (Generation + DiscoveryCost) >= Threshold + owed[b]
    BY <1>2, <1>5 DEF Gate, Floor, Within
  <2>2. remaining[b] \in Nat /\ owed[b] \in Nat
    BY <1>1, Numbers DEF TypeOK
  <2> QED  BY <1>2, <1>3, <2>1, <2>2, GenerationType, Numbers
<1>6. Floor'
  BY <1>2, <1>5 DEF Gate, Floor, Within
<1> QED  BY <1>1, <1>4, <1>6 DEF Gate

(* Whoever spends what a Job was granted takes it from both sides. *)
LEMMA GateSpends == ASSUME Gate, NEW c \in Bucket, JobSpends(c) PROVE Gate'
<1>1. TypeOK' /\ TypeOK
  BY TypeJobs DEF Gate
<1>2. /\ active' = active /\ retrying' = retrying /\ sure' = sure /\ pc' = pc
      /\ remaining' = Spend(c, 1) /\ owed' = [owed EXCEPT ![c] = @ - 1] /\ owed[c] > 0
  BY DEF JobSpends
<1>3. ASSUME NEW b \in Bucket
      PROVE  /\ owed'[b] \in Nat /\ owed[b] \in Nat /\ owed'[b] <= owed[b]
             /\ remaining'[b] \in Nat /\ remaining[b] \in Nat
             /\ remaining'[b] - owed'[b] >= remaining[b] - owed[b]
  <2>1. owed[b] \in Nat /\ owed[c] \in Nat
    BY <1>1 DEF TypeOK
  <2>2. owed'[b] = IF b = c THEN owed[b] - 1 ELSE owed[b]
    BY <1>1, <1>2 DEF TypeOK
  <2>3. /\ remaining'[b] \in Nat /\ remaining[b] \in Nat
        /\ remaining'[b] >= remaining[b] - 1
        /\ b # c => remaining'[b] = remaining[b]
    <3>1. 1 \in Nat /\ remaining \in [Bucket -> 0 .. Limit]
      BY <1>1 DEF TypeOK
    <3>2. /\ Spend(c, 1)[b] \in Nat /\ remaining[b] \in Nat
          /\ Spend(c, 1)[b] >= remaining[b] - 1 /\ Spend(c, 1)[b] <= remaining[b]
          /\ b # c => Spend(c, 1)[b] = remaining[b]
      BY <3>1, SpendType
    <3> QED  BY <1>2, <3>2
  <2> QED  BY <1>2, <2>1, <2>2, <2>3
<1>4. Load'
  <2>1. (active + retrying) * JobCost \in Nat
    BY <1>1, Numbers DEF TypeOK
  <2>2. \A b \in Bucket : owed[b] <= (active + retrying) * JobCost
    BY DEF Gate, Load
  <2> QED  BY <1>2, <1>3, <2>1, <2>2 DEF Load
<1>5. ASSUME NEW below \in Nat, Within(below) PROVE Within(below)'
  <2>1. ASSUME NEW b \in Bucket PROVE remaining'[b] + below >= Threshold + owed'[b]
    <3>1. remaining[b] + below >= Threshold + owed[b]
      BY <1>5 DEF Within
    <3> QED  BY <1>3, <3>1, Numbers
  <2> QED  BY <2>1 DEF Within
<1>6. 2 * Generation + DiscoveryCost \in Nat /\ Generation + DiscoveryCost \in Nat
  BY GenerationType, Numbers
<1>7. Floor'
  <2>1. ASSUME sure, Within(2 * Generation + DiscoveryCost)
        PROVE  Within(2 * Generation + DiscoveryCost)'
    BY <1>5, <1>6, <2>1
  <2>2. ASSUME Within(Generation) PROVE Within(Generation)'
    BY <1>5, <2>2, GenerationType
  <2>3. ASSUME Within(Generation + DiscoveryCost) PROVE Within(Generation + DiscoveryCost)'
    BY <1>5, <1>6, <2>3
  <2> QED  BY <1>2, <2>1, <2>2, <2>3 DEF Gate, Floor
<1> QED  BY <1>1, <1>4, <1>7 DEF Gate

LEMMA GateEnds == ASSUME Gate, JobEnds \/ RetryEnds PROVE Gate'
<1>1. TypeOK' /\ TypeOK
  BY TypeJobs DEF Gate
<1>2. /\ remaining' = remaining /\ sure' = sure /\ pc' = pc
      /\ \A b \in Bucket : owed'[b] <= owed[b] /\ owed'[b] <= (active' + retrying') * JobCost
  <2>1. active' + retrying' \in Nat
    <3>1. active' \in 0 .. Parallelism /\ retrying' \in Nat
      BY <1>1 DEF TypeOK
    <3>2. \A n \in 0 .. Parallelism, k \in Nat : n + k \in Nat
      BY Numbers
    <3> QED  BY <3>1, <3>2
  <2>2. (active' + retrying') * JobCost \in Nat
    BY <2>1, Numbers
  <2>3. Rest(active' + retrying')
    <3>1. CASE JobEnds
      BY <3>1 DEF JobEnds
    <3>2. CASE RetryEnds
      BY <3>2 DEF RetryEnds
    <3> QED  BY <3>1, <3>2
  <2> QED  BY <2>2, <2>3 DEF Rest, JobEnds, RetryEnds, provider
<1>3. sure => retrying' = 0
  BY DEF Gate, Floor, JobEnds, RetryEnds, TypeOK
<1>4. ASSUME NEW below \in Nat, Within(below) PROVE Within(below)'
  <2>1. ASSUME NEW b \in Bucket PROVE remaining'[b] + below >= Threshold + owed'[b]
    <3>1. remaining[b] + below >= Threshold + owed[b] /\ owed'[b] <= owed[b]
      BY <1>2, <1>4 DEF Within
    <3>2. remaining[b] \in Nat /\ owed[b] \in Nat /\ owed'[b] \in Nat
      BY <1>1, Numbers DEF TypeOK
    <3> QED  BY <1>2, <3>1, <3>2, Numbers
  <2> QED  BY <2>1 DEF Within
<1>5. 2 * Generation + DiscoveryCost \in Nat /\ Generation + DiscoveryCost \in Nat
  BY GenerationType, Numbers
<1>6. Floor'
  <2>1. ASSUME Within(2 * Generation + DiscoveryCost)
        PROVE  Within(2 * Generation + DiscoveryCost)'
    BY <1>4, <1>5, <2>1
  <2>2. ASSUME Within(Generation) PROVE Within(Generation)'
    BY <1>4, <2>2, GenerationType
  <2>3. ASSUME Within(Generation + DiscoveryCost) PROVE Within(Generation + DiscoveryCost)'
    BY <1>4, <1>5, <2>3
  <2> QED  BY <1>2, <1>3, <2>1, <2>2, <2>3 DEF Gate, Floor
<1> QED  BY <1>1, <1>2, <1>6 DEF Gate, Load

(* Nobody vouches for the budget any more. *)
LEMMA GateUnsure ==
  ASSUME Gate, Ungated \/ PodFails \/ \E b \in Bucket : OthersSpend(b) PROVE Gate'
<1>1. TypeOK' /\ TypeOK /\ sure' = FALSE
  <2>1. TypeOK'
    BY TypeUngated, TypeJobs, TypeOutside DEF Gate
  <2> QED  BY <2>1 DEF Gate, Ungated, PodFails, OthersSpend
<1>2. owed' = owed /\ active' + retrying' = active + retrying
  <2>1. active \in Int /\ retrying \in Int
    BY <1>1, Numbers DEF TypeOK
  <2>2. CASE PodFails
    BY <2>1, <2>2 DEF PodFails
  <2>3. CASE Ungated \/ \E b \in Bucket : OthersSpend(b)
    BY <2>3 DEF Ungated, OthersSpend, jobs
  <2> QED  BY <2>2, <2>3
<1> QED  BY <1>1, <1>2 DEF Gate, Load, Floor

LEMMA GateTick == ASSUME Gate, Tick PROVE Gate'
<1>1. TypeOK' /\ TypeOK
  BY TypeTick DEF Gate
<1>2. UNCHANGED jobs /\ sure' = sure /\ pc' = "idle"
  BY DEF Tick
<1>3. Load'
  BY <1>2, LoadStill DEF Gate
<1>4. ASSUME sure, NEW b \in Bucket
      PROVE  remaining'[b] + (2 * Generation + DiscoveryCost) >= Threshold + owed'[b]
  <2>1. retrying = 0 /\ Threshold <= Limit
        /\ remaining[b] + (2 * Generation + DiscoveryCost) >= Threshold + owed[b]
    BY <1>4 DEF Gate, Floor, Within
  <2>2. owed[b] <= Generation /\ owed[b] \in Nat /\ owed' = owed
    BY <1>1, <1>2, <2>1, LoadWithinGeneration DEF Gate, jobs
  <2>3. remaining'[b] = Limit \/ remaining'[b] = remaining[b]
    BY DEF Tick
  <2> QED  BY <2>1, <2>2, <2>3, GenerationType, Numbers
<1>5. Floor'
  BY <1>2, <1>4 DEF Gate, Floor, Within, jobs
<1> QED  BY <1>1, <1>3, <1>5 DEF Gate

LEMMA GateStep == ASSUME ProbeCost = 0, Gate, [Next]_vars PROVE Gate'
<1>1. TypeOK'
  BY TypeStep DEF Gate
<1>2. CASE AuthFails \/ UpdateStatus \/ UpdateFails \/ Event
  BY <1>1, <1>2, LoadStill
  DEF Gate, AuthFails, UpdateStatus, UpdateFails, Event, provider, jobs, pass, Floor, Within
<1>3. CASE UNCHANGED vars
  BY <1>1, <1>3, LoadStill DEF Gate, vars, provider, jobs, Floor, Within
<1> QED
  BY <1>2, <1>3, GateProbe, GateDiscovery, GateDispatch, GateSpends, GateEnds,
     GateUnsure, GateTick
  DEF Next, Operator, Jobs

(* When the probe is free, a budget that only this resource spends never    *)
(* falls further below the threshold than one discovery and two generations *)
(* of Jobs, for any threshold, cap, cost and window.                       *)
THEOREM FloorHeld == ProbeCost = 0 => (Spec => []FloorHolds)
<1>1. Init => Gate
  BY GateInit
<1>2. ProbeCost = 0 /\ Gate /\ [Next]_vars => Gate'
  BY GateStep
<1>3. Gate => FloorHolds
  <2>1. SUFFICES ASSUME Gate, sure, NEW b \in Bucket
                 PROVE  remaining[b] >= Threshold - DiscoveryCost - 2 * (Parallelism * JobCost)
    BY DEF FloorHolds
  <2>2. remaining[b] + (2 * Generation + DiscoveryCost) >= Threshold + owed[b]
    BY <2>1 DEF Gate, Floor, Within
  <2>3. remaining[b] \in Nat /\ owed[b] \in Nat
    BY <2>1, Numbers DEF Gate, TypeOK
  <2>4. Parallelism * JobCost = Generation
    BY DEF Generation
  <2> QED  BY <2>2, <2>3, <2>4, GenerationType, Numbers
<1>4. ASSUME ProbeCost = 0 PROVE Spec => []FloorHolds
  <2>1. Gate /\ [Next]_vars => Gate'
    BY <1>2, <1>4
  <2> QED  BY <1>1, <1>3, <2>1, PTL DEF Spec
<1> QED  BY <1>4

-------------------------------------------------------------------------------
(***************************************************************************)
(* A pause is quiet when the probe is free.                                *)
(*                                                                         *)
(* A pass that nothing but a write of the pause woke writes what it finds,   *)
(* and the next one finds the same: unless the budget has changed, which    *)
(* only someone's requests or a refill do, or the reset has, which comes    *)
(* with a refill.  A refill that changes no number is one of a full budget, *)
(* and then the requeue is due before there is another.                     *)
(***************************************************************************)
Agrees(s) ==
  LET b == Tightest(remaining) IN s.left = remaining[b] /\ s.until = ReportedReset(b)

Full == \A b \in Bucket : remaining[b] = Limit

(* s was written when t was the tightest bucket, and t was not refilled     *)
(* since.                                                                  *)
Reports(s, t) ==
  /\ s.until = ReportedReset(t) /\ remaining[t] <= s.left
  /\ remaining[t] = Limit => \A c \in Bucket : t <= c

Soon == timer \in {0, 1}

(* A pass answers the writes before it, and nothing is listed in a pause.   *)
SelfBefore ==
  /\ pc # "idle" => "self" \notin queued
  /\ pc \in {"idle", "discover"} => ~ listed

Pausing ==
  pc = "update" /\ next.reason = "RateLimited" =>
    /\ ~ listed
    /\ \E t \in Bucket : Reports(next, t) /\ wait = RateLimitRequeue(ReportedReset(t))
    /\ echoes >= 1 => Agrees(next) /\ (Full => next = status \/ Soon)
    /\ echoes = 2 => next = status

Paused ==
  pc = "idle" /\ status.reason = "RateLimited" /\ "self" \in queued =>
    /\ \/ Soon
       \/ \E t \in Bucket : /\ Reports(status, t)
                            /\ timer \in 0 .. RateLimitRequeue(ReportedReset(t))
    /\ echoes <= 1
    /\ echoes = 1 => timer = 0 \/ (Agrees(status) /\ (Full => Soon))

Quiet == TypeOK /\ PauseIsQuiet /\ SelfBefore /\ Pausing /\ Paused

(* A pass that is an echo answers the write of a pause, and no requeue. *)
LEMMA EchoIsOne ==
  ASSUME Quiet, Woken, Echoed
  PROVE  \/ echoes' = 0
         \/ /\ pc = "idle" /\ status.reason = "RateLimited" /\ "self" \in queued
            /\ timer # 0 /\ timer' = timer /\ echoes \in {0, 1} /\ echoes' = echoes + 1
<1>1. SUFFICES ASSUME timer # 0, "other" \notin queued, status.reason = "RateLimited"
               PROVE  /\ pc = "idle" /\ "self" \in queued /\ timer' = timer
                      /\ echoes \in {0, 1} /\ echoes' = echoes + 1
  BY DEF Echoed
<1>2. pc = "idle" /\ "self" \in queued /\ timer' = timer
  BY <1>1 DEF Woken, Quiet, TypeOK
<1>3. echoes \in 0 .. 4 /\ echoes <= 1
  BY <1>1, <1>2 DEF Quiet, Paused, TypeOK
<1> QED  BY <1>1, <1>2, <1>3 DEF Echoed

(* A status that shows what is reported is written as it was. *)
LEMMA SameStatus ==
  ASSUME NEW s \in Status, NEW l, NEW u, s.reason = "RateLimited", s.left = l, s.until = u
  PROVE  [s EXCEPT !.reason = "RateLimited", !.left = l, !.until = u] = s
BY DEF Status

(* The full bucket that is reported is the first, so it is the tightest.    *)
LEMMA FullAgrees ==
  ASSUME TypeOK, Full, NEW t \in Bucket, NEW s \in Status, Reports(s, t)
  PROVE  Agrees(s)
<1> DEFINE b == Tightest(remaining)
<1>1. remaining \in [Bucket -> Nat]
  BY Numbers DEF TypeOK
<1>2. b \in Bucket /\ \A c \in Bucket : remaining[c] = remaining[b] => b <= c
  BY <1>1, TightestIsLeast
<1>3. remaining[t] = Limit /\ remaining[b] = Limit
  BY <1>2 DEF Full
<1>4. b <= t /\ t <= b
  BY <1>2, <1>3 DEF Reports
<1>5. b = t
  BY <1>2, <1>4, Numbers
<1>6. s.left = Limit
  BY <1>3, Numbers DEF Reports, Status
<1> QED  BY <1>3, <1>5, <1>6 DEF Agrees, Reports

LEMMA QuietLow == ASSUME ProbeCost = 0, Quiet, BudgetLow PROVE Quiet'
<1>1. TypeOK /\ TypeOK'
  BY TypeBudgetLow DEF Quiet
<1>2. remaining' = remaining
  BY FreeProbe, <1>1 DEF BudgetLow
<1>3. remaining \in [Bucket -> Nat] /\ status \in Status /\ next' \in Status
  BY <1>1, Numbers DEF TypeOK
<1>4. PICK t \in Bucket :
        /\ t = Tightest(remaining)
        /\ \A c \in Bucket : remaining[t] <= remaining[c]
        /\ \A c \in Bucket : remaining[c] = remaining[t] => t <= c
  BY <1>3, TightestIsLeast
<1>5. /\ next' = [status EXCEPT !.reason = "RateLimited", !.left = remaining[t],
                                !.until = ReportedReset(t)]
      /\ wait' = RateLimitRequeue(ReportedReset(t))
      /\ pc = "idle" /\ pc' = "update" /\ queued' = {} /\ listed' = listed
      /\ resets' = resets /\ stale' = stale /\ status' = status
  BY <1>2, <1>4 DEF BudgetLow, Woken
<1>6. next'.left = remaining[t] /\ next'.until = ReportedReset(t)
  BY <1>3, <1>5 DEF Status
<1>7. Tightest(remaining)' = t /\ ReportedReset(t)' = ReportedReset(t)
  BY <1>2, <1>4, <1>5 DEF ReportedReset
<1>8. Agrees(next)'
  BY <1>2, <1>6, <1>7 DEF Agrees
<1>9. Reports(next, t)' /\ wait' = RateLimitRequeue(ReportedReset(t))'
  <2>1. ASSUME remaining[t] = Limit, NEW c \in Bucket PROVE remaining[c] = remaining[t]
    <3>1. remaining[c] \in 0 .. Limit /\ remaining[t] <= remaining[c]
      BY <1>1, <1>4 DEF TypeOK
    <3> QED  BY <2>1, <3>1, Numbers
  <2>2. remaining[t] \in Nat
    BY <1>3, <1>4
  <2> QED  BY <1>2, <1>4, <1>5, <1>6, <1>7, <2>1, <2>2 DEF Reports, RateLimitRequeue
<1>10. ASSUME status.reason = "RateLimited", Agrees(status) PROVE next' = status
  BY <1>3, <1>4, <1>5, <1>10, SameStatus DEF Agrees
<1>11. /\ echoes' \in 0 .. 2
       /\ echoes' >= 1 => (Full => next' = status \/ Soon')
       /\ echoes' = 2 => next' = status
  <2>1. CASE echoes' = 0
    BY <2>1
  <2>2. CASE /\ pc = "idle" /\ status.reason = "RateLimited" /\ "self" \in queued
             /\ timer # 0 /\ timer' = timer /\ echoes \in {0, 1} /\ echoes' = echoes + 1
    <3>1. /\ Soon \/ \E u \in Bucket : Reports(status, u)
          /\ echoes = 1 => Agrees(status)
      BY <2>2 DEF Quiet, Paused
    <3>2. Full => next' = status \/ Soon'
      BY <1>1, <1>3, <1>10, <2>2, <3>1, FullAgrees DEF Soon
    <3> QED  BY <1>10, <2>2, <3>1, <3>2
  <2> QED  BY <2>1, <2>2, EchoIsOne DEF BudgetLow
<1>12. Full' <=> Full
  BY <1>2 DEF Full
<1>13. SelfBefore' /\ Paused' /\ PauseIsQuiet'
  BY <1>5, <1>11 DEF SelfBefore, Paused, PauseIsQuiet
<1>14. Pausing'
  BY <1>4, <1>5, <1>8, <1>9, <1>11, <1>12 DEF Pausing, Quiet, SelfBefore
<1> QED  BY <1>1, <1>13, <1>14 DEF Quiet

(* A write that changes something brings the requeue with it. *)
LEMMA QuietWrite == ASSUME Quiet, UpdateStatus PROVE Quiet'
<1>1. TypeOK /\ TypeOK'
  BY TypeUpdate DEF Quiet
<1>2. /\ pc = "update" /\ pc' = "idle" /\ status' = next /\ timer' = Sooner(wait)
      /\ UNCHANGED <<remaining, resets, stale, echoes>> /\ "self" \notin queued
      /\ listed' = FALSE
  BY DEF UpdateStatus, Quiet, SelfBefore, provider
<1>3. ASSUME next.reason = "RateLimited", "self" \in queued'
      PROVE  next # status
  <2>1. PICK changed \in BOOLEAN :
          /\ Changed(changed)
          /\ queued' = IF changed THEN queued \cup {"self"} ELSE queued
    BY DEF UpdateStatus
  <2>2. changed /\ ~ listed
    BY <1>2, <1>3, <2>1 DEF Quiet, Pausing
  <2> QED  BY <1>3, <2>1, <2>2 DEF Changed
<1>4. SelfBefore' /\ Pausing' /\ PauseIsQuiet'
  BY <1>2 DEF Quiet, SelfBefore, Pausing, PauseIsQuiet
<1>5. Paused'
  <2>1. SUFFICES ASSUME next.reason = "RateLimited", "self" \in queued' PROVE
          /\ Soon' \/ \E t \in Bucket : /\ Reports(status, t)'
                                        /\ timer' \in 0 .. RateLimitRequeue(ReportedReset(t)')
          /\ echoes <= 1
          /\ echoes = 1 => Agrees(status)' /\ (Full' => Soon')
    BY <1>2 DEF Paused, RateLimitRequeue
  <2>2. PICK t \in Bucket : Reports(next, t) /\ wait = RateLimitRequeue(ReportedReset(t))
    BY <1>2, <2>1 DEF Quiet, Pausing
  <2>3. wait \in Nat /\ wait >= 2
    <3>1. ReportedReset(t) \in Nat
      BY <1>1, Numbers DEF ReportedReset, TypeOK
    <3> QED  BY <2>2, <3>1 DEF RateLimitRequeue, pendingRequeue, rateLimitBuffer
  <2>4. timer = NoTimer \/ timer \in Nat
    BY <1>1, LastingType DEF TypeOK
  <2>5. timer' \in 0 .. wait
    BY <1>2, <2>3, <2>4 DEF Sooner, NoTimer
  <2>6. Reports(status, t)' /\ ReportedReset(t)' = ReportedReset(t)
    BY <1>2, <2>2 DEF Reports, ReportedReset
  <2>7. echoes <= 1
    BY <1>2, <1>3, <2>1 DEF Quiet, Pausing, PauseIsQuiet, TypeOK
  <2>8. ASSUME echoes = 1 PROVE Agrees(status)' /\ (Full' => Soon')
    <3>1. Agrees(next) /\ (Full => Soon)
      BY <1>2, <1>3, <2>1, <2>8 DEF Quiet, Pausing
    <3>2. Soon => Soon'
      BY <1>2, <2>3 DEF Soon, Sooner, NoTimer
    <3>3. (Full' <=> Full) /\ (Agrees(status)' <=> Agrees(next))
      BY <1>2 DEF Full, Agrees, ReportedReset
    <3> QED  BY <3>1, <3>2, <3>3
  <2> QED  BY <2>2, <2>5, <2>6, <2>7, <2>8
<1> QED  BY <1>1, <1>4, <1>5 DEF Quiet

(* Who spends wakes nobody, and starts the count of the echoes again. *)
LEMMA QuietSpent ==
  ASSUME Quiet, TypeOK', echoes' = 0, NEW c \in Bucket, NEW n \in Nat,
         remaining' = Spend(c, n),
         UNCHANGED <<resets, stale, status, queued, timer, pc, next, wait, listed>>
  PROVE  Quiet'
<1>1. ASSUME NEW b \in Bucket
      PROVE  remaining'[b] \in Nat /\ remaining[b] \in 0 .. Limit /\ remaining'[b] <= remaining[b]
  BY SpendType DEF Quiet, TypeOK
<1>2. ASSUME NEW s \in Status, NEW t \in Bucket, Reports(s, t)
      PROVE  /\ s.until = ReportedReset(t)' /\ remaining'[t] <= s.left
             /\ remaining'[t] = Limit => \A b \in Bucket : t <= b
  <2>1. s.left \in Nat
    BY Numbers DEF Status
  <2>2. remaining'[t] \in Nat /\ remaining[t] \in 0 .. Limit /\ remaining'[t] <= remaining[t]
    BY <1>1
  <2> QED  BY <1>2, <2>1, <2>2, Numbers DEF Reports, ReportedReset
<1>3. status' = status /\ next' = next /\ status \in Status /\ next \in Status
  BY DEF Quiet, TypeOK
<1>4. \A t \in Bucket : /\ Reports(status, t) => Reports(status, t)'
                        /\ Reports(next, t) => Reports(next, t)'
                        /\ ReportedReset(t)' = ReportedReset(t)
  BY <1>2, <1>3 DEF Reports, ReportedReset
<1>5. SelfBefore' /\ PauseIsQuiet' /\ (Soon' <=> Soon)
  BY DEF Quiet, SelfBefore, PauseIsQuiet, Soon
<1>6. Pausing'
  BY <1>4 DEF Quiet, Pausing, RateLimitRequeue
<1>7. Paused'
  BY <1>4, <1>5 DEF Quiet, Paused, RateLimitRequeue
<1> QED  BY <1>5, <1>6, <1>7 DEF Quiet

(* A reset that changes what is reported, and no number, comes with a full  *)
(* budget and at the end of the requeue.                                   *)
LEMMA QuietTick == ASSUME Quiet, Tick PROVE Quiet'
<1>1. TypeOK /\ TypeOK'
  BY TypeTick DEF Quiet
<1>2. /\ pc = "idle" /\ pc' = "idle" /\ timer # 0 /\ queued' = queued /\ listed' = listed
      /\ stale' = stale /\ status' = Aged(status)
      /\ timer' = IF timer > 0 THEN timer - 1 ELSE timer
      /\ echoes' = IF remaining' = remaining THEN echoes ELSE 0
  BY DEF Tick, pass
<1>3. \A b \in Bucket :
        /\ resets[b] \in 1 .. Window /\ remaining[b] \in 0 .. Limit
        /\ resets'[b] = IF resets[b] = 1 THEN Window ELSE resets[b] - 1
        /\ remaining'[b] = IF resets[b] = 1 THEN Limit ELSE remaining[b]
  BY <1>1 DEF Tick, TypeOK
<1>4. /\ status'.reason = status.reason /\ status'.left = status.left
      /\ status'.until = Less(status.until, 1)
  BY <1>1, <1>2 DEF Aged, TypeOK, Status
<1>5. SelfBefore' /\ Pausing' /\ PauseIsQuiet'
  BY <1>2 DEF Quiet, SelfBefore, Pausing, PauseIsQuiet
<1>6. Soon => timer' = 0
  BY <1>2 DEF Soon
<1>7. ASSUME NEW b \in Bucket, stale \/ resets[b] # 1, status.until = ReportedReset(b)
      PROVE  status'.until = ReportedReset(b)'
  <2>1. CASE stale
    BY <1>2, <1>4, <1>7, <2>1 DEF ReportedReset, Less
  <2>2. CASE ~ stale
    BY <1>1, <1>2, <1>3, <1>4, <1>7, <2>2, Numbers DEF ReportedReset, Less, TypeOK
  <2> QED  BY <2>1, <2>2
<1>8. ASSUME status.reason = "RateLimited", "self" \in queued
      PROVE  Soon' \/ \E t \in Bucket : /\ Reports(status, t)'
                                        /\ timer' \in 0 .. RateLimitRequeue(ReportedReset(t)')
  <2>1. CASE Soon
    BY <1>6, <2>1 DEF Soon
  <2>2. ASSUME NEW t \in Bucket, Reports(status, t),
               timer \in 0 .. RateLimitRequeue(ReportedReset(t))
        PROVE  Soon' \/ (Reports(status, t)' /\ timer' \in 0 .. RateLimitRequeue(ReportedReset(t)'))
    <3>1. resets[t] \in 1 .. Window /\ stale \in BOOLEAN
      BY <1>1, <1>3 DEF TypeOK
    <3>2. CASE stale \/ resets[t] = 1
      <4>1. timer \in 0 .. 2
        BY <2>2, <3>1, <3>2 DEF ReportedReset, RateLimitRequeue, rateLimitBuffer, pendingRequeue
      <4> QED  BY <1>2, <4>1 DEF Soon
    <3>3. CASE ~ stale /\ resets[t] # 1
      <4>1. resets'[t] = resets[t] - 1 /\ remaining'[t] = remaining[t] /\ resets[t] \in Nat
        BY <1>3, <3>1, <3>3, Numbers
      <4>2. Reports(status, t)'
        BY <1>4, <1>7, <2>2, <3>3, <4>1 DEF Reports
      <4>3. timer' \in 0 .. RateLimitRequeue(resets[t] - 1)
        BY <1>2, <2>2, <3>1, <3>3, <4>1
        DEF ReportedReset, RateLimitRequeue, rateLimitBuffer, pendingRequeue
      <4> QED  BY <1>2, <3>3, <4>1, <4>2, <4>3 DEF ReportedReset
    <3> QED  BY <3>2, <3>3
  <2> QED  BY <1>2, <1>8, <2>1, <2>2 DEF Quiet, Paused
<1>9. ASSUME status.reason = "RateLimited", "self" \in queued, echoes' = 1
      PROVE  timer' = 0 \/ (Agrees(status)' /\ (Full' => Soon'))
  <2>1. remaining' = remaining /\ Agrees(status) /\ (Full => Soon)
    BY <1>2, <1>9 DEF Quiet, Paused
  <2>2. remaining \in [Bucket -> Nat]
    BY <1>1, Numbers DEF TypeOK
  <2>3. PICK t \in Bucket : /\ t = Tightest(remaining)
                            /\ \A c \in Bucket : remaining[t] <= remaining[c]
    BY <2>2, TightestIsLeast
  <2>4. CASE Full
    BY <1>6, <2>1, <2>4
  <2>5. CASE ~ Full
    <3>1. resets[t] # 1
      <4>1. SUFFICES ASSUME remaining[t] = Limit PROVE FALSE
        BY <1>3, <2>1
      <4>2. ASSUME NEW b \in Bucket PROVE remaining[b] = Limit
        <5>1. remaining[b] \in 0 .. Limit /\ remaining[t] <= remaining[b]
          BY <1>3, <2>3
        <5> QED  BY <4>1, <5>1, Numbers
      <4> QED  BY <2>5, <4>2 DEF Full
    <3>2. Agrees(status)'
      BY <1>4, <1>7, <2>1, <2>3, <3>1 DEF Agrees
    <3> QED  BY <2>1, <2>5, <3>2 DEF Full
  <2> QED  BY <2>4, <2>5
<1>10. Paused'
  <2>1. SUFFICES ASSUME status.reason = "RateLimited", "self" \in queued PROVE
          /\ Soon' \/ \E t \in Bucket : /\ Reports(status, t)'
                                        /\ timer' \in 0 .. RateLimitRequeue(ReportedReset(t)')
          /\ echoes' <= 1
          /\ echoes' = 1 => timer' = 0 \/ (Agrees(status)' /\ (Full' => Soon'))
    BY <1>2, <1>4 DEF Paused, RateLimitRequeue
  <2>2. echoes <= 1
    BY <1>2, <2>1 DEF Quiet, Paused
  <2> QED  BY <1>2, <1>8, <1>9, <2>1, <2>2
<1> QED  BY <1>1, <1>5, <1>10 DEF Quiet

(* A pass that goes on, or that has no pause to write. *)
LEMMA QuietPass ==
  ASSUME Quiet, TypeOK', AuthFails \/ BudgetSuffices \/ Ungated \/ UpdateFails PROVE Quiet'
<1>1. CASE UpdateFails
  BY <1>1 DEF UpdateFails, Quiet, PauseIsQuiet, SelfBefore, Pausing, Paused, Soon
<1>2. CASE AuthFails \/ BudgetSuffices \/ Ungated
  <2>1. Woken /\ (Echoed \/ echoes' = 0) /\ listed' = listed
    BY <1>2 DEF AuthFails, BudgetSuffices, Ungated, pass
  <2>2. echoes' <= 2
    BY <2>1, EchoIsOne
  <2>3. ~ listed' /\ queued' = {}
    BY <2>1 DEF Woken, Quiet, SelfBefore
  <2>4. pc' = "discover" \/ (pc' = "update" /\ next'.reason = "CredentialsInvalid")
    BY <1>2 DEF AuthFails, BudgetSuffices, Ungated, Quiet, TypeOK, Status
  <2> QED  BY <2>2, <2>3, <2>4 DEF Quiet, PauseIsQuiet, SelfBefore, Pausing, Paused
<1> QED  BY <1>1, <1>2

LEMMA QuietDiscovery ==
  ASSUME Quiet, TypeOK', ReuseInventory \/ DiscoveryFails \/ \E n \in Sizes : DiscoverRepos(n)
  PROVE  Quiet'
<1>1. /\ pc = "discover" /\ queued' = queued /\ (echoes' = echoes \/ echoes' = 0)
      /\ pc' = "dispatch" \/ (pc' = "update" /\ next'.reason = "DiscoveryFailed")
  BY DEF ReuseInventory, DiscoveryFails, DiscoverRepos, queue, Quiet, TypeOK, Status
<1> QED  BY <1>1 DEF Quiet, PauseIsQuiet, SelfBefore, Pausing, Paused

LEMMA QuietDispatch ==
  ASSUME Quiet, TypeOK', NEW n \in 0 .. Parallelism,
         DispatchFails(n) \/ \E pending \in BOOLEAN : DispatchJobs(n, pending)
  PROVE  Quiet'
<1>1. /\ pc = "dispatch" /\ pc' = "update" /\ ("self" \in queued' => "self" \in queued)
      /\ echoes' = echoes \/ echoes' = 0
      /\ next'.reason \in {"Discovered", "DispatchFailed"}
  BY DEF DispatchFails, DispatchJobs, Created, Quiet, TypeOK, Status
<1> QED  BY <1>1 DEF Quiet, PauseIsQuiet, SelfBefore, Pausing, Paused

(* What wakes the operator from outside. *)
LEMMA QuietEvent ==
  ASSUME Quiet, TypeOK', JobEnds \/ RetryEnds \/ PodFails \/ Event PROVE Quiet'
<1>1. /\ UNCHANGED <<remaining, resets, stale, status, timer, pc, next, wait, listed, echoes>>
      /\ queued' = queued \cup {"other"}
  BY DEF JobEnds, RetryEnds, PodFails, Event, provider, pass
<1>2. /\ UNCHANGED <<Full, Soon, Agrees(status), Agrees(next)>>
      /\ \A t \in Bucket : UNCHANGED <<Reports(status, t), Reports(next, t), ReportedReset(t)>>
  BY <1>1 DEF Full, Soon, Agrees, Reports, ReportedReset
<1>3. SelfBefore' /\ PauseIsQuiet' /\ Pausing' /\ Paused'
  BY <1>1, <1>2 DEF Quiet, SelfBefore, PauseIsQuiet, Pausing, Paused, RateLimitRequeue
<1> QED  BY <1>3 DEF Quiet

LEMMA QuietStill == ASSUME Quiet, TypeOK', UNCHANGED vars PROVE Quiet'
<1>1. UNCHANGED <<remaining, resets, stale, status, timer, queued, pc, next, wait, listed, echoes>>
  BY DEF vars, provider, queue, pass
<1> QED  BY <1>1 DEF Quiet, SelfBefore, PauseIsQuiet, Pausing, Paused, RateLimitRequeue,
                     Full, Soon, Agrees, Reports, ReportedReset

LEMMA QuietStep == ASSUME ProbeCost = 0, Quiet, [Next]_vars PROVE Quiet'
<1>1. TypeOK'
  BY TypeStep DEF Quiet
<1>2. ASSUME NEW b \in Bucket, JobSpends(b) \/ OthersSpend(b) PROVE Quiet'
  <2>1. PICK n \in Nat : remaining' = Spend(b, n)
    BY <1>2, Numbers DEF JobSpends, OthersSpend
  <2>2. /\ echoes' = 0
        /\ UNCHANGED <<resets, stale, status, queued, timer, pc, next, wait, listed>>
    BY <1>2 DEF JobSpends, OthersSpend, queue, pass
  <2> QED  BY <1>1, <2>1, <2>2, QuietSpent
<1> QED
  BY <1>1, <1>2, QuietLow, QuietWrite, QuietTick, QuietPass, QuietDiscovery, QuietDispatch,
     QuietEvent, QuietStill
  DEF Next, Operator, Jobs

(* "so the operator stops spending quota (discovery included) until the     *)
(* rate-limit window resets" (Reconcile, rateLimited): for every threshold,   *)
(* budget and window, a paused operator that only its own status writes     *)
(* wake looks twice more at most, if the probe is free.  With the probe     *)
(* that GitLab has it is false (run gitlab_pause).                          *)
THEOREM PauseStaysQuiet == ProbeCost = 0 => (Spec => []PauseIsQuiet)
<1>1. ASSUME Init PROVE Quiet
  <2>1. TypeOK
    BY <1>1, TypeInit
  <2>2. pc = "idle" /\ echoes = 0 /\ queued = {"other"} /\ listed = FALSE
    BY <1>1 DEF Init
  <2> QED  BY <2>1, <2>2 DEF Quiet, SelfBefore, PauseIsQuiet, Pausing, Paused
<1>2. ASSUME ProbeCost = 0 PROVE Spec => []PauseIsQuiet
  <2>1. Quiet /\ [Next]_vars => Quiet'
    BY <1>2, QuietStep
  <2>2. Quiet => PauseIsQuiet
    BY DEF Quiet
  <2> QED  BY <1>1, <2>1, <2>2, PTL DEF Spec
<1> QED  BY <1>2

-------------------------------------------------------------------------------
(* A pass that pauses ends with the requeue of the reset it reports. *)
PauseDue ==
  pc = "update" /\ next.reason = "RateLimited" => wait \in 0 .. next.until + pendingRequeue

Due == TypeOK /\ PauseDue /\ PauseEnds

LEMMA DueLow == ASSUME Due, BudgetLow PROVE Due'
<1>1. TypeOK /\ TypeOK' /\ pc' = "update"
  BY TypeBudgetLow DEF Due, BudgetLow
<1>2. PICK u \in {ReportedReset(Tightest(remaining'))} :
        next'.until = u /\ wait' = RateLimitRequeue(u)
  BY <1>1 DEF BudgetLow, TypeOK, Status
<1>3. next'.until \in Nat
  BY <1>1, Numbers DEF TypeOK, Status
<1>4. wait' \in 0 .. next'.until + pendingRequeue
  BY <1>2, <1>3 DEF RateLimitRequeue, pendingRequeue, rateLimitBuffer
<1> QED  BY <1>1, <1>4 DEF Due, PauseDue, PauseEnds

LEMMA DueWrite == ASSUME Due, UpdateStatus PROVE Due'
<1>1. TypeOK /\ TypeOK'
  BY TypeUpdate DEF Due
<1>2. pc = "update" /\ pc' = "idle" /\ status' = next /\ timer' = Sooner(wait)
  BY DEF UpdateStatus
<1>3. wait \in Nat /\ (timer = NoTimer \/ timer \in Nat) /\ next.until \in Nat
  BY <1>1, LastingType, Numbers DEF TypeOK, Status
<1>4. timer' \in 0 .. wait
  BY <1>2, <1>3 DEF Sooner, NoTimer
<1> QED  BY <1>1, <1>2, <1>3, <1>4 DEF Due, PauseDue, PauseEnds, pendingRequeue

LEMMA DueTick == ASSUME Due, Tick PROVE Due'
<1>1. TypeOK /\ TypeOK'
  BY TypeTick DEF Due
<1>2. /\ pc = "idle" /\ pc' = "idle" /\ timer # 0
      /\ timer' = IF timer > 0 THEN timer - 1 ELSE timer
      /\ status'.reason = status.reason /\ status'.until = Less(status.until, 1)
  BY <1>1 DEF Tick, Aged, TypeOK, Status
<1>3. status.until \in Nat
  BY <1>1, Numbers DEF TypeOK, Status
<1>4. ASSUME status.reason = "RateLimited" PROVE timer' \in 0 .. status'.until + pendingRequeue
  <2>1. timer \in 0 .. status.until + pendingRequeue
    BY <1>2, <1>4 DEF Due, PauseEnds
  <2> QED  BY <1>2, <1>3, <2>1 DEF Less, pendingRequeue
<1> QED  BY <1>1, <1>2, <1>4 DEF Due, PauseDue, PauseEnds

LEMMA DueStep == ASSUME Due, [Next]_vars PROVE Due'
<1>1. TypeOK /\ TypeOK'
  BY TypeStep DEF Due
<1>2. CASE AuthFails \/ BudgetSuffices \/ Ungated \/ ReuseInventory \/ DiscoveryFails
           \/ \E n \in Sizes : DiscoverRepos(n)
  <2>1. pc' # "idle" /\ (pc' = "update" => next'.reason # "RateLimited")
    BY <1>1, <1>2 DEF AuthFails, BudgetSuffices, Ungated, ReuseInventory, DiscoveryFails,
                      DiscoverRepos, TypeOK, Status
  <2> QED  BY <1>1, <2>1 DEF Due, PauseDue, PauseEnds
<1>3. ASSUME NEW n \in 0 .. Parallelism,
             DispatchFails(n) \/ \E pending \in BOOLEAN : DispatchJobs(n, pending)
      PROVE  Due'
  <2>1. pc' = "update" /\ next'.reason \in {"Discovered", "DispatchFailed"}
    BY <1>1, <1>3 DEF DispatchFails, DispatchJobs, Created, TypeOK, Status
  <2> QED  BY <1>1, <2>1 DEF Due, PauseDue, PauseEnds
<1>4. CASE UpdateFails
  <2>1. timer' = 0 /\ pc' = "idle" /\ status'.until \in Nat
    BY <1>1, <1>4, Numbers DEF UpdateFails, TypeOK, Status
  <2> QED  BY <1>1, <2>1 DEF Due, PauseDue, PauseEnds, pendingRequeue
<1>5. CASE \/ \E b \in Bucket : JobSpends(b) \/ OthersSpend(b)
           \/ JobEnds \/ RetryEnds \/ PodFails \/ Event \/ UNCHANGED vars
  <2>1. UNCHANGED <<status, timer, pc, next, wait>>
    BY <1>5 DEF JobSpends, OthersSpend, JobEnds, RetryEnds, PodFails, Event, vars, queue, pass
  <2> QED  BY <1>1, <2>1 DEF Due, PauseDue, PauseEnds
<1> QED
  BY <1>2, <1>3, <1>4, <1>5, DueLow, DueWrite, DueTick DEF Next, Operator, Jobs

(* Every operator that has paused sleeps with a requeue that is due soon    *)
(* after the reset it reports (RequeueAfter in Reconcile), whatever the     *)
(* probe costs and whatever fails or wakes it in between.                  *)
THEOREM PauseHasAnEnd == Spec => []PauseEnds
<1>1. ASSUME Init PROVE Due
  <2>1. TypeOK
    BY <1>1, TypeInit
  <2>2. pc = "idle" /\ status.reason = "Unknown"
    BY <1>1 DEF Init, EmptyStatus
  <2> QED  BY <2>1, <2>2 DEF Due, PauseDue, PauseEnds
<1>2. Due /\ [Next]_vars => Due'
  BY DueStep
<1>3. Due => PauseEnds
  BY DEF Due
<1> QED  BY <1>1, <1>2, <1>3, PTL DEF Spec

===============================================================================
