----------------------------- MODULE CollectProofs -----------------------------
(***************************************************************************)
(* Proofs about Collect: its type invariant, that a finding is counted      *)
(* whatever happens in the forge during the poll, and that a repository     *)
(* shows a zero only when a source failed.  What each argument needs of the *)
(* providers is proved of their queries first.                             *)
(***************************************************************************)
EXTENDS Collect, TLAPS

(* What a query is about decides what it asks for.                         *)
OpenFirst(p) ==
  \A q \in p.first : q.what \cap Categories # {} => "open" \in q.in

ClosedLater(p) ==
  \A q \in p.later : "open" \notin q.in

LEMMA OpenFirstHolds == \A p \in Providers : OpenFirst(p)
<1>1. OpenFirst(GitHubOrg)
  BY DEF OpenFirst, GitHubOrg, GitHubOwner, OwnerAlerts, Node, Ask, Categories
<1>2. OpenFirst(GitHubUser)
  BY DEF OpenFirst, GitHubUser, GitHubOwner, OwnerAlerts, Node, Ask, Categories
<1>3. OpenFirst(GitHubRepo)
  BY DEF OpenFirst, GitHubRepo, RepoAlerts, Node, Ask, Categories
<1>4. OpenFirst(GitLabGroup)
  BY DEF OpenFirst, GitLabGroup, GitLabOwner, Projects, Ask, Categories
<1>5. OpenFirst(GitLabUser)
  BY DEF OpenFirst, GitLabUser, GitLabOwner, Projects, Ask, Categories
<1>6. OpenFirst(GitLabRepo)
  BY DEF OpenFirst, GitLabRepo, Ask, Categories
<1>. QED BY <1>1, <1>2, <1>3, <1>4, <1>5, <1>6 DEF Providers

LEMMA ClosedLaterHolds == \A p \in Providers : ClosedLater(p)
<1>1. ClosedLater(GitHubOrg) /\ ClosedLater(GitHubUser)
  BY DEF ClosedLater, GitHubOrg, GitHubUser, GitHubOwner
<1>2. ClosedLater(GitHubRepo)
  BY DEF ClosedLater, GitHubRepo, SecretPosture, Workflows, GitHubLifecycle, Resolved, Ask
<1>3. ClosedLater(GitLabGroup) /\ ClosedLater(GitLabUser)
  BY DEF ClosedLater, GitLabGroup, GitLabUser, GitLabOwner
<1>4. ClosedLater(GitLabRepo)
  BY DEF ClosedLater, GitLabRepo, Workflows, Resolved, Ask
<1>. QED BY <1>1, <1>2, <1>3, <1>4 DEF Providers

(* A poll with lifecycle collection asks for each way to close a finding.   *)
Covers(p) ==
  p.lifecycle => \A c \in Categories \ {"container"} : \A s \in Closings(p, c) :
    \E q \in p.later : q.source = "lifecycle" /\ c \in q.what /\ s \in q.in

LEMMA CoversHolds == \A p \in Providers : Covers(p)
<1>1. Covers(GitHubOrg) /\ Covers(GitHubUser)
  BY DEF Covers, GitHubOrg, GitHubUser, GitHubOwner
<1>2. Covers(GitHubRepo)
  <2>1. SUFFICES ASSUME NEW c \in Categories \ {"container"}, NEW s \in Closings(GitHubRepo, c)
                 PROVE  \E q \in GitHubLifecycle :
                          q.source = "lifecycle" /\ c \in q.what /\ s \in q.in
    BY DEF Covers, GitHubRepo
  <2>2. \/ c = "static_analysis" /\ s \in {"fixed", "dismissed"}
        \/ c = "dependency" /\ s \in {"fixed", "dismissed", "auto_dismissed"}
        \/ c = "secret" /\ s = "resolved"
    BY <2>1 DEF Closings, Categories, GitHubRepo
  <2>. QED BY <2>2 DEF GitHubLifecycle, Resolved, Ask
<1>3. Covers(GitLabGroup) /\ Covers(GitLabUser)
  BY DEF Covers, GitLabGroup, GitLabUser, GitLabOwner
<1>4. Covers(GitLabRepo)
  <2>. DEFINE q == Resolved(5, Categories, {"resolved", "dismissed"})
  <2>1. q \in GitLabRepo.later /\ GitLabRepo.counts = "rest"
    BY DEF GitLabRepo
  <2>2. ASSUME NEW c PROVE Closings(GitLabRepo, c) = {"resolved", "dismissed"}
    BY <2>1 DEF Closings
  <2>3. q.source = "lifecycle" /\ q.what = Categories /\ q.in = {"resolved", "dismissed"}
    BY DEF Resolved, Ask
  <2>. QED BY <2>1, <2>2, <2>3 DEF Covers
<1>. QED BY <1>1, <1>2, <1>3, <1>4 DEF Providers

(* Queries of an owner that ask a source for the same are the same; the     *)
(* query for the secret posture is about no findings; only what is          *)
(* resolved is dropped when its source fails; closed findings are closed    *)
(* in known ways; every source of a poll has a name.                        *)
Regular(p) ==
  /\ ~ p.single => p.later = {}
  /\ ~ p.single => \A q, r \in p.first : q.source = r.source /\ q.what = r.what => q = r
  /\ \A q \in p.first \cup p.later :
       /\ q.source = "secret_posture" => q.what \cap Categories = {}
       /\ q.source = "lifecycle" => "partial" \notin q.how
  /\ \A q \in p.first : q.source # "lifecycle"
  /\ \A q \in p.later : q.what \cap {"repository", "review_item", "posture"} = {}

LEMMA RegularHolds == \A p \in Providers : Regular(p)
<1>1. Regular(GitHubOrg)
  BY DEF Regular, GitHubOrg, GitHubOwner, OwnerAlerts, Node, Ask, Categories
<1>2. Regular(GitHubUser)
  BY DEF Regular, GitHubUser, GitHubOwner, OwnerAlerts, Node, Ask, Categories
<1>3. Regular(GitHubRepo)
  BY DEF Regular, GitHubRepo, RepoAlerts, Node, SecretPosture, Workflows, GitHubLifecycle,
         Resolved, Ask, Categories
<1>4. Regular(GitLabGroup)
  BY DEF Regular, GitLabGroup, GitLabOwner, Projects, Ask, Categories
<1>5. Regular(GitLabUser)
  BY DEF Regular, GitLabUser, GitLabOwner, Projects, Ask, Categories
<1>6. Regular(GitLabRepo)
  BY DEF Regular, GitLabRepo, Workflows, Resolved, Ask, Categories
<1>. QED BY <1>1, <1>2, <1>3, <1>4, <1>5, <1>6 DEF Providers

LEMMA KnownSources == \A p \in Providers : \A q \in p.first \cup p.later : q.source \in Sources
  BY DEF Sources, Queries

LEMMA KnownClosings == \A p \in Providers : \A c \in Categories : Closings(p, c) \subseteq Closed
  BY DEF Closings, Closed, Categories

-------------------------------------------------------------------------------
(***************************************************************************)
(* Type correctness.                                                       *)
(***************************************************************************)
LEMMA Asked == TypeOK => poll \in Providers /\ left \subseteq poll.first \cup poll.later
  BY CollectAssumption DEF TypeOK

(* What an answer adds is of the right type, and nothing is forgotten.      *)
LEMMA LearnType ==
  ASSUME TypeOK, NEW q \in left, NEW R, NEW F, Learn(q, R, F)
  PROVE  /\ names' \subseteq Name /\ counted' \subseteq names' /\ posture' \subseteq Name
         /\ found' \subseteq Name \X Finding /\ resolved' \subseteq Finding \X Closed
         /\ names \subseteq names' /\ counted \subseteq counted' /\ posture \subseteq posture'
         /\ found \subseteq found' /\ resolved \subseteq resolved'
<1>1. \A r \in Repo : Called(q, r) \in Name
  BY DEF Called, TypeOK
<1>2. Names(q, R) \subseteq Name
  BY <1>1 DEF Names, Tells, Unarchived, Polled, TypeOK
<1>3. About(q) \subseteq Finding
  BY DEF About
<1>4. \A f \in Finding : Home[f] \in Repo
  BY CollectAssumption
<1>5. \A f \in Finding : state[f] # "open" => state[f] \in Closed
  BY DEF TypeOK, State
<1>6. names' \subseteq Name /\ names \subseteq names' /\ counted' \subseteq names'
      /\ counted \subseteq counted'
  BY <1>2 DEF Learn, TypeOK
<1>7. posture' \subseteq Name /\ posture \subseteq posture'
  BY <1>2 DEF Learn, TypeOK
<1>8. found' \subseteq Name \X Finding /\ found \subseteq found'
  BY <1>1, <1>3, <1>4 DEF Learn, TypeOK
<1>9. resolved' \subseteq Finding \X Closed /\ resolved \subseteq resolved'
  BY <1>3, <1>5 DEF Learn, TypeOK
<1>. QED BY <1>6, <1>7, <1>8, <1>9

(* The main sources have the say before the merge; the others have nothing  *)
(* to say of entries.                                                      *)
LEMMA LaterAddsNoEntry ==
  ASSUME TypeOK, NEW q \in left, pc = "later", NEW R, NEW F, Learn(q, R, F)
  PROVE  names' = names /\ posture' = posture /\ found' = found
<1>1. q \in poll.later /\ poll \in Providers
  BY Asked DEF TypeOK
<1>2. "open" \notin q.in /\ q.what \cap {"repository", "review_item", "posture"} = {}
  BY <1>1, ClosedLaterHolds, RegularHolds DEF ClosedLater, Regular
<1>3. {g \in About(q) \cap F : state[g] = "open"} = {}
  BY <1>2 DEF About
<1>. QED BY <1>2, <1>3 DEF Learn

LEMMA InitTyped == Init => TypeOK
<1>. SUFFICES ASSUME Init PROVE TypeOK
  OBVIOUS
<1>1. poll \in Providers
  BY CollectAssumption DEF Init, Unarchived
<1>2. \A f \in Finding : Category[f] \in Categories
  BY CollectAssumption
<1>3. 0 \in 0 .. MaxChanges /\ 0 \in 0 .. MaxFaults
  BY CollectAssumption
<1>. QED BY <1>1, <1>2, <1>3 DEF Init, TypeOK

LEMMA FaultTyped == ASSUME TypeOK, Fault PROVE faults' \in 0 .. MaxFaults
  BY CollectAssumption DEF TypeOK, Fault

LEMMA ChangeTyped == ASSUME TypeOK, Change PROVE changes' \in 0 .. MaxChanges
  BY CollectAssumption DEF TypeOK, Change

LEMMA AnswerTyped == ASSUME TypeOK, NEW q \in left, Answer(q) PROVE TypeOK'
<1>1. PICK C \in Cuts(q) : Learn(q, Repo, Finding \ C) /\ unseen' = unseen \cup C
  BY DEF Answer
<1>2. C \subseteq Finding
  BY <1>1 DEF Cuts, About
<1>3. pc = "later" => names' = names /\ posture' = posture /\ found' = found
  BY <1>1, LaterAddsNoEntry
<1>. QED BY <1>1, <1>2, <1>3, LearnType DEF Answer, TypeOK, fixed, forge, history

LEMMA FailTyped == ASSUME TypeOK, NEW q \in left, Fail(q) PROVE TypeOK'
<1>1. failed' \subseteq Sources
  BY Asked, KnownSources DEF Fail, TypeOK
<1>2. /\ names' \subseteq Name /\ counted' \subseteq names' /\ posture' \subseteq Name
      /\ found' \subseteq Name \X Finding /\ resolved' \subseteq Finding \X Closed
      /\ pc = "later" => names' = names /\ posture' = posture /\ found' = found
  <2>1. CASE "partial" \in q.how
    BY <2>1, LearnType, LaterAddsNoEntry DEF Fail
  <2>2. CASE "partial" \notin q.how
    BY <2>2 DEF Fail, TypeOK
  <2>. QED BY <2>1, <2>2
<1>3. faults' \in 0 .. MaxFaults
  BY FaultTyped DEF Fail
<1>. QED BY <1>1, <1>2, <1>3 DEF Fail, TypeOK, fixed, forge, history

LEMMA RefuseTyped == ASSUME TypeOK, NEW q \in left, Refuse(q) PROVE TypeOK'
<1>1. PICK R \in (SUBSET Polled) \ {{}} :
        /\ Learn(q, Repo, {f \in Finding : Home[f] \notin R})
        /\ unseen' = unseen \cup
             {f \in Finding : Home[f] \in R /\ Category[f] \in q.what}
  BY DEF Refuse
<1>2. pc = "later" => names' = names /\ posture' = posture /\ found' = found
  BY <1>1, LaterAddsNoEntry
<1>3. faults' \in 0 .. MaxFaults
  BY FaultTyped DEF Refuse
<1>. QED BY <1>1, <1>2, <1>3, LearnType DEF Refuse, TypeOK, fixed, forge, history

LEMMA AssembleTyped == ASSUME TypeOK, Assemble PROVE TypeOK'
<1>1. Merged \subseteq Name /\ names \cup posture \cup {x[1] : x \in found} \subseteq Merged
  BY DEF Merged, TypeOK
<1>. QED BY <1>1 DEF Assemble, TypeOK, fixed, forge, history

LEMMA ForgeTyped == ASSUME TypeOK, Forge PROVE TypeOK'
<1>1. CASE \E f \in Finding, s \in Closed : Close(f, s)
  <2>1. PICK f \in Finding, s \in Closed : Close(f, s)
    BY <1>1
  <2>2. changes' \in 0 .. MaxChanges
    BY <2>1, ChangeTyped DEF Close
  <2>3. state' \in [Finding -> State] /\ aged' \subseteq {g \in Finding : state'[g] # "open"}
    BY <2>1 DEF Close, TypeOK, State
  <2>. QED BY <2>1, <2>2, <2>3 DEF Close, TypeOK, fixed, told
<1>2. CASE \E f \in Finding : Reopen(f)
  <2>1. PICK f \in Finding : Reopen(f)
    BY <1>2
  <2>2. changes' \in 0 .. MaxChanges
    BY <2>1, ChangeTyped DEF Reopen
  <2>3. state' \in [Finding -> State] /\ aged' \subseteq {g \in Finding : state'[g] # "open"}
    BY <2>1 DEF Reopen, TypeOK, State
  <2>. QED BY <2>1, <2>2, <2>3 DEF Reopen, TypeOK, fixed, told
<1>3. CASE \E f \in Finding : Age(f)
  <2>1. PICK f \in Finding : Age(f)
    BY <1>3
  <2>2. changes' \in 0 .. MaxChanges
    BY <2>1, ChangeTyped DEF Age
  <2>. QED BY <2>1, <2>2 DEF Age, TypeOK, fixed, told, history
<1>4. CASE \E r \in Repo, n \in Name : Rename(r, n)
  <2>1. PICK r \in Repo, n \in Name : Rename(r, n)
    BY <1>4
  <2>2. changes' \in 0 .. MaxChanges
    BY <2>1, ChangeTyped DEF Rename
  <2>3. name' \in [Repo -> Name]
    BY <2>1 DEF Rename, TypeOK
  <2>. QED BY <2>1, <2>2, <2>3 DEF Rename, TypeOK, fixed, told
<1>. QED BY <1>1, <1>2, <1>3, <1>4 DEF Forge

LEMMA StutterTyped == ASSUME TypeOK, UNCHANGED vars PROVE TypeOK'
  BY DEF TypeOK, vars, fixed, forge, told, history

LEMMA TypedStep == ASSUME TypeOK, [Next]_vars PROVE TypeOK'
<1>1. CASE \E q \in left : Answer(q) \/ Fail(q) \/ Refuse(q)
  BY <1>1, AnswerTyped, FailTyped, RefuseTyped
<1>2. CASE Assemble
  BY <1>2, AssembleTyped
<1>3. CASE Forge
  BY <1>3, ForgeTyped
<1>4. CASE UNCHANGED vars
  BY <1>4, StutterTyped
<1>. QED BY <1>1, <1>2, <1>3, <1>4 DEF Next, Provider

(* The providers keep their types through every answer, failure, refusal    *)
(* and merge, and when the snapshot is merged every posture and finding has *)
(* an entry it belongs to (mergeRepos).                                    *)
THEOREM TypeCorrect == Spec => []TypeOK
<1>1. Init => TypeOK
  BY InitTyped
<1>2. TypeOK /\ [Next]_vars => TypeOK'
  BY TypedStep
<1>. QED BY <1>1, <1>2, PTL DEF Spec

-------------------------------------------------------------------------------
(***************************************************************************)
(* Findings are counted.  A finding that stays open is found, or a query    *)
(* for open ones is still to come; one that is closed has been found, is     *)
(* reported closed, or the query for its way of being closed is to come.    *)
(* Closing it between the two leaves it found; that is why what is open has *)
(* to be asked first.                                                      *)
(***************************************************************************)
Pending(f, s) == \E q \in left : Category[f] \in q.what /\ s \in q.in

OpenIsSeen(f) ==
  pc # "failed" /\ ~ Unread(f) /\ f \notin reopened /\ state[f] = "open"
    => f \in Found \/ Pending(f, "open")

ClosedIsSeen(f) ==
  pc # "failed" /\ ~ Unread(f) /\ f \notin reopened \cup aged /\ state[f] # "open" /\ poll.lifecycle
    => \/ f \in Found \/ <<f, state[f]>> \in resolved
       \/ pc = "first" \/ Pending(f, state[f])

SeenAsItWas(f) ==
  /\ f \in Found => state[f] = "open" \/ f \in closed
  /\ \A s \in Closed : <<f, s>> \in resolved => state[f] = s \/ f \in reopened

ClosedInItsWay(f) == state[f] \in Closings(poll, Category[f]) \cup {"open"}

IsPolled(f) == Home[f] \in Polled

Seen(f) ==
  /\ IsPolled(f) => OpenIsSeen(f)
  /\ IsPolled(f) => ClosedIsSeen(f)
  /\ SeenAsItWas(f)
  /\ ClosedInItsWay(f)

Inv == TypeOK /\ \A f \in Finding : Seen(f)

LEMMA Categorized == \A f \in Finding : Category[f] \in Categories \ {"container"} /\ Home[f] \in Repo
  BY CollectAssumption

LEMMA InitSeen == ASSUME Init, NEW f \in Finding PROVE Seen(f)
<1>1. poll \in Providers
  BY CollectAssumption DEF Init
<1>2. Unread(f) \/ Pending(f, "open")
  BY <1>1, Categorized, OpenFirstHolds DEF Init, Unread, Pending, OpenFirst
<1>3. Found = {}
  BY DEF Init, Found
<1>4. OpenIsSeen(f)
  BY <1>2 DEF OpenIsSeen
<1>5. ClosedIsSeen(f)
  BY DEF Init, ClosedIsSeen
<1>6. SeenAsItWas(f) /\ ClosedInItsWay(f)
  BY <1>3 DEF Init, SeenAsItWas, ClosedInItsWay
<1>. QED BY <1>4, <1>5, <1>6 DEF Seen

(* What a reading adds is as the findings are.                             *)
LEMMA LearnSeen ==
  ASSUME Inv, NEW q \in left, NEW R, NEW F, Learn(q, R, F), UNCHANGED <<fixed, forge, history>>,
         NEW f \in Finding
  PROVE  SeenAsItWas(f)' /\ ClosedInItsWay(f)' /\ Found \subseteq Found' /\ resolved \subseteq resolved'
<1>1. found \subseteq found' /\ resolved \subseteq resolved'
  BY LearnType DEF Inv
<1>2. f \in Found' => f \in Found \/ state[f] = "open"
  BY DEF Learn, Found
<1>3. \A s \in Closed : <<f, s>> \in resolved' => <<f, s>> \in resolved \/ state[f] = s
  BY DEF Learn
<1>4. SeenAsItWas(f) /\ ClosedInItsWay(f)
  BY DEF Inv, Seen
<1>. QED BY <1>1, <1>2, <1>3, <1>4 DEF SeenAsItWas, ClosedInItsWay, Found, fixed, forge, history

(* A finding an answer covers and shows is in it.                          *)
LEMMA Told ==
  ASSUME Inv, NEW q \in left, NEW R, NEW F, Learn(q, R, F), NEW f \in Finding \cap F,
         IsPolled(f), Category[f] \in q.what, state[f] \in q.in
  PROVE  /\ state[f] = "open" => f \in Found'
         /\ state[f] # "open" /\ f \notin aged => <<f, state[f]>> \in resolved'
<1>1. f \in About(q) \cap F
  BY DEF About, IsPolled
<1>2. state[f] = "open" => <<Called(q, Home[f]), f>> \in found'
  BY <1>1 DEF Learn
<1>3. state[f] = "open" => f \in Found'
  BY <1>2 DEF Found
<1>4. state[f] # "open" /\ f \notin aged => <<f, state[f]>> \in resolved'
  BY <1>1 DEF Learn
<1>. QED BY <1>3, <1>4

LEMMA UnreadStays ==
  ASSUME NEW f, unseen \subseteq unseen', failed \subseteq failed', poll' = poll, Unread(f)
  PROVE  Unread(f)'
<1>1. CASE f \in unseen
  BY <1>1 DEF Unread
<1>2. CASE \E q \in poll.first \cup poll.later : Category[f] \in q.what /\ q.source \in failed
  BY <1>2 DEF Unread
<1>3. CASE \A q \in poll.first : Category[f] \notin q.what
  BY <1>3 DEF Unread
<1>. QED BY <1>1, <1>2, <1>3 DEF Unread

LEMMA AnswerSeen == ASSUME Inv, NEW q \in left, Answer(q), NEW f \in Finding PROVE Seen(f)'
<1>1. PICK C \in Cuts(q) : Learn(q, Repo, Finding \ C) /\ unseen' = unseen \cup C
  BY DEF Answer
<1>2. UNCHANGED <<fixed, forge, pc, failed, history>> /\ left' = left \ {q}
  BY DEF Answer
<1>3. SeenAsItWas(f)' /\ ClosedInItsWay(f)' /\ Found \subseteq Found' /\ resolved \subseteq resolved'
  BY <1>1, <1>2, LearnSeen
<1>4. ~ Unread(f)' => ~ Unread(f) /\ f \notin C
  BY <1>1, <1>2, UnreadStays DEF Unread, fixed
<1>5. IsPolled(f)' = IsPolled(f)
  BY <1>2 DEF IsPolled, Polled, fixed
<1>6. ASSUME NEW s, Pending(f, s), ~ Pending(f, s)' PROVE Category[f] \in q.what /\ s \in q.in
  BY <1>2, <1>6 DEF Pending
<1>7. Seen(f)
  BY DEF Inv
<1>8. ASSUME IsPolled(f) PROVE OpenIsSeen(f)'
  <2>. SUFFICES ASSUME pc # "failed", ~ Unread(f)', f \notin reopened, state[f] = "open",
                       ~ Pending(f, "open")'
                PROVE  f \in Found'
    BY <1>2 DEF OpenIsSeen, forge, history
  <2>1. f \in Found \/ Pending(f, "open")
    BY <1>4, <1>7, <1>8 DEF Seen, OpenIsSeen
  <2>2. CASE Pending(f, "open")
    BY <1>1, <1>4, <1>6, <1>8, <2>2, Told
  <2>. QED BY <1>3, <2>1, <2>2
<1>9. ASSUME IsPolled(f) PROVE ClosedIsSeen(f)'
  <2>. SUFFICES ASSUME pc' # "failed", ~ Unread(f)', f \notin reopened' \cup aged',
                       state'[f] # "open", poll'.lifecycle, pc' # "first",
                       ~ Pending(f, state[f])'
                PROVE  f \in Found' \/ <<f, state'[f]>> \in resolved'
    BY DEF ClosedIsSeen
  <2>1. /\ pc # "failed" /\ f \notin reopened \cup aged /\ state[f] # "open" /\ poll.lifecycle
        /\ pc # "first" /\ state' = state
    BY <1>2 DEF fixed, forge, history
  <2>2. Pending(f, state[f]) /\ ~ Pending(f, state[f])' => Category[f] \in q.what /\ state[f] \in q.in
    BY <1>2, <2>1 DEF Pending
  <2>3. f \in Found \/ <<f, state[f]>> \in resolved \/ Pending(f, state[f])
    BY <1>4, <1>7, <1>9, <2>1 DEF Seen, ClosedIsSeen
  <2>4. CASE Pending(f, state[f])
    <3>1. Category[f] \in q.what /\ state[f] \in q.in
      BY <2>2, <2>4
    <3>2. f \in Finding \cap (Finding \ C)
      BY <1>4
    <3>3. <<f, state[f]>> \in resolved'
      BY <1>1, <1>9, <2>1, <3>1, <3>2, Told
    <3>. QED BY <2>1, <3>3
  <2>. QED BY <1>3, <2>1, <2>3, <2>4
<1>. QED BY <1>3, <1>5, <1>8, <1>9 DEF Seen

(* A query that is dropped without an answer is of a source that failed.    *)
LEMMA DroppedIsUnread ==
  ASSUME Inv, NEW q \in left, Fail(q), NEW f \in Finding, NEW p \in left \ left', Category[f] \in p.what
  PROVE  Unread(f)'
<1>1. p.source = q.source /\ poll' = poll
  BY DEF Fail, fixed
<1>2. poll \in Providers /\ p \in poll.first \cup poll.later
  BY Asked DEF Inv
<1>3. q.source # "secret_posture"
  BY <1>1, <1>2, RegularHolds, Categorized DEF Regular
<1>4. q.source \in failed'
  BY <1>3 DEF Fail
<1>. QED BY <1>1, <1>2, <1>4 DEF Unread

(* What was read of resolved findings is dropped when a query for them      *)
(* fails.                                                                  *)
LEMMA LifecycleFails ==
  ASSUME Inv, NEW q \in left, Fail(q), q.source = "lifecycle", poll.lifecycle, NEW f \in Finding,
         state[f] # "open"
  PROVE  Unread(f)'
<1>1. poll \in Providers /\ Category[f] \in Categories \ {"container"}
      /\ state[f] \in Closings(poll, Category[f])
  BY Asked, Categorized DEF Inv, Seen, ClosedInItsWay
<1>2. PICK p \in poll.later : p.source = "lifecycle" /\ Category[f] \in p.what
  BY <1>1, CoversHolds DEF Covers
<1>3. "lifecycle" \in failed' /\ poll' = poll
  BY DEF Fail, fixed
<1>. QED BY <1>2, <1>3 DEF Unread

LEMMA FailSeen == ASSUME Inv, NEW q \in left, Fail(q), NEW f \in Finding PROVE Seen(f)'
<1>1. UNCHANGED <<fixed, forge, pc, unseen, history>> /\ failed \subseteq failed'
  BY DEF Fail
<1>2. /\ SeenAsItWas(f)' /\ ClosedInItsWay(f)' /\ Found \subseteq Found'
      /\ q.source # "lifecycle" => resolved \subseteq resolved'
  <2>1. CASE "partial" \in q.how
    BY <1>1, <2>1, LearnSeen DEF Fail
  <2>2. CASE "partial" \notin q.how
    <3>1. found' = found /\ (resolved' = resolved \/ resolved' = {})
          /\ (q.source # "lifecycle" => resolved' = resolved)
      BY <2>2 DEF Fail
    <3>2. SeenAsItWas(f) /\ ClosedInItsWay(f)
      BY DEF Inv, Seen
    <3>. QED BY <1>1, <3>1, <3>2 DEF SeenAsItWas, ClosedInItsWay, Found, fixed, forge, history
  <2>. QED BY <2>1, <2>2
<1>3. ~ Unread(f)' => ~ Unread(f)
  BY <1>1, UnreadStays DEF fixed
<1>4. IsPolled(f)' = IsPolled(f)
  BY <1>1 DEF IsPolled, Polled, fixed
<1>5. Seen(f)
  BY DEF Inv
<1>6. ASSUME IsPolled(f) PROVE OpenIsSeen(f)'
  <2>. SUFFICES ASSUME pc' # "failed", ~ Unread(f)', f \notin reopened', state'[f] = "open",
                       ~ Pending(f, "open")'
                PROVE  f \in Found'
    BY DEF OpenIsSeen
  <2>1. f \in Found \/ Pending(f, "open")
    BY <1>1, <1>3, <1>5, <1>6 DEF Seen, OpenIsSeen, forge, history
  <2>2. ~ Pending(f, "open")
    BY DroppedIsUnread DEF Pending
  <2>. QED BY <1>2, <2>1, <2>2
<1>7. ASSUME IsPolled(f) PROVE ClosedIsSeen(f)'
  <2>. SUFFICES ASSUME pc' # "failed", ~ Unread(f)', f \notin reopened' \cup aged',
                       state'[f] # "open", poll'.lifecycle, pc' # "first",
                       ~ Pending(f, state[f])'
                PROVE  f \in Found' \/ <<f, state'[f]>> \in resolved'
    BY DEF ClosedIsSeen
  <2>1. /\ pc # "failed" /\ f \notin reopened \cup aged /\ state[f] # "open" /\ poll.lifecycle
        /\ pc # "first" /\ state' = state
    BY <1>1 DEF fixed, forge, history
  <2>2. q.source # "lifecycle"
    BY <2>1, LifecycleFails
  <2>3. f \in Found \/ <<f, state[f]>> \in resolved \/ Pending(f, state[f])
    BY <1>3, <1>5, <1>7, <2>1 DEF Seen, ClosedIsSeen
  <2>4. ~ Pending(f, state[f])
    <3>1. \A p \in left' : ~ (Category[f] \in p.what /\ state[f] \in p.in)
      BY <2>1 DEF Pending
    <3>. QED BY <3>1, DroppedIsUnread DEF Pending
  <2>. QED BY <1>2, <2>1, <2>2, <2>3, <2>4
<1>. QED BY <1>2, <1>4, <1>6, <1>7 DEF Seen

(* A refusal leaves the findings it is about unseen, and drops the queries  *)
(* for the same findings: an owner has no others.                          *)
LEMMA RefusedIsUnseen ==
  ASSUME Inv, NEW q \in left, NEW R \in (SUBSET Polled) \ {{}}, NEW f \in Finding, IsPolled(f),
         unseen' = unseen \cup {g \in Finding : Home[g] \in R /\ Category[g] \in q.what},
         f \notin unseen', Category[f] \in q.what
  PROVE  ~ poll.single /\ Home[f] \notin R
<1>1. Home[f] \notin R
  OBVIOUS
<1>2. ASSUME poll.single PROVE Home[f] \in R
  <2>1. Polled = {target}
    BY <1>2 DEF Polled
  <2>2. Home[f] = target
    BY <2>1 DEF IsPolled
  <2>3. PICK r \in R : r \in Polled
    <3>1. R \subseteq Polled /\ R # {}
      OBVIOUS
    <3>2. \E r : r \in R
      BY <3>1
    <3>. QED BY <3>1, <3>2
  <2>. QED BY <2>1, <2>2, <2>3
<1>. QED BY <1>1, <1>2

LEMMA RefuseSeen == ASSUME Inv, NEW q \in left, Refuse(q), NEW f \in Finding PROVE Seen(f)'
<1>1. PICK R \in (SUBSET Polled) \ {{}} :
        /\ Learn(q, Repo, {g \in Finding : Home[g] \notin R})
        /\ unseen' = unseen \cup
             {g \in Finding : Home[g] \in R /\ Category[g] \in q.what}
  BY DEF Refuse
<1>2. UNCHANGED <<fixed, forge, pc, failed, history>>
  BY DEF Refuse
<1>3. SeenAsItWas(f)' /\ ClosedInItsWay(f)' /\ Found \subseteq Found' /\ resolved \subseteq resolved'
  BY <1>1, <1>2, LearnSeen
<1>4. ~ Unread(f)' => ~ Unread(f) /\ f \notin unseen'
  BY <1>1, <1>2, UnreadStays DEF Unread, fixed
<1>5. IsPolled(f)' = IsPolled(f)
  BY <1>2 DEF IsPolled, Polled, fixed
<1>6. Seen(f)
  BY DEF Inv
<1>7. ASSUME NEW p \in left \ left', Category[f] \in p.what, IsPolled(f), ~ Unread(f)'
      PROVE  p = q /\ Home[f] \notin R
  <2>1. p.source = q.source /\ p.what = q.what
    BY DEF Refuse
  <2>2. ~ poll.single /\ Home[f] \notin R
    BY <1>1, <1>4, <1>7, <2>1, RefusedIsUnseen
  <2>3. poll \in Providers /\ {p, q} \subseteq poll.first \cup poll.later
    BY Asked DEF Inv
  <2>. QED BY <2>1, <2>2, <2>3, RegularHolds DEF Regular
<1>8. ASSUME IsPolled(f) PROVE OpenIsSeen(f)'
  <2>. SUFFICES ASSUME pc' # "failed", ~ Unread(f)', f \notin reopened', state'[f] = "open",
                       ~ Pending(f, "open")'
                PROVE  f \in Found'
    BY DEF OpenIsSeen
  <2>1. state[f] = "open" /\ (f \in Found \/ Pending(f, "open"))
    BY <1>2, <1>4, <1>6, <1>8 DEF Seen, OpenIsSeen, forge, history
  <2>2. CASE Pending(f, "open")
    <3>1. PICK p \in left \ left' : Category[f] \in p.what /\ "open" \in p.in
      BY <2>2 DEF Pending
    <3>2. p = q /\ Home[f] \notin R
      BY <1>7, <1>8, <3>1
    <3>3. f \in Finding \cap {g \in Finding : Home[g] \notin R} /\ state[f] \in q.in
      BY <2>1, <3>1, <3>2
    <3>. QED BY <1>1, <1>8, <2>1, <3>1, <3>2, <3>3, Told
  <2>. QED BY <1>3, <2>1, <2>2
<1>9. ASSUME IsPolled(f) PROVE ClosedIsSeen(f)'
  <2>. SUFFICES ASSUME pc' # "failed", ~ Unread(f)', f \notin reopened' \cup aged',
                       state'[f] # "open", poll'.lifecycle, pc' # "first",
                       ~ Pending(f, state[f])'
                PROVE  f \in Found' \/ <<f, state'[f]>> \in resolved'
    BY DEF ClosedIsSeen
  <2>1. /\ pc # "failed" /\ f \notin reopened \cup aged /\ state[f] # "open" /\ poll.lifecycle
        /\ pc # "first" /\ state' = state
    BY <1>2 DEF fixed, forge, history
  <2>2. f \in Found \/ <<f, state[f]>> \in resolved \/ Pending(f, state[f])
    BY <1>4, <1>6, <1>9, <2>1 DEF Seen, ClosedIsSeen
  <2>3. CASE Pending(f, state[f])
    <3>1. PICK p \in left \ left' : Category[f] \in p.what /\ state[f] \in p.in
      BY <2>1, <2>3 DEF Pending
    <3>2. p = q /\ Home[f] \notin R
      BY <1>7, <1>9, <3>1
    <3>3. <<f, state[f]>> \in resolved'
      BY <1>1, <1>9, <2>1, <3>1, <3>2, Told
    <3>. QED BY <2>1, <3>3
  <2>. QED BY <1>3, <2>1, <2>2, <2>3
<1>. QED BY <1>3, <1>5, <1>8, <1>9 DEF Seen

(* After the merge the supplementary queries are to come, and one of them    *)
(* is for the way a finding was closed.                                    *)
LEMMA AssembleSeen == ASSUME Inv, Assemble, NEW f \in Finding PROVE Seen(f)'
<1>1. /\ UNCHANGED <<fixed, forge, failed, counted, posture, found, resolved, unseen, history>>
      /\ pc = "first" /\ left = {}
  BY DEF Assemble
<1>2. Seen(f)
  BY DEF Inv
<1>3. SeenAsItWas(f)' /\ ClosedInItsWay(f)' /\ Found' = Found
  BY <1>1, <1>2 DEF Seen, SeenAsItWas, ClosedInItsWay, Found, fixed, forge, history
<1>4. Unread(f)' = Unread(f) /\ IsPolled(f)' = IsPolled(f)
  BY <1>1 DEF Unread, IsPolled, Polled, fixed
<1>5. ASSUME IsPolled(f) PROVE OpenIsSeen(f)'
  <2>. SUFFICES ASSUME pc' # "failed", ~ Unread(f)', f \notin reopened', state'[f] = "open"
                PROVE  f \in Found'
    BY DEF OpenIsSeen
  <2>1. f \in Found \/ Pending(f, "open")
    BY <1>1, <1>2, <1>4, <1>5 DEF Seen, OpenIsSeen, forge, history
  <2>. QED BY <1>1, <1>3, <2>1 DEF Pending
<1>6. ASSUME IsPolled(f) PROVE ClosedIsSeen(f)'
  <2>. SUFFICES ASSUME pc' # "failed", state'[f] # "open", poll'.lifecycle
                PROVE  Pending(f, state[f])'
    BY DEF ClosedIsSeen
  <2>1. state[f] # "open" /\ poll.lifecycle /\ state' = state
    BY <1>1 DEF fixed, forge
  <2>2. poll \in Providers /\ Category[f] \in Categories \ {"container"}
        /\ state[f] \in Closings(poll, Category[f])
    BY <1>2, <2>1, Asked, Categorized DEF Inv, Seen, ClosedInItsWay
  <2>3. PICK q \in poll.later : q.source = "lifecycle" /\ Category[f] \in q.what /\ state[f] \in q.in
    BY <2>1, <2>2, CoversHolds DEF Covers
  <2>4. left' = {p \in poll.later : p.source = "secret_posture" => FirstHasPosture}
    BY DEF Assemble
  <2>5. q \in left'
    BY <2>3, <2>4
  <2>. QED BY <2>1, <2>3, <2>5 DEF Pending
<1>. QED BY <1>3, <1>4, <1>5, <1>6 DEF Seen

(* The forge moves a finding, and no other.                                *)
LEMMA ForgeSeen == ASSUME Inv, Forge, NEW f \in Finding PROVE Seen(f)'
<1>. DEFINE calm == <<fixed, pc, left, failed, told, unseen>>
<1>1. Seen(f) /\ TypeOK
  BY DEF Inv
<1>2. ASSUME UNCHANGED calm
      PROVE  /\ Unread(f)' = Unread(f) /\ IsPolled(f)' = IsPolled(f) /\ Found' = Found
             /\ \A s : Pending(f, s)' <=> Pending(f, s)
  BY <1>2 DEF Unread, IsPolled, Polled, Found, Pending, fixed, told
<1>3. ASSUME NEW g \in Finding, NEW s \in Closed, Close(g, s), g = f PROVE Seen(f)'
  <2>1. /\ UNCHANGED calm /\ UNCHANGED <<aged, reopened>> /\ state[f] = "open" /\ state'[f] = s
        /\ f \in closed' /\ s \in Closings(poll, Category[f]) /\ s # "open"
        /\ pc \in {"first", "later", "failed"}
    <3>1. UNCHANGED calm /\ UNCHANGED <<aged, reopened>>
      BY <1>3 DEF Close
    <3>2. state[f] = "open" /\ s \in Closings(poll, Category[f]) /\ closed' = closed \cup {f}
      BY <1>3 DEF Close
    <3>3. state' = [state EXCEPT ![f] = s] /\ state \in [Finding -> State]
      BY <1>1, <1>3 DEF Close, TypeOK
    <3>4. s # "open"
      BY DEF Closed
    <3>5. pc \in {"first", "later", "failed"}
      BY <1>1 DEF TypeOK
    <3>. QED BY <3>1, <3>2, <3>3, <3>4, <3>5
  <2>2. ASSUME IsPolled(f), ~ Unread(f), f \notin reopened, pc = "later" PROVE f \in Found
    <3>1. f \in Found \/ Pending(f, "open")
      BY <1>1, <2>1, <2>2 DEF Seen, OpenIsSeen
    <3>2. poll \in Providers /\ left \subseteq poll.later
      BY <1>1, <2>2, Asked DEF TypeOK
    <3>3. ~ Pending(f, "open")
      BY <3>2, ClosedLaterHolds DEF Pending, ClosedLater
    <3>. QED BY <3>1, <3>3
  <2>3. IsPolled(f) => ClosedIsSeen(f)'
    BY <1>2, <2>1, <2>2 DEF ClosedIsSeen
  <2>4. OpenIsSeen(f)'
    BY <2>1 DEF OpenIsSeen
  <2>5. SeenAsItWas(f)'
    <3>1. \A t \in Closed : <<f, t>> \in resolved => f \in reopened
      BY <1>1, <2>1 DEF Seen, SeenAsItWas, Closed
    <3>. QED BY <2>1, <3>1 DEF SeenAsItWas, told
  <2>6. ClosedInItsWay(f)'
    BY <2>1 DEF ClosedInItsWay, fixed
  <2>. QED BY <1>2, <2>1, <2>3, <2>4, <2>5, <2>6 DEF Seen
<1>4. ASSUME NEW g \in Finding, Reopen(g), g = f PROVE Seen(f)'
  <2>1. UNCHANGED calm /\ state'[f] = "open" /\ f \in reopened'
    BY <1>1, <1>4 DEF Reopen, TypeOK
  <2>. QED BY <2>1 DEF Seen, OpenIsSeen, ClosedIsSeen, SeenAsItWas, ClosedInItsWay
<1>5. ASSUME NEW g \in Finding, Age(g), g = f PROVE Seen(f)'
  <2>1. UNCHANGED calm /\ UNCHANGED <<state, closed, reopened>> /\ f \in aged' /\ state[f] # "open"
    BY <1>5 DEF Age, history
  <2>2. OpenIsSeen(f)' /\ ClosedIsSeen(f)'
    BY <2>1 DEF OpenIsSeen, ClosedIsSeen
  <2>3. SeenAsItWas(f)' /\ ClosedInItsWay(f)'
    BY <1>1, <1>2, <2>1 DEF Seen, SeenAsItWas, ClosedInItsWay, told, fixed
  <2>. QED BY <2>2, <2>3 DEF Seen
<1>6. ASSUME UNCHANGED calm, state'[f] = state[f], f \in aged <=> f \in aged',
             f \in closed <=> f \in closed', f \in reopened <=> f \in reopened'
      PROVE  Seen(f)'
  <2>1. pc' = pc /\ poll' = poll /\ resolved' = resolved
    BY <1>6 DEF fixed, told
  <2>2. IsPolled(f)' => OpenIsSeen(f)'
    BY <1>1, <1>2, <1>6, <2>1 DEF Seen, OpenIsSeen
  <2>3. IsPolled(f)' => ClosedIsSeen(f)'
    <3>1. Pending(f, state[f])' <=> Pending(f, state[f])
      BY <1>6 DEF Pending
    <3>. QED BY <1>1, <1>2, <1>6, <2>1, <3>1 DEF Seen, ClosedIsSeen
  <2>4. SeenAsItWas(f)' /\ ClosedInItsWay(f)'
    BY <1>1, <1>2, <1>6, <2>1 DEF Seen, SeenAsItWas, ClosedInItsWay
  <2>. QED BY <2>2, <2>3, <2>4 DEF Seen
<1>7. CASE \E g \in Finding, s \in Closed : Close(g, s)
  <2>1. PICK g \in Finding, s \in Closed : Close(g, s)
    BY <1>7
  <2>2. CASE g # f
    BY <1>1, <1>6, <2>1, <2>2 DEF Close, TypeOK
  <2>. QED BY <1>3, <2>1, <2>2
<1>8. CASE \E g \in Finding : Reopen(g)
  <2>1. PICK g \in Finding : Reopen(g)
    BY <1>8
  <2>2. CASE g # f
    BY <1>1, <1>6, <2>1, <2>2 DEF Reopen, TypeOK
  <2>. QED BY <1>4, <2>1, <2>2
<1>9. CASE \E g \in Finding : Age(g)
  <2>1. PICK g \in Finding : Age(g)
    BY <1>9
  <2>2. CASE g # f
    BY <1>1, <1>6, <2>1, <2>2 DEF Age, TypeOK, history
  <2>. QED BY <1>5, <2>1, <2>2
<1>10. CASE \E r \in Repo, n \in Name : Rename(r, n)
  BY <1>6, <1>10 DEF Rename
<1>. QED BY <1>7, <1>8, <1>9, <1>10 DEF Forge

LEMMA StutterSeen == ASSUME Inv, UNCHANGED vars, NEW f \in Finding PROVE Seen(f)'
<1>1. Seen(f)
  BY DEF Inv
<1>. QED BY <1>1 DEF Seen, OpenIsSeen, ClosedIsSeen, SeenAsItWas, ClosedInItsWay, Found, Pending,
            Unread, IsPolled, Polled, vars, fixed, forge, told, history

LEMMA SeenIsCounted == Inv => FindingsAreCounted
<1>. SUFFICES ASSUME Inv, Finished, NEW f \in Finding, Home[f] \in Polled
              PROVE  /\ \/ Unread(f) \/ f \in reopened \cup aged \/ ByState(f) # {}
                        \/ state[f] # "open" /\ ~ poll.lifecycle
                     /\ f \notin closed \cup reopened => ByState(f) \subseteq {state[f]}
  BY DEF FindingsAreCounted
<1>1. Seen(f) /\ TypeOK /\ IsPolled(f) /\ pc = "later" /\ left = {}
  BY DEF Inv, IsPolled, Finished
<1>2. \A s : ~ Pending(f, s)
  BY <1>1 DEF Pending
<1>3. state[f] \in Closed \cup {"open"}
  BY <1>1 DEF TypeOK, State
<1>4. ASSUME ~ Unread(f), f \notin reopened \cup aged, ~ (state[f] # "open" /\ ~ poll.lifecycle)
      PROVE  ByState(f) # {}
  <2>1. CASE state[f] = "open"
    BY <1>1, <1>2, <1>4, <2>1 DEF Seen, OpenIsSeen, ByState
  <2>2. CASE state[f] # "open"
    <3>1. ~ Pending(f, state[f])
      BY <1>1 DEF Pending
    <3>2. f \in Found \/ <<f, state[f]>> \in resolved
      BY <1>1, <1>4, <2>2, <3>1 DEF Seen, ClosedIsSeen
    <3>. QED BY <1>3, <2>2, <3>2 DEF ByState
  <2>. QED BY <2>1, <2>2
<1>5. ASSUME f \notin closed \cup reopened PROVE ByState(f) \subseteq {state[f]}
  BY <1>1, <1>5 DEF Seen, SeenAsItWas, ByState
<1>. QED BY <1>4, <1>5

(* However many findings there are, and whatever is closed, reopened or     *)
(* renamed during the poll and fails of it: a finding that was shown and    *)
(* not reopened is counted, and one that was left alone is counted as it is *)
(* (SnapshotRepo, Snapshot, observeSnapshot).                              *)
THEOREM Counted == Spec => []FindingsAreCounted
<1>1. Init => Inv
  BY InitTyped, InitSeen DEF Inv
<1>2. Inv /\ [Next]_vars => Inv'
  <2>. SUFFICES ASSUME Inv, [Next]_vars PROVE Inv'
    OBVIOUS
  <2>1. TypeOK'
    BY TypedStep DEF Inv
  <2>2. ASSUME NEW f \in Finding PROVE Seen(f)'
    <3>1. CASE \E q \in left : Answer(q) \/ Fail(q) \/ Refuse(q)
      BY <3>1, AnswerSeen, FailSeen, RefuseSeen
    <3>2. CASE Assemble
      BY <3>2, AssembleSeen
    <3>3. CASE Forge
      BY <3>3, ForgeSeen
    <3>4. CASE UNCHANGED vars
      BY <3>4, StutterSeen
    <3>. QED BY <3>1, <3>2, <3>3, <3>4 DEF Next, Provider
  <2>. QED BY <2>1, <2>2 DEF Inv
<1>3. Inv => FindingsAreCounted
  BY SeenIsCounted
<1>. QED BY <1>1, <1>2, <1>3, PTL DEF Spec
-------------------------------------------------------------------------------
(***************************************************************************)
(* Zeros are explained.                                                    *)
(***************************************************************************)
Lists(q) == "repository" \in q.what
Counts(q) == "review_item" \in q.what

(* Repositories are listed and counted by the source whose failure explains *)
(* a zero, which no refusal ends; what is counted is listed before, or by   *)
(* the same query; and what is listed under the name that was asked for is   *)
(* the one repository of the poll.                                         *)
OwnSource(p) ==
  /\ \A q \in p.first : Lists(q) \/ Counts(q) => q.source = p.counts /\ "tolerant" \notin q.how
  /\ p.counts # "secret_posture"

ListedBefore(p) ==
  \A q, l \in p.first : Counts(q) /\ ~ Lists(q) /\ Lists(l) => l.at \in Nat /\ q.at \in Nat /\ l.at < q.at

NamedOrSingle(p) == \A q \in p.first : Lists(q) /\ "named" \notin q.how => p.single

ListsAndCounts(p) ==
  /\ \E q \in p.first : Lists(q)
  /\ \E q \in p.first : Counts(q)

CountedBySource(p) == OwnSource(p) /\ ListedBefore(p) /\ NamedOrSingle(p) /\ ListsAndCounts(p)

LEMMA OwnSourceHolds == \A p \in Providers : OwnSource(p)
<1>. USE DEF OwnSource, Lists, Counts, Ask, Categories
<1>1. OwnSource(GitHubOrg)
  BY DEF GitHubOrg, GitHubOwner, OwnerAlerts, Node
<1>2. OwnSource(GitHubUser)
  BY DEF GitHubUser, GitHubOwner, OwnerAlerts, Node
<1>3. OwnSource(GitHubRepo)
  BY DEF GitHubRepo, RepoAlerts, Node
<1>4. OwnSource(GitLabGroup)
  BY DEF GitLabGroup, GitLabOwner, Projects
<1>5. OwnSource(GitLabUser)
  BY DEF GitLabUser, GitLabOwner, Projects
<1>6. OwnSource(GitLabRepo)
  BY DEF GitLabRepo
<1>. QED BY <1>1, <1>2, <1>3, <1>4, <1>5, <1>6 DEF Providers

LEMMA ListedBeforeHolds == \A p \in Providers : ListedBefore(p)
<1>. USE DEF ListedBefore, Lists, Counts, Ask, Categories
<1>1. ListedBefore(GitHubOrg)
  BY DEF GitHubOrg, GitHubOwner, OwnerAlerts, Node
<1>2. ListedBefore(GitHubUser)
  BY DEF GitHubUser, GitHubOwner, OwnerAlerts, Node
<1>3. ListedBefore(GitHubRepo)
  BY DEF GitHubRepo, RepoAlerts, Node
<1>4. ListedBefore(GitLabGroup)
  BY DEF GitLabGroup, GitLabOwner, Projects
<1>5. ListedBefore(GitLabUser)
  BY DEF GitLabUser, GitLabOwner, Projects
<1>6. ListedBefore(GitLabRepo)
  BY DEF GitLabRepo
<1>. QED BY <1>1, <1>2, <1>3, <1>4, <1>5, <1>6 DEF Providers

LEMMA NamedOrSingleHolds == \A p \in Providers : NamedOrSingle(p)
<1>. USE DEF NamedOrSingle, Lists, Counts, Ask, Categories
<1>1. NamedOrSingle(GitHubOrg)
  BY DEF GitHubOrg, GitHubOwner, OwnerAlerts, Node
<1>2. NamedOrSingle(GitHubUser)
  BY DEF GitHubUser, GitHubOwner, OwnerAlerts, Node
<1>3. NamedOrSingle(GitHubRepo)
  BY DEF GitHubRepo, RepoAlerts, Node
<1>4. NamedOrSingle(GitLabGroup)
  BY DEF GitLabGroup, GitLabOwner, Projects
<1>5. NamedOrSingle(GitLabUser)
  BY DEF GitLabUser, GitLabOwner, Projects
<1>6. NamedOrSingle(GitLabRepo)
  BY DEF GitLabRepo
<1>. QED BY <1>1, <1>2, <1>3, <1>4, <1>5, <1>6 DEF Providers

LEMMA ListsAndCountsHolds == \A p \in Providers : ListsAndCounts(p)
<1>. USE DEF ListsAndCounts, Lists, Counts, Ask, Categories
<1>1. ListsAndCounts(GitHubOrg)
  BY DEF GitHubOrg, GitHubOwner, OwnerAlerts, Node
<1>2. ListsAndCounts(GitHubUser)
  BY DEF GitHubUser, GitHubOwner, OwnerAlerts, Node
<1>3. ListsAndCounts(GitHubRepo)
  BY DEF GitHubRepo, RepoAlerts, Node
<1>4. (\E q \in Projects : Lists(q)) /\ (\E q \in Projects : Counts(q))
  BY DEF Projects
<1>5. Projects \subseteq GitLabGroup.first /\ Projects \subseteq GitLabUser.first
  BY DEF GitLabGroup, GitLabUser, GitLabOwner
<1>6. ListsAndCounts(GitLabRepo)
  BY DEF GitLabRepo
<1>7. ListsAndCounts(GitLabGroup) /\ ListsAndCounts(GitLabUser)
  BY <1>4, <1>5
<1>. QED BY <1>1, <1>2, <1>3, <1>6, <1>7 DEF Providers

LEMMA CountedBySourceHolds == \A p \in Providers : CountedBySource(p)
  BY OwnSourceHolds, ListedBeforeHolds, NamedOrSingleHolds, ListsAndCountsHolds DEF CountedBySource

(* A repository that kept its name is in the snapshot and counted, or the    *)
(* query for that is still to come, or its source failed.                  *)
Kept(r) == r \in Polled \ (renamed \cup archived)

IsListed(r) == poll.counts \in failed \/ name[r] \in names \/ \E q \in left : Lists(q)
IsCounted(r) == poll.counts \in failed \/ name[r] \in counted \/ \E q \in left : Counts(q)

Reported(r) == Kept(r) => (poll.single => asked = name[r]) /\ IsListed(r) /\ IsCounted(r)

Explained == TypeOK /\ \A r \in Repo : Reported(r)

LEMMA InitReported == ASSUME Init, NEW r \in Repo PROVE Reported(r)
<1>1. poll \in Providers
  BY CollectAssumption DEF Init
<1>2. IsListed(r) /\ IsCounted(r)
  BY <1>1, CountedBySourceHolds DEF CountedBySource, ListsAndCounts, Init, IsListed, IsCounted
<1>3. Kept(r) /\ poll.single => asked = name[r]
  BY DEF Init, Kept, Polled
<1>. QED BY <1>2, <1>3 DEF Reported

(* While queries are made, names stay and failures add up.                  *)
LEMMA FirstOnly ==
  ASSUME TypeOK, NEW q \in left, Lists(q) \/ Counts(q)
  PROVE  q \in poll.first
  BY Asked, RegularHolds DEF Regular, Lists, Counts

LEMMA AnswerReported ==
  ASSUME Explained, NEW q \in left, Answer(q), NEW r \in Repo
  PROVE  Reported(r)'
<1>1. TypeOK /\ Reported(r) /\ Turn(q) /\ left' = left \ {q} /\ UNCHANGED <<fixed, forge, failed, history>>
  BY DEF Explained, Answer
<1>2. PICK F \in SUBSET Finding : Learn(q, Repo, F)
  BY DEF Answer
<1>3. names \subseteq names' /\ counted \subseteq counted'
  BY <1>1, <1>2, LearnType
<1>4. Kept(r)' <=> Kept(r)
  BY <1>1 DEF Kept, Polled, fixed, history
<1>5. name' = name /\ asked' = asked /\ poll' = poll
  BY <1>1 DEF fixed, forge
<1>6. ASSUME Kept(r), Lists(q) PROVE name[r] \in names'
  <2>1. q \in poll.first /\ poll \in Providers
    BY <1>1, <1>6, FirstOnly, Asked
  <2>2. Called(q, r) = name[r]
    BY <1>1, <1>6, <2>1, CountedBySourceHolds DEF CountedBySource, NamedOrSingle, Called, Reported
  <2>3. r \in Tells(q)
    BY <1>6 DEF Kept, Tells
  <2>4. names' = names \cup Names(q, Repo)
    BY <1>2, <1>6 DEF Learn, Lists
  <2>. QED BY <2>2, <2>3, <2>4 DEF Names
<1>7. ASSUME Kept(r) PROVE IsListed(r)'
  <2>1. CASE Lists(q)
    BY <1>6, <1>7, <2>1, <1>5 DEF IsListed
  <2>2. CASE ~ Lists(q)
    BY <1>1, <1>3, <1>5, <1>7, <2>2 DEF Reported, IsListed
  <2>. QED BY <2>1, <2>2
<1>8. ASSUME Kept(r) PROVE IsCounted(r)'
  <2>1. CASE ~ Counts(q)
    BY <1>1, <1>3, <1>5, <1>8, <2>1 DEF Reported, IsCounted
  <2>2. CASE Counts(q)
    <3>1. counted' = counted \cup names'
      BY <1>2, <2>2 DEF Learn, Counts
    <3>2. CASE Lists(q)
      BY <1>5, <1>6, <1>8, <3>1, <3>2 DEF IsCounted
    <3>3. CASE ~ Lists(q)
      <4>1. q \in poll.first /\ poll \in Providers
        BY <1>1, <2>2, FirstOnly, Asked
      <4>2. ASSUME NEW l \in left, Lists(l) PROVE FALSE
        <5>1. l \in poll.first
          BY <1>1, <4>2, FirstOnly
        <5>2. l.at < q.at /\ l.at \in Nat /\ q.at \in Nat
          BY <2>2, <3>3, <4>1, <4>2, <5>1, CountedBySourceHolds DEF CountedBySource, OwnSource, ListedBefore
        <5>3. q.at <= l.at
          BY <1>1, <4>2 DEF Turn
        <5>. QED BY <5>2, <5>3
      <4>3. poll.counts \in failed \/ name[r] \in names
        BY <1>1, <1>8, <4>2 DEF Reported, IsListed
      <4>. QED BY <1>1, <1>3, <1>5, <3>1, <4>3 DEF IsCounted
    <3>. QED BY <3>2, <3>3
  <2>. QED BY <2>1, <2>2
<1>. QED BY <1>1, <1>4, <1>5, <1>7, <1>8 DEF Reported

LEMMA FailReported ==
  ASSUME Explained, NEW q \in left, Fail(q), NEW r \in Repo
  PROVE  Reported(r)'
<1>1. /\ TypeOK /\ Reported(r) /\ UNCHANGED <<fixed, forge, history>>
      /\ failed' = failed \cup ({q.source} \ {"secret_posture"})
      /\ left' = {p \in left : p.source # q.source}
  BY DEF Explained, Fail
<1>2. names \subseteq names' /\ counted \subseteq counted'
  <2>1. CASE "partial" \in q.how
    <3>1. PICK R \in SUBSET Repo, F \in SUBSET Finding : Learn(q, R, F)
      BY <2>1 DEF Fail
    <3>. QED BY <1>1, <3>1, LearnType
  <2>2. CASE "partial" \notin q.how
    BY <2>2 DEF Fail
  <2>. QED BY <2>1, <2>2
<1>3. poll \in Providers
  BY <1>1, Asked
<1>4. CASE q.source = poll.counts
  <2>1. poll.counts \in failed'
    BY <1>1, <1>3, <1>4, CountedBySourceHolds DEF CountedBySource, OwnSource, ListedBefore
  <2>. QED BY <1>1, <2>1 DEF Reported, Kept, IsListed, IsCounted, Polled, fixed, forge, history
<1>5. CASE q.source # poll.counts
  <2>1. ASSUME NEW p \in left, Lists(p) \/ Counts(p) PROVE p \in left'
    BY <1>1, <1>3, <1>5, <2>1, FirstOnly, CountedBySourceHolds DEF CountedBySource, OwnSource, ListedBefore
  <2>. QED BY <1>1, <1>2, <2>1 DEF Reported, Kept, IsListed, IsCounted, Polled, fixed, forge, history
<1>. QED BY <1>4, <1>5

LEMMA RefuseReported ==
  ASSUME Explained, NEW q \in left, Refuse(q), NEW r \in Repo
  PROVE  Reported(r)'
<1>1. /\ TypeOK /\ Reported(r) /\ UNCHANGED <<fixed, forge, failed, history>>
      /\ "tolerant" \in q.how
      /\ left' = {p \in left : ~ (p.source = q.source /\ p.what = q.what)}
  BY DEF Explained, Refuse
<1>2. PICK F : Learn(q, Repo, F)
  BY DEF Refuse
<1>3. names \subseteq names' /\ counted \subseteq counted'
  BY <1>1, <1>2, LearnType
<1>4. ~ Lists(q) /\ ~ Counts(q)
  BY <1>1, FirstOnly, Asked, CountedBySourceHolds DEF CountedBySource, OwnSource, ListedBefore
<1>5. ASSUME NEW p \in left, Lists(p) \/ Counts(p) PROVE p \in left'
  BY <1>1, <1>4, <1>5 DEF Lists, Counts
<1>. QED BY <1>1, <1>3, <1>5 DEF Reported, Kept, IsListed, IsCounted, Polled, fixed, forge, history

LEMMA AssembleReported == ASSUME Explained, Assemble, NEW r \in Repo PROVE Reported(r)'
<1>1. /\ TypeOK /\ Reported(r) /\ left = {} /\ names \subseteq names'
      /\ UNCHANGED <<fixed, forge, failed, counted, history>>
  BY DEF Explained, Assemble, Merged
<1>. QED BY <1>1 DEF Reported, Kept, IsListed, IsCounted, Polled, fixed, forge, history

LEMMA ForgeReported == ASSUME Explained, Forge, NEW r \in Repo PROVE Reported(r)'
<1>1. TypeOK /\ Reported(r)
  BY DEF Explained
<1>2. UNCHANGED <<fixed, left, failed, names, counted>>
  BY DEF Forge, Close, Reopen, Age, Rename, told
<1>3. renamed \subseteq renamed' /\ (r \notin renamed' => name'[r] = name[r])
  BY <1>1 DEF Forge, Close, Reopen, Age, Rename, TypeOK, history
<1>. QED BY <1>1, <1>2, <1>3 DEF Reported, Kept, IsListed, IsCounted, Polled, fixed

(* However many repositories there are, whatever fails and whatever is       *)
(* renamed during the poll: a repository that kept its name is shown without *)
(* review items only when the source that counts them failed (mergeRepos,   *)
(* observeSnapshot).                                                       *)
THEOREM ZerosExplained == Spec => []ZeroIsExplained
<1>1. Init => Explained
  BY InitTyped, InitReported DEF Explained
<1>2. Explained /\ [Next]_vars => Explained'
  <2>. SUFFICES ASSUME Explained, [Next]_vars PROVE Explained'
    OBVIOUS
  <2>1. TypeOK'
    BY TypedStep DEF Explained
  <2>2. ASSUME NEW r \in Repo PROVE Reported(r)'
    <3>1. CASE \E q \in left : Answer(q) \/ Fail(q) \/ Refuse(q)
      BY <3>1, AnswerReported, FailReported, RefuseReported
    <3>2. CASE Assemble
      BY <3>2, AssembleReported
    <3>3. CASE Forge
      BY <3>3, ForgeReported
    <3>4. CASE UNCHANGED vars
      BY <3>4 DEF Explained, Reported, Kept, IsListed, IsCounted, Polled, vars, fixed, forge, told,
                  history
    <3>. QED BY <3>1, <3>2, <3>3, <3>4 DEF Next, Provider
  <2>. QED BY <2>1, <2>2 DEF Explained
<1>3. Explained => ZeroIsExplained
  <2>. SUFFICES ASSUME Explained, Finished, NEW r \in Polled \ (renamed \cup archived),
                       name[r] \in names, ReviewItems(name[r]) = 0
                PROVE  poll.counts \in failed
    BY DEF ZeroIsExplained
  <2>1. r \in Repo
    BY DEF Explained, Polled, TypeOK
  <2>2. IsCounted(r) /\ left = {}
    BY <2>1 DEF Explained, Reported, Kept, Finished
  <2>3. name[r] \notin counted
    BY DEF ReviewItems
  <2>. QED BY <2>2, <2>3 DEF IsCounted
<1>. QED BY <1>1, <1>2, <1>3, PTL DEF Spec
===============================================================================
