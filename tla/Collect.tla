-------------------------------- MODULE Collect --------------------------------
(***************************************************************************)
(* One poll of a provider: the sources are asked one after the other and    *)
(* their answers merged into a snapshot, while findings are closed and      *)
(* reopened and repositories renamed.  A source may fail, refuse, or have   *)
(* more to tell than the query asks for.  What the gauges export of the     *)
(* snapshot is at the end.  How a list is read page by page is in Listing,  *)
(* what becomes of failed polls in Exporter.                               *)
(*                                                                         *)
(* Every repository has open review items; how many does not matter here.   *)
(***************************************************************************)
EXTENDS Naturals, FiniteSets

CONSTANTS
  Repo, Finding,
  Home,        \* the repository of a finding
  Category,    \* its category
  Name,        \* names of repositories, as numbers in the order of sorting
  Polls,       \* the polls of this instance
  MaxAlerts,   \* alerts of a repository the GraphQL query asks for, 100 in the code
  MaxChanges,  \* bound: changes in the forge during a poll
  MaxFaults    \* bound: queries that fail or are refused

Categories == {"static_analysis", "dependency", "secret", "container"}
Closed == {"fixed", "dismissed", "auto_dismissed", "resolved"}
State == Closed \cup {"open"}

(***************************************************************************)
(* A query asks a source, at its place in the poll, what there is of some   *)
(* kinds, and findings in some states.  How: its answer names the           *)
(* repositories itself ("named"; if not it is filed under the name that was *)
(* asked for), what was read before it fails counts ("partial"), a refusal  *)
(* (403, 404, null from GitLab's lifecycle query) is taken for nothing to   *)
(* tell ("tolerant"), no more than MaxAlerts are asked for ("capped").      *)
(***************************************************************************)
Ask(at, source, what, in, how) ==
  [at |-> at, source |-> source, what |-> what, in |-> in, how |-> how]

Node == {"repository", "review_item", "posture", "dependency"}

\* GitHub asked about an owner: an organization, or a user, whose repositories
\* are asked for their alerts one by one.
OwnerAlerts(how) ==
  {Ask(1, "graphql", Node, {"open"}, {"named", "partial", "capped"}),
   Ask(2, "rest", {"static_analysis"}, {"open"}, {"named", "partial"} \cup how),
   Ask(3, "secret_scanning", {"secret"}, {"open"}, {"named", "partial"} \cup how)}

GitHubOwner(how) ==
  [single |-> FALSE, lifecycle |-> FALSE,
   core |-> {"graphql", "rest", "secret_scanning"}, counts |-> "graphql",
   first |-> OwnerAlerts(how), later |-> {}]

GitHubOrg == GitHubOwner({})
GitHubUser == GitHubOwner({"tolerant"})

\* GitHub asked about one repository.
RepoAlerts(at) ==
  {Ask(at + 1, "graphql", Node, {"open"}, {"named", "capped"}),
   Ask(at + 2, "rest", {"static_analysis"}, {"open"}, {"partial", "tolerant"}),
   Ask(at + 3, "secret_scanning", {"secret"}, {"open"}, {"partial", "tolerant"})}

Resolved(at, what, in) == Ask(at, "lifecycle", what, in, {"tolerant"})

GitHubLifecycle ==
  {Resolved(6, {"static_analysis"}, {"fixed"}),
   Resolved(7, {"static_analysis"}, {"dismissed"}),
   Resolved(8, {"secret"}, {"resolved"}),
   Resolved(9, {"dependency"}, {"fixed"}),
   Resolved(10, {"dependency"}, {"dismissed"}),
   Resolved(11, {"dependency"}, {"auto_dismissed"})}

Workflows(at) == Ask(at, "workflows", {"runs"}, {}, {})

\* Only asked for when the first entry has a posture.
SecretPosture == Ask(4, "secret_posture", {"secret_posture"}, {}, {})

\* The mutant asks what is resolved before it asks what is open.
GitHubRepoBackwards ==
  [single |-> TRUE, lifecycle |-> TRUE,
   core |-> {"graphql", "rest", "secret_scanning"}, counts |-> "graphql",
   first |-> RepoAlerts(20) \cup GitHubLifecycle,
   later |-> {SecretPosture, Workflows(5)}]

GitHubRepo ==
  [single |-> TRUE, lifecycle |-> TRUE,
   core |-> {"graphql", "rest", "secret_scanning"}, counts |-> "graphql",
   first |-> RepoAlerts(0),
   later |-> {SecretPosture, Workflows(5)} \cup GitHubLifecycle]

\* GitLab asked about a group, a user and one project.
Projects ==
  {Ask(1, "rest", {"repository"}, {}, {"named", "partial"}),
   Ask(2, "rest", {"review_item"}, {}, {"named"})}

GitLabOwner(core, others) ==
  [single |-> FALSE, lifecycle |-> FALSE, core |-> core, counts |-> "rest",
   first |-> Projects \cup others, later |-> {}]

GitLabGroup ==
  GitLabOwner({"rest", "vulnerabilities"},
              {Ask(3, "vulnerabilities", Categories, {"open"}, {"named", "partial"}),
               Ask(4, "posture", {"posture"}, {}, {"named", "partial"})})

GitLabUser == GitLabOwner({"rest"}, {})

GitLabRepo ==
  [single |-> TRUE, lifecycle |-> TRUE,
   core |-> {"rest", "vulnerabilities", "posture"}, counts |-> "rest",
   first |-> {Ask(1, "rest", {"repository", "review_item"}, {}, {"partial"}),
              Ask(2, "vulnerabilities", Categories, {"open"}, {"partial"}),
              Ask(3, "posture", {"posture"}, {}, {})},
   later |-> {Workflows(4), Resolved(5, Categories, {"resolved", "dismissed"})}]

Providers == {GitHubOrg, GitHubUser, GitHubRepo, GitLabGroup, GitLabUser, GitLabRepo}
Queries == UNION {p.first \cup p.later : p \in Providers}
Sources == {q.source : q \in Queries}

(* The states a provider closes a finding of a category in.                *)
Closings(p, c) ==
  IF p.counts = "rest" THEN {"resolved", "dismissed"}
  ELSE IF c = "secret" THEN {"resolved"}
  ELSE {"fixed", "dismissed"} \cup (IF c = "dependency" THEN {"auto_dismissed"} ELSE {})

ASSUME CollectAssumption ==
  /\ IsFiniteSet(Finding)
  /\ Home \in [Finding -> Repo]
  /\ Category \in [Finding -> Categories \ {"container"}]
  /\ Name \subseteq Nat
  /\ Polls \subseteq Providers
  /\ MaxAlerts \in Nat /\ MaxChanges \in Nat /\ MaxFaults \in Nat

VARIABLES
  \* the poll
  poll,      \* which provider is asked about what
  target,    \* the repository asked about, when it is about one
  asked,     \* the name it is asked for by
  \* the forge
  name,      \* the names of the repositories
  archived,  \* those that are archived, where it makes a difference
  state,     \* the states of the findings
  aged,      \* closed ones that are closed for longer than the window
  \* the provider
  pc,        \* the main sources, the supplementary ones, or an error
  left,      \* queries it has yet to make
  failed,    \* sources that failed
  \* what it was told
  names,     \* names the snapshot has an entry for
  counted,   \* those whose review items were counted
  posture,   \* those whose posture is known
  found,     \* open findings, under a name
  resolved,  \* closed findings, as what they were closed
  \* what happened since the poll began
  unseen,    \* findings not shown: refused, or beyond what was asked for
  renamed,   \* repositories that have not the name they are asked for by
  closed, reopened,
  \* the environment's budget
  changes, faults

fixed   == <<poll, target, asked, archived>>
forge   == <<name, state, aged>>
told    == <<names, counted, posture, found, resolved>>
history == <<renamed, closed, reopened>>
vars == <<fixed, forge, pc, left, failed, told, unseen, history, changes, faults>>

Found == {x[2] : x \in found}

TypeOK ==
  /\ poll \in Polls /\ target \in Repo /\ asked \in Name /\ archived \subseteq Repo
  /\ name \in [Repo -> Name]
  /\ state \in [Finding -> State]
  /\ aged \subseteq {f \in Finding : state[f] # "open"}
  /\ pc \in {"first", "later", "failed"}
  /\ left \subseteq (IF pc = "later" THEN poll.later ELSE poll.first)
  /\ failed \subseteq Sources
  /\ names \subseteq Name /\ counted \subseteq names
  /\ posture \subseteq Name /\ found \subseteq Name \X Finding
  /\ pc = "later" => posture \cup {x[1] : x \in found} \subseteq names
  /\ resolved \subseteq Finding \X Closed
  /\ unseen \subseteq Finding /\ renamed \subseteq Repo
  /\ closed \subseteq Finding /\ reopened \subseteq Finding
  /\ changes \in 0 .. MaxChanges /\ faults \in 0 .. MaxFaults

\* The projects of a group or user are listed without the archived ones.
Unarchived == poll.counts = "rest" /\ ~ poll.single

(* A repository may have been renamed since the operator discovered it.    *)
Init ==
  /\ poll \in Polls /\ target \in Repo
  /\ name \in [Repo -> Name] /\ \A r, s \in Repo : name[r] = name[s] => r = s
  /\ asked \in {n \in Name : \A r \in Repo : name[r] = n => r = target}
  /\ ~ poll.single => asked = name[target]
  /\ archived \in IF Unarchived THEN SUBSET Repo ELSE {{}}
  /\ state \in [Finding -> State]
  /\ \A f \in Finding : state[f] \in Closings(poll, Category[f]) \cup {"open"}
  /\ aged \in SUBSET {f \in Finding : state[f] # "open"}
  /\ pc = "first" /\ left = poll.first /\ failed = {}
  /\ names = {} /\ counted = {} /\ posture = {} /\ found = {} /\ resolved = {}
  /\ unseen = {} /\ closed = {} /\ reopened = {}
  /\ renamed = IF poll.single /\ asked # name[target] THEN {target} ELSE {}
  /\ changes = 0 /\ faults = 0

-------------------------------------------------------------------------------
(***************************************************************************)
(* The queries.                                                            *)
(***************************************************************************)
Fault == faults < MaxFaults /\ faults' = faults + 1

\* q is the next query.
Turn(q) == q \in left /\ \A p \in left : q.at <= p.at

Polled == IF poll.single THEN {target} ELSE Repo

Tells(q) == IF Unarchived /\ q.source = "rest" THEN Polled \ archived ELSE Polled

Called(q, r) == IF "named" \in q.how THEN name[r] ELSE asked

Names(q, R) == {Called(q, r) : r \in R \cap Tells(q)}

About(q) ==
  {f \in Finding : Home[f] \in Polled /\ Category[f] \in q.what /\ state[f] \in q.in}

(* What is read of an answer that covers repositories R and findings F.    *)
Learn(q, R, F) ==
  /\ names' = IF "repository" \in q.what THEN names \cup Names(q, R) ELSE names
  /\ counted' = IF "review_item" \in q.what THEN counted \cup names' ELSE counted
  /\ posture' = IF "posture" \in q.what THEN posture \cup Names(q, R) ELSE posture
  /\ found' = found \cup
       {<<Called(q, Home[f]), f>> : f \in {g \in About(q) \cap F : state[g] = "open"}}
  /\ resolved' = resolved \cup
       {<<f, state[f]>> : f \in {g \in About(q) \cap F : state[g] # "open"} \ aged}

(* The alerts of each repository that a query leaves out.                  *)
Cuts(q) ==
  IF "capped" \notin q.how THEN {{}}
  ELSE {C \in SUBSET About(q) : \A r \in Polled :
          LET alerts == {f \in About(q) : Home[f] = r}
          IN Cardinality(alerts \ C) =
               IF Cardinality(alerts) <= MaxAlerts THEN Cardinality(alerts) ELSE MaxAlerts}

Answer(q) ==
  /\ Turn(q)
  /\ \E C \in Cuts(q) : Learn(q, Repo, Finding \ C) /\ unseen' = unseen \cup C
  /\ left' = left \ {q}
  /\ UNCHANGED <<fixed, forge, pc, failed, history, changes, faults>>

(* A failed source is not asked again; the posture of secret scanning is    *)
(* not missed.  The mutant takes a failure for an empty answer.             *)
Swallow(q) ==
  /\ Fault /\ Turn(q)
  /\ IF "partial" \in q.how THEN \E R \in SUBSET Repo, F \in SUBSET Finding : Learn(q, R, F)
     ELSE UNCHANGED told
  /\ left' = {p \in left : p.source # q.source}
  /\ UNCHANGED <<fixed, forge, pc, failed, unseen, history, changes>>

Fail(q) ==
  /\ Fault /\ Turn(q)
  /\ failed' = failed \cup ({q.source} \ {"secret_posture"})
  /\ left' = {p \in left : p.source # q.source}
  /\ IF "partial" \in q.how THEN \E R \in SUBSET Repo, F \in SUBSET Finding : Learn(q, R, F)
     ELSE /\ resolved' = IF q.source = "lifecycle" THEN {} ELSE resolved
          /\ UNCHANGED <<names, counted, posture, found>>
  /\ UNCHANGED <<fixed, forge, pc, unseen, history, changes>>

(* Some repositories refuse; the kinds asked for are not asked for again.  *)
Refuse(q) ==
  /\ Fault /\ Turn(q) /\ "tolerant" \in q.how
  /\ \E R \in (SUBSET Polled) \ {{}} :
       /\ Learn(q, Repo, {f \in Finding : Home[f] \notin R})
       /\ unseen' = unseen \cup
            {f \in Finding : Home[f] \in R /\ Category[f] \in q.what}
  /\ left' = {p \in left : ~ (p.source = q.source /\ p.what = q.what)}
  /\ UNCHANGED <<fixed, forge, pc, failed, history, changes>>

(***************************************************************************)
(* mergeRepos: an entry for every name an answer was filed under.  Nothing  *)
(* is left of a poll without any of its main sources.                      *)
(***************************************************************************)
\* The mutant merges posture into the entries that are there.
MergedPosture == names \cup {x[1] : x \in found} \cup (IF poll.single THEN {asked} ELSE {})

Merged ==
  names \cup posture \cup {x[1] : x \in found} \cup (IF poll.single THEN {asked} ELSE {})

FirstHasPosture == \E n \in posture : \A m \in Merged : n <= m

Assemble ==
  /\ pc = "first" /\ left = {}
  /\ IF poll.core \subseteq failed
     THEN pc' = "failed" /\ UNCHANGED <<left, names>>
     ELSE /\ pc' = "later" /\ names' = Merged
          /\ left' = {q \in poll.later : q.source = "secret_posture" => FirstHasPosture}
  /\ UNCHANGED <<fixed, forge, failed, counted, posture, found, resolved, unseen, history,
                 changes, faults>>

(***************************************************************************)
(* The forge.                                                              *)
(***************************************************************************)
Ongoing == pc = "first" \/ left # {}

Change == Ongoing /\ changes < MaxChanges /\ changes' = changes + 1

Close(f, s) ==
  /\ Change /\ state[f] = "open" /\ s \in Closings(poll, Category[f])
  /\ state' = [state EXCEPT ![f] = s]
  /\ closed' = closed \cup {f}
  /\ UNCHANGED <<fixed, name, aged, pc, left, failed, told, unseen, renamed, reopened, faults>>

Reopen(f) ==
  /\ Change /\ state[f] # "open"
  /\ state' = [state EXCEPT ![f] = "open"]
  /\ aged' = aged \ {f}
  /\ reopened' = reopened \cup {f}
  /\ UNCHANGED <<fixed, name, pc, left, failed, told, unseen, renamed, closed, faults>>

Age(f) ==
  /\ Change /\ state[f] # "open" /\ f \notin aged
  /\ aged' = aged \cup {f}
  /\ UNCHANGED <<fixed, name, state, pc, left, failed, told, unseen, history, faults>>

Rename(r, n) ==
  /\ Change /\ n # asked /\ \A s \in Repo : name[s] # n
  /\ name' = [name EXCEPT ![r] = n]
  /\ renamed' = renamed \cup {r}
  /\ UNCHANGED <<fixed, state, aged, pc, left, failed, told, unseen, closed, reopened, faults>>

Provider == (\E q \in left : Answer(q) \/ Fail(q) \/ Refuse(q)) \/ Assemble

Forge ==
  \/ \E f \in Finding : (\E s \in Closed : Close(f, s)) \/ Reopen(f) \/ Age(f)
  \/ \E r \in Repo, n \in Name : Rename(r, n)

Next == Provider \/ Forge

Spec == Init /\ [][Next]_vars

-------------------------------------------------------------------------------
(***************************************************************************)
(* What the gauges export of the snapshot (observeSnapshot).               *)
(***************************************************************************)
Finished == pc = "later" /\ left = {}

\* scm.review_items.open: 1 stands for what the repository has.
ReviewItems(n) == IF n \in counted THEN 1 ELSE 0

\* scm.findings.by_state: the states a finding is counted in.
ByState(f) ==
  (IF f \in Found THEN {"open"} ELSE {}) \cup {s \in Closed : <<f, s>> \in resolved}

(* Nobody asks for findings like f, or who was asked did not tell.         *)
Unread(f) ==
  \/ f \in unseen
  \/ \E q \in poll.first \cup poll.later : Category[f] \in q.what /\ q.source \in failed
  \/ \A q \in poll.first : Category[f] \notin q.what

(* Findings are closed while a poll is running, sources fail and            *)
(* repositories are renamed, and yet a finding is in the snapshot: one that *)
(* was shown, and not reopened meanwhile, is counted in some state as long  *)
(* as its category's own sources answered, whatever happens to the others,  *)
(* and one that nobody touched in its own state and no other.  It hangs on   *)
(* asking what is open before asking what is closed (SnapshotRepo).        *)
FindingsAreCounted ==
  Finished => \A f \in Finding :
    Home[f] \in Polled =>
      /\ \/ Unread(f) \/ f \in reopened \cup aged \/ ByState(f) # {}
         \/ state[f] # "open" /\ ~ poll.lifecycle
      /\ f \notin closed \cup reopened => ByState(f) \subseteq {state[f]}

(* A repository with open review items is reported to have none only along  *)
(* with a scrape error of the source that counts them, unless it was        *)
(* renamed or is an archived project of a group (SourceErrors, mergeRepos). *)
ZeroIsExplained ==
  Finished => \A r \in Polled \ (renamed \cup archived) :
    name[r] \in names /\ ReviewItems(name[r]) = 0 => poll.counts \in failed

-------------------------------------------------------------------------------
(***************************************************************************)
(* Statements of the repository that the code does not keep.               *)
(***************************************************************************)
(* internal/provider/github/graphql.go:44, "resolves one repo, so an        *)
(* operator-dispatched Job collects exactly its target": a renamed one is   *)
(* answered for under its new name by GraphQL, and filed under the old one  *)
(* by the REST sources.                                                    *)
ExactlyItsTarget == Finished /\ poll.single => Cardinality(names) = 1

(* docs/runbook.md:74, "A failed source is partial -- the Job still pushes  *)
(* the other signals": it pushes the signal of the failed one too, as 0.    *)
FailedSourceIsLeftOut ==
  Finished /\ poll.counts \in failed => \A n \in names : ReviewItems(n) # 0

(* README.md:121, "open findings contribute state="open"": of a repository's *)
(* Dependabot alerts the query asks for a hundred, and reports no more.     *)
OpenFindingsContribute ==
  Finished /\ poll.single /\ faults = 0 => \A f \in Finding :
    Home[f] \in Polled /\ f \notin reopened /\ state[f] = "open" => f \in Found
===============================================================================
