-------------------------------- MODULE Listing --------------------------------
(***************************************************************************)
(* How the operator and the exporter read a list from a forge: one page     *)
(* after the other, while others add to the list, remove from it and change *)
(* its entries.  REST pages are numbered (GitHub's NextPage, GitLab's       *)
(* X-Next-Page), so a page is what stands at certain places when it is      *)
(* asked for; GraphQL pages start after a cursor, the last entry received.  *)
(* Every reader stops at a page limit, and each has its own way to fail.    *)
(*                                                                         *)
(* An entry is the number that sorts it (a name, or a time of creation).    *)
(***************************************************************************)
EXTENDS Integers, FiniteSets

CONSTANTS
  Entry,        \* the keys the entries of the list are sorted by
  Repo,         \* attributes an entry may have, as the filters see them
  Selectors,    \* the selectors of the resources
  PerPage,      \* entries of a page (100 in REST, 50 and 100 in GraphQL)
  MaxPages,     \* maxPages, 100 in the operator and in both providers
  Calls,        \* the readers of this instance
  Honesty,      \* may the forge claim there are more pages than there are?
  MaxChanges,   \* bound: changes of the list in a behaviour
  MaxFaults     \* bound: requests that fail in a behaviour

(***************************************************************************)
(* The readers, each of one list.  "whole" ones leave their caller nothing  *)
(* when a request fails, the others what they had.  A refusal (403 or 404,  *)
(* or a project that is null: the feature is off or not for them) fails     *)
(* too, or it ends the list without an error, which keeps or drops what was *)
(* read before.                                                            *)
(***************************************************************************)
Numbered == [mode |-> "numbered", whole |-> TRUE, refused |-> "fails", filtered |-> FALSE]
NumberedPart == [Numbered EXCEPT !.whole = FALSE]
Cursored == [NumberedPart EXCEPT !.mode = "cursor"]

\* The operator's discovery applies the selector of the resource.
ListRepos == [Numbered EXCEPT !.filtered = TRUE]
ListGitLabProjects == [Numbered EXCEPT !.filtered = TRUE]

\* The exporter's sources.
collectGraphQL == Cursored
collectVulnerabilities == Cursored
collectProjectPosture == Cursored
collectRepoVulnerabilities == Cursored
listUserRepos == Numbered
collectWorkflowRuns == Numbered
collectPipelineRuns == Numbered
collectCodeScanningForOrg == NumberedPart
collectSecretScanningForOrg == NumberedPart
collectRESTForGroup == NumberedPart  \* its projects, and its merge requests
collectRESTForUser == NumberedPart
collectRepoMRs == NumberedPart
countProjectOpenMRs == NumberedPart

\* For the repository of a Job, and for one repository of a user.
codeScanningForRepo == [NumberedPart EXCEPT !.refused = "keeps"]
secretScanningForRepo == [NumberedPart EXCEPT !.refused = "keeps"]
collectCodeScanningForUser == [Numbered EXCEPT !.refused = "drops"]
collectSecretScanningForUser == [Numbered EXCEPT !.refused = "drops"]

\* Of one state of the alerts; the window is applied to what is listed.
resolvedCodeScanning == [Numbered EXCEPT !.refused = "keeps"]
resolvedSecretScanning == [Numbered EXCEPT !.refused = "keeps"]
resolvedDependabot == [Numbered EXCEPT !.refused = "keeps"]
collectResolvedFindings == [Cursored EXCEPT !.whole = TRUE, !.refused = "keeps"]

Discovery == {ListRepos, ListGitLabProjects}
Sources ==
  {collectGraphQL, collectVulnerabilities, collectProjectPosture,
   collectRepoVulnerabilities, listUserRepos, collectWorkflowRuns,
   collectPipelineRuns, collectCodeScanningForOrg, collectSecretScanningForOrg,
   collectRESTForGroup, collectRESTForUser, collectRepoMRs, countProjectOpenMRs,
   codeScanningForRepo, secretScanningForRepo, collectCodeScanningForUser,
   collectSecretScanningForUser, resolvedCodeScanning, resolvedSecretScanning,
   resolvedDependabot, collectResolvedFindings}

ASSUME ListingAssumption ==
  /\ Entry \subseteq Nat \ {0} /\ IsFiniteSet(Entry)
  /\ PerPage \in Nat \ {0} /\ MaxPages \in Nat \ {0}
  /\ Calls \subseteq Discovery \cup Sources
  /\ Honesty \subseteq BOOLEAN
  /\ MaxChanges \in Nat /\ MaxFaults \in Nat

(***************************************************************************)
(* A selector includes and excludes.  A filter is a set of values for each  *)
(* attribute, empty when it has no such criterion; a repository has a set   *)
(* of values for each: its topics, the one visibility, the patterns its     *)
(* name matches (a malformed pattern is matched by none), archived or not.  *)
(***************************************************************************)
Criteria == {"topics", "visibility", "patterns", "archived"}

Matches(r, f) == \A c \in Criteria : f[c] # {} => r[c] \cap f[c] # {}

IsEmpty(f) == \A c \in Criteria : f[c] = {}

Selects(r, s) ==
  /\ Matches(r, s.include)
  /\ IsEmpty(s.exclude) \/ ~ Matches(r, s.exclude)

VARIABLES
  \* the forge
  live,      \* the entries on the list
  repo,      \* their attributes
  honest,    \* does it tell the last page from the others?
  \* the reader
  call,      \* which one
  selector,  \* the selector of its resource
  pc,        \* is it reading?
  page,      \* pages read
  cursor,    \* the last entry received
  got,       \* how often it took an entry; twice stands for more
  \* what the caller got from the last call
  outcome, listed,
  \* what happened to the list since the call began
  steady,    \* entries there from the beginning, unchanged
  lost,      \* was one removed where numbered pages had been read?
  shifted,   \* was one added there?
  \* the environment's budget
  changes, faults

forge   == <<live, repo>>
reader  == <<page, cursor, got>>
answer  == <<outcome, listed>>
history == <<steady, lost, shifted>>
fixed   == <<honest, call, selector>>
vars == <<forge, fixed, pc, reader, answer, history, changes, faults>>

TypeOK ==
  /\ live \subseteq Entry
  /\ repo \in [Entry -> Repo]
  /\ honest \in BOOLEAN
  /\ call \in Calls
  /\ selector \in Selectors
  /\ pc \in {"idle", "reading"}
  /\ page \in 0 .. MaxPages
  /\ cursor \in Nat
  /\ got \in [Entry -> 0 .. 2]
  /\ outcome \in {"none", "complete", "capped", "tolerated", "failed"}
  /\ listed \subseteq Entry
  /\ steady \subseteq live
  /\ lost \in BOOLEAN /\ shifted \in BOOLEAN
  /\ changes \in 0 .. MaxChanges /\ faults \in 0 .. MaxFaults

Nothing == [e \in Entry |-> 0]

Init ==
  /\ live \in SUBSET Entry /\ repo \in [Entry -> Repo]
  /\ honest \in Honesty /\ call \in Calls /\ selector \in Selectors
  /\ pc = "idle" /\ page = 0 /\ cursor = 0 /\ got = Nothing
  /\ outcome = "none" /\ listed = {}
  /\ steady = {} /\ lost = FALSE /\ shifted = FALSE
  /\ changes = 0 /\ faults = 0

-------------------------------------------------------------------------------
Change == changes < MaxChanges /\ changes' = changes + 1
Fault == faults < MaxFaults /\ faults' = faults + 1

ByCursor == call.mode = "cursor"

Wanted(e) == call.filtered => Selects(repo[e], selector)

(* The place of an entry on the list, counted from 1, and the places read.  *)
Rank(e) == Cardinality({d \in live : d <= e})
Read == page * PerPage

(* Has the reader read past it?                                            *)
Behind(e) == IF ByCursor THEN e <= cursor ELSE Rank(e) <= Read

(* The page the forge answers with, and the cursor it ends at.              *)
AfterCursor(e) == {d \in live : cursor < d /\ d <= e}

Page ==
  {e \in live : /\ ~ Behind(e)
               /\ IF ByCursor THEN Cardinality(AfterCursor(e)) <= PerPage
                  ELSE Rank(e) <= Read + PerPage}

EndCursor(c) ==
  IF Page = {} THEN c = cursor ELSE c \in Page /\ \A e \in Page : e <= c

(* The answer says whether there is a next page.                           *)
Remains == \E e \in live : ~ Behind(e) /\ e \notin Page
HasNext(m) == m = Remains \/ (~ honest /\ m)

(* The page is counted, up to the limit.  In one mutant it is not, and read *)
(* again; in the others the limit is off by one, and a page of which the    *)
(* filter dropped some is taken for the last.                              *)
NotCounted == page
Counted == page + 1

GoOnOnce(more) == more /\ Counted <= MaxPages
GoOnIfFull(more) == more /\ Counted < MaxPages /\ \A e \in Page : Wanted(e)
GoOn(more) == more /\ Counted < MaxPages

Taken ==
  [e \in Entry |-> IF e \in Page /\ Wanted(e) /\ got[e] < 2 THEN got[e] + 1 ELSE got[e]]

Return(o, took) ==
  /\ pc' = "idle"
  /\ outcome' = o
  /\ listed' = {e \in Entry : took[e] > 0}

-------------------------------------------------------------------------------
(* The reader is called: by discovery each interval, by the exporter for    *)
(* each snapshot.                                                          *)
Begin ==
  /\ pc = "idle"
  /\ pc' = "reading" /\ page' = 0 /\ cursor' = 0 /\ got' = Nothing
  /\ steady' = live /\ lost' = FALSE /\ shifted' = FALSE
  /\ UNCHANGED <<forge, fixed, answer, changes, faults>>

(* A page arrives: the loop goes on, or ends with the last page or at the   *)
(* limit.                                                                  *)
Fetch ==
  /\ pc = "reading"
  /\ got' = Taken /\ page' = Counted
  /\ cursor' \in Entry \cup {cursor} /\ EndCursor(cursor')
  /\ \E more \in BOOLEAN :
       /\ HasNext(more)
       /\ IF GoOn(more) THEN UNCHANGED <<pc, answer>>
          ELSE Return(IF more THEN "capped" ELSE "complete", Taken)
  /\ UNCHANGED <<forge, fixed, history, changes, faults>>

(* A request fails, or its answer cannot be used.  The mutant returns what  *)
(* it had as if it were all.                                               *)
Swallow ==
  /\ pc = "reading" /\ Fault
  /\ Return("complete", got)
  /\ UNCHANGED <<forge, fixed, reader, history, changes>>

Fail ==
  /\ pc = "reading" /\ Fault
  /\ Return("failed", IF call.whole THEN Nothing ELSE got)
  /\ UNCHANGED <<forge, fixed, reader, history, changes>>

(* Refused, and not because of a rate limit.                               *)
NotAccessible ==
  /\ pc = "reading" /\ call.refused # "fails" /\ Fault
  /\ Return("tolerated", IF call.refused = "keeps" THEN got ELSE Nothing)
  /\ UNCHANGED <<forge, fixed, reader, history, changes>>

-------------------------------------------------------------------------------
(* The others.  Only numbered pages mind what happens where they have been. *)
Add(e) ==
  /\ e \notin live /\ Change
  /\ live' = live \cup {e}
  /\ shifted' = (shifted \/ (~ ByCursor /\ Rank(e) < Read))
  /\ UNCHANGED <<repo, fixed, pc, reader, answer, steady, lost, faults>>

Remove(e) ==
  /\ e \in live /\ Change
  /\ live' = live \ {e} /\ steady' = steady \ {e}
  /\ lost' = (lost \/ (~ ByCursor /\ Rank(e) <= Read))
  /\ UNCHANGED <<repo, fixed, pc, reader, answer, shifted, faults>>

(* Archived, made public, given a topic: it keeps its place.               *)
Edit(e, r) ==
  /\ r # repo[e] /\ Change
  /\ repo' = [repo EXCEPT ![e] = r] /\ steady' = steady \ {e}
  /\ UNCHANGED <<live, fixed, pc, reader, answer, lost, shifted, faults>>

Others ==
  \/ \E e \in Entry : Add(e) \/ Remove(e)
  \/ \E e \in Entry, r \in Repo : Edit(e, r)

Next == Begin \/ Fetch \/ Fail \/ NotAccessible \/ Others

Spec == Init /\ [][Next]_vars

(* The process calls its readers again and again, and each request ends.    *)
FairSpec == Spec /\ WF_vars(Begin) /\ WF_vars(Fetch)

-------------------------------------------------------------------------------
(* Whoever reads a list to its end has every entry that was there all the   *)
(* time and that it wants, and of those no other: whatever happens to the   *)
(* list when pages start after a cursor, and unless one is removed where    *)
(* numbered pages have been read (ListRepos, appendMatching).              *)
Exact ==
  outcome = "complete" /\ pc = "idle" /\ ~ lost =>
    \A e \in steady : e \in listed <=> Wanted(e)

(* An entry that stays is taken once; numbered pages may repeat it only     *)
(* when one was added where they had been.  What a source counts by what it *)
(* takes, merge requests or alerts, is right by this.                      *)
TakenOnce == ~ shifted => \A e \in steady : got[e] <= 1

(* However many pages the forge claims there are, a call ends.             *)
Ends == pc = "reading" ~> pc = "idle"

(* Once the list is at rest and fits the limit, every call returns exactly  *)
(* what is wanted: what a shift hid from one discovery, the next one finds. *)
Settles ==
  honest => <>[](Cardinality(live) <= PerPage * MaxPages /\ pc = "idle" =>
                   listed = {e \in live : Wanted(e)})

(* ListRepos "returns the names of the target's repositories that pass the  *)
(* selector", ListGitLabProjects likewise.                                 *)
ReturnsTheRepositories ==
  outcome \in {"complete", "capped"} /\ pc = "idle" =>
    \A e \in steady : Wanted(e) => e \in listed
===============================================================================
