----------------------------- MODULE ListingProofs -----------------------------
(***************************************************************************)
(* Proofs about Listing, for every set of entries, page size, page limit    *)
(* and number of changes: the readers keep their type, what they read to    *)
(* the end is exact, and what stays is taken once.                         *)
(*                                                                         *)
(* The argument is a frontier.  At any time the entries of the list are     *)
(* divided in those the reader is past and the others; a page moves the     *)
(* frontier over exactly the entries it holds.  Others may move entries     *)
(* over the frontier of numbered pages only by removing (an entry falls     *)
(* behind it unread) or adding (one is pushed before it again) where the    *)
(* reader has been, and a cursor they do not move at all.                  *)
(***************************************************************************)
EXTENDS Listing, FiniteSetTheorems, TLAPS

LEMMA ListFinite == ASSUME TypeOK PROVE IsFiniteSet(live)
  BY ListingAssumption, FS_Subset DEF TypeOK

(* Ranks are numbers, and a later entry ranks no lower. *)
LEMMA RankType ==
  ASSUME TypeOK, NEW e \in Entry
  PROVE  Rank(e) \in Nat
<1>1. IsFiniteSet({d \in live : d <= e})
  BY ListFinite, FS_Subset
<1> QED  BY <1>1, FS_CardinalityType DEF Rank

LEMMA RankPositive ==
  ASSUME TypeOK, NEW e \in live
  PROVE  Rank(e) >= 1
<1> DEFINE S == {d \in live : d <= e}
<1>1. IsFiniteSet(S)
  BY ListFinite, FS_Subset
<1>2. e \in S
  BY ListingAssumption DEF TypeOK
<1>3. Cardinality(S) # 0
  BY <1>1, <1>2, FS_EmptySet
<1>4. Cardinality(S) \in Nat
  BY <1>1, FS_CardinalityType
<1> QED  BY <1>3, <1>4 DEF Rank

LEMMA KeysAreNumbers == Entry \subseteq Nat \ {0} /\ PerPage \in Nat \ {0} /\ MaxPages \in Nat \ {0}
  BY ListingAssumption

-------------------------------------------------------------------------------
(* Type correctness.  A call that goes on has a page to go before the limit. *)
InLoop == pc = "reading" => page < MaxPages

Typed == TypeOK /\ InLoop

LEMMA NothingYet ==
  /\ Nothing \in [Entry -> 0 .. 2]
  /\ 0 \in 0 .. MaxPages /\ 0 < MaxPages
  /\ 0 \in 0 .. MaxChanges /\ 0 \in 0 .. MaxFaults /\ Honesty \subseteq BOOLEAN
<1>1. Nothing \in [Entry -> 0 .. 2]
  BY DEF Nothing
<1>2. 0 \in 0 .. MaxPages /\ 0 < MaxPages
  BY KeysAreNumbers
<1>3. 0 \in 0 .. MaxChanges /\ 0 \in 0 .. MaxFaults /\ Honesty \subseteq BOOLEAN
  BY ListingAssumption
<1> QED  BY <1>1, <1>2, <1>3

LEMMA TypedInit == ASSUME Init PROVE Typed
<1>1. live \subseteq Entry /\ steady \subseteq live /\ listed \subseteq Entry
  BY DEF Init
<1>2. honest \in BOOLEAN /\ lost \in BOOLEAN /\ shifted \in BOOLEAN
  BY NothingYet DEF Init
<1>3. /\ page \in 0 .. MaxPages /\ cursor \in Nat /\ got \in [Entry -> 0 .. 2]
      /\ changes \in 0 .. MaxChanges /\ faults \in 0 .. MaxFaults
  BY NothingYet DEF Init
<1>4. InLoop
  BY DEF Init, InLoop
<1> QED  BY <1>1, <1>2, <1>3, <1>4 DEF Init, Typed, TypeOK

LEMMA TypedFetch == ASSUME Typed, Fetch PROVE Typed'
<1> USE DEF Typed
<1>1. page' \in 0 .. MaxPages /\ page' = page + 1
  BY KeysAreNumbers DEF Fetch, Counted, TypeOK, InLoop
<1>2. cursor' \in Nat
  BY KeysAreNumbers DEF Fetch, TypeOK
<1>3. got' \in [Entry -> 0 .. 2]
  BY DEF Fetch, Taken, TypeOK
<1>4. /\ pc' \in {"idle", "reading"} /\ listed' \subseteq Entry
      /\ outcome' \in {"none", "complete", "capped", "tolerated", "failed"}
      /\ InLoop'
  <2>1. PICK more \in BOOLEAN : IF GoOn(more) THEN UNCHANGED <<pc, answer>>
                                ELSE Return(IF more THEN "capped" ELSE "complete", Taken)
    BY DEF Fetch
  <2>2. CASE GoOn(more)
    BY <2>1, <2>2, <1>1 DEF GoOn, Counted, answer, TypeOK, InLoop
  <2>3. CASE ~ GoOn(more)
    BY <2>1, <2>3 DEF Return, InLoop
  <2> QED  BY <2>2, <2>3
<1> QED
  BY <1>1, <1>2, <1>3, <1>4 DEF Fetch, TypeOK, forge, fixed, history

LEMMA TypedStep == ASSUME Typed, [Next]_vars PROVE Typed'
<1> USE DEF Typed, TypeOK, InLoop
<1>1. CASE Begin
  <2>1. page' \in 0 .. MaxPages /\ cursor' \in Nat /\ got' \in [Entry -> 0 .. 2]
    BY <1>1, NothingYet DEF Begin
  <2>2. InLoop'
    BY <1>1, NothingYet DEF Begin
  <2> QED
    BY <1>1, <2>1, <2>2 DEF Begin, forge, fixed, answer
<1>2. CASE Fetch
  BY <1>2, TypedFetch
<1>3. CASE Fail
  BY <1>3, ListingAssumption DEF Fail, Fault, Return, forge, fixed, reader, history
<1>4. CASE NotAccessible
  BY <1>4, ListingAssumption DEF NotAccessible, Fault, Return, forge, fixed, reader, history
<1>5. ASSUME NEW e \in Entry, Add(e) PROVE Typed'
  BY <1>5, ListingAssumption DEF Add, Change, fixed, reader, answer
<1>6. ASSUME NEW e \in Entry, Remove(e) PROVE Typed'
  BY <1>6, ListingAssumption DEF Remove, Change, fixed, reader, answer
<1>7. ASSUME NEW e \in Entry, NEW r \in Repo, Edit(e, r) PROVE Typed'
  BY <1>7, ListingAssumption DEF Edit, Change, fixed, reader, answer
<1>8. CASE UNCHANGED vars
  BY <1>8 DEF vars, forge, fixed, reader, answer, history
<1> QED
  BY <1>1, <1>2, <1>3, <1>4, <1>5, <1>6, <1>7, <1>8 DEF Next, Others

(* Every variable of the reader, of the list and of what is remembered of   *)
(* them keeps its type, and no call reads past the page limit.             *)
THEOREM TypeCorrect == Spec => []TypeOK
<1>1. Init => Typed
  BY TypedInit
<1>2. Typed /\ [Next]_vars => Typed'
  BY TypedStep
<1>3. Typed => TypeOK
  BY DEF Typed
<1> QED  BY <1>1, <1>2, <1>3, PTL DEF Spec

-------------------------------------------------------------------------------
(* The frontier. *)
Passed == ~ lost => \A e \in steady : Wanted(e) /\ Behind(e) => got[e] > 0

OnlyWanted == \A e \in steady : got[e] > 0 => Wanted(e)

Fresh == ~ shifted => \A e \in steady : got[e] <= 1 /\ (~ Behind(e) => got[e] = 0)

Frontier == Typed /\ Passed /\ OnlyWanted /\ Fresh

(* A page moves the frontier over the entries it holds, and over no other.  *)
LEMMA PageMoves ==
  ASSUME Typed, Fetch, NEW e \in live
  PROVE  /\ Behind(e)' <=> Behind(e) \/ e \in Page
         /\ e \in Page => ~ Behind(e)
<1> USE DEF Typed
<1>0. e \in Entry /\ e \in Nat /\ Rank(e) \in Nat /\ Rank(e)' = Rank(e) /\ ByCursor' = ByCursor
  BY KeysAreNumbers, RankType DEF TypeOK, Fetch, forge, fixed, Rank, ByCursor
<1>1. e \in Page => ~ Behind(e)
  BY DEF Page
<1>2. CASE ~ ByCursor
  <2>1. Read \in Nat /\ Read' = Read + PerPage
    BY KeysAreNumbers DEF Read, Fetch, Counted, TypeOK
  <2> QED
    BY <1>0, <1>1, <1>2, <2>1, KeysAreNumbers DEF Behind, Page
<1>3. CASE ByCursor
  <2>1. cursor \in Nat /\ (IF Page = {} THEN cursor' = cursor
                           ELSE cursor' \in Page /\ \A d \in Page : d <= cursor')
    BY DEF Fetch, EndCursor, TypeOK
  <2>2. \A d \in Page : d \in live /\ d \in Nat /\ cursor < d
    BY <1>3, KeysAreNumbers DEF Page, Behind, TypeOK
  <2>3. ASSUME Page # {}, cursor < e, e <= cursor' PROVE e \in Page
    <3>1. cursor' \in Page
      BY <2>1, <2>3
    <3>2. AfterCursor(e) \subseteq AfterCursor(cursor')
      <4>1. live \subseteq Nat /\ cursor' \in Nat
        BY <2>2, <3>1, KeysAreNumbers DEF TypeOK
      <4>2. ASSUME NEW d \in live, d <= e PROVE d <= cursor'
        BY <1>0, <2>3, <4>1, <4>2
      <4> QED  BY <4>2 DEF AfterCursor
    <3>3. IsFiniteSet(AfterCursor(cursor'))
      BY ListFinite, FS_Subset DEF AfterCursor
    <3>4. /\ Cardinality(AfterCursor(e)) <= Cardinality(AfterCursor(cursor'))
          /\ IsFiniteSet(AfterCursor(e))
      BY <3>2, <3>3, FS_Subset
    <3>5. Cardinality(AfterCursor(e)) \in Nat /\ Cardinality(AfterCursor(cursor')) \in Nat
      BY <3>3, <3>4, FS_CardinalityType
    <3>6. Cardinality(AfterCursor(cursor')) <= PerPage
      BY <1>3, <3>1 DEF Page
    <3> QED
      BY <1>0, <1>3, <2>1, <2>3, <3>4, <3>5, <3>6, KeysAreNumbers DEF Page, Behind
  <2>4. Behind(e)' <=> e <= cursor'
    BY <1>0, <1>3 DEF Behind
  <2>5. Behind(e) <=> e <= cursor
    BY <1>3 DEF Behind
  <2>6. CASE Page = {}
    BY <2>1, <2>4, <2>5, <2>6
  <2>7. CASE Page # {}
    <3>1. cursor' \in Nat /\ cursor < cursor'
      BY <2>1, <2>2, <2>7
    <3> QED
      BY <1>0, <2>1, <2>2, <2>3, <2>4, <2>5, <2>7, <3>1
  <2> QED  BY <1>1, <2>6, <2>7
<1> QED  BY <1>2, <1>3

(* What an addition or a removal does to the ranks of the others. *)
LEMMA RankAdd ==
  ASSUME Typed, NEW x \in Entry, Add(x), NEW e \in live
  PROVE  /\ Rank(e)' \in Nat /\ Rank(e) \in Nat /\ Rank(x) \in Nat
         /\ Rank(e)' >= Rank(e)
         /\ Rank(e)' # Rank(e) => Rank(e) > Rank(x)
<1> USE DEF Typed
<1> DEFINE U == {d \in live : d <= e}
           V == {d \in live' : d <= e}
           W == {d \in live : d <= x}
<1>0. e \in Entry /\ e \in Nat /\ x \in Nat /\ live' = live \cup {x} /\ live \subseteq Nat /\ x \notin live
  BY KeysAreNumbers DEF TypeOK, Add
<1>1. IsFiniteSet(U) /\ IsFiniteSet(W) /\ IsFiniteSet(live')
  BY <1>0, ListFinite, FS_Subset, FS_AddElement
<1>2. IsFiniteSet(V)
  BY <1>1, FS_Subset
<1>3. Cardinality(U) \in Nat /\ Cardinality(V) \in Nat /\ Cardinality(W) \in Nat
  BY <1>1, <1>2, FS_CardinalityType
<1>4. U \subseteq V
  BY <1>0
<1>5. Cardinality(U) <= Cardinality(V)
  BY <1>2, <1>4, FS_Subset
<1>6. CASE x > e
  <2>1. U = V
    BY <1>0, <1>6
  <2> QED  BY <2>1, <1>3 DEF Rank
<1>7. CASE ~ x > e
  <2>0. x < e
    BY <1>0, <1>7
  <2>1. W \cup {e} \subseteq U /\ e \notin W
    <3>1. ASSUME NEW d \in W PROVE d \in U /\ d # e
      BY <1>0, <2>0, <3>1
    <3>2. e \in U
      BY <1>0
    <3> QED  BY <3>1, <3>2
  <2>2. Cardinality(W \cup {e}) = Cardinality(W) + 1 /\ IsFiniteSet(W \cup {e})
    BY <1>1, <2>1, FS_AddElement
  <2>3. Cardinality(W \cup {e}) <= Cardinality(U)
    BY <1>1, <2>1, FS_Subset
  <2> QED  BY <1>3, <1>5, <2>2, <2>3 DEF Rank
<1> QED  BY <1>6, <1>7

LEMMA RankRemove ==
  ASSUME Typed, NEW x \in Entry, Remove(x), NEW e \in live, e # x
  PROVE  /\ Rank(e)' \in Nat /\ Rank(e) \in Nat /\ Rank(x) \in Nat
         /\ Rank(e)' <= Rank(e)
         /\ Rank(e)' # Rank(e) => Rank(e)' >= Rank(x)
<1> USE DEF Typed
<1> DEFINE U == {d \in live : d <= e}
           V == {d \in live' : d <= e}
           W == {d \in live : d <= x}
<1>0. e \in Entry /\ e \in Nat /\ x \in Nat /\ live' = live \ {x} /\ live \subseteq Nat /\ x \in live
  BY KeysAreNumbers DEF TypeOK, Remove
<1>1. IsFiniteSet(U) /\ IsFiniteSet(W)
  BY ListFinite, FS_Subset
<1>2. V \subseteq U
  BY <1>0
<1>3. IsFiniteSet(V) /\ Cardinality(V) <= Cardinality(U)
  BY <1>1, <1>2, FS_Subset
<1>4. Cardinality(U) \in Nat /\ Cardinality(V) \in Nat /\ Cardinality(W) \in Nat
  BY <1>1, <1>3, FS_CardinalityType
<1>5. CASE x > e
  <2>1. U = V
    BY <1>0, <1>5
  <2> QED  BY <2>1, <1>4 DEF Rank
<1>6. CASE ~ x > e
  <2> DEFINE B == W \ {x}
  <2>0. x < e
    BY <1>0, <1>6
  <2>1. IsFiniteSet(B) /\ e \notin B /\ x \notin B /\ W = B \cup {x} /\ B \cup {e} \subseteq V
    <3>1. IsFiniteSet(B) /\ x \notin B
      BY <1>1, FS_Subset
    <3>2. x \in W
      BY <1>0
    <3>3. W = B \cup {x}
      BY <3>2
    <3>4. ASSUME NEW d \in B PROVE d \in V /\ d # e
      <4>1. d \in live /\ d \in Nat /\ d <= x /\ d # x
        BY <1>0
      <4> QED  BY <1>0, <2>0, <4>1
    <3>5. e \in V
      BY <1>0
    <3> QED  BY <3>1, <3>3, <3>4, <3>5
  <2>2. Cardinality(W) = Cardinality(B) + 1
    BY <2>1, FS_AddElement
  <2>3. Cardinality(B \cup {e}) = Cardinality(B) + 1
    BY <2>1, FS_AddElement
  <2>4. Cardinality(B \cup {e}) <= Cardinality(V)
    BY <1>3, <2>1, FS_Subset
  <2> QED  BY <1>3, <1>4, <2>2, <2>3, <2>4 DEF Rank
<1> QED  BY <1>5, <1>6

-------------------------------------------------------------------------------
LEMMA FrontierInit == ASSUME Init PROVE Frontier
  BY TypedInit DEF Init, Frontier, Passed, OnlyWanted, Fresh

LEMMA FrontierBegin == ASSUME Frontier, Begin PROVE Frontier'
<1>1. Typed'
  BY TypedStep DEF Frontier, Next
<1>2. page' = 0 /\ cursor' = 0 /\ got' = Nothing /\ steady' = live' /\ live' \subseteq Entry
  BY DEF Begin, forge, Frontier, Typed, TypeOK
<1>3. \A e \in live' : ~ Behind(e)'
  <2>1. ASSUME NEW e \in live PROVE ~ Behind(e)'
    <3>1. /\ Rank(e) >= 1 /\ Rank(e) \in Nat /\ Rank(e)' = Rank(e) /\ e \in Nat \ {0}
      BY RankPositive, RankType, KeysAreNumbers
      DEF Frontier, Typed, TypeOK, Begin, forge, Rank
    <3>2. Read' = 0
      BY <1>2, KeysAreNumbers DEF Read
    <3> QED  BY <1>2, <3>1, <3>2 DEF Behind
  <2> QED  BY <2>1 DEF Begin, forge
<1>4. \A e \in steady' : ~ Behind(e)' /\ got'[e] = 0
  BY <1>2, <1>3 DEF Nothing
<1> QED
  BY <1>1, <1>4 DEF Frontier, Passed, OnlyWanted, Fresh

LEMMA FrontierFetch == ASSUME Frontier, Fetch PROVE Frontier'
<1>1. Typed' /\ Typed
  BY TypedStep DEF Frontier, Next
<1>2. /\ steady' = steady /\ lost' = lost /\ shifted' = shifted
      /\ steady \subseteq live /\ live \subseteq Entry /\ got' = Taken
      /\ got \in [Entry -> 0 .. 2]
  BY DEF Fetch, history, Frontier, Typed, TypeOK
<1>3. ASSUME NEW e \in steady
      PROVE  /\ Wanted(e)' <=> Wanted(e)
             /\ Behind(e)' <=> Behind(e) \/ e \in Page
             /\ e \in Page => ~ Behind(e)
             /\ got'[e] = IF e \in Page /\ Wanted(e) /\ got[e] < 2 THEN got[e] + 1 ELSE got[e]
             /\ got[e] \in 0 .. 2
  <2>1. Wanted(e)' <=> Wanted(e)
    BY DEF Fetch, fixed, forge, Wanted
  <2>2. got'[e] = IF e \in Page /\ Wanted(e) /\ got[e] < 2 THEN got[e] + 1 ELSE got[e]
    BY <1>2 DEF Taken
  <2> QED  BY <1>1, <1>2, <2>1, <2>2, PageMoves
<1>4. Passed'
  BY <1>2, <1>3 DEF Frontier, Passed
<1>5. OnlyWanted'
  BY <1>2, <1>3 DEF Frontier, OnlyWanted
<1>6. Fresh'
  BY <1>2, <1>3 DEF Frontier, Fresh
<1> QED  BY <1>1, <1>4, <1>5, <1>6 DEF Frontier

LEMMA FrontierAdd == ASSUME Frontier, NEW x \in Entry, Add(x) PROVE Frontier'
<1>1. Typed' /\ Typed
  BY TypedStep DEF Frontier, Next, Others
<1>2. /\ steady' = steady /\ lost' = lost /\ got' = got /\ page' = page /\ cursor' = cursor
      /\ call' = call /\ selector' = selector /\ repo' = repo
      /\ steady \subseteq live /\ live \subseteq Entry
      /\ shifted' = (shifted \/ (~ ByCursor /\ Rank(x) < Read))
  BY DEF Add, fixed, reader, Typed, TypeOK, Frontier
<1>3. Read \in Nat /\ Read' = Read /\ ByCursor' = ByCursor
  BY <1>1, <1>2, KeysAreNumbers DEF Read, ByCursor, Typed, TypeOK
<1>4. ASSUME NEW e \in steady
      PROVE  /\ Wanted(e)' <=> Wanted(e)
             /\ Behind(e)' => Behind(e)
             /\ ~ shifted' /\ Behind(e) => Behind(e)'
  <2>1. Wanted(e)' <=> Wanted(e)
    BY <1>2 DEF Wanted
  <2>2. e \in live
    BY <1>2
  <2>3. /\ Rank(e)' \in Nat /\ Rank(e) \in Nat /\ Rank(x) \in Nat
        /\ Rank(e)' >= Rank(e) /\ (Rank(e)' # Rank(e) => Rank(e) > Rank(x))
    BY <1>1, <2>2, RankAdd
  <2>4. CASE ByCursor
    BY <1>2, <1>3, <2>1, <2>4 DEF Behind
  <2>5. CASE ~ ByCursor
    <3>1. (Behind(e) <=> Rank(e) <= Read) /\ (Behind(e)' <=> Rank(e)' <= Read)
      BY <1>3, <2>5 DEF Behind
    <3>2. ~ shifted' => ~ Rank(x) < Read
      BY <1>2, <2>5
    <3>3. Behind(e)' => Behind(e)
      BY <1>3, <2>3, <3>1
    <3>4. ~ shifted' /\ Behind(e) => Behind(e)'
      BY <1>3, <2>3, <3>1, <3>2
    <3> QED  BY <2>1, <3>3, <3>4
  <2> QED  BY <2>4, <2>5
<1>5. ~ shifted' => ~ shifted
  BY <1>2
<1> QED
  BY <1>1, <1>2, <1>4, <1>5 DEF Frontier, Passed, OnlyWanted, Fresh

LEMMA FrontierRemove == ASSUME Frontier, NEW x \in Entry, Remove(x) PROVE Frontier'
<1>1. Typed' /\ Typed
  BY TypedStep DEF Frontier, Next, Others
<1>2. /\ steady' = steady \ {x} /\ shifted' = shifted /\ got' = got
      /\ page' = page /\ cursor' = cursor
      /\ call' = call /\ selector' = selector /\ repo' = repo
      /\ steady \subseteq live /\ live \subseteq Entry
      /\ lost' = (lost \/ (~ ByCursor /\ Rank(x) <= Read))
  BY DEF Remove, fixed, reader, Typed, TypeOK, Frontier
<1>3. Read \in Nat /\ Read' = Read /\ ByCursor' = ByCursor
  BY <1>1, <1>2, KeysAreNumbers DEF Read, ByCursor, Typed, TypeOK
<1>4. ASSUME NEW e \in steady'
      PROVE  /\ Wanted(e)' <=> Wanted(e)
             /\ Behind(e) => Behind(e)'
             /\ ~ lost' /\ Behind(e)' => Behind(e)
             /\ e \in steady
  <2>1. Wanted(e)' <=> Wanted(e)
    BY <1>2 DEF Wanted
  <2>2. e \in live /\ e # x /\ e \in steady
    BY <1>2
  <2>3. /\ Rank(e)' \in Nat /\ Rank(e) \in Nat /\ Rank(x) \in Nat
        /\ Rank(e)' <= Rank(e) /\ (Rank(e)' # Rank(e) => Rank(e)' >= Rank(x))
    BY <1>1, <2>2, RankRemove
  <2>4. CASE ByCursor
    BY <1>2, <1>3, <2>1, <2>2, <2>4 DEF Behind
  <2>5. CASE ~ ByCursor
    <3>1. (Behind(e) <=> Rank(e) <= Read) /\ (Behind(e)' <=> Rank(e)' <= Read)
      BY <1>3, <2>5 DEF Behind
    <3>2. ~ lost' => ~ Rank(x) <= Read
      BY <1>2, <2>5
    <3>3. Behind(e) => Behind(e)'
      BY <1>3, <2>3, <3>1
    <3>4. ~ lost' /\ Behind(e)' => Behind(e)
      BY <1>3, <2>3, <3>1, <3>2
    <3> QED  BY <2>1, <2>2, <3>3, <3>4
  <2> QED  BY <2>4, <2>5
<1>5. ~ lost' => ~ lost
  BY <1>2
<1> QED
  BY <1>1, <1>2, <1>4, <1>5 DEF Frontier, Passed, OnlyWanted, Fresh

LEMMA FrontierEdit ==
  ASSUME Frontier, NEW x \in Entry, NEW r \in Repo, Edit(x, r) PROVE Frontier'
<1>1. Typed' /\ Typed
  BY TypedStep DEF Frontier, Next, Others
<1>2. /\ steady' = steady \ {x} /\ shifted' = shifted /\ lost' = lost /\ got' = got
      /\ page' = page /\ cursor' = cursor /\ live' = live
      /\ call' = call /\ selector' = selector
      /\ repo' = [repo EXCEPT ![x] = r]
  BY DEF Edit, fixed, reader
<1>3. ASSUME NEW e \in steady'
      PROVE  (Wanted(e)' <=> Wanted(e)) /\ (Behind(e)' <=> Behind(e)) /\ e \in steady
  <2>1. e # x /\ e \in steady /\ e \in Entry
    BY <1>1, <1>2 DEF Typed, TypeOK
  <2>2. repo'[e] = repo[e]
    BY <1>1, <1>2, <2>1 DEF Typed, TypeOK
  <2>3. Wanted(e)' <=> Wanted(e)
    BY <1>2, <2>2 DEF Wanted
  <2>4. Behind(e)' <=> Behind(e)
    BY <1>2 DEF Behind, ByCursor, Rank, Read
  <2> QED  BY <2>1, <2>3, <2>4
<1> QED
  BY <1>1, <1>2, <1>3 DEF Frontier, Passed, OnlyWanted, Fresh

LEMMA FrontierStill ==
  ASSUME Frontier, Typed', UNCHANGED <<forge, fixed, reader, history>> PROVE Frontier'
<1>1. \A e \in steady : (Wanted(e)' <=> Wanted(e)) /\ (Behind(e)' <=> Behind(e))
  BY DEF forge, fixed, reader, Wanted, Behind, ByCursor, Rank, Read
<1> QED
  BY <1>1 DEF Frontier, Passed, OnlyWanted, Fresh, history, reader

LEMMA FrontierStep == ASSUME Frontier, [Next]_vars PROVE Frontier'
<1>0. Typed'
  BY TypedStep DEF Frontier
<1>1. CASE Begin
  BY <1>1, FrontierBegin
<1>2. CASE Fetch
  BY <1>2, FrontierFetch
<1>3. CASE Fail
  BY <1>0, <1>3, FrontierStill DEF Fail
<1>4. CASE NotAccessible
  BY <1>0, <1>4, FrontierStill DEF NotAccessible
<1>5. ASSUME NEW e \in Entry, Add(e) PROVE Frontier'
  BY <1>5, FrontierAdd
<1>6. ASSUME NEW e \in Entry, Remove(e) PROVE Frontier'
  BY <1>6, FrontierRemove
<1>7. ASSUME NEW e \in Entry, NEW r \in Repo, Edit(e, r) PROVE Frontier'
  BY <1>7, FrontierEdit
<1>8. CASE UNCHANGED vars
  BY <1>0, <1>8, FrontierStill DEF vars
<1> QED
  BY <1>1, <1>2, <1>3, <1>4, <1>5, <1>6, <1>7, <1>8 DEF Next, Others

(* An entry that stays is taken once, by any reader, unless one was added   *)
(* where numbered pages had been.                                          *)
THEOREM NothingTakenTwice == Spec => []TakenOnce
<1>1. Init => Frontier
  BY FrontierInit
<1>2. Frontier /\ [Next]_vars => Frontier'
  BY FrontierStep
<1>3. Frontier => TakenOnce
  BY DEF Frontier, Fresh, TakenOnce
<1> QED  BY <1>1, <1>2, <1>3, PTL DEF Spec

-------------------------------------------------------------------------------
(* A call that ends with the last page has nothing ahead of it. *)
LEMMA CompleteExact ==
  ASSUME Frontier, Frontier', Fetch, outcome' = "complete", pc' = "idle", ~ lost
  PROVE  \A e \in steady : e \in listed' <=> Wanted(e)
<1>1. PICK more \in BOOLEAN :
        /\ HasNext(more)
        /\ IF GoOn(more) THEN UNCHANGED <<pc, answer>>
           ELSE Return(IF more THEN "capped" ELSE "complete", Taken)
  BY DEF Fetch
<1>2. ~ GoOn(more) /\ more = FALSE
  <2>1. ~ GoOn(more)
    BY <1>1 DEF Fetch
  <2> QED  BY <1>1, <2>1 DEF Return
<1>3. listed' = {e \in Entry : Taken[e] > 0} /\ got' = Taken
  BY <1>1, <1>2 DEF Return, Fetch
<1>4. \A e \in live : Behind(e) \/ e \in Page
  BY <1>1, <1>2 DEF HasNext, Remains
<1>5. ASSUME NEW e \in steady
      PROVE  /\ e \in Entry /\ e \in steady' /\ got'[e] \in 0 .. 2
             /\ Behind(e)'
             /\ Wanted(e)' <=> Wanted(e)
  <2>1. e \in Entry /\ e \in live /\ e \in steady' /\ got'[e] \in 0 .. 2
    BY DEF Frontier, Typed, TypeOK, Fetch, history
  <2>2. Behind(e)'
    BY <1>4, <2>1, PageMoves DEF Frontier
  <2>3. Wanted(e)' <=> Wanted(e)
    BY DEF Fetch, fixed, forge, Wanted
  <2> QED  BY <2>1, <2>2, <2>3
<1>6. ~ lost'
  BY DEF Fetch, history
<1> QED
  BY <1>3, <1>5, <1>6 DEF Frontier, Passed, OnlyWanted

IExact == Frontier /\ Exact

LEMMA ExactStill ==
  ASSUME Exact, steady' \subseteq steady, ~ lost' => ~ lost, UNCHANGED <<pc, answer>>,
         \A e \in steady' : Wanted(e)' <=> Wanted(e)
  PROVE  Exact'
  BY DEF Exact, answer

LEMMA ExactStep == ASSUME IExact, [Next]_vars PROVE IExact'
<1>0. Frontier /\ Frontier' /\ Exact
  BY FrontierStep DEF IExact
<1>1. CASE Begin
  BY <1>0, <1>1 DEF Begin, IExact, Exact
<1>2. CASE Fetch
  <2>1. steady' = steady /\ lost' = lost
    BY <1>2 DEF Fetch, history
  <2>2. \A e \in steady : Wanted(e)' <=> Wanted(e)
    BY <1>2 DEF Fetch, fixed, forge, Wanted
  <2> QED
    BY <1>0, <1>2, <2>1, <2>2, CompleteExact DEF IExact, Exact
<1>3. CASE Fail
  BY <1>0, <1>3 DEF Fail, Return, IExact, Exact
<1>4. CASE NotAccessible
  BY <1>0, <1>4 DEF NotAccessible, Return, IExact, Exact
<1>5. ASSUME NEW x \in Entry, Add(x) PROVE IExact'
  <2>1. steady' = steady /\ lost' = lost /\ UNCHANGED <<pc, answer>>
    BY <1>5 DEF Add
  <2>2. \A e \in steady' : Wanted(e)' <=> Wanted(e)
    BY <1>5 DEF Add, fixed, Wanted
  <2> QED  BY <1>0, <2>1, <2>2, ExactStill DEF IExact
<1>6. ASSUME NEW x \in Entry, Remove(x) PROVE IExact'
  <2>1. steady' \subseteq steady /\ (~ lost' => ~ lost) /\ UNCHANGED <<pc, answer>>
    BY <1>6 DEF Remove
  <2>2. \A e \in steady' : Wanted(e)' <=> Wanted(e)
    BY <1>6 DEF Remove, fixed, Wanted
  <2> QED  BY <1>0, <2>1, <2>2, ExactStill DEF IExact
<1>7. ASSUME NEW x \in Entry, NEW r \in Repo, Edit(x, r) PROVE IExact'
  <2>1. steady' \subseteq steady /\ lost' = lost /\ UNCHANGED <<pc, answer>>
    BY <1>7 DEF Edit
  <2>2. \A e \in steady' : e # x /\ e \in Entry
    BY <1>0, <1>7 DEF Edit, Frontier, Typed, TypeOK
  <2>3. \A e \in steady' : repo'[e] = repo[e]
    BY <1>0, <1>7, <2>2 DEF Edit, Frontier, Typed, TypeOK
  <2>4. \A e \in steady' : Wanted(e)' <=> Wanted(e)
    BY <1>7, <2>3 DEF Edit, fixed, Wanted
  <2> QED  BY <1>0, <2>1, <2>4, ExactStill DEF IExact
<1>8. CASE UNCHANGED vars
  <2>1. \A e \in steady' : Wanted(e)' <=> Wanted(e)
    BY <1>8 DEF vars, fixed, forge, Wanted
  <2> QED  BY <1>0, <1>8, <2>1, ExactStill DEF IExact, vars, history
<1> QED
  BY <1>1, <1>2, <1>3, <1>4, <1>5, <1>6, <1>7, <1>8 DEF Next, Others

(* Whoever reads a list to its end has exactly what stayed on it and is     *)
(* wanted: with a cursor always, with numbered pages unless an entry was    *)
(* removed where they had been read.                                       *)
THEOREM ReadingIsExact == Spec => []Exact
<1>1. Init => IExact
  BY FrontierInit DEF IExact, Exact, Init
<1>2. IExact /\ [Next]_vars => IExact'
  BY ExactStep
<1>3. IExact => Exact
  BY DEF IExact
<1> QED  BY <1>1, <1>2, <1>3, PTL DEF Spec
===============================================================================
