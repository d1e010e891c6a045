--------------------------- MODULE ListingsProofs ---------------------------
(***************************************************************************)
(* Theorems of Listings for any mock events, requests, lengths of lists    *)
(* and edits.  An answer is put together from several queries; each of     *)
(* them returns what it should of the rows of its moment, and an event     *)
(* that is not edited while a request is served counts the same for all    *)
(* of its queries.                                                         *)
(***************************************************************************)
EXTENDS Listings, StartupProofs, FiniteSetTheorems

-----------------------------------------------------------------------------
(* The catalogue underneath *)

\* Requests only read, so the catalogue behaves as it does without them.
THEOREM CatalogueUnderneath == Spec => StartupSpec
<1>1. Init => StartupInit
  BY DEF Init
<1>2. [Next]_vars => [StartupNext]_startupVars
  BY DEF Next, Meanwhile, vars
<1> QED  BY <1>1, <1>2, PTL DEF Spec, StartupSpec

\* What the seed and the administrators may rely on holds of the catalogue that
\* is served, whoever asks meanwhile.
THEOREM ServedCatalogueIsSeeded ==
  Spec => /\ []OnlyNamesBlockSeeding /\ []SeededBeforeBoot
          /\ EditsSurvive
BY CatalogueUnderneath, OnlyNamesEverBlock, AlwaysSeededBeforeBoot,
   EditsAlwaysSurvive, PTL

-----------------------------------------------------------------------------
(* The lists by category *)

LEMMA ListNames ==
  /\ DOMAIN Lists = 1 .. 5 /\ Len(Lists) = 5
  /\ Lists[1] = "MUSIC" /\ Lists[2] = "THEATERS_AND_ART" /\ Lists[3] = "SPORT"
  /\ Lists[4] = "OTHER" /\ Lists[5] = "trending"
  /\ Range(Lists) = {"MUSIC", "THEATERS_AND_ART", "SPORT", "OTHER", "trending"}
<1>1. DOMAIN Lists = 1 .. 5 /\ Len(Lists) = 5
  BY DEF Lists
<1>2. /\ Lists[1] = "MUSIC" /\ Lists[2] = "THEATERS_AND_ART"
      /\ Lists[3] = "SPORT" /\ Lists[4] = "OTHER" /\ Lists[5] = "trending"
  BY DEF Lists
<1>3. Range(Lists) = {Lists[i] : i \in 1 .. 5}
  BY <1>1 DEF Range
<1>4. {Lists[i] : i \in 1 .. 5}
        = {Lists[1], Lists[2], Lists[3], Lists[4], Lists[5]}
  OBVIOUS
<1> QED  BY <1>1, <1>2, <1>3, <1>4

\* A stage is the query of one list at most.
LEMMA ListsDiffer ==
  ASSUME NEW i \in 1 .. 5, NEW j \in 1 .. 5, Lists[i] = Lists[j]
  PROVE  i = j
BY ListNames

LEMMA RouteNames ==
  {"recommended", "categories", "upcoming", "most-sold"} \subseteq Range(Routes)
<1>1. DOMAIN Routes = 1 .. 5
  BY DEF Routes
<1>2. /\ Routes[1] = "recommended" /\ Routes[2] = "categories"
      /\ Routes[4] = "upcoming" /\ Routes[5] = "most-sold"
  BY DEF Routes
<1>3. \A i \in 1 .. 5 : Routes[i] \in Range(Routes)
  BY <1>1 DEF Range
<1> QED  BY <1>2, <1>3

-----------------------------------------------------------------------------
(* Queries *)

LEMMA SmallerOfTwo ==
  ASSUME NEW a \in Int, NEW b \in Int
  PROVE  Min({a, b}) \in {a, b} /\ Min({a, b}) <= a /\ Min({a, b}) <= b
<1>1. \E x \in {a, b} : \A y \in {a, b} : x <= y
  <2>1. CASE a <= b
    BY <2>1
  <2>2. CASE b <= a
    BY <2>2
  <2> QED  BY <2>1, <2>2
<1> QED  BY <1>1 DEF Min

\* A query for k rows returns k of them, or all.
LEMMA SomeRows ==
  ASSUME NEW M, IsFiniteSet(M), NEW k \in Nat, NEW S \in Some(M, k)
  PROVE  /\ S \subseteq M /\ IsFiniteSet(S)
         /\ Cardinality(S) \in Nat /\ Cardinality(S) <= k
         /\ S # M => Cardinality(S) = k
<1> DEFINE m == Cardinality(M)
           s == Cardinality(S)
<1>1. S \in SUBSET M /\ s = Min({k, m})
  BY DEF Some, kSubset
<1>2. IsFiniteSet(S) /\ (m = s => M = S)
  BY <1>1, FS_Subset
<1>3. m \in Nat /\ s \in Nat
  BY <1>2, FS_CardinalityType
<1> HIDE DEF m, s
<1>4. Min({k, m}) \in {k, m} /\ Min({k, m}) <= k
  BY <1>3, SmallerOfTwo
<1>5. s <= k /\ (s # m => s = k)
  BY <1>1, <1>4
<1> QED  BY <1>1, <1>2, <1>3, <1>5 DEF s

\* The followed events are finitely many.
LEMMA FollowedFinite == IsFiniteSet(Followed) /\ Followed \subseteq Nat \ {0}
<1>1. \A n \in Nat : IsFiniteSet(1 .. n)
  BY FS_Interval
<1>2. Followed \in SUBSET (1 .. 42)
  BY FollowedAssumption DEF MockEvents
<1>3. IsFiniteSet(Followed)
  <2>1. 42 \in Nat
    OBVIOUS
  <2>2. IsFiniteSet(1 .. 42)
    BY <1>1, <2>1
  <2> QED  BY <1>2, <2>2, FS_Subset
<1>4. Followed \subseteq Nat \ {0}
  BY <1>2
<1> QED  BY <1>3, <1>4

LEMMA PartFinite == ASSUME NEW M \in SUBSET Followed PROVE IsFiniteSet(M)
BY FollowedFinite, FS_Subset
-----------------------------------------------------------------------------
(* The course of a request *)

Domains ==
  /\ StartupTypeOK
  /\ word \in [Requests -> Range(Routes) \cup {NoWord, "an id"}]
  /\ at \in [Requests -> Asked]
  /\ subject \in [Requests -> Followed \cup {NoEvent}]
  /\ topics \in [Requests -> SUBSET Category]
  /\ dates \in [Requests -> SUBSET AnyDate]
  /\ got \in [Requests -> Seq(SUBSET Followed)]
  /\ touched \in [Requests -> SUBSET Followed]

\* The query that is next tells which route it is for and how many answers
\* there are; a word of a route that is shadowed is the id of no event.
Shape(r) ==
  /\ at[r] = "idle" => /\ word[r] = NoWord /\ subject[r] = NoEvent
                       /\ got[r] = <<>> /\ touched[r] = {}
  /\ at[r] \in {"find", "sale"} =>
       /\ got[r] = <<>>
       /\ \/ word[r] \in {"recommended", "an id"} /\ subject[r] \in Followed
          \/ at[r] = "find" /\ subject[r] = NoEvent
                            /\ word[r] \in {"upcoming", "most-sold"}
  /\ at[r] = "same" => /\ word[r] = "recommended" /\ subject[r] \in Followed
                       /\ got[r] = <<>>
  /\ at[r] = "others" => /\ word[r] = "recommended" /\ subject[r] \in Followed
                         /\ Len(got[r]) = 1
  /\ at[r] = "published" => /\ word[r] = "recommended" /\ subject[r] = NoEvent
                            /\ got[r] = <<>>
  /\ at[r] = "page" => word[r] = NoWord
  /\ at[r] \in Range(Lists) =>
       /\ word[r] = "categories"
       /\ Len(got[r]) < 5 /\ at[r] = Lists[Len(got[r]) + 1]
  /\ at[r] = "done" => \/ word[r] = "an id"
                       \/ word[r] \in {NoWord, "recommended"} /\ got[r] # <<>>
                       \/ word[r] = "categories" /\ Len(got[r]) = 5

RequestInvariant == Domains /\ \A r \in Requests : Shape(r)

\* What one request has and another does not touch.
Own(r) == <<word[r], at[r], subject[r], topics[r], dates[r], got[r], touched[r]>>

LEMMA OthersWait ==
  ASSUME Domains, NEW q \in Requests, Request(q), NEW r \in Requests, r # q
  PROVE  Own(r)' = Own(r)
BY DEF Domains, Own, Request, Query, FindEvents, GetEventsByAllCategories,
       GetRecommendedEvents, FindOne, Get, ListCategory, FindEventById,
       GetSaleData, RecommendSame, RecommendOthers, RecommendPublished,
       NextPage, Go, Answer

\* A request is not touched by its own steps.
LEMMA TouchedByOthers ==
  ASSUME NEW r \in Requests, Request(r)
  PROVE  touched' = touched
BY DEF Request, Query, FindEvents, GetEventsByAllCategories,
       GetRecommendedEvents, FindOne, Get, ListCategory, FindEventById,
       GetSaleData, RecommendSame, RecommendOthers, RecommendPublished,
       NextPage, Go

\* The steps of a request, and what they append to its answers.
LEMMA AnswerType ==
  ASSUME Domains, NEW r \in Requests, NEW S \in SUBSET Followed, Answer(r, S)
  PROVE  /\ got' \in [Requests -> Seq(SUBSET Followed)]
         /\ got'[r] = Append(got[r], S)
         /\ got'[r] # <<>> /\ Len(got'[r]) = Len(got[r]) + 1
<1>1. got[r] \in Seq(SUBSET Followed)
  BY DEF Domains
<1>2. /\ Append(got[r], S) \in Seq(SUBSET Followed)
      /\ Append(got[r], S) # <<>>
      /\ Len(Append(got[r], S)) = Len(got[r]) + 1
  <2>1. Append(got[r], S) \in Seq(SUBSET Followed)
    BY <1>1
  <2>2. Len(Append(got[r], S)) = Len(got[r]) + 1 /\ Len(got[r]) \in Nat
    BY <1>1
  <2>3. Len(<<>>) = 0
    OBVIOUS
  <2>4. Len(Append(got[r], S)) # Len(<<>>)
    BY <2>2, <2>3
  <2> QED  BY <2>1, <2>2, <2>4
<1> QED  BY <1>2 DEF Domains, Answer

\* Every query answers with followed events.
LEMMA QueriesAnswer ==
  ASSUME Domains, NEW r \in Requests,
         \/ ListCategory(r) \/ RecommendSame(r) \/ RecommendOthers(r)
         \/ RecommendPublished(r) \/ NextPage(r)
  PROVE  \E S \in SUBSET Followed : Answer(r, S)
<1>1. /\ events \subseteq Followed /\ infos \subseteq Followed
      /\ published \subseteq Followed
  BY DEF Domains, StartupTypeOK
<1>2. ASSUME NEW M \in SUBSET Followed, NEW k, NEW S \in Some(M, k)
      PROVE  S \in SUBSET Followed
  BY <1>2 DEF Some, kSubset
<1>3. ASSUME NEW M \in SUBSET Followed, NEW k, NEW key, NEW S \in Firsts(M, key, k)
      PROVE  S \in SUBSET Followed
  BY <1>2, <1>3 DEF Firsts
<1>4. CASE ListCategory(r)
  <2>1. PICK i \in DOMAIN Lists :
          LET M == {n \in infos : starts[n] \in dates[r] /\ ListMatches(i, n)} IN
          \E S \in IF Lists[i] = "trending" THEN Some(M, ListTake)
                                        ELSE Firsts(M, starts, ListTake) :
            Answer(r, S)
    BY <1>4 DEF ListCategory
  <2> QED  BY <1>1, <1>2, <1>3, <2>1
<1>5. CASE RecommendSame(r)
  <2>1. Sharing(r) \ {subject[r]} \in SUBSET Followed
    BY <1>1 DEF Sharing
  <2> QED  BY <1>2, <1>5, <2>1 DEF RecommendSame
<1>6. CASE RecommendOthers(r)
  BY <1>1, <1>2, <1>6 DEF RecommendOthers
<1>7. CASE RecommendPublished(r)
  BY <1>1, <1>2, <1>7 DEF RecommendPublished
<1>8. CASE NextPage(r)
  <2> DEFINE M == Matching(r)
             skip == (Len(got[r]) + 1 - 1) * PerPage
  <2>1. M \in SUBSET Followed
    BY <1>1 DEF Matching
  <2>2. \E S \in Slices(M, StartDate, skip, PerPage) : Answer(r, S)
    BY <1>8 DEF NextPage
  <2>3. \A S \in Slices(M, StartDate, skip, PerPage) :
          \E P : S \in Firsts(M \ P, StartDate, PerPage)
    BY DEF Slices
  <2> QED  BY <1>3, <2>1, <2>2, <2>3
<1> QED  BY <1>4, <1>5, <1>6, <1>7, <1>8

\* What a step of a request leaves alone.
LEMMA QueryKeeps ==
  ASSUME NEW r \in Requests, Query(r)
  PROVE  /\ UNCHANGED <<word, subject, dates>>
         /\ \/ UNCHANGED topics
            \/ topics' = [topics EXCEPT ![r] = IF subject[r] \in events
                                                 THEN categories[subject[r]] ELSE @]
BY DEF Query, ListCategory, FindEventById, GetSaleData, RecommendSame,
       RecommendOthers, RecommendPublished, NextPage, Go

\* The query of the list after another.
ListAfter(i) == IF i = 5 THEN "done" ELSE Lists[i + 1]

\* What the query of list i may answer.
ListAnswered(r, i) ==
  LET M == {n \in infos : starts[n] \in dates[r] /\ ListMatches(i, n)} IN
  \E S \in IF Lists[i] = "trending" THEN Some(M, ListTake)
                                    ELSE Firsts(M, starts, ListTake) : Answer(r, S)

\* One list of five: which one tells how many are there already.
LEMMA NextList ==
  ASSUME Domains, NEW r \in Requests, Shape(r), ListCategory(r)
  PROVE  \E i \in 1 .. 5 :
           /\ word[r] = "categories" /\ Len(got[r]) = i - 1
           /\ at[r] = Lists[i]
           /\ at' = [at EXCEPT ![r] = ListAfter(i)]
           /\ ListAnswered(r, i)
<1>1. PICK i \in 1 .. 5 :
        /\ Go(r, Lists[i], IF i = Len(Lists) THEN "done" ELSE Lists[i + 1])
        /\ ListAnswered(r, i)
  BY ListNames DEF ListCategory, ListAnswered
<1>2. /\ at[r] = Lists[i]
      /\ at' = [at EXCEPT ![r] = ListAfter(i)]
  BY <1>1, ListNames DEF Go, ListAfter
<1>3. Lists[i] \in Range(Lists)
  BY ListNames DEF Range
<1>4. /\ word[r] = "categories" /\ Len(got[r]) < 5
      /\ at[r] = Lists[Len(got[r]) + 1]
  BY <1>2, <1>3 DEF Shape
<1>5. Len(got[r]) \in Nat
  <2>1. got[r] \in Seq(SUBSET Followed)
    BY DEF Domains
  <2> QED  BY <2>1
<1>6. ASSUME NEW k \in Nat, k < 5, Lists[i] = Lists[k + 1] PROVE k = i - 1
  <2>1. k + 1 \in 1 .. 5
    BY <1>6
  <2>2. i = k + 1
    BY <1>6, <2>1, ListsDiffer
  <2> QED  BY <2>2
<1>7. Len(got[r]) = i - 1
  BY <1>2, <1>4, <1>5, <1>6
<1> QED  BY <1>1, <1>2, <1>4, <1>7

LEMMA StagesOfLists ==
  ASSUME NEW i \in 1 .. 5
  PROVE  ListAfter(i) \in Range(Lists) \cup {"done"}
<1>1. CASE i = 5
  BY <1>1 DEF ListAfter
<1>2. CASE i # 5
  <2>1. i + 1 \in 1 .. 5
    BY <1>2
  <2>2. Lists[i + 1] \in Range(Lists)
    BY <2>1, ListNames DEF Range
  <2> QED  BY <1>2, <2>2 DEF ListAfter
<1> QED  BY <1>1, <1>2

\* Where a query leads.
LEMMA QueryLeads ==
  ASSUME Domains, NEW r \in Requests, Shape(r), Query(r)
  PROVE  \E s \in Asked : at' = [at EXCEPT ![r] = s]
<1>1. CASE ListCategory(r)
  <2>1. PICK i \in 1 .. 5 : at' = [at EXCEPT ![r] = ListAfter(i)]
    BY <1>1, NextList
  <2>2. Range(Lists) \cup {"done"} \subseteq Asked
    BY DEF Asked, Querying
  <2> QED  BY <2>1, <2>2, StagesOfLists
<1>2. CASE \/ RecommendSame(r) \/ RecommendOthers(r)
           \/ RecommendPublished(r) \/ NextPage(r)
  <2>1. {"page", "done", "others"} \subseteq Asked
    BY DEF Asked, Querying
  <2>2. \E s \in {"page", "done", "others"} : at' = [at EXCEPT ![r] = s]
    BY <1>2 DEF RecommendSame, RecommendOthers, RecommendPublished, NextPage, Go
  <2> QED  BY <2>1, <2>2
<1>3. CASE FindEventById(r) \/ GetSaleData(r)
  <2>1. {"refused", "failed", "sale", "same", "done"} \subseteq Asked
    BY DEF Asked, Querying
  <2>2. \E s \in {"refused", "failed", "sale", "same", "done"} :
          at' = [at EXCEPT ![r] = s]
    BY <1>3 DEF FindEventById, GetSaleData, Go, AfterFind
  <2> QED  BY <2>1, <2>2
<1> QED  BY <1>1, <1>2, <1>3 DEF Query

LEMMA DomainsStep ==
  ASSUME Domains, \A r \in Requests : Shape(r), [Next]_vars
  PROVE  Domains'
<1>1. StartupTypeOK'
  <2>1. [StartupNext]_startupVars
    BY DEF Next, Meanwhile, vars
  <2> QED  BY <2>1, TypeStep DEF Domains
<1>2. ASSUME NEW r \in Requests, Query(r)
      PROVE  Domains'
  <2>1. /\ word' \in [Requests -> Range(Routes) \cup {NoWord, "an id"}]
        /\ subject' \in [Requests -> Followed \cup {NoEvent}]
        /\ dates' \in [Requests -> SUBSET AnyDate]
    BY <1>2, QueryKeeps DEF Domains
  <2>2. touched' \in [Requests -> SUBSET Followed]
    BY <1>2, TouchedByOthers DEF Domains, Request
  <2>3. topics' \in [Requests -> SUBSET Category]
    <3>1. \A n \in events : categories[n] \in SUBSET Category
      BY DEF Domains, StartupTypeOK
    <3>2. topics \in [Requests -> SUBSET Category]
      BY DEF Domains
    <3> QED  BY <1>2, <3>1, <3>2, QueryKeeps
  <2>4. at' \in [Requests -> Asked]
    BY <1>2, QueryLeads DEF Domains
  <2>5. got' \in [Requests -> Seq(SUBSET Followed)]
    <3>1. CASE \/ ListCategory(r) \/ RecommendSame(r) \/ RecommendOthers(r)
               \/ RecommendPublished(r) \/ NextPage(r)
      BY <3>1, QueriesAnswer, AnswerType
    <3>2. CASE FindEventById(r) \/ GetSaleData(r)
      BY <3>2 DEF FindEventById, GetSaleData, Domains
    <3> QED  BY <1>2, <3>1, <3>2 DEF Query
  <2> QED  BY <1>1, <2>1, <2>2, <2>3, <2>4, <2>5 DEF Domains
<1>3. ASSUME NEW r \in Requests, FindEvents(r) PROVE Domains'
  <2>1. PICK f \in Filters : /\ topics' = [topics EXCEPT ![r] = f.every]
                             /\ dates' = [dates EXCEPT ![r] = f.dates]
    BY <1>3 DEF FindEvents
  <2>2. f.every \in SUBSET Category /\ f.dates \in SUBSET AnyDate
    BY FiltersAssumption DEF AnyDate
  <2>3. /\ at' = [at EXCEPT ![r] = "page"]
        /\ UNCHANGED <<word, subject, got, touched>>
    BY <1>3 DEF FindEvents
  <2>4. "page" \in Asked
    BY DEF Asked, Querying
  <2>5. /\ topics' \in [Requests -> SUBSET Category]
        /\ dates' \in [Requests -> SUBSET AnyDate]
    BY <2>1, <2>2 DEF Domains
  <2>6. at' \in [Requests -> Asked]
    BY <2>3, <2>4 DEF Domains
  <2> QED  BY <1>1, <2>3, <2>5, <2>6 DEF Domains
<1>4. ASSUME NEW r \in Requests, GetEventsByAllCategories(r) PROVE Domains'
  <2>1. /\ at' = [at EXCEPT ![r] = "MUSIC"]
        /\ word' = [word EXCEPT ![r] = "categories"]
        /\ dates' = [dates EXCEPT ![r] = year .. LastYear]
        /\ UNCHANGED <<subject, topics, got, touched>>
    BY <1>4, ListNames DEF GetEventsByAllCategories, Get
  <2>2. (year .. LastYear) \in SUBSET AnyDate
    <3>1. year \in FirstYear .. LastYear
      BY DEF Domains, StartupTypeOK, Years
    <3>2. year \in Int /\ FirstYear \in Int /\ LastYear \in Int
      BY <3>1, BoundsAssumption DEF FirstYear
    <3> QED  BY <3>1, <3>2 DEF AnyDate, Years
  <2>3. "MUSIC" \in Asked /\ "categories" \in Range(Routes)
    BY ListNames, RouteNames DEF Asked, Querying
  <2>4. dates' \in [Requests -> SUBSET AnyDate]
    BY <2>1, <2>2 DEF Domains
  <2>5. /\ at' \in [Requests -> Asked]
        /\ word' \in [Requests -> Range(Routes) \cup {NoWord, "an id"}]
    BY <2>1, <2>3 DEF Domains
  <2> QED  BY <1>1, <2>1, <2>4, <2>5 DEF Domains
<1>5. ASSUME NEW r \in Requests, GetRecommendedEvents(r) \/ FindOne(r)
      PROVE  Domains'
  <2>1. /\ {"find", "published", "failed"} \subseteq Asked
        /\ {"recommended", "upcoming", "most-sold"} \subseteq Range(Routes)
    BY RouteNames DEF Asked, Querying
  <2>2. /\ \E s \in {"find", "published", "failed"} : at' = [at EXCEPT ![r] = s]
        /\ \E w \in {"recommended", "upcoming", "most-sold", "an id"} :
             word' = [word EXCEPT ![r] = w]
        /\ UNCHANGED <<topics, dates, got, touched>>
    BY <1>5 DEF GetRecommendedEvents, FindOne, Get
  <2>3. /\ at' \in [Requests -> Asked]
        /\ word' \in [Requests -> Range(Routes) \cup {NoWord, "an id"}]
    <3>1. at \in [Requests -> Asked]
      BY DEF Domains
    <3>2. word \in [Requests -> Range(Routes) \cup {NoWord, "an id"}]
      BY DEF Domains
    <3>3. at' \in [Requests -> Asked]
      BY <2>1, <2>2, <3>1
    <3>4. word' \in [Requests -> Range(Routes) \cup {NoWord, "an id"}]
      BY <2>1, <2>2, <3>2
    <3> QED  BY <3>3, <3>4
  <2>4. subject' \in [Requests -> Followed \cup {NoEvent}]
    BY <1>5 DEF GetRecommendedEvents, FindOne, Domains
  <2> QED  BY <1>1, <2>2, <2>3, <2>4 DEF Domains
<1>6. CASE Meanwhile
  <2>1. UNCHANGED <<word, subject, topics, dates, got>>
    BY <1>6 DEF Meanwhile
  <2>2. /\ touched \in [Requests -> SUBSET Followed]
        /\ at \in [Requests -> Asked] /\ "failed" \in Asked
    BY DEF Domains, Asked
  <2>3. Edited \subseteq Followed
    BY DEF Edited
  <2>4. touched' \in [Requests -> SUBSET Followed]
    BY <1>6, <2>2, <2>3 DEF Meanwhile
  <2>5. at' \in [Requests -> Asked]
    BY <1>6, <2>2 DEF Meanwhile
  <2> QED  BY <1>1, <2>1, <2>4, <2>5 DEF Domains
<1>7. CASE UNCHANGED vars
  BY <1>1, <1>7 DEF vars, requests, Domains
<1> QED  BY <1>2, <1>3, <1>4, <1>5, <1>6, <1>7 DEF Next, Request

LEMMA ShapeStep ==
  ASSUME Domains, \A r \in Requests : Shape(r), [Next]_vars, NEW r \in Requests
  PROVE  Shape(r)'
<1>1. ASSUME Own(r)' = Own(r) PROVE Shape(r)'
  BY <1>1 DEF Own, Shape
<1>2. /\ word \in [Requests -> Range(Routes) \cup {NoWord, "an id"}]
      /\ at \in [Requests -> Asked]
      /\ subject \in [Requests -> Followed \cup {NoEvent}]
  BY DEF Domains
<1>3. Range(Lists) = {"MUSIC", "THEATERS_AND_ART", "SPORT", "OTHER", "trending"}
  BY ListNames
<1>4. got[r] \in Seq(SUBSET Followed)
  BY DEF Domains
<1>5. CASE \/ FindEvents(r) \/ GetEventsByAllCategories(r)
           \/ GetRecommendedEvents(r) \/ FindOne(r)
  <2>1. at[r] = "idle" /\ got' = got
    BY <1>5 DEF FindEvents, GetEventsByAllCategories, GetRecommendedEvents,
                FindOne, Get
  <2>2. got'[r] = <<>> /\ subject[r] = NoEvent /\ word[r] = NoWord
    BY <2>1 DEF Shape
  <2>3. CASE FindEvents(r)
    <3>1. at'[r] = "page" /\ word'[r] = NoWord
      BY <1>2, <2>2, <2>3 DEF FindEvents
    <3> QED  BY <1>3, <3>1 DEF Shape
  <2>4. CASE GetEventsByAllCategories(r)
    <3>1. at'[r] = Lists[1] /\ word'[r] = "categories"
      BY <1>2, <2>4 DEF GetEventsByAllCategories, Get
    <3>2. Len(got'[r]) = 0
      BY <2>2
    <3>3. Len(got'[r]) < 5 /\ Len(got'[r]) + 1 = 1
      BY <3>2
    <3>4. at'[r] = Lists[Len(got'[r]) + 1]
      BY <3>1, <3>3
    <3>5. at'[r] = "MUSIC"
      BY <3>1, ListNames
    <3> QED  BY <1>3, <3>1, <3>3, <3>4, <3>5 DEF Shape
  <2>5. CASE GetRecommendedEvents(r)
    <3>1. PICK q \in {"find", "published", "failed"} :
            /\ Get(r, "recommended", "recommended", q)
            /\ \E n \in IF q = "find" THEN Followed ELSE {NoEvent} :
                 subject' = [subject EXCEPT ![r] = n]
      BY <2>5 DEF GetRecommendedEvents
    <3>2. at'[r] = q /\ word'[r] = "recommended"
      BY <1>2, <3>1 DEF Get
    <3>3. subject'[r] \in IF q = "find" THEN Followed ELSE {NoEvent}
      BY <1>2, <3>1
    <3> QED  BY <1>3, <2>2, <3>2, <3>3 DEF Shape
  <2>6. CASE FindOne(r)
    <3>1. /\ at'[r] = "find"
          /\ \/ word'[r] \in {"upcoming", "most-sold"} /\ subject'[r] = NoEvent
             \/ word'[r] = "an id" /\ subject'[r] \in Followed
      BY <1>2, <2>2, <2>6 DEF FindOne, Get
    <3> QED  BY <1>3, <2>2, <3>1 DEF Shape
  <2> QED  BY <1>5, <2>3, <2>4, <2>5, <2>6
<1>6. CASE FindEventById(r) \/ GetSaleData(r)
  <2>1. /\ at[r] \in {"find", "sale"} /\ UNCHANGED <<word, subject, got>>
        /\ at'[r] \in {"refused", "failed", "sale", AfterFind(r)}
    BY <1>2, <1>6 DEF FindEventById, GetSaleData, Go
  <2>2. infos \subseteq events /\ events \subseteq Followed
    BY DEF Domains, StartupTypeOK
  <2>3. at'[r] \in {"sale", AfterFind(r)} =>
          subject[r] \in events \/ at'[r] \in {"refused", "failed"}
    BY <1>2, <1>6, <2>2 DEF FindEventById, GetSaleData, Go
  <2>4. NoEvent \notin Followed
    BY FollowedFinite DEF NoEvent
  <2>5. /\ got[r] = <<>>
        /\ \/ word[r] \in {"recommended", "an id"} /\ subject[r] \in Followed
           \/ subject[r] = NoEvent
    BY <2>1 DEF Shape
  <2>6. \/ at'[r] \in {"refused", "failed"}
        \/ /\ at'[r] \in {"sale", AfterFind(r)}
           /\ word[r] \in {"recommended", "an id"} /\ subject[r] \in Followed
    BY <2>1, <2>2, <2>3, <2>4, <2>5
  <2>7. AfterFind(r) = IF word[r] = "recommended" THEN "same" ELSE "done"
    BY DEF AfterFind
  <2>8. got'[r] = <<>> /\ word'[r] = word[r] /\ subject'[r] = subject[r]
    BY <2>1, <2>5
  <2>9. CASE at'[r] \in {"refused", "failed"}
    BY <1>3, <2>9 DEF Shape
  <2>10. CASE at'[r] = "sale" /\ word'[r] \in {"recommended", "an id"}
                              /\ subject'[r] \in Followed
    BY <1>3, <2>8, <2>10 DEF Shape
  <2>11. CASE at'[r] = "same" /\ word'[r] = "recommended"
                              /\ subject'[r] \in Followed
    BY <1>3, <2>8, <2>11 DEF Shape
  <2>12. CASE at'[r] = "done" /\ word'[r] = "an id"
    BY <1>3, <2>12 DEF Shape
  <2> QED  BY <2>6, <2>7, <2>8, <2>9, <2>10, <2>11, <2>12
<1>7. CASE \/ ListCategory(r) \/ RecommendSame(r) \/ RecommendOthers(r)
           \/ RecommendPublished(r) \/ NextPage(r)
  <2>1. got'[r] # <<>> /\ Len(got'[r]) = Len(got[r]) + 1
    BY <1>7, QueriesAnswer, AnswerType
  <2>2. word'[r] = word[r] /\ subject'[r] = subject[r]
    BY <1>7, QueryKeeps DEF Query
  <2>3. CASE ListCategory(r)
    <3>1. PICK i \in 1 .. 5 : /\ word[r] = "categories" /\ Len(got[r]) = i - 1
                              /\ at' = [at EXCEPT ![r] = ListAfter(i)]
      BY <2>3, NextList
    <3>2. at'[r] = ListAfter(i) /\ word'[r] = "categories"
      BY <1>2, <2>2, <3>1
    <3>3. Len(got'[r]) = i
      BY <2>1, <3>1
    <3>4. CASE i = 5
      <4>1. at'[r] = "done" /\ Len(got'[r]) = 5
        BY <3>2, <3>3, <3>4 DEF ListAfter
      <4> QED  BY <1>3, <3>2, <4>1 DEF Shape
    <3>5. CASE i # 5
      <4>1. at'[r] = Lists[i + 1] /\ i + 1 \in 1 .. 5
        BY <3>2, <3>5 DEF ListAfter
      <4>2. at'[r] \in Range(Lists)
        BY <4>1, ListNames DEF Range
      <4>3. Len(got'[r]) < 5 /\ at'[r] = Lists[Len(got'[r]) + 1]
        BY <3>3, <3>5, <4>1
      <4> QED  BY <1>3, <3>2, <4>2, <4>3 DEF Shape
    <3> QED  BY <3>4, <3>5
  <2>4. CASE RecommendSame(r)
    <3>1. at[r] = "same" /\ at'[r] \in {"others", "done"}
      BY <1>2, <2>4 DEF RecommendSame, Go
    <3>2. word[r] = "recommended" /\ subject[r] \in Followed /\ got[r] = <<>>
      BY <3>1 DEF Shape
    <3>3. Len(got'[r]) = 1
      BY <2>1, <3>2
    <3> QED  BY <1>3, <2>1, <2>2, <3>1, <3>2, <3>3 DEF Shape
  <2>5. CASE RecommendOthers(r) \/ RecommendPublished(r)
    <3>1. at[r] \in {"others", "published"} /\ at'[r] = "done"
      BY <1>2, <2>5 DEF RecommendOthers, RecommendPublished, Go
    <3>2. word[r] = "recommended"
      BY <3>1 DEF Shape
    <3> QED  BY <1>3, <2>1, <2>2, <3>1, <3>2 DEF Shape
  <2>6. CASE NextPage(r)
    <3>1. at[r] = "page" /\ at'[r] \in {"page", "done"}
      BY <1>2, <2>6 DEF NextPage, Go
    <3>2. word[r] = NoWord
      BY <3>1 DEF Shape
    <3> QED  BY <1>3, <2>1, <2>2, <3>1, <3>2 DEF Shape
  <2> QED  BY <1>7, <2>3, <2>4, <2>5, <2>6
<1>8. CASE Meanwhile
  <2>1. UNCHANGED <<word, subject, got>>
    BY <1>8 DEF Meanwhile
  <2>2. at'[r] = at[r] \/ at'[r] = "failed"
    BY <1>8 DEF Meanwhile
  <2>3. at[r] = "idle" => touched'[r] = touched[r]
    BY <1>8 DEF Meanwhile
  <2>4. CASE at'[r] = at[r]
    BY <2>1, <2>3, <2>4 DEF Shape
  <2>5. CASE at'[r] = "failed"
    BY <1>3, <2>5 DEF Shape
  <2> QED  BY <2>2, <2>4, <2>5
<1>9. CASE UNCHANGED vars
  BY <1>1, <1>9 DEF vars, requests, Own
<1>10. ASSUME NEW q \in Requests, Request(q) PROVE Shape(r)'
  <2>1. CASE q = r
    BY <1>5, <1>6, <1>7, <1>10, <2>1 DEF Request, Query
  <2>2. CASE q # r
    BY <1>1, <1>10, <2>2, OthersWait
  <2> QED  BY <2>1, <2>2
<1> QED  BY <1>8, <1>9, <1>10 DEF Next

LEMMA InitRequests == Init => RequestInvariant
<1> SUFFICES ASSUME Init PROVE RequestInvariant
    OBVIOUS
<1>1. StartupTypeOK
  BY InitTypes DEF Init
<1>2. "idle" \in Asked
  BY DEF Asked
<1>3. Domains
  BY <1>1, <1>2 DEF Init, Domains
<1>4. Range(Lists) = {"MUSIC", "THEATERS_AND_ART", "SPORT", "OTHER", "trending"}
  BY ListNames
<1>5. \A r \in Requests : Shape(r)
  BY <1>4 DEF Init, Shape
<1> QED  BY <1>3, <1>5 DEF RequestInvariant

\* At every stage a request has the answers that its route has put together so
\* far.
THEOREM RequestInvariantHolds == Spec => []RequestInvariant
<1>1. RequestInvariant /\ [Next]_vars => RequestInvariant'
  BY DomainsStep, ShapeStep DEF RequestInvariant
<1> QED  BY <1>1, InitRequests, PTL DEF Spec

\* Every answer is a list of events, and only one event and the pages of a
\* search are answered without a list.
THEOREM ListingsTypeCorrect == Spec => []TypeOK
<1>1. RequestInvariant => TypeOK
  <2> SUFFICES ASSUME RequestInvariant PROVE TypeOK
      OBVIOUS
  <2>1. \A r \in Requests : at[r] = "done" /\ got[r] = <<>> => word[r] = "an id"
    <3> SUFFICES ASSUME NEW r \in Requests, at[r] = "done", got[r] = <<>>
                 PROVE  word[r] = "an id"
        OBVIOUS
    <3>1. Len(got[r]) # 5
      OBVIOUS
    <3> QED  BY <3>1 DEF RequestInvariant, Shape
  <2> QED  BY <2>1 DEF RequestInvariant, Domains, TypeOK
<1> QED  BY <1>1, RequestInvariantHolds, PTL

-----------------------------------------------------------------------------
(* What happens meanwhile *)

\* A request waits, or ends with the process.
Waits(r) ==
  /\ at'[r] = at[r] \/ at'[r] = "failed"
  /\ word'[r] = word[r] /\ subject'[r] = subject[r] /\ topics'[r] = topics[r]
  /\ dates'[r] = dates[r] /\ got'[r] = got[r]
  /\ touched[r] \subseteq touched'[r]

\* A step is one of the request, which changes no row, or the request waits.
LEMMA StepOrWait ==
  ASSUME Domains, [Next]_vars, NEW r \in Requests
  PROVE  \/ Request(r) /\ UNCHANGED startupVars /\ touched' = touched
         \/ Waits(r)
<1>1. ASSUME Own(r)' = Own(r) PROVE Waits(r)
  BY <1>1 DEF Own, Waits
<1>2. CASE Meanwhile
  <2>1. touched[r] \subseteq touched'[r]
    BY <1>2 DEF Meanwhile
  <2>2. at'[r] = at[r] \/ at'[r] = "failed"
    BY <1>2 DEF Meanwhile
  <2>3. UNCHANGED <<word, subject, topics, dates, got>>
    BY <1>2 DEF Meanwhile
  <2> QED  BY <2>1, <2>2, <2>3 DEF Waits
<1>3. CASE UNCHANGED vars
  BY <1>1, <1>3 DEF vars, requests, Own
<1>4. ASSUME NEW q \in Requests, Request(q), UNCHANGED startupVars
      PROVE  \/ Request(r) /\ UNCHANGED startupVars /\ touched' = touched
             \/ Waits(r)
  <2>1. CASE q = r
    BY <1>4, <2>1, TouchedByOthers
  <2>2. CASE q # r
    BY <1>1, <1>4, <2>2, OthersWait
  <2> QED  BY <2>1, <2>2
<1> QED  BY <1>2, <1>3, <1>4 DEF Next

\* What a step leaves of an event that it does not edit.
Unedited(n) ==
  /\ categories'[n] = categories[n] /\ starts'[n] = starts[n]
  /\ n \in events <=> n \in events'
  /\ n \in published <=> n \in published'

LEMMA NotEdited ==
  ASSUME Domains, [Next]_vars, NEW r \in Requests, at[r] # "idle",
         NEW n \in Followed \ touched'[r]
  PROVE  n \notin touched[r] /\ Unedited(n)
<1>1. CASE Meanwhile
  <2>1. touched'[r] = touched[r] \cup Edited
    BY <1>1 DEF Meanwhile
  <2> QED  BY <2>1 DEF Edited, Unedited
<1>2. ASSUME UNCHANGED startupVars PROVE Unedited(n)
  BY <1>2 DEF startupVars, columns, rows, Unedited
<1>3. ASSUME touched' = touched, UNCHANGED startupVars
      PROVE  n \notin touched[r] /\ Unedited(n)
  BY <1>2, <1>3
<1>4. CASE UNCHANGED vars
  BY <1>3, <1>4 DEF vars, requests
<1>5. ASSUME NEW q \in Requests, Request(q), UNCHANGED startupVars
      PROVE  n \notin touched[r] /\ Unedited(n)
  BY <1>3, <1>5, TouchedByOthers
<1> QED  BY <1>1, <1>4, <1>5 DEF Next

-----------------------------------------------------------------------------
(* Recommendations *)

\* What the answers for an event hold of the events that nobody edited since
\* the request began: they share a category with it, or they do not.
Recommending(r) ==
  word[r] = "recommended" /\ subject[r] # NoEvent =>
    /\ at[r] \in {"sale", "same", "others", "done"} /\ subject[r] \notin touched[r]
         => topics[r] = categories[subject[r]]
    /\ at[r] \in {"others", "done"} =>
         \A n \in got[r][1] \ touched[r] : n \in Sharing(r) \ {subject[r]}
    /\ at[r] = "done" => Len(got[r]) \in {1, 2}
    /\ at[r] = "done" /\ Len(got[r]) = 2 =>
         \A n \in got[r][2] \ touched[r] : n \in published \ Sharing(r)

RecommendInvariant == \A r \in Requests : Recommending(r)

\* Whoever waits keeps it, because events that are edited are left out.
LEMMA RecommendWaits ==
  ASSUME NEW r \in Requests, Domains, Domains', Shape(r), Recommending(r),
         [Next]_vars, Waits(r)
  PROVE  Recommending(r)'
<1> SUFFICES ASSUME word[r] = "recommended", subject[r] # NoEvent,
                    at[r] \in {"sale", "same", "others", "done"}, at'[r] = at[r]
             PROVE  Recommending(r)'
  BY DEF Recommending, Waits
<1>1. \A n \in Followed \ touched'[r] :
        n \notin touched[r] /\ Unedited(n)
  BY NotEdited
<1>2. published \subseteq Followed /\ published' \subseteq Followed
  BY DEF Domains, StartupTypeOK
<1>3. /\ subject[r] \in Followed /\ subject'[r] = subject[r]
      /\ got'[r] = got[r] /\ topics'[r] = topics[r]
  BY DEF Domains, Waits
<1>4. \A n \in Followed \ touched'[r] : n \in Sharing(r) <=> n \in Sharing(r)'
  BY <1>1, <1>3 DEF Sharing, Unedited
<1>5. got[r] \in Seq(SUBSET Followed)
  BY DEF Domains
<1>6. subject'[r] \notin touched'[r] => topics'[r] = categories'[subject'[r]]
  BY <1>1, <1>3 DEF Recommending, Unedited
<1>7. at'[r] \in {"others", "done"} =>
        \A n \in got'[r][1] \ touched'[r] : n \in Sharing(r)' \ {subject'[r]}
  <2> SUFFICES ASSUME at[r] \in {"others", "done"}, NEW n \in got[r][1],
                      n \notin touched'[r]
               PROVE  n \in Sharing(r)' \ {subject[r]}
    BY <1>3
  <2>1. Len(got[r]) \in {1, 2}
    BY DEF Recommending, Shape
  <2>2. n \in Followed
    BY <1>5, <2>1
  <2>3. n \in Sharing(r) \ {subject[r]}
    BY <1>1, <2>2 DEF Recommending
  <2> QED  BY <1>4, <2>2, <2>3
<1>8. at'[r] = "done" /\ Len(got'[r]) = 2 =>
        \A n \in got'[r][2] \ touched'[r] : n \in published' \ Sharing(r)'
  <2> SUFFICES ASSUME at[r] = "done", Len(got[r]) = 2, NEW n \in got[r][2],
                      n \notin touched'[r]
               PROVE  n \in published' \ Sharing(r)'
    BY <1>3
  <2>1. n \in Followed
    BY <1>5
  <2>2. n \in published \ Sharing(r)
    BY <1>1, <2>1 DEF Recommending
  <2> QED  BY <1>1, <1>4, <2>1, <2>2 DEF Unedited
<1>9. at'[r] = "done" => Len(got'[r]) \in {1, 2}
  BY <1>3 DEF Recommending
<1> QED  BY <1>6, <1>7, <1>8, <1>9 DEF Recommending

LEMMA RecommendMoves ==
  ASSUME Domains, NEW r \in Requests, Shape(r), Recommending(r), Request(r),
         UNCHANGED startupVars, touched' = touched
  PROVE  Recommending(r)'
<1>1. /\ word \in [Requests -> Range(Routes) \cup {NoWord, "an id"}]
      /\ at \in [Requests -> Asked]
      /\ topics \in [Requests -> SUBSET Category]
  BY DEF Domains
<1>2. UNCHANGED <<events, infos, categories, published>>
  BY DEF startupVars, rows, columns
<1>3. CASE \/ FindEvents(r) \/ GetEventsByAllCategories(r)
           \/ GetRecommendedEvents(r) \/ FindOne(r)
  <2>1. at'[r] \in {"page", "MUSIC", "find", "published", "failed"}
    BY <1>1, <1>3, ListNames DEF FindEvents, GetEventsByAllCategories,
       GetRecommendedEvents, FindOne, Get
  <2> QED  BY <2>1 DEF Recommending
<1> SUFFICES ASSUME Query(r), word[r] = "recommended", subject[r] # NoEvent
             PROVE  Recommending(r)'
  BY <1>3, QueryKeeps DEF Recommending, Request
<1>4. word'[r] = word[r] /\ subject'[r] = subject[r]
  BY QueryKeeps
<1>5. got[r] \in Seq(SUBSET Followed)
  BY DEF Domains
<1>6. CASE FindEventById(r)
  <2>1. at'[r] \in {"refused", "failed", "sale", "same"}
    BY <1>1, <1>6 DEF FindEventById, Go, AfterFind
  <2>2. infos \subseteq events
    BY DEF Domains, StartupTypeOK
  <2>3. at'[r] \in {"sale", "same"} => subject[r] \in events
    BY <1>1, <1>6, <2>2 DEF FindEventById, Go, AfterFind
  <2>4. subject[r] \in events => topics'[r] = categories[subject[r]]
    BY <1>1, <1>6 DEF FindEventById
  <2> QED  BY <1>2, <1>4, <2>1, <2>3, <2>4 DEF Recommending
<1>7. CASE GetSaleData(r)
  <2>1. at[r] = "sale" /\ at'[r] \in {"refused", "same"} /\ topics' = topics
    BY <1>1, <1>7 DEF GetSaleData, Go, AfterFind
  <2> QED  BY <1>2, <1>4, <2>1 DEF Recommending
<1>8. CASE RecommendSame(r)
  <2>1. PICK S \in Some(Sharing(r) \ {subject[r]}, SameTake) : Answer(r, S)
    BY <1>8 DEF RecommendSame
  <2>2. /\ at[r] = "same" /\ at'[r] \in {"others", "done"} /\ topics' = topics
    BY <1>1, <1>8 DEF RecommendSame, Go
  <2>3. got[r] = <<>>
    BY <2>2 DEF Shape
  <2>4. got'[r] = <<S>>
    <3>1. got'[r] = Append(got[r], S)
      BY <2>1 DEF Answer, Domains
    <3>2. Append(<<>>, S) = <<S>>
      OBVIOUS
    <3> QED  BY <2>3, <3>1, <3>2
  <2>5. S \subseteq Sharing(r) \ {subject[r]}
    BY <2>1 DEF Some, kSubset
  <2>6. Sharing(r)' = Sharing(r)
    BY <1>2, <2>2 DEF Sharing
  <2>7. Len(got'[r]) = 1 /\ got'[r][1] = S
    BY <2>4
  <2>8. subject[r] \notin touched[r] => topics[r] = categories[subject[r]]
    BY <2>2 DEF Recommending
  <2> QED  BY <1>2, <1>4, <2>2, <2>5, <2>6, <2>7, <2>8 DEF Recommending
<1>9. CASE RecommendOthers(r)
  <2>1. PICK S \in Some(published \ Sharing(r), Limit - Cardinality(got[r][1])) :
          Answer(r, S)
    BY <1>9 DEF RecommendOthers
  <2>2. at[r] = "others" /\ at'[r] = "done" /\ topics' = topics
    BY <1>1, <1>9 DEF RecommendOthers, Go
  <2>3. Len(got[r]) = 1
    BY <2>2 DEF Shape
  <2>4. got'[r] = Append(got[r], S)
    BY <2>1 DEF Answer, Domains
  <2>5. S \subseteq published \ Sharing(r)
    BY <2>1 DEF Some, kSubset
  <2>6. Sharing(r)' = Sharing(r)
    BY <1>2, <2>2 DEF Sharing
  <2>7. Len(got'[r]) = 2 /\ got'[r][1] = got[r][1] /\ got'[r][2] = S
    BY <1>5, <2>3, <2>4
  <2>8. /\ subject[r] \notin touched[r] => topics[r] = categories[subject[r]]
        /\ \A n \in got[r][1] \ touched[r] : n \in Sharing(r) \ {subject[r]}
    BY <2>2 DEF Recommending
  <2> QED  BY <1>2, <1>4, <2>2, <2>5, <2>6, <2>7, <2>8 DEF Recommending
<1>10. CASE RecommendPublished(r)
  <2>1. at[r] = "published"
    BY <1>10 DEF RecommendPublished, Go
  <2> QED  BY <2>1 DEF Shape
<1>11. CASE ListCategory(r)
  BY <1>11, NextList
<1>12. CASE NextPage(r)
  <2>1. at[r] = "page"
    BY <1>12 DEF NextPage, Go
  <2> QED  BY <2>1 DEF Shape, NoWord
<1> QED  BY <1>6, <1>7, <1>8, <1>9, <1>10, <1>11, <1>12 DEF Query

LEMMA RecommendStep ==
  RequestInvariant /\ RequestInvariant' /\ RecommendInvariant /\ [Next]_vars
    => RecommendInvariant'
<1> SUFFICES ASSUME RequestInvariant, RequestInvariant', RecommendInvariant,
                    [Next]_vars, NEW r \in Requests
             PROVE  Recommending(r)'
  BY DEF RecommendInvariant
<1>1. /\ Domains /\ Shape(r) /\ Domains' /\ Shape(r)' /\ Recommending(r)
  BY DEF RequestInvariant, RecommendInvariant
<1> QED  BY <1>1, StepOrWait, RecommendWaits, RecommendMoves

\* The second query leaves out what the first one may have answered, so an
\* event that nobody edits meanwhile is recommended once, and not to itself.
THEOREM EventsAreRecommendedOnce == Spec => []RecommendedOnce
<1>1. Init => RecommendInvariant
  BY DEF Init, RecommendInvariant, Recommending, NoWord
<1>2. RequestInvariant /\ RecommendInvariant => RecommendedOnce
  <2> SUFFICES ASSUME RequestInvariant, RecommendInvariant, NEW r \in Requests,
                      word[r] = "recommended", subject[r] # NoEvent,
                      at[r] = "done", NEW n \in Followed \ touched[r]
               PROVE  /\ Cardinality({i \in DOMAIN got[r] : n \in got[r][i]}) <= 1
                      /\ (\E i \in DOMAIN got[r] : n \in got[r][i]) =>
                            /\ n \in published
                            /\ n = subject[r] => topics[r] = {}
    BY DEF RecommendedOnce
  <2> DEFINE D == {i \in DOMAIN got[r] : n \in got[r][i]}
  <2>1. got[r] \in Seq(SUBSET Followed)
    BY DEF RequestInvariant, Domains
  <2>2. Len(got[r]) \in {1, 2}
    BY DEF RecommendInvariant, Recommending
  <2>3. \A i \in DOMAIN got[r] : i \in {1, 2} /\ (i = 2 => Len(got[r]) = 2)
    BY <2>1, <2>2
  <2>4. 1 \in D => n \in Sharing(r) \ {subject[r]}
    BY DEF RecommendInvariant, Recommending
  <2>5. 2 \in D => n \in published \ Sharing(r)
    BY <2>3 DEF RecommendInvariant, Recommending
  <2>6. Sharing(r) \subseteq published
    BY DEF Sharing
  <2>7. D \subseteq {1, 2} /\ ~ (1 \in D /\ 2 \in D)
    BY <2>3, <2>4, <2>5
  <2>8. Cardinality(D) <= 1
    <3>1. D = {} \/ D = {1} \/ D = {2}
      BY <2>7
    <3> HIDE DEF D
    <3>2. Cardinality({}) = 0 /\ Cardinality({1}) = 1 /\ Cardinality({2}) = 1
      BY FS_EmptySet, FS_Singleton
    <3>3. Cardinality(D) \in {0, 1}
      BY <3>1, <3>2
    <3> QED  BY <3>3
  <2>9. n = subject[r] /\ 2 \in D => topics[r] = {}
    <3>1. subject[r] \notin touched[r] => topics[r] = categories[subject[r]]
      BY DEF RecommendInvariant, Recommending
    <3> QED  BY <2>5, <3>1 DEF Sharing
  <2> QED  BY <2>4, <2>5, <2>6, <2>7, <2>8, <2>9
<1> QED  BY <1>1, <1>2, RecommendStep, RequestInvariantHolds, PTL DEF Spec

-----------------------------------------------------------------------------
(* Lists by category *)

\* An event has a start date as long as it has an info.
InfoDated == \A n \in Followed : n \in infos <=> starts[n] # NoDate

LEMMA InfoDatedStep == Domains /\ InfoDated /\ [Next]_vars => InfoDated'
<1> SUFFICES ASSUME Domains, InfoDated, [Next]_vars PROVE InfoDated'
    OBVIOUS
<1>1. starts \in [Followed -> Years \cup {NoDate}]
  BY DEF Domains, StartupTypeOK
<1>2. NoDate \notin Years
  BY BoundsAssumption DEF NoDate, Years, FirstYear
<1>3. ASSUME UNCHANGED <<infos, starts>> PROVE InfoDated'
  BY <1>3 DEF InfoDated
<1>4. ASSUME NEW n \in Followed, NEW y \in Years \cup {NoDate},
             starts' = [starts EXCEPT ![n] = y],
             infos' = IF y = NoDate THEN infos \ {n} ELSE infos \cup {n}
      PROVE  InfoDated'
  BY <1>1, <1>4 DEF InfoDated
<1>5. CASE SeedStep
  <2>1. ASSUME NEW n \in Informed, UpsertInfo(n) PROVE InfoDated'
    <3>1. n \in Followed /\ YearOf(n) \in Years
      BY CalendarHasSeed DEF Informed
    <3>2. CASE n \in infos
      <4>1. infos' = infos /\ starts' = starts
        BY <2>1, <3>2 DEF UpsertInfo
      <4> QED  BY <1>3, <4>1
    <3>3. CASE n \notin infos
      <4>1. infos' = infos \cup {n} /\ starts' = [starts EXCEPT ![n] = YearOf(n)]
        BY <2>1, <3>3 DEF UpsertInfo
      <4> QED  BY <1>2, <1>4, <3>1, <4>1
    <3> QED  BY <3>2, <3>3
  <2>2. ASSUME \/ \E o \in Organizers : UpsertOrganizer(o)
               \/ \E n \in Followed : UpsertEvent(n)
               \/ \E c \in Classes : UpsertClass(c)
               \/ NextTable \/ SeedFails
        PROVE  UNCHANGED <<infos, starts>>
    BY <2>2 DEF UpsertOrganizer, UpsertEvent, UpsertClass, NextTable, SeedFails,
                rows, columns
  <2> QED  BY <1>3, <1>5, <2>1, <2>2 DEF SeedStep
<1>6. CASE AdminStep
  <2>1. ASSUME NEW n \in Followed, DeleteEvent(n) \/ DeleteInfo(n)
        PROVE  InfoDated'
    <3>1. infos' = infos \ {n} /\ starts' = [starts EXCEPT ![n] = NoDate]
      BY <2>1 DEF DeleteEvent, DeleteInfo
    <3> QED  BY <1>4, <3>1
  <2>2. ASSUME NEW n \in Followed, CreateInfo(n) \/ UpdateEventInfo(n)
        PROVE  InfoDated'
    <3>1. PICK y \in Years : starts' = [starts EXCEPT ![n] = y]
      BY <2>2 DEF CreateInfo, UpdateEventInfo
    <3>2. infos' = infos \cup {n}
      BY <2>2 DEF CreateInfo, UpdateEventInfo
    <3> QED  BY <1>2, <1>4, <3>1, <3>2
  <2>3. ASSUME NEW n \in Followed, PatchCategories(n) \/ PatchStatus(n)
        PROVE  UNCHANGED <<infos, starts>>
    BY <2>3 DEF PatchCategories, PatchStatus
  <2>4. ASSUME NEW c \in Classes,
               \/ DeleteTicketClass(c) \/ CreateTicketClass(c)
               \/ RenameTicketClass(c)
        PROVE  UNCHANGED <<infos, starts>>
    BY <2>4 DEF DeleteTicketClass, CreateTicketClass, RenameTicketClass, columns
  <2> QED  BY <1>3, <1>6, <2>1, <2>2, <2>3, <2>4 DEF AdminStep
<1>7. ASSUME \/ Boot \/ Restart \/ Die \/ NewYear \/ UNCHANGED startupVars
      PROVE  UNCHANGED <<infos, starts>>
  BY <1>7 DEF Boot, Restart, Die, NewYear, startupVars, rows, columns
<1>8. [StartupNext]_startupVars
  BY DEF Next, Meanwhile, vars
<1> QED  BY <1>3, <1>5, <1>6, <1>7, <1>8 DEF StartupNext

\* What a list has to be for an event that nobody edited since.
ListHolds(r, i, n) ==
  LET list == got[r][i]
      belongs == n \in infos /\ starts[n] \in dates[r] /\ ListMatches(i, n)
  IN /\ n \in list => belongs
     /\ belongs /\ n \notin list =>
          /\ Cardinality(list) = ListTake
          /\ Lists[i] # "trending" =>
               \A x \in list \ touched[r] : starts[x] >= starts[n]

\* The lists that are there already are what they have to be.
Listing(r) ==
  word[r] = "categories" /\ at[r] \in Range(Lists) \cup {"done"} =>
    \A i \in DOMAIN got[r], n \in Followed \ touched[r] : ListHolds(r, i, n)

ListInvariant == InfoDated /\ \A r \in Requests : Listing(r)

LEMMA ListWaits ==
  ASSUME NEW r \in Requests, Domains, InfoDated, InfoDated', Listing(r),
         [Next]_vars, Waits(r)
  PROVE  Listing(r)'
<1> SUFFICES ASSUME word[r] = "categories", at'[r] = at[r],
                    at[r] \in Range(Lists) \cup {"done"},
                    NEW i \in DOMAIN got[r], NEW n \in Followed \ touched'[r]
             PROVE  ListHolds(r, i, n)'
  <2>1. "failed" \notin Range(Lists) \cup {"done"}
    BY ListNames
  <2>2. got'[r] = got[r]
    BY DEF Waits
  <2> QED  BY <2>1, <2>2 DEF Listing, Waits
<1>1. at[r] # "idle"
  BY ListNames
<1>2. \A m \in Followed \ touched'[r] : m \notin touched[r] /\ Unedited(m)
  BY <1>1, NotEdited
<1>3. ListHolds(r, i, n)
  BY <1>2 DEF Listing
<1>4. got'[r] = got[r] /\ dates'[r] = dates[r]
  BY DEF Waits
<1>5. starts'[n] = starts[n] /\ (n \in infos <=> n \in infos')
  BY <1>2 DEF InfoDated, Unedited
<1>6. ListMatches(i, n)' <=> ListMatches(i, n)
  BY <1>2 DEF ListMatches, Unedited
<1>7. got[r][i] \subseteq Followed
  <2>1. got[r] \in Seq(SUBSET Followed)
    BY DEF Domains
  <2> QED  BY <2>1
<1>8. \A x \in got[r][i] \ touched'[r] : x \notin touched[r] /\ starts'[x] = starts[x]
  BY <1>2, <1>7 DEF Unedited
<1> QED  BY <1>3, <1>4, <1>5, <1>6, <1>8 DEF ListHolds

LEMMA ListMoves ==
  ASSUME NEW r \in Requests, Domains, Shape(r), Listing(r), Request(r),
         UNCHANGED startupVars, touched' = touched
  PROVE  Listing(r)'
<1>1. /\ word \in [Requests -> Range(Routes) \cup {NoWord, "an id"}]
      /\ at \in [Requests -> Asked]
  BY DEF Domains
<1>2. Range(Lists) = {"MUSIC", "THEATERS_AND_ART", "SPORT", "OTHER", "trending"}
  BY ListNames
<1>3. CASE ListCategory(r)
  <2>1. PICK i \in 1 .. 5 : /\ word[r] = "categories" /\ Len(got[r]) = i - 1
                            /\ at[r] = Lists[i] /\ ListAnswered(r, i)
    BY <1>3, NextList
  <2> DEFINE M == {n \in infos : starts[n] \in dates[r] /\ ListMatches(i, n)}
  <2>2. PICK S \in IF Lists[i] = "trending" THEN Some(M, ListTake)
                                            ELSE Firsts(M, starts, ListTake) :
          Answer(r, S)
    BY <2>1 DEF ListAnswered
  <2>3. S \in Some(M, ListTake)
    BY <2>2 DEF Firsts
  <2>4. Lists[i] # "trending" =>
          \A x \in S, y \in M \ S : starts[x] >= starts[y]
    BY <2>2 DEF Firsts
  <2>5. M \in SUBSET Followed
    BY DEF Domains, StartupTypeOK
  <2>6. S \subseteq M /\ (S # M => Cardinality(S) = ListTake)
    <3>1. IsFiniteSet(M)
      BY <2>5, PartFinite
    <3>2. ListTake \in Nat
      BY TakesAssumption
    <3> HIDE DEF M
    <3> QED  BY <2>3, <3>1, <3>2, SomeRows
  <2>7. got[r] \in Seq(SUBSET Followed)
    BY DEF Domains
  <2>8. got'[r] = Append(got[r], S)
    BY <2>2 DEF Answer, Domains
  <2>9. /\ DOMAIN got'[r] = DOMAIN got[r] \cup {i}
        /\ got'[r][i] = S
        /\ \A j \in DOMAIN got[r] : got'[r][j] = got[r][j]
    BY <2>1, <2>7, <2>8
  <2>10. UNCHANGED <<infos, starts, categories, published>> /\ dates' = dates
    BY <1>3, QueryKeeps DEF startupVars, rows, columns, Query
  <2>11. at[r] \in Range(Lists)
    BY <2>1, ListNames DEF Range
  <2>12. ASSUME NEW j \in DOMAIN got[r], NEW n \in Followed \ touched[r]
         PROVE  ListHolds(r, j, n)'
    <3>1. ListHolds(r, j, n)
      BY <2>1, <2>11, <2>12 DEF Listing
    <3>2. got'[r][j] = got[r][j]
      BY <2>9, <2>12
    <3>3. ListMatches(j, n)' <=> ListMatches(j, n)
      BY <2>10 DEF ListMatches
    <3> QED  BY <2>10, <3>1, <3>2, <3>3 DEF ListHolds
  <2>13. ASSUME NEW n \in Followed \ touched[r] PROVE ListHolds(r, i, n)'
    <3> DEFINE belongs == n \in infos /\ starts[n] \in dates[r] /\ ListMatches(i, n)
    <3>1. belongs <=> n \in M
      OBVIOUS
    <3>2. belongs' <=> belongs
      BY <2>10 DEF ListMatches
    <3>3. n \in S => belongs
      BY <2>6, <3>1
    <3>4. belongs /\ n \notin S =>
            /\ Cardinality(S) = ListTake
            /\ Lists[i] # "trending" => \A x \in S : starts[x] >= starts[n]
      BY <2>4, <2>6, <3>1
    <3> HIDE DEF M
    <3> QED  BY <2>9, <2>10, <3>2, <3>3, <3>4 DEF ListHolds
  <2> QED  BY <2>9, <2>12, <2>13 DEF Listing
<1>4. CASE \/ FindEvents(r) \/ GetEventsByAllCategories(r)
           \/ GetRecommendedEvents(r) \/ FindOne(r)
  <2>1. at[r] = "idle" /\ got' = got
    BY <1>4 DEF FindEvents, GetEventsByAllCategories, GetRecommendedEvents,
                FindOne, Get
  <2>2. got'[r] = <<>>
    BY <2>1 DEF Shape
  <2> QED  BY <2>2 DEF Listing
<1>5. CASE Query(r) /\ ~ ListCategory(r)
  <2>1. at[r] \in {"find", "sale", "same", "others", "published", "page"}
    BY <1>5 DEF Query, FindEventById, GetSaleData, RecommendSame,
                RecommendOthers, RecommendPublished, NextPage, Go
  <2>2. word[r] # "categories"
    BY <2>1 DEF Shape, NoWord
  <2> QED  BY <1>5, <2>2, QueryKeeps DEF Listing
<1> QED  BY <1>3, <1>4, <1>5 DEF Request

\* The lists of an answer agree on every event that nobody edits while they are
\* read one after the other, and each is complete or full.
THEOREM ListsAreComplete == Spec => []CategoriesComplete
<1>1. Init => ListInvariant
  <2> SUFFICES ASSUME Init PROVE ListInvariant
      OBVIOUS
  <2>1. InfoDated
    BY DEF Init, StartupInit, InfoDated
  <2>2. \A r \in Requests : Listing(r)
    BY DEF Init, Listing, NoWord
  <2> QED  BY <2>1, <2>2 DEF ListInvariant
<1>2. RequestInvariant /\ ListInvariant /\ [Next]_vars => ListInvariant'
  <2> SUFFICES ASSUME RequestInvariant, ListInvariant, [Next]_vars
               PROVE  ListInvariant'
      OBVIOUS
  <2>1. Domains /\ InfoDated /\ InfoDated'
    BY InfoDatedStep DEF RequestInvariant, ListInvariant
  <2>2. ASSUME NEW r \in Requests PROVE Listing(r)'
    <3>1. Shape(r) /\ Listing(r)
      BY DEF RequestInvariant, ListInvariant
    <3> QED  BY <2>1, <3>1, StepOrWait, ListWaits, ListMoves
  <2> QED  BY <2>1, <2>2 DEF ListInvariant
<1>3. RequestInvariant /\ ListInvariant => CategoriesComplete
  <2> SUFFICES ASSUME RequestInvariant, ListInvariant, NEW r \in Requests,
                      word[r] = "categories", at[r] = "done",
                      NEW i \in DOMAIN Lists, NEW n \in Followed \ touched[r]
               PROVE  ListHolds(r, i, n)
    BY DEF CategoriesComplete, ListHolds
  <2>1. Len(got[r]) = 5 /\ got[r] \in Seq(SUBSET Followed)
    BY DEF RequestInvariant, Shape, Domains, NoWord
  <2>2. i \in DOMAIN got[r]
    BY <2>1, ListNames
  <2> QED  BY <2>2 DEF ListInvariant, Listing
<1> QED  BY <1>1, <1>2, <1>3, RequestInvariantHolds, PTL DEF Spec

-----------------------------------------------------------------------------
(* Pages *)

\* In an order without ties there is one answer to a query for the first k.
LEMMA OneFirst ==
  ASSUME NEW M, IsFiniteSet(M), NEW key, NEW k \in Nat,
         \A x \in M : key[x] \in Int,
         \A x, y \in M : key[x] = key[y] => x = y,
         NEW P \in Firsts(M, key, k), NEW Q \in Firsts(M, key, k)
  PROVE  P = Q
<1>1. /\ P \subseteq M /\ Q \subseteq M
      /\ Cardinality(P) = Cardinality(Q)
  BY DEF Firsts, Some, kSubset
<1>2. /\ \A x \in P, y \in M \ P : key[x] >= key[y]
      /\ \A x \in Q, y \in M \ Q : key[x] >= key[y]
  BY DEF Firsts
<1>3. P \subseteq Q \/ Q \subseteq P
  <2> SUFFICES ASSUME NEW x \in P \ Q, NEW y \in Q \ P PROVE FALSE
    OBVIOUS
  <2>1. x \in M /\ y \in M /\ key[x] \in Int /\ key[y] \in Int
    BY <1>1
  <2>2. key[x] >= key[y] /\ key[y] >= key[x]
    BY <1>2, <2>1
  <2>3. key[x] = key[y]
    BY <2>1, <2>2
  <2> QED  BY <2>1, <2>3
<1>4. IsFiniteSet(P) /\ IsFiniteSet(Q)
  BY <1>1, FS_Subset
<1> QED  BY <1>1, <1>3, <1>4, FS_Subset

\* The first k and the k2 that follow are the first k + k2.
LEMMA MoreFirsts ==
  ASSUME NEW M, IsFiniteSet(M), NEW key, NEW k \in Nat, NEW k2 \in Nat,
         NEW P \in Firsts(M, key, k), NEW S \in Firsts(M \ P, key, k2)
  PROVE  P \cup S \in Firsts(M, key, k + k2)
<1> DEFINE m == Cardinality(M)
           p == Cardinality(P)
           s == Cardinality(S)
<1>1. P \subseteq M /\ p = Min({k, m})
  BY DEF Firsts, Some, kSubset
<1>2. S \subseteq M \ P /\ s = Min({k2, Cardinality(M \ P)})
  BY DEF Firsts, Some, kSubset
<1>3. IsFiniteSet(P) /\ IsFiniteSet(S) /\ IsFiniteSet(M \ P)
  BY <1>1, <1>2, FS_Subset, FS_Difference
<1>4. m \in Nat /\ p \in Nat /\ s \in Nat
  BY <1>3, FS_CardinalityType
<1>5. Cardinality(M \ P) = m - p
  <2>1. M \cap P = P
    BY <1>1
  <2>2. Cardinality(M \ P) = m - Cardinality(M \cap P)
    BY <1>3, FS_Difference
  <2> QED  BY <2>1, <2>2
<1>6. Cardinality(P \cup S) = p + s
  <2>1. Cardinality(P \cup S) = p + s - Cardinality(P \cap S)
    BY <1>3, FS_Union
  <2>2. P \cap S = {} /\ Cardinality({}) = 0
    BY <1>2, FS_EmptySet
  <2>3. Cardinality(P \cap S) = 0
    BY <2>2
  <2> HIDE DEF p, s
  <2>4. p + s - 0 = p + s
    BY <1>4
  <2> QED  BY <2>1, <2>3, <2>4
<1>7. p + s = Min({k + k2, m})
  <2> HIDE DEF m, p, s
  <2>1. ASSUME NEW a \in Int, NEW b \in Int
        PROVE  Min({a, b}) = IF a <= b THEN a ELSE b
    <3>1. Min({a, b}) \in {a, b} /\ Min({a, b}) <= a /\ Min({a, b}) <= b
      BY SmallerOfTwo
    <3> QED  BY <3>1
  <2>2. p = IF k <= m THEN k ELSE m
    BY <1>1, <1>4, <2>1
  <2>3. s = IF k2 <= m - p THEN k2 ELSE m - p
    BY <1>2, <1>4, <1>5, <2>1
  <2>4. Min({k + k2, m}) = IF k + k2 <= m THEN k + k2 ELSE m
    BY <1>4, <2>1
  <2> QED  BY <1>4, <2>2, <2>3, <2>4
<1>8. P \cup S \in Some(M, k + k2)
  BY <1>1, <1>2, <1>6, <1>7 DEF Some, kSubset
<1>9. \A x \in P \cup S, y \in M \ (P \cup S) : key[x] >= key[y]
  BY <1>2 DEF Firsts
<1> QED  BY <1>8, <1>9 DEF Firsts

LEMMA NoneFirst == ASSUME NEW M, IsFiniteSet(M), NEW key PROVE {} \in Firsts(M, key, 0)
<1> DEFINE m == Cardinality(M)
<1>1. m \in Nat
  BY FS_CardinalityType
<1>2. Cardinality({}) = 0
  BY FS_EmptySet
<1> HIDE DEF m
<1>3. Min({0, m}) = 0
  BY <1>1, SmallerOfTwo
<1>4. {} \in Some(M, 0)
  BY <1>2, <1>3 DEF Some, kSubset, m
<1> QED  BY <1>4 DEF Firsts

\* The events of the pages so far.
Seen(r) == UNION {got[r][p] : p \in DOMAIN got[r]}

\* No two events that fit begin together.
ApartInTime(r) == \A m, n \in Matching(r) : StartDate[m] = StartDate[n] => m = n

\* As long as nobody edits, the pages so far are the first events of all.
Paging(r) ==
  word[r] = NoWord /\ at[r] \in {"page", "done"} /\ touched[r] = {} /\ ApartInTime(r) =>
    /\ Seen(r) \in Firsts(Matching(r), StartDate, Len(got[r]) * PerPage)
    /\ \A p, q \in DOMAIN got[r] : p # q => got[r][p] \cap got[r][q] = {}
    /\ at[r] = "done" => Seen(r) = Matching(r)

PageInvariant == \A r \in Requests : Paging(r)

LEMMA MatchingFinite ==
  ASSUME Domains, NEW r \in Requests
  PROVE  /\ Matching(r) \in SUBSET Followed /\ IsFiniteSet(Matching(r))
         /\ \A n \in Followed : StartDate[n] \in Int
<1>1. Matching(r) \in SUBSET Followed
  BY DEF Domains, StartupTypeOK, Matching
<1>2. starts \in [Followed -> Years \cup {NoDate}]
  BY DEF Domains, StartupTypeOK
<1>3. LastYear \in Int /\ Years \subseteq Int /\ NoDate \in Int
  BY BoundsAssumption DEF Years, FirstYear, NoDate
<1>4. \A n \in Followed : starts[n] \in Int
  BY <1>2, <1>3
<1>5. LastYear + 1 \in Int
  BY <1>3
<1>6. \A n \in Followed : StartDate[n] \in Int
  BY <1>4, <1>5 DEF StartDate
<1> QED  BY <1>1, <1>6, PartFinite

LEMMA PageWaits ==
  ASSUME NEW r \in Requests, Domains, Paging(r), [Next]_vars, Waits(r)
  PROVE  Paging(r)'
<1> SUFFICES ASSUME at'[r] = at[r], at[r] \in {"page", "done"}, touched'[r] = {}
             PROVE  Paging(r)'
  BY DEF Paging, Waits
<1>1. touched[r] = {} /\ word'[r] = word[r] /\ got'[r] = got[r]
      /\ topics'[r] = topics[r] /\ dates'[r] = dates[r]
  BY DEF Waits
<1>2. \A n \in Followed : Unedited(n)
  BY NotEdited
<1>3. events \subseteq Followed /\ events' \subseteq Followed
  <2>1. [StartupNext]_startupVars
    BY DEF Next, Meanwhile, vars
  <2> QED  BY <2>1, TypeStep DEF Domains, StartupTypeOK
<1>4. Matching(r)' = Matching(r)
  BY <1>1, <1>2, <1>3 DEF Matching, Unedited
<1>5. StartDate' = StartDate
  BY <1>2 DEF StartDate, Unedited
<1>6. ApartInTime(r)' <=> ApartInTime(r)
  BY <1>4, <1>5 DEF ApartInTime
<1>7. Seen(r)' = Seen(r)
  BY <1>1 DEF Seen
<1> QED  BY <1>1, <1>4, <1>5, <1>6, <1>7 DEF Paging

\* The query of a page returns the events that follow those of the pages so
\* far, and the answer names no next page when these are all.
LEMMA PageMoves ==
  ASSUME NEW r \in Requests, Domains, Paging(r), NextPage(r),
         word[r] = NoWord, touched[r] = {}, ApartInTime(r)
  PROVE  /\ Seen(r)' \in Firsts(Matching(r), StartDate, Len(got'[r]) * PerPage)
         /\ \A p, q \in DOMAIN got'[r] : p # q => got'[r][p] \cap got'[r][q] = {}
         /\ at'[r] = "done" => Seen(r)' = Matching(r)
<1> DEFINE M == Matching(r)
           l == Len(got[r])
           P == Seen(r)
<1>1. at[r] = "page" /\ at \in [Requests -> Asked]
  BY DEF NextPage, Go, Domains
<1>2. /\ P \in Firsts(M, StartDate, l * PerPage)
      /\ \A p, q \in DOMAIN got[r] : p # q => got[r][p] \cap got[r][q] = {}
  BY <1>1 DEF Paging
<1>3. PICK S \in Slices(M, StartDate, (l + 1 - 1) * PerPage, PerPage) : Answer(r, S)
  BY DEF NextPage
<1>4. got[r] \in Seq(SUBSET Followed) /\ l \in Nat /\ PerPage \in Nat
  <2>1. got[r] \in Seq(SUBSET Followed)
    BY DEF Domains
  <2> QED  BY <2>1, TakesAssumption
<1>5. l * PerPage \in Nat /\ (l + 1 - 1) * PerPage = l * PerPage
  <2> HIDE DEF l
  <2>1. l + 1 - 1 = l
    BY <1>4
  <2>2. \A a, b \in Nat : a * b \in Nat
    OBVIOUS
  <2> QED  BY <1>4, <2>1, <2>2
<1>6. IsFiniteSet(M) /\ M \subseteq Followed /\ \A n \in M : StartDate[n] \in Int
  BY MatchingFinite
<1>7. \A x, y \in M : StartDate[x] = StartDate[y] => x = y
  BY DEF ApartInTime
<1> HIDE DEF M, l, P
<1>8. S \in Firsts(M \ P, StartDate, PerPage)
  <2>1. PICK Q \in Firsts(M, StartDate, l * PerPage) :
          S \in Firsts(M \ Q, StartDate, PerPage)
    BY <1>3, <1>5 DEF Slices
  <2>2. Q = P
    BY <1>2, <1>5, <1>6, <1>7, OneFirst
  <2> QED  BY <2>1, <2>2
<1>9. P \cup S \in Firsts(M, StartDate, l * PerPage + PerPage)
  BY <1>2, <1>4, <1>5, <1>6, <1>8, MoreFirsts
<1>10. got'[r] = Append(got[r], S)
  BY <1>3 DEF Answer, Domains
<1>11. /\ Len(got'[r]) = l + 1
       /\ DOMAIN got'[r] = DOMAIN got[r] \cup {l + 1}
       /\ got'[r][l + 1] = S
       /\ \A p \in DOMAIN got[r] : got'[r][p] = got[r][p]
  BY <1>4, <1>10 DEF l
<1>12. Seen(r)' = P \cup S
  BY <1>11 DEF Seen, P
<1>13. Len(got'[r]) * PerPage = l * PerPage + PerPage
  <2>1. \A a, b \in Nat : (a + 1) * b = a * b + b
    OBVIOUS
  <2> QED  BY <1>4, <1>11, <2>1
<1>14. \A p \in DOMAIN got[r] : got[r][p] \cap S = {}
  <2>1. S \subseteq M \ P
    BY <1>8 DEF Firsts, Some, kSubset
  <2> QED  BY <2>1 DEF Seen, P
<1>15. \A p, q \in DOMAIN got'[r] : p # q => got'[r][p] \cap got'[r][q] = {}
  BY <1>2, <1>11, <1>14
<1>16. at'[r] = "done" => P \cup S = M
  <2> SUFFICES ASSUME at'[r] = "done" PROVE P \cup S = M
    OBVIOUS
  <2> DEFINE m == Cardinality(M)
             k == l * PerPage + PerPage
  <2>1. ~ ((l + 1) * PerPage < m)
    BY <1>1 DEF NextPage, Go, M, l
  <2>2. (l + 1) * PerPage = k
    <3>1. \A a, b \in Nat : (a + 1) * b = a * b + b
      OBVIOUS
    <3> QED  BY <1>4, <3>1
  <2>3. P \cup S \subseteq M /\ Cardinality(P \cup S) = Min({k, m})
    BY <1>9 DEF Firsts, Some, kSubset
  <2>4. m \in Nat /\ k \in Nat
    <3>1. m \in Nat
      BY <1>6, FS_CardinalityType
    <3> QED  BY <1>4, <1>5, <3>1
  <2> HIDE DEF m, k
  <2>5. Min({k, m}) = m
    <3>1. ~ (k < m)
      BY <2>1, <2>2
    <3>2. ASSUME NEW a \in Int, NEW b \in Int, ~ (a < b) PROVE Min({a, b}) = b
      <4>1. Min({a, b}) \in {a, b} /\ Min({a, b}) <= b
        BY SmallerOfTwo
      <4> QED  BY <3>2, <4>1
    <3> QED  BY <2>4, <3>1, <3>2
  <2>6. Cardinality(P \cup S) = Cardinality(M)
    BY <2>3, <2>5 DEF m
  <2> QED  BY <1>6, <2>3, <2>6, FS_Subset
<1> QED  BY <1>9, <1>12, <1>13, <1>15, <1>16 DEF M

LEMMA PageStep ==
  ASSUME NEW r \in Requests, Domains, Shape(r), Paging(r), Request(r),
         UNCHANGED startupVars, touched' = touched
  PROVE  Paging(r)'
<1>1. /\ word \in [Requests -> Range(Routes) \cup {NoWord, "an id"}]
      /\ at \in [Requests -> Asked]
  BY DEF Domains
<1>2. UNCHANGED <<events, categories, starts>>
  BY DEF startupVars, rows, columns
<1>3. CASE FindEvents(r)
  <2>1. at[r] = "idle" /\ at'[r] = "page" /\ got' = got
    BY <1>1, <1>3 DEF FindEvents
  <2>2. got'[r] = <<>>
    BY <2>1 DEF Shape
  <2>3. Seen(r)' = {} /\ Len(got'[r]) = 0
    BY <2>2 DEF Seen
  <2>4. IsFiniteSet(Matching(r)')
    <3>1. Matching(r)' \in SUBSET Followed
      BY <1>2 DEF Matching, Domains, StartupTypeOK
    <3> QED  BY <3>1, PartFinite
  <2>5. 0 * PerPage = 0
    BY TakesAssumption
  <2>6. {} \in Firsts(Matching(r)', StartDate', 0)
    BY <2>4, NoneFirst
  <2>7. Seen(r)' \in Firsts(Matching(r)', StartDate', Len(got'[r]) * PerPage)
    BY <2>3, <2>5, <2>6
  <2>8. DOMAIN got'[r] = {}
    BY <2>2
  <2> QED  BY <2>1, <2>7, <2>8 DEF Paging
<1>4. CASE \/ GetEventsByAllCategories(r) \/ GetRecommendedEvents(r) \/ FindOne(r)
  <2>1. at'[r] \in {"MUSIC", "find", "published", "failed"}
    BY <1>1, <1>4, ListNames DEF GetEventsByAllCategories,
       GetRecommendedEvents, FindOne, Get
  <2> QED  BY <2>1 DEF Paging
<1>5. CASE NextPage(r)
  <2>1. word'[r] = word[r] /\ topics' = topics /\ dates' = dates
    BY <1>5 DEF NextPage, Go
  <2>2. Matching(r)' = Matching(r) /\ StartDate' = StartDate
    BY <1>2, <2>1 DEF Matching, StartDate
  <2>3. ApartInTime(r)' <=> ApartInTime(r)
    BY <2>2 DEF ApartInTime
  <2> SUFFICES ASSUME word[r] = NoWord, touched[r] = {}, ApartInTime(r)
               PROVE  Paging(r)'
    BY <2>1, <2>3 DEF Paging
  <2> QED  BY <1>5, <2>2, PageMoves DEF Paging
<1>6. CASE Query(r) /\ ~ NextPage(r)
  <2>1. at[r] \in Range(Lists) \cup {"find", "sale", "same", "others", "published"}
    BY <1>6, ListNames DEF Query, ListCategory, FindEventById, GetSaleData, RecommendSame,
       RecommendOthers, RecommendPublished, Go, Range
  <2>2. word[r] # NoWord
    BY <2>1, ListNames DEF Shape, NoWord
  <2> QED  BY <1>6, <2>2, QueryKeeps DEF Paging
<1> QED  BY <1>3, <1>4, <1>5, <1>6 DEF Request

\* When nobody edits and no two events begin together, who goes through the
\* pages sees every event that fits exactly once.
THEOREM PagesAlwaysCover == Spec => []PagesCover
<1>1. Init => PageInvariant
  BY DEF Init, PageInvariant, Paging
<1>2. RequestInvariant /\ PageInvariant /\ [Next]_vars => PageInvariant'
  <2> SUFFICES ASSUME RequestInvariant, PageInvariant, [Next]_vars,
                      NEW r \in Requests
               PROVE  Paging(r)'
    BY DEF PageInvariant
  <2>1. Domains /\ Shape(r) /\ Paging(r)
    BY DEF RequestInvariant, PageInvariant
  <2> QED  BY <2>1, StepOrWait, PageWaits, PageStep
<1>3. PageInvariant => PagesCover
  <2> SUFFICES ASSUME PageInvariant, NEW r \in Requests,
                      word[r] = NoWord, at[r] = "done", touched[r] = {},
                      \A m, n \in Matching(r) : StartDate[m] = StartDate[n] => m = n,
                      NEW n \in Followed
               PROVE  Cardinality({p \in DOMAIN got[r] : n \in got[r][p]})
                        = IF n \in Matching(r) THEN 1 ELSE 0
    BY DEF PagesCover
  <2> DEFINE D == {p \in DOMAIN got[r] : n \in got[r][p]}
  <2>1. /\ \A p, q \in DOMAIN got[r] : p # q => got[r][p] \cap got[r][q] = {}
        /\ Seen(r) = Matching(r)
    BY DEF PageInvariant, Paging, ApartInTime
  <2>2. n \in Matching(r) <=> \E p \in DOMAIN got[r] : n \in got[r][p]
    BY <2>1 DEF Seen
  <2>3. CASE n \in Matching(r)
    <3>1. PICK p \in DOMAIN got[r] : n \in got[r][p]
      BY <2>2, <2>3
    <3>2. D = {p}
      BY <2>1, <3>1
    <3> QED  BY <2>3, <3>2, FS_Singleton
  <2>4. CASE n \notin Matching(r)
    <3>1. D = {}
      BY <2>2, <2>4
    <3> QED  BY <2>4, <3>1, FS_EmptySet
  <2> QED  BY <2>3, <2>4
<1> QED  BY <1>1, <1>2, <1>3, RequestInvariantHolds, PTL DEF Spec

=============================================================================
