------------------------------ MODULE Listings ------------------------------
(***************************************************************************)
(* What visitors are shown of the catalogue: the routes of EventController *)
(* that read events, over the rows that Startup seeds and administrators   *)
(* edit.  An answer is put together from several queries, one after the    *)
(* other; a query is one step, and rows and dates change between them.     *)
(*                                                                         *)
(* Of an event, an answer shows that it is there: columns are left out, as *)
(* are the filters isFree and q, which narrow a query like the others.     *)
(***************************************************************************)
EXTENDS Startup, FiniteSetsExt, Sequences

CONSTANTS
  Requests,  \* GET requests
  Filters,   \* categories and start dates that GET event may ask for
  ListTake,  \* length of a list by category; 10 in the code
  SameTake,  \* recommendations of the same category; 4 in the code
  Limit,     \* recommendations in all; 10 unless the request says otherwise
  PerPage    \* events of a page; 20 unless the request says otherwise

ASSUME FiltersAssumption ==
  Filters \subseteq [every : SUBSET Category, dates : SUBSET (Years \cup {NoDate})]
ASSUME TakesAssumption == {ListTake, SameTake, Limit, PerPage} \subseteq Nat \ {0}

VARIABLES
  word,    \* word[r]: what follows event/ in the path, if anything
  at,      \* at[r]: the query that is next
  subject, \* subject[r]: the event that is asked about
  topics,  \* topics[r]: the categories it filters by
  dates,   \* dates[r]: the start dates it filters by
  got,     \* got[r]: the answers of its queries so far, a set of events each
  touched  \* auxiliary: touched[r], the events edited since it began

requests == <<word, at, subject, topics, dates, got, touched>>
vars == <<startupVars, requests>>

NoEvent == 0
NoWord == ""
AnyDate == Years \cup {NoDate}
Lists == <<"MUSIC", "THEATERS_AND_ART", "SPORT", "OTHER", "trending">>
Querying == Range(Lists) \cup {"find", "sale", "same", "others", "published", "page"}
Asked == Querying \cup {"idle", "done", "refused", "failed"}

Init ==
  /\ StartupInit
  /\ word = [r \in Requests |-> NoWord]
  /\ at = [r \in Requests |-> "idle"]
  /\ subject = [r \in Requests |-> NoEvent]
  /\ topics = [r \in Requests |-> {}]
  /\ dates = [r \in Requests |-> {}]
  /\ got = [r \in Requests |-> <<>>]
  /\ touched = [r \in Requests |-> {}]

-----------------------------------------------------------------------------
(* Queries *)

\* The sets that a query of k rows in no particular order may return ...
Some(M, k) == kSubset(Min({k, Cardinality(M)}), M)

\* ... by descending key ...
Firsts(M, key, k) == {S \in Some(M, k) : \A x \in S, y \in M \ S : key[x] >= key[y]}

\* ... and the same with an offset.
Slices(M, key, skip, k) ==
  UNION {Firsts(M \ P, key, k) : P \in Firsts(M, key, skip)}

\* orderBy eventInfo.startDate desc: events without an info come first.
StartDate ==
  [n \in Followed |-> IF starts[n] = NoDate THEN LastYear + 1 ELSE starts[n]]

-----------------------------------------------------------------------------
(* The routes *)

\* In the order of their declaration; the first one that fits is taken.
Routes == <<"recommended", "categories", ":id", "upcoming", "most-sold">>

Handler(w) ==
  Routes[Min({i \in DOMAIN Routes : Routes[i] \in {w, ":id"}})]

\* Request r for path w is answered by h and begins with query q.
Get(r, w, h, q) ==
  /\ phase = "running"
  /\ at[r] = "idle"
  /\ Handler(w) = h
  /\ word' = [word EXCEPT ![r] = w]
  /\ at' = [at EXCEPT ![r] = q]
  /\ UNCHANGED <<got, touched>>

(* findEvents, and then one page after the other. *)
FindEvents(r) ==
  /\ phase = "running" /\ at[r] = "idle"
  /\ at' = [at EXCEPT ![r] = "page"]
  /\ \E f \in Filters :
       /\ topics' = [topics EXCEPT ![r] = f.every]
       /\ dates' = [dates EXCEPT ![r] = f.dates]
  /\ UNCHANGED <<word, subject, got, touched>>

(* getEventsByAllCategories reads the clock once. *)
GetEventsByAllCategories(r) ==
  /\ Get(r, "categories", "categories", Lists[1])
  /\ dates' = [dates EXCEPT ![r] = year .. LastYear]
  /\ UNCHANGED <<subject, topics>>

(* getRecommendedEvents: dayjs is imported as a default export, which it does
   not have, so this_week and this_month throw before any query. *)
GetRecommendedEvents(r) ==
  /\ \E q \in {"find", "published", "failed"} :
       /\ Get(r, "recommended", "recommended", q)
       /\ \E n \in IF q = "find" THEN Followed ELSE {NoEvent} :
            subject' = [subject EXCEPT ![r] = n]
  /\ UNCHANGED <<topics, dates>>

(* findEventById, also for the words that routes behind it declare. *)
FindOne(r) ==
  /\ \/ /\ \E w \in {"upcoming", "most-sold"} : Get(r, w, ":id", "find")
        /\ subject' = subject
     \/ /\ Get(r, "an id", ":id", "find")
        /\ \E n \in Followed : subject' = [subject EXCEPT ![r] = n]
  /\ UNCHANGED <<topics, dates>>

-----------------------------------------------------------------------------
(* Their queries *)

Go(r, from, to) ==
  /\ at[r] = from
  /\ at' = [at EXCEPT ![r] = to]
  /\ UNCHANGED <<word, subject, touched>>

Answer(r, S) == got' = [got EXCEPT ![r] = Append(@, S)]

ListMatches(i, n) ==
  IF Lists[i] = "trending" THEN n \in published ELSE Lists[i] \in categories[n]

\* Variant: each list reads the clock again.
ListByClock(r) ==
  \E i \in DOMAIN Lists :
    LET M == {n \in infos : starts[n] >= year /\ ListMatches(i, n)} IN
    /\ Go(r, Lists[i], IF i = Len(Lists) THEN "done" ELSE Lists[i + 1])
    /\ \E S \in Firsts(M, starts, ListTake) : Answer(r, S)
    /\ UNCHANGED <<topics, dates>>

(* One list of getEventsByAllCategories; what sells most is in any order. *)
ListCategory(r) ==
  \E i \in DOMAIN Lists :
    LET M == {n \in infos : starts[n] \in dates[r] /\ ListMatches(i, n)} IN
    /\ Go(r, Lists[i], IF i = Len(Lists) THEN "done" ELSE Lists[i + 1])
    /\ \E S \in IF Lists[i] = "trending" THEN Some(M, ListTake)
                                         ELSE Firsts(M, starts, ListTake) : Answer(r, S)
    /\ UNCHANGED <<topics, dates>>

AfterFind(r) == IF word[r] = "recommended" THEN "same" ELSE "done"

(* findEventById reads the event with its info and its classes.  Before its
   sale begins, or once it has ended, that is all; an info that is needed to
   tell and missing is a TypeError. *)
FindEventById(r) ==
  /\ \/ subject[r] \notin events /\ Go(r, "find", "refused")
     \/ subject[r] \in events /\ Go(r, "find", AfterFind(r))
     \/ subject[r] \in events \ infos /\ Go(r, "find", "failed")
     \/ /\ subject[r] \in infos /\ starts[subject[r]] >= year
        /\ Go(r, "find", "sale")
  /\ topics' = [topics EXCEPT ![r] = IF subject[r] \in events
                                       THEN categories[subject[r]] ELSE @]
  /\ UNCHANGED <<dates, got>>

(* getSaleData, which looks for the event once more. *)
GetSaleData(r) ==
  /\ \/ subject[r] \in events /\ Go(r, "sale", AfterFind(r))
     \/ subject[r] \notin events /\ Go(r, "sale", "refused")
  /\ UNCHANGED <<topics, dates, got>>

Sharing(r) == {n \in published : categories[n] \cap topics[r] # {}}

(* getRecommendedEventsByEventId: four of the same categories ... *)
RecommendSame(r) ==
  \E S \in Some(Sharing(r) \ {subject[r]}, SameTake) :
    /\ Go(r, "same", IF Cardinality(S) < Limit THEN "others" ELSE "done")
    /\ Answer(r, S)
    /\ UNCHANGED <<topics, dates>>

\* Variant: the second query is not told to leave out the first one's.
RecommendAny(r) ==
  /\ Go(r, "others", "done")
  /\ \E S \in Some(published \ {subject[r]}, Limit - Cardinality(got[r][1])) :
       Answer(r, S)
  /\ UNCHANGED <<topics, dates>>

(* ... and as many others as are missing. *)
RecommendOthers(r) ==
  /\ Go(r, "others", "done")
  /\ \E S \in Some(published \ Sharing(r), Limit - Cardinality(got[r][1])) :
       Answer(r, S)
  /\ UNCHANGED <<topics, dates>>

(* The latest to go on sale; when that is, is not followed. *)
RecommendPublished(r) ==
  /\ Go(r, "published", "done")
  /\ \E S \in Some(published, Limit) : Answer(r, S)
  /\ UNCHANGED <<topics, dates>>

Matching(r) ==
  {n \in events : topics[r] \subseteq categories[n] /\ starts[n] \in dates[r]}

\* Variant: a page without an order.
AnyPage(r) ==
  LET p == Len(got[r]) + 1 IN
  /\ Go(r, "page", IF p * PerPage < Cardinality(Matching(r)) THEN "page" ELSE "done")
  /\ \E S \in Slices(Matching(r), [n \in Followed |-> 0], (p - 1) * PerPage, PerPage) :
       Answer(r, S)
  /\ UNCHANGED <<topics, dates>>

(* findManyWithPagination, as long as the answer names a next page. *)
NextPage(r) ==
  LET p == Len(got[r]) + 1 IN
  /\ Go(r, "page", IF p * PerPage < Cardinality(Matching(r)) THEN "page" ELSE "done")
  /\ \E S \in Slices(Matching(r), StartDate, (p - 1) * PerPage, PerPage) :
       Answer(r, S)
  /\ UNCHANGED <<topics, dates>>

-----------------------------------------------------------------------------
Query(r) ==
  \/ ListCategory(r)
  \/ FindEventById(r) \/ GetSaleData(r)
  \/ RecommendSame(r) \/ RecommendOthers(r) \/ RecommendPublished(r)
  \/ NextPage(r)

Request(r) ==
  \/ FindEvents(r) \/ GetEventsByAllCategories(r)
  \/ GetRecommendedEvents(r) \/ FindOne(r)
  \/ Query(r)

\* The events that a step changes.
Edited ==
  {n \in Followed : \/ categories'[n] # categories[n] \/ starts'[n] # starts[n]
                    \/ (n \in events) # (n \in events')
                    \/ (n \in published) # (n \in published')}

(* What the rest of the system does meanwhile: edits are noted, and a process
   that dies takes its requests along. *)
Meanwhile ==
  /\ StartupNext
  /\ touched' = [r \in Requests |-> IF at[r] = "idle" THEN touched[r]
                                      ELSE touched[r] \cup Edited]
  /\ at' = [r \in Requests |-> IF at[r] \in Querying /\ phase' = "down"
                                 THEN "failed" ELSE at[r]]
  /\ UNCHANGED <<word, subject, topics, dates, got>>

Next ==
  \/ \E r \in Requests : Request(r) /\ UNCHANGED startupVars
  \/ Meanwhile

Spec == Init /\ [][Next]_vars /\ StartupFairness

-----------------------------------------------------------------------------
(* Properties *)

\* Every variable stays in its domain, and only recommendations, one event and
\* the pages of a search can be answered without a list.
TypeOK ==
  /\ StartupTypeOK
  /\ word \in [Requests -> Range(Routes) \cup {NoWord, "an id"}]
  /\ at \in [Requests -> Asked]
  /\ subject \in [Requests -> Followed \cup {NoEvent}]
  /\ topics \in [Requests -> SUBSET Category]
  /\ dates \in [Requests -> SUBSET AnyDate]
  /\ got \in [Requests -> Seq(SUBSET Followed)]
  /\ touched \in [Requests -> SUBSET Followed]
  /\ \A r \in Requests : at[r] = "done" /\ got[r] = <<>> => word[r] = "an id"

\* getEventsByAllCategories: lists that were read one after the other agree on
\* every event that was not edited meanwhile, even if it begins meanwhile.  An
\* upcoming event is in the list of each of its categories, and of published
\* ones, unless that is full with events that begin no earlier; it is in no
\* other list.
CategoriesComplete ==
  \A r \in Requests : word[r] = "categories" /\ at[r] = "done" =>
    \A i \in DOMAIN Lists, n \in Followed \ touched[r] :
      LET list == got[r][i]
          belongs == n \in infos /\ starts[n] \in dates[r] /\ ListMatches(i, n)
      IN /\ n \in list => belongs
         /\ belongs /\ n \notin list =>
              /\ Cardinality(list) = ListTake
              /\ Lists[i] # "trending" =>
                   \A x \in list \ touched[r] : starts[x] >= starts[n]

\* getRecommendedEventsByEventId: an event that was not edited meanwhile is
\* recommended once, when it is published, and never to itself, unless it has
\* no category: then nothing sets it apart from the others.
RecommendedOnce ==
  \A r \in Requests :
    word[r] = "recommended" /\ subject[r] # NoEvent /\ at[r] = "done" =>
      \A n \in Followed \ touched[r] :
        /\ Cardinality({i \in DOMAIN got[r] : n \in got[r][i]}) <= 1
        /\ (\E i \in DOMAIN got[r] : n \in got[r][i]) =>
              /\ n \in published
              /\ n = subject[r] => topics[r] = {}

\* findEvents: who goes through the pages sees every event that fits exactly
\* once, when nothing is edited meanwhile and no two of the events begin
\* together: the order has nothing else to go by.
PagesCover ==
  \A r \in Requests :
    /\ word[r] = NoWord /\ at[r] = "done" /\ touched[r] = {}
    /\ \A m, n \in Matching(r) : StartDate[m] = StartDate[n] => m = n
    => \A n \in Followed :
         Cardinality({p \in DOMAIN got[r] : n \in got[r][p]})
           = IF n \in Matching(r) THEN 1 ELSE 0
=============================================================================
