-------------------------- MODULE EventStatistics --------------------------
(***************************************************************************)
(* The dashboard statistics of one event: EventService.getStatistics reads *)
(* through a cache that completeOrder invalidates after it has sold        *)
(* tickets.  Orders complete, dashboards are opened, entries expire, days  *)
(* change and calls to the cache fail; AfterSale puts them in order.       *)
(*                                                                         *)
(* A statistic is, for each class, the sold quantity and the tickets       *)
(* created since midnight; prices, revenues and the sums over the classes  *)
(* are functions of these and say nothing more about staleness.            *)
(***************************************************************************)
EXTENDS Integers

CONSTANTS
  Classes,    \* the ticket classes of the event
  Orders,     \* orders that complete, one ticket each
  Dashboards, \* GET event/:id/dashboard-statistics requests under way
  MaxDays,    \* bound: midnights
  MaxFaults   \* bound: completions and calls of the cache that fail

ASSUME DaysAssumption == MaxDays \in Nat
ASSUME FailuresAssumption == MaxFaults \in Nat

VARIABLES
  soldQuantity, \* soldQuantity[c]: column of the class
  today,        \* today[c]: its tickets created since midnight
  bought,       \* bought[o]: the class of the ticket that o buys
  completion,   \* completion[o]: where completeOrder stands
  cache,        \* the entries under eventStatistics:<id>, at most one
  request,      \* request[d]: where getStatistics stands
  result,       \* result[d]: what it has computed so far
  day, faults,
  overtaken     \* auxiliary: an invalidation was lost, or came between the
                \* reads of a request and its write to the cache

sales == <<soldQuantity, today, bought, completion>>
requests == <<request, result>>
vars == <<sales, cache, requests, day, faults, overtaken>>

Counts == [Classes -> Nat]
Statistics == [sold : Counts, today : Counts]
CompletionState == {"idle", "notify", "done"}
RequestRunning == {"classes", "tickets", "set"}
RequestState == RequestRunning \cup {"idle"}

Nothing == [c \in Classes |-> 0]

Init ==
  /\ soldQuantity = Nothing
  /\ today = Nothing
  /\ bought \in [Orders -> Classes]
  /\ completion = [o \in Orders |-> "idle"]
  /\ cache = {}
  /\ request = [d \in Dashboards |-> "idle"]
  /\ result = [d \in Dashboards |-> [sold |-> Nothing, today |-> Nothing]]
  /\ day = 0
  /\ faults = 0
  /\ overtaken = FALSE

Fault == faults < MaxFaults /\ faults' = faults + 1

-----------------------------------------------------------------------------
(* OrderService.completeOrder, as far as the statistics see it *)

(* The commit: the sold quantity and a ticket created now. *)
CommitOrder(o) ==
  /\ completion[o] = "idle"
  /\ completion' = [completion EXCEPT ![o] = "notify"]
  /\ soldQuantity' = [soldQuantity EXCEPT ![bought[o]] = @ + 1]
  /\ today' = [today EXCEPT ![bought[o]] = @ + 1]
  /\ UNCHANGED <<bought, cache, requests, day, faults, overtaken>>

\* Requests about to cache what they read before the last sale.
Outdated ==
  {d \in Dashboards : /\ request[d] \in {"tickets", "set"}
                      /\ result[d].sold # soldQuantity}

\* Variant: the entry is brought up to date instead of deleted.
UpdateStatisticsCache(o) ==
  /\ completion[o] = "notify"
  /\ completion' = [completion EXCEPT ![o] = "done"]
  /\ cache' = {[entry EXCEPT !.sold[bought[o]] = @ + 1] : entry \in cache}
  /\ overtaken' = (overtaken \/ Outdated # {})
  /\ UNCHANGED <<soldQuantity, today, bought, requests, day, faults>>

\* Variant: the cache is left to expire.
KeepStatisticsCache(o) ==
  /\ completion[o] = "notify"
  /\ completion' = [completion EXCEPT ![o] = "done"]
  /\ overtaken' = (overtaken \/ Outdated # {})
  /\ UNCHANGED <<soldQuantity, today, bought, cache, requests, day, faults>>

(* Confirmation, clean-up, then invalidateEventStatisticsCache. *)
InvalidateEventStatisticsCache(o) ==
  /\ completion[o] = "notify"
  /\ completion' = [completion EXCEPT ![o] = "done"]
  /\ cache' = {}
  /\ overtaken' = (overtaken \/ Outdated # {})
  /\ UNCHANGED <<soldQuantity, today, bought, requests, day, faults>>

(* A call before the invalidation throws, which ends the job, or the DEL
   itself does, which is swallowed. *)
InvalidationLost(o) ==
  /\ completion[o] = "notify"
  /\ completion' = [completion EXCEPT ![o] = "done"]
  /\ overtaken' = TRUE
  /\ UNCHANGED <<soldQuantity, today, bought, cache, requests, day>>

InvalidationFails(o) == Fault /\ InvalidationLost(o)

-----------------------------------------------------------------------------
(* EventService.getStatistics *)

Step(d, from, to) ==
  /\ request[d] = from
  /\ request' = [request EXCEPT ![d] = to]

(* A hit answers at once. *)
CacheHit(d) ==
  /\ Step(d, "idle", "idle")
  /\ \E entry \in cache : result' = [result EXCEPT ![d] = entry]
  /\ UNCHANGED <<sales, cache, day, faults, overtaken>>

(* A miss, or a GET that throws, goes on to the database. *)
CacheMiss(d) ==
  /\ Step(d, "idle", "classes")
  /\ cache = {}
  /\ UNCHANGED <<sales, cache, result, day, faults, overtaken>>

GetFails(d) ==
  /\ Fault
  /\ Step(d, "idle", "classes")
  /\ UNCHANGED <<sales, cache, result, day, overtaken>>

(* computeStatistics: findMany selects the classes and then, with a second
   query, their tickets. *)
ReadTicketClasses(d) ==
  /\ Step(d, "classes", "tickets")
  /\ result' = [result EXCEPT ![d].sold = soldQuantity]
  /\ UNCHANGED <<sales, cache, day, faults, overtaken>>

ReadTickets(d) ==
  /\ Step(d, "tickets", "set")
  /\ result' = [result EXCEPT ![d].today = today]
  /\ UNCHANGED <<sales, cache, day, faults, overtaken>>

\* Variant: each request has an entry of its own.
AddToCache(d) ==
  /\ Step(d, "set", "idle")
  /\ cache' = cache \cup {result[d]}
  /\ UNCHANGED <<sales, result, day, faults, overtaken>>

SetCache(d) ==
  /\ Step(d, "set", "idle")
  /\ cache' = {result[d]}
  /\ UNCHANGED <<sales, result, day, faults, overtaken>>

(* The answer is returned even if caching fails. *)
SetFails(d) ==
  /\ Fault
  /\ Step(d, "set", "idle")
  /\ UNCHANGED <<sales, cache, result, day, overtaken>>

\* Variant: entries are written without a time to live.
NeverExpire ==
  /\ cache = {}
  /\ UNCHANGED vars

(* The entry was written for ten minutes. *)
Expire ==
  /\ cache # {}
  /\ cache' = {}
  /\ UNCHANGED <<sales, requests, day, faults, overtaken>>

Midnight ==
  /\ day < MaxDays
  /\ day' = day + 1
  /\ today' = Nothing
  /\ UNCHANGED <<soldQuantity, bought, completion, cache, requests, faults,
                 overtaken>>

-----------------------------------------------------------------------------
ComputeStep(d) ==
  ReadTicketClasses(d) \/ ReadTickets(d) \/ SetCache(d)

-----------------------------------------------------------------------------
(* Properties *)

\* Every variable stays in its domain, and the cache has one entry at most.
TypeOK ==
  /\ soldQuantity \in Counts /\ today \in Counts
  /\ bought \in [Orders -> Classes]
  /\ completion \in [Orders -> CompletionState]
  /\ cache \subseteq Statistics
  /\ \A x, y \in cache : x = y
  /\ request \in [Dashboards -> RequestState]
  /\ result \in [Dashboards -> Statistics]
  /\ day \in 0 .. MaxDays
  /\ faults \in 0 .. MaxFaults
  /\ overtaken \in BOOLEAN

Pending == {o \in Orders : completion[o] = "notify"}

\* The invalidation comes after the commit: once a completion is through and
\* unless a request overtook its invalidation or the invalidation was lost, the
\* cache has no entry from before the sale.
SalesInvalidate ==
  ~overtaken /\ Pending = {} => \A entry \in cache : entry.sold = soldQuantity

\* Whatever was overtaken or lost, a dashboard shows no ticket that has not
\* been sold: no statistic, cached or answered, runs ahead of the database.
NeverAhead ==
  \A s \in cache \cup {result[d] : d \in Dashboards} :
    \A c \in Classes : s.sold[c] <= soldQuantity[c]

\* The ten minutes of an entry repair what the invalidation missed: when
\* nothing is sold any more, the cache ends up with the true numbers or none,
\* those of today included.
StatisticsSettle ==
  <>[](\A entry \in cache :
         entry.sold = soldQuantity /\ entry.today = today)
=============================================================================
