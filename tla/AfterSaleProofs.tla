--------------------------- MODULE AfterSaleProofs ---------------------------
(***************************************************************************)
(* Proofs about AfterSale for any orders, dashboards, ticket classes and   *)
(* number of midnights, failing calls and crashes.  Two invariants are     *)
(* inductive, each with the types: how old the cache may be, and how often *)
(* a mail may have been sent.                                              *)
(***************************************************************************)
EXTENDS AfterSale, TLAPS

\* The losses of a worker are counted against the crashes.
StallsAreCrashes == \A o \in Orders : stalls[o] <= crashes

Types == AfterSaleTypeOK /\ StallsAreCrashes

\* While nothing was overtaken or lost and no completion is under way, neither
\* an entry nor a request about to write one is older than the last sale.
NothingOutdated ==
  ~overtaken /\ Pending = {} =>
    /\ \A entry \in cache : entry.sold = soldQuantity
    /\ \A d \in Dashboards :
         request[d] \in {"tickets", "set"} => result[d].sold = soldQuantity

\* A job that has still to be sent was sent only by workers that were lost, and
\* there is one only for an order that has come to it.
MailCounted ==
  \A o \in Orders :
    /\ received[o] <= 1 + stalls[o]
    /\ mail[o] = "none" => received[o] = 0
    /\ mail[o] \in {"queued", "sending"} => received[o] <= stalls[o]
    /\ mail[o] # "none" => step[o] \in {"delete", "invalidate", "over"}

Invariant == Types /\ NeverAhead /\ NothingOutdated /\ MailCounted

-----------------------------------------------------------------------------
(* The steps *)

\* Where a step of completeOrder leads.
LEMMA ContinueTypes ==
  ASSUME Types, NEW o \in Orders, NEW from \in StepState, NEW to \in StepState,
         Continue(o, from, to)
  PROVE  /\ step' \in [Orders -> StepState]
         /\ step'[o] = to
         /\ \A p \in Orders \ {o} : step'[p] = step[p]
         /\ received' = received /\ stalls' = stalls
         /\ info' = info /\ crashes' = crashes
BY DEF Types, AfterSaleTypeOK, Continue

LEMMA InitInvariant == AfterSaleInit => Invariant
<1> SUFFICES ASSUME AfterSaleInit PROVE Invariant
    OBVIOUS
<1> USE DEF AfterSaleInit, Init
<1>1. AfterSaleTypeOK
  <2>1. TypeOK
    <3>1. Nothing \in Counts
      BY DEF Counts, Nothing
    <3>2. result \in [Dashboards -> Statistics]
      BY <3>1 DEF Statistics
    <3>3. /\ completion \in [Orders -> CompletionState]
          /\ request \in [Dashboards -> RequestState]
      BY DEF CompletionState, RequestState
    <3>4. day \in 0 .. MaxDays /\ faults \in 0 .. MaxFaults
      BY DaysAssumption, FailuresAssumption
    <3>5. cache \subseteq Statistics /\ \A x, y \in cache : x = y
      OBVIOUS
    <3> QED  BY <3>1, <3>2, <3>3, <3>4, <3>5 DEF TypeOK
  <2> QED  BY <2>1, CrashesAssumption
           DEF AfterSaleTypeOK, StepState, MailState, Owing
<1>2. StallsAreCrashes /\ NeverAhead /\ NothingOutdated
  BY DEF StallsAreCrashes, NeverAhead, NothingOutdated, Nothing
<1>3. MailCounted
  BY DEF MailCounted
<1> QED  BY <1>1, <1>2, <1>3 DEF Invariant, Types

-----------------------------------------------------------------------------
(* Type correctness *)

\* The steps of completeOrder.
LEMMA CompletionTypes ==
  ASSUME Types, NEW o \in Orders,
         Commit(o) \/ CompletionStep(o) \/ CompletionFails(o)
  PROVE  Types'
<1> USE DEF Types, AfterSaleTypeOK, StallsAreCrashes, StepState, Owing
<1>1. CASE Commit(o)
  <2>1. TypeOK'
    BY <1>1 DEF Commit, CommitOrder, TypeOK, Counts, CompletionState, requests
  <2> QED  BY <1>1, <2>1, ContinueTypes
           DEF Commit, CommitOrder, TypeOK, CompletionState
<1>2. CASE GeneratePdfTickets(o) \/ SendOrderSuccessEmail(o) \/ DeleteOrder(o)
  <2>1. TypeOK' /\ completion' = completion
    BY <1>2 DEF GeneratePdfTickets, SendOrderSuccessEmail, DeleteOrder, TypeOK,
                vars, sales, requests
  <2>2. mail' \in [Orders -> MailState] 
    BY <1>2 DEF GeneratePdfTickets, SendOrderSuccessEmail, DeleteOrder, MailState
  <2>3. PICK from \in Owing, to \in Owing : Continue(o, from, to)
    BY <1>2 DEF GeneratePdfTickets, SendOrderSuccessEmail, DeleteOrder
  <2>4. step[o] = from /\ step'[o] = to
    BY <2>3, ContinueTypes DEF Continue
  <2> QED  BY <2>1, <2>2, <2>3, <2>4, ContinueTypes
<1>3. CASE Invalidate(o)
  <2>1. TypeOK'
    BY <1>3 DEF Invalidate, InvalidateEventStatisticsCache, TypeOK,
                CompletionState, requests
  <2> QED  BY <1>3, <2>1, ContinueTypes
           DEF Invalidate, InvalidateEventStatisticsCache, TypeOK,
               CompletionState
<1>4. CASE CompletionFails(o)
  <2>1. PICK from \in Owing : Continue(o, from, "over")
    BY <1>4 DEF CompletionFails
  <2>2. InvalidationLost(o) /\ (Fault \/ UNCHANGED faults)
    BY <1>4 DEF CompletionFails, InvalidationFails
  <2>3. TypeOK'
    BY <2>2, FailuresAssumption
       DEF InvalidationLost, Fault, TypeOK, CompletionState, requests
  <2> QED  BY <1>4, <2>1, <2>2, <2>3, ContinueTypes
           DEF CompletionFails, InvalidationLost, TypeOK, CompletionState
<1> QED  BY <1>1, <1>2, <1>3, <1>4 DEF CompletionStep

\* The steps of the worker of the e-mail queue.
LEMMA MailTypes ==
  ASSUME Types, NEW o \in Orders, MailStep(o) \/ SendFails(o)
  PROVE  Types'
<1> USE DEF Types, AfterSaleTypeOK, StallsAreCrashes, MailState, Job
<1>1. TypeOK' /\ UNCHANGED <<step, completion>>
  <2>1. CASE MailStep(o)
    BY <2>1 DEF MailStep, TakeMail, SendMail, TypeOK, vars, sales, requests
  <2>2. CASE SendFails(o)
    BY <2>2, FailuresAssumption
       DEF SendFails, Fault, TypeOK, sales, requests
  <2> QED  BY <2>1, <2>2
<1>2. received' \in [Orders -> Nat] /\ mail' \in [Orders -> MailState]
  BY DEF MailStep, TakeMail, SendMail, SendFails, Perhaps
<1>3. UNCHANGED <<stalls, info, crashes>>
  BY DEF MailStep, TakeMail, SendMail, SendFails
<1> QED  BY <1>1, <1>2, <1>3

\* The end of the process.
LEMMA CrashTypes ==
  ASSUME Types, Crash
  PROVE  Types'
<1> USE DEF Types, AfterSaleTypeOK, StallsAreCrashes, Crash
<1>1. TypeOK'
  BY DEF TypeOK, CompletionState, RequestState
<1>2. /\ step' \in [Orders -> StepState]
      /\ \A o \in Orders : /\ step'[o] = "commit" <=> completion'[o] = "idle"
                           /\ step'[o] \in Owing <=> completion'[o] = "notify"
  BY DEF StepState, Owing, TypeOK, CompletionState
<1>3. mail' \in [Orders -> MailState]
  BY DEF Recovered, MailState
<1>4. received' \in [Orders -> Nat]
  OBVIOUS
<1>5. /\ crashes' \in 0 .. MaxCrashes
      /\ stalls' \in [Orders -> 0 .. MaxCrashes]
      /\ \A o \in Orders : stalls'[o] <= crashes'
  BY CrashesAssumption
<1>6. info' \in BOOLEAN
  OBVIOUS
<1> QED  BY <1>1, <1>2, <1>3, <1>4, <1>5, <1>6

\* What dashboards, Redis and the calendar do meanwhile.
LEMMA MeanwhileTypes ==
  ASSUME Types, Meanwhile
  PROVE  Types'
<1> USE DEF Types, AfterSaleTypeOK, StallsAreCrashes, afterVars
<1>1. TypeOK' /\ completion' = completion
  <2> USE DEF TypeOK, Step, sales, requests, RequestState, RequestRunning
  <2>1. ASSUME NEW d \in Dashboards, CacheHit(d)
        PROVE  TypeOK' /\ completion' = completion
    BY <2>1 DEF CacheHit
  <2>2. ASSUME NEW d \in Dashboards,
               CacheMiss(d) \/ GetFails(d) \/ SetFails(d)
        PROVE  TypeOK' /\ completion' = completion
    BY <2>2, FailuresAssumption DEF CacheMiss, GetFails, SetFails, Fault
  <2>3. ASSUME NEW d \in Dashboards, ComputeStep(d)
        PROVE  TypeOK' /\ completion' = completion
    <3>1. CASE ReadTicketClasses(d)
      BY <3>1 DEF ReadTicketClasses, Statistics
    <3>2. CASE ReadTickets(d)
      BY <3>2 DEF ReadTickets, Statistics
    <3>3. CASE SetCache(d)
      BY <3>3 DEF SetCache
    <3> QED  BY <2>3, <3>1, <3>2, <3>3 DEF ComputeStep
  <2>4. CASE Expire
    BY <2>4 DEF Expire
  <2>5. CASE Midnight
    BY <2>5, DaysAssumption DEF Midnight, Nothing, Counts
  <2> QED  BY <2>1, <2>2, <2>3, <2>4, <2>5 DEF Meanwhile
<1>2. UNCHANGED afterVars
  BY DEF Meanwhile
<1> QED  BY <1>1, <1>2

LEMMA TypeStep == Types /\ [AfterSaleNext]_allVars => Types'
<1> SUFFICES ASSUME Types, [AfterSaleNext]_allVars PROVE Types'
    OBVIOUS
<1>1. CASE DeleteInfo \/ UNCHANGED allVars
  <2>1. UNCHANGED <<vars, step, mail, received, stalls, crashes>>
    BY <1>1 DEF DeleteInfo, allVars, afterVars
  <2>2. info' \in BOOLEAN
    BY <1>1 DEF DeleteInfo, allVars, afterVars, Types, AfterSaleTypeOK
  <2>3. TypeOK'
    BY <2>1 DEF Types, AfterSaleTypeOK, TypeOK, vars, sales, requests
  <2> QED  BY <2>1, <2>2, <2>3
           DEF Types, AfterSaleTypeOK, StallsAreCrashes, vars, sales
<1> QED  BY <1>1, CompletionTypes, MailTypes, CrashTypes, MeanwhileTypes
         DEF AfterSaleNext, ValidateCheckIn

-----------------------------------------------------------------------------
(* What the cache and the requests know of the sales *)

\* Outside of the statistics nothing touches the cache, and a completion only
\* ever raises the columns it sells.
LEMMA NeverAheadStep ==
  Types /\ NeverAhead /\ [AfterSaleNext]_allVars => NeverAhead'
<1> SUFFICES ASSUME Types, NeverAhead, [AfterSaleNext]_allVars
             PROVE  NeverAhead'
    OBVIOUS
<1>t. TypeOK
  BY DEF Types, AfterSaleTypeOK
<1> DEFINE Sold(s) == \A c \in Classes : s.sold[c] <= soldQuantity[c]
<1>a. /\ \A s \in cache : Sold(s)
      /\ \A d \in Dashboards : Sold(result[d])
  BY DEF NeverAhead
<1>1. ASSUME UNCHANGED soldQuantity, cache' \subseteq cache, UNCHANGED result
      PROVE  NeverAhead'
  BY <1>1, <1>a DEF NeverAhead
<1>2. ASSUME NEW o \in Orders, Commit(o)
      PROVE  NeverAhead'
  <2>1. UNCHANGED <<cache, result>>
    BY <1>2 DEF Commit, CommitOrder, requests
  <2>2. \A c \in Classes : /\ soldQuantity[c] \in Nat
                           /\ soldQuantity'[c] \in Nat
                           /\ soldQuantity[c] <= soldQuantity'[c]
    BY <1>2, <1>t DEF Commit, CommitOrder, TypeOK, Counts
  <2>3. \A s \in cache \cup {result[d] : d \in Dashboards} :
          \A c \in Classes : s.sold[c] \in Nat
    BY <1>t DEF TypeOK, Statistics, Counts
  <2> QED  BY <1>a, <2>1, <2>2, <2>3 DEF NeverAhead
<1>3. ASSUME NEW o \in Orders, CompletionStep(o) \/ CompletionFails(o)
      PROVE  NeverAhead'
  BY <1>1, <1>3
     DEF CompletionStep, CompletionFails, InvalidationFails, InvalidationLost,
         GeneratePdfTickets, SendOrderSuccessEmail, DeleteOrder, Invalidate,
         InvalidateEventStatisticsCache, vars, sales, requests
<1>4. ASSUME NEW o \in Orders, MailStep(o) \/ SendFails(o)
      PROVE  NeverAhead'
  BY <1>1, <1>4 DEF MailStep, TakeMail, SendMail, SendFails, vars, sales, requests
<1>5. CASE DeleteInfo \/ Crash \/ UNCHANGED allVars
  BY <1>1, <1>5 DEF DeleteInfo, Crash, allVars, vars, sales, requests
<1>6. CASE Meanwhile
  <2> USE DEF sales, requests
  <2>1. ASSUME NEW d \in Dashboards, CacheHit(d)
        PROVE  NeverAhead'
    <3>1. PICK entry \in cache : result' = [result EXCEPT ![d] = entry]
      BY <2>1 DEF CacheHit
    <3>2. \A e \in Dashboards : result'[e] = entry \/ result'[e] = result[e]
      BY <3>1, <1>t DEF TypeOK
    <3> QED  BY <2>1, <3>2, <1>a DEF CacheHit, NeverAhead
  <2>2. ASSUME NEW d \in Dashboards,
               CacheMiss(d) \/ GetFails(d) \/ SetFails(d)
        PROVE  NeverAhead'
    BY <1>1, <2>2 DEF CacheMiss, GetFails, SetFails
  <2>3. ASSUME NEW d \in Dashboards, ReadTicketClasses(d)
        PROVE  NeverAhead'
    <3>1. \A e \in Dashboards : \/ result'[e].sold = soldQuantity
                                \/ result'[e] = result[e]
      BY <2>3, <1>t DEF ReadTicketClasses, TypeOK, Statistics
    <3>2. \A c \in Classes : soldQuantity[c] <= soldQuantity[c]
      BY <1>t DEF TypeOK, Counts
    <3>3. UNCHANGED <<soldQuantity, cache>>
      BY <2>3 DEF ReadTicketClasses
    <3>4. \A e \in Dashboards, c \in Classes :
            result'[e].sold[c] <= soldQuantity[c]
      BY <3>1, <3>2, <1>a
    <3> QED  BY <3>3, <3>4, <1>a DEF NeverAhead
  <2>4. ASSUME NEW d \in Dashboards, ReadTickets(d)
        PROVE  NeverAhead'
    <3>1. \A e \in Dashboards : result'[e].sold = result[e].sold
      BY <2>4, <1>t DEF ReadTickets, TypeOK, Statistics
    <3> QED  BY <2>4, <3>1, <1>a DEF ReadTickets, NeverAhead
  <2>5. ASSUME NEW d \in Dashboards, SetCache(d)
        PROVE  NeverAhead'
    BY <2>5, <1>a DEF SetCache, NeverAhead
  <2>6. CASE Expire
    BY <1>1, <2>6 DEF Expire
  <2>7. CASE Midnight
    BY <1>1, <2>7 DEF Midnight
  <2> QED  BY <1>6, <2>1, <2>2, <2>3, <2>4, <2>5, <2>6, <2>7
           DEF Meanwhile, ComputeStep
<1> QED  BY <1>2, <1>3, <1>4, <1>5, <1>6 DEF AfterSaleNext, ValidateCheckIn

\* A request about to cache an old answer is what an invalidation notes.
LEMMA NothingOutdatedStep ==
  Types /\ NothingOutdated /\ [AfterSaleNext]_allVars => NothingOutdated'
<1> SUFFICES ASSUME Types, NothingOutdated, [AfterSaleNext]_allVars,
                    ~overtaken', Pending' = {}
             PROVE  /\ \A entry \in cache' : entry.sold = soldQuantity'
                    /\ \A d \in Dashboards :
                         request'[d] \in {"tickets", "set"} =>
                           result'[d].sold = soldQuantity'
    BY DEF NothingOutdated
<1> DEFINE Fresh == /\ \A entry \in cache : entry.sold = soldQuantity
                    /\ \A d \in Dashboards :
                         request[d] \in {"tickets", "set"} =>
                           result[d].sold = soldQuantity
<1>t. TypeOK
  BY DEF Types, AfterSaleTypeOK
<1>1. ASSUME UNCHANGED <<overtaken, completion>>
      PROVE  Fresh
  BY <1>1 DEF NothingOutdated, Pending
<1>2. ASSUME UNCHANGED <<overtaken, sales, cache, requests>>
      PROVE  Fresh'
  BY <1>1, <1>2 DEF sales, requests
<1>3. ASSUME NEW o \in Orders, Commit(o)
      PROVE  FALSE
  BY <1>3, <1>t DEF Commit, CommitOrder, Pending, TypeOK
<1>4. ASSUME NEW o \in Orders, CompletionStep(o) \/ CompletionFails(o)
      PROVE  Fresh'
  <2>1. CASE GeneratePdfTickets(o) \/ SendOrderSuccessEmail(o) \/ DeleteOrder(o)
    BY <1>2, <2>1
       DEF GeneratePdfTickets, SendOrderSuccessEmail, DeleteOrder, vars
  <2>2. CASE Invalidate(o)
    <3>1. /\ UNCHANGED <<soldQuantity, request, result>>
          /\ cache' = {}
          /\ Outdated = {}
      BY <2>2 DEF Invalidate, InvalidateEventStatisticsCache, requests
    <3> QED  BY <3>1 DEF Outdated
  <2>3. CASE CompletionFails(o)
    BY <2>3 DEF CompletionFails, InvalidationFails, InvalidationLost
  <2> QED  BY <1>4, <2>1, <2>2, <2>3 DEF CompletionStep
<1>5. ASSUME NEW o \in Orders, MailStep(o) \/ SendFails(o)
      PROVE  Fresh'
  BY <1>2, <1>5 DEF MailStep, TakeMail, SendMail, SendFails, vars
<1>6. CASE DeleteInfo \/ UNCHANGED allVars
  BY <1>2, <1>6 DEF DeleteInfo, allVars, vars
<1>7. CASE Crash
  <2>1. \A o \in Orders : step[o] \notin Owing
    BY <1>7 DEF Crash
  <2>2. Pending = {} /\ ~overtaken
    BY <1>7, <2>1 DEF Crash, Pending, Types, AfterSaleTypeOK
  <2>3. \A entry \in cache : entry.sold = soldQuantity
    BY <2>2 DEF NothingOutdated
  <2>4. /\ UNCHANGED <<cache, soldQuantity>>
        /\ \A d \in Dashboards : request'[d] = "idle"
    BY <1>7 DEF Crash
  <2> QED  BY <2>3, <2>4
<1>8. CASE Meanwhile
  <2>1. Fresh /\ UNCHANGED soldQuantity
    BY <1>8, <1>1
       DEF Meanwhile, CacheHit, CacheMiss, GetFails, ComputeStep,
           ReadTicketClasses, ReadTickets, SetCache, SetFails, Expire, Midnight,
           sales
  <2> USE DEF Step, requests
  <2>2. ASSUME NEW d \in Dashboards,
               CacheHit(d) \/ CacheMiss(d) \/ GetFails(d) \/ SetFails(d)
        PROVE  Fresh'
    <3>1. cache' = cache /\ request'[d] \notin {"tickets", "set"}
      BY <2>2, <1>t DEF CacheHit, CacheMiss, GetFails, SetFails, TypeOK
    <3>2. \A e \in Dashboards \ {d} :
            request'[e] = request[e] /\ result'[e] = result[e]
      BY <2>2, <1>t DEF CacheHit, CacheMiss, GetFails, SetFails, TypeOK
    <3> QED  BY <2>1, <3>1, <3>2
  <2>3. ASSUME NEW d \in Dashboards, ReadTicketClasses(d) \/ ReadTickets(d)
        PROVE  Fresh'
    <3>1. \A e \in Dashboards \ {d} :
            request'[e] = request[e] /\ result'[e] = result[e]
      BY <2>3, <1>t DEF ReadTicketClasses, ReadTickets, TypeOK
    <3>2. result'[d].sold = soldQuantity
      <4>1. CASE ReadTicketClasses(d)
        BY <4>1, <1>t DEF ReadTicketClasses, TypeOK, Statistics
      <4>2. CASE ReadTickets(d)
        BY <4>2, <2>1, <1>t DEF ReadTickets, TypeOK, Statistics
      <4> QED  BY <2>3, <4>1, <4>2
    <3>3. cache' = cache
      BY <2>3 DEF ReadTicketClasses, ReadTickets
    <3> QED  BY <2>1, <3>1, <3>2, <3>3
  <2>4. ASSUME NEW d \in Dashboards, SetCache(d)
        PROVE  Fresh'
    <3>1. cache' = {result[d]} /\ result' = result /\ request[d] = "set"
      BY <2>4 DEF SetCache
    <3>2. \A e \in Dashboards : request'[e] \in {"tickets", "set"} =>
                                request[e] \in {"tickets", "set"}
      BY <2>4, <1>t DEF SetCache, TypeOK
    <3> QED  BY <2>1, <3>1, <3>2
  <2>5. CASE Expire \/ Midnight
    BY <2>1, <2>5 DEF Expire, Midnight
  <2> QED  BY <1>8, <2>2, <2>3, <2>4, <2>5 DEF Meanwhile, ComputeStep
<1> QED  BY <1>3, <1>4, <1>5, <1>6, <1>7, <1>8 DEF AfterSaleNext, ValidateCheckIn

-----------------------------------------------------------------------------
(* The confirmations *)

\* A mail leaves with its worker, and a worker is lost only in a crash.
LEMMA MailCountedStep ==
  Types /\ MailCounted /\ [AfterSaleNext]_allVars => MailCounted'
<1> SUFFICES ASSUME Types, MailCounted, [AfterSaleNext]_allVars,
                    NEW o \in Orders
             PROVE  /\ received'[o] <= 1 + stalls'[o]
                    /\ mail'[o] = "none" => received'[o] = 0
                    /\ mail'[o] \in {"queued", "sending"} =>
                         received'[o] <= stalls'[o]
                    /\ mail'[o] # "none" =>
                         step'[o] \in {"delete", "invalidate", "over"}
    BY DEF MailCounted
<1> DEFINE Counted == /\ received[o] <= 1 + stalls[o]
                      /\ mail[o] = "none" => received[o] = 0
                      /\ mail[o] \in {"queued", "sending"} =>
                           received[o] <= stalls[o]
                      /\ mail[o] # "none" =>
                           step[o] \in {"delete", "invalidate", "over"}
<1>t. /\ received[o] \in Nat /\ stalls[o] \in Nat
      /\ DOMAIN received = Orders /\ DOMAIN stalls = Orders
      /\ DOMAIN mail = Orders /\ DOMAIN step = Orders
      /\ mail[o] \in MailState /\ step[o] \in StepState
  BY CrashesAssumption DEF Types, AfterSaleTypeOK
<1>c. Counted
  BY DEF MailCounted
<1>1. ASSUME UNCHANGED <<step, mail, received, stalls>>
      PROVE  Counted'
  BY <1>c, <1>1
<1>2. ASSUME NEW p \in Orders,
             Commit(p) \/ CompletionStep(p) \/ CompletionFails(p)
      PROVE  Counted'
  <2>1. PICK from \in StepState, to \in {"render", "confirm", "delete", "invalidate", "over"} :
          /\ Continue(p, from, to)
          /\ from \in {"delete", "invalidate"} =>
               to \in {"delete", "invalidate", "over"}
          /\ \/ UNCHANGED mail
             \/ /\ from = "confirm" /\ to = "delete"
                /\ mail' = [mail EXCEPT ![p] = "queued"]
    BY <1>2 DEF Commit, CompletionStep, GeneratePdfTickets,
                SendOrderSuccessEmail, DeleteOrder, Invalidate, CompletionFails,
                StepState, Owing
  <2>2. /\ received' = received /\ stalls' = stalls
        /\ step[p] = from /\ from # "over" /\ step' = [step EXCEPT ![p] = to]
    BY <1>2, <2>1
       DEF Continue, Commit, CompletionStep, GeneratePdfTickets,
           SendOrderSuccessEmail, DeleteOrder, Invalidate, CompletionFails, Owing
  <2>3. CASE p = o
    BY <2>1, <2>2, <2>3, <1>c, <1>t
  <2>4. CASE p # o
    BY <2>1, <2>2, <2>4, <1>c, <1>t
  <2> QED  BY <2>3, <2>4
<1>3. ASSUME NEW p \in Orders, MailStep(p) \/ SendFails(p)
      PROVE  Counted'
  <2>1. step' = step /\ stalls' = stalls /\ mail[p] \in {"queued", "sending"}
    BY <1>3 DEF MailStep, TakeMail, SendMail, SendFails, Job
  <2>2. CASE p # o
    BY <1>3, <2>1, <2>2, <1>c, <1>t
       DEF MailStep, TakeMail, SendMail, SendFails, Job, Perhaps
  <2>3. CASE p = o
    BY <1>3, <2>1, <2>3, <1>c, <1>t
       DEF MailStep, TakeMail, SendMail, SendFails, Job, Perhaps
  <2> QED  BY <2>2, <2>3
<1>4. CASE Crash
  <2>1. step'[o] = IF step[o] \in Owing THEN "over" ELSE step[o]
    BY <1>4 DEF Crash
  <2>2. CASE mail[o] = "sending"
    BY <1>4, <2>1, <2>2, <1>c, <1>t DEF Crash, Recovered
  <2>3. CASE mail[o] # "sending"
    <3>1. mail'[o] = mail[o] /\ stalls'[o] = stalls[o] /\ received'[o] = received[o]
      BY <1>4, <2>3 DEF Crash, Recovered
    <3> QED  BY <2>1, <3>1, <1>c, <1>t
  <2> QED  BY <2>2, <2>3
<1>5. CASE DeleteInfo \/ Meanwhile \/ UNCHANGED allVars
  BY <1>1, <1>5 DEF DeleteInfo, Meanwhile, allVars, afterVars
<1> QED  BY <1>2, <1>3, <1>4, <1>5 DEF AfterSaleNext, ValidateCheckIn

-----------------------------------------------------------------------------
(* Theorems *)

\* Whatever fails and whenever the process ends between the commit of
\* completeOrder and its invalidateEventStatisticsCache, the types, the age of
\* the cache and the count of mails are as stated.
THEOREM AfterSaleInvariantHolds == AfterSaleSpec => []Invariant
<1>1. AfterSaleInit => Invariant
  BY InitInvariant
<1>2. Invariant /\ [AfterSaleNext]_allVars => Invariant'
  BY TypeStep, NeverAheadStep, NothingOutdatedStep, MailCountedStep
     DEF Invariant
<1> QED  BY <1>1, <1>2, PTL DEF AfterSaleSpec

\* Every variable of the e-mail queue, the cache and the completions stays in
\* its domain, whatever the orders, the dashboards and the failures.
THEOREM AfterSaleTypeCorrect == AfterSaleSpec => []AfterSaleTypeOK
<1>1. Invariant => AfterSaleTypeOK
  BY DEF Invariant, Types
<1> QED  BY <1>1, AfterSaleInvariantHolds, PTL

\* With any number of dashboards between their reads and their writes,
\* invalidateEventStatisticsCache leaves no entry from before a sale, unless it
\* was lost or one of them overtook it.
THEOREM SalesAlwaysInvalidate == AfterSaleSpec => []SalesInvalidate
<1>1. Invariant => SalesInvalidate
  BY DEF Invariant, NothingOutdated, SalesInvalidate
<1> QED  BY <1>1, AfterSaleInvariantHolds, PTL

\* getStatistics never reports a ticket that completeOrder has not committed.
THEOREM StatisticsNeverAhead == AfterSaleSpec => []NeverAhead
<1>1. Invariant => NeverAhead
  BY DEF Invariant
<1> QED  BY <1>1, AfterSaleInvariantHolds, PTL

\* SendSuccessOrderEmailWorker sends a confirmation of a committed order only,
\* and at most one more than it lost workers while sending it.
THEOREM MailedAtMostOnce == AfterSaleSpec => []MailedOnce
<1>1. Invariant => MailedOnce
  <2> SUFFICES ASSUME Invariant, NEW o \in Orders
               PROVE  /\ received[o] <= 1 + stalls[o]
                      /\ received[o] > 0 => step[o] # "commit"
      BY DEF MailedOnce
  <2>1. received[o] \in Nat
    BY DEF Invariant, Types, AfterSaleTypeOK
  <2> QED  BY <2>1 DEF Invariant, MailCounted
<1> QED  BY <1>1, AfterSaleInvariantHolds, PTL
=============================================================================
