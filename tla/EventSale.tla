----------------------------- MODULE EventSale -----------------------------
(***************************************************************************)
(* Putting an event on sale: EventConfigService copies an event and its    *)
(* ticket classes from Postgres to Redis while other administrators edit   *)
(* or remove the event, and buyers read the sale data and reserve tickets. *)
(*                                                                         *)
(* Requests are cut at their awaits, as in OrderLifecycle.  The HSETs of   *)
(* one Promise.all go down one connection and are one step, unless the     *)
(* process or the connection dies among them (StockPartly).                *)
(***************************************************************************)
EXTENDS Integers, FiniteSets

CONSTANTS
  Classes,      \* the ticket classes administrators may create
  Quantities,   \* the quantities they may give to a class
  Admins,       \* POST event/:id/configure requests
  Buyers,       \* checkout requests, each for one ticket of one class
  Patches,      \* values of configStatus that PATCH event/:id sends
  MaxFaults     \* bound: requests that die between two of their steps

ASSUME QuantitiesAssumption == Quantities \subseteq Nat \ {0}
ASSUME PatchesAssumption == Patches \subseteq {"DRAFT", "PUBLISHED", "CANCELLED"}
ASSUME FaultsAssumption == MaxFaults \in Nat

VARIABLES
  configStatus,   \* column of the event, REMOVED without a row
  info,           \* the event has an info row with an organizer
  totalQuantity,  \* totalQuantity[c]: column of the class, 0 without a row
  removed,        \* the classes that had a row and have lost it
  eventKey,       \* the hash event:<id> exists in Redis
  saleStatus,     \* the key event:<id>/status holds "1"
  stocked,        \* the classes with a hash ticketClass:<id> in Redis
  available,      \* its field available
  hold,           \* its field hold
  configure,      \* configure[a]: where requestConfigure stands for a
  draft,          \* draft[a]: the event it read was a DRAFT
  plan,           \* plan[a]: the quantities of the classes it read
  buyer,          \* buyer[b]: where the checkout stands
  ready,          \* ready[b]: isReadyForSale as it read it
  wanted,         \* wanted[b]: the class of its cart
  view,           \* view[b]: the classes whose hash it found
  seen,           \* seen[b]: the availability it found of the wanted class
  faults

rows == <<configStatus, info, totalQuantity, removed>>
keys == <<eventKey, saleStatus, stocked, available, hold>>
admins == <<configure, draft, plan>>
buyers == <<buyer, ready, wanted, view, seen>>
vars == <<rows, keys, admins, buyers, faults>>

ConfigureRunning == {"classes", "info", "event", "stock", "open", "publish"}
ConfigureState == ConfigureRunning \cup {"idle", "done", "refused", "failed"}
BuyerState ==
  {"idle", "checking", "listing", "reading", "deciding", "held", "returned",
   "rejected"}

Init ==
  /\ configStatus = "DRAFT"
  /\ info = FALSE
  /\ totalQuantity = [c \in Classes |-> 0]
  /\ removed = {}
  /\ eventKey = FALSE
  /\ saleStatus = FALSE
  /\ stocked = {}
  /\ available = [c \in Classes |-> 0]
  /\ hold = [c \in Classes |-> 0]
  /\ configure = [a \in Admins |-> "idle"]
  /\ draft = [a \in Admins |-> FALSE]
  /\ plan = [a \in Admins |-> [c \in Classes |-> 0]]
  /\ buyer = [b \in Buyers |-> "idle"]
  /\ ready = [b \in Buyers |-> FALSE]
  /\ wanted \in [Buyers -> Classes]
  /\ view = [b \in Buyers |-> {}]
  /\ seen = [b \in Buyers |-> 0]
  /\ faults = 0

-----------------------------------------------------------------------------
(* EventService and TicketClassService: the rows, at any time *)

Exists == configStatus # "REMOVED"

Listed == {c \in Classes : totalQuantity[c] # 0}

(* createInfo connects an organizer; a second info row violates eventId. *)
CreateInfo ==
  /\ Exists /\ ~info
  /\ info' = TRUE
  /\ UNCHANGED <<configStatus, totalQuantity, removed, keys, admins, buyers,
                 faults>>

(* DELETE event-info/:id *)
DeleteInfo ==
  /\ info
  /\ info' = FALSE
  /\ UNCHANGED <<configStatus, totalQuantity, removed, keys, admins, buyers,
                 faults>>

(* createTicketClass, and PATCH ticket-class/:id: neither looks at the status
   of the event or at Redis. *)
WriteTicketClass(c) ==
  /\ Exists /\ c \notin removed
  /\ \E q \in Quantities : totalQuantity' = [totalQuantity EXCEPT ![c] = q]
  /\ UNCHANGED <<configStatus, info, removed, keys, admins, buyers, faults>>

(* DELETE ticket-class/:id, which leaves the hash; a new class has a new id. *)
RemoveTicketClass(c) ==
  /\ c \in Listed
  /\ totalQuantity' = [totalQuantity EXCEPT ![c] = 0]
  /\ removed' = removed \cup {c}
  /\ UNCHANGED <<configStatus, info, keys, admins, buyers, faults>>

(* PATCH event/:id writes the configStatus of its body. *)
PatchStatus ==
  /\ Exists
  /\ configStatus' \in Patches
  /\ UNCHANGED <<info, totalQuantity, removed, keys, admins, buyers, faults>>

(* DELETE event/:id takes the info and the classes along, and leaves the keys. *)
RemoveEvent ==
  /\ Exists
  /\ configStatus' = "REMOVED"
  /\ info' = FALSE
  /\ totalQuantity' = [c \in Classes |-> 0]
  /\ removed' = removed \cup Listed
  /\ UNCHANGED <<keys, admins, buyers, faults>>

-----------------------------------------------------------------------------
(* EventConfigService.requestConfigure *)

Continue(a, from, to) ==
  /\ configure[a] = from
  /\ configure' = [configure EXCEPT ![a] = to]

\* isEventExist
ReadEvent(a) ==
  /\ Continue(a, "idle", IF Exists THEN "classes" ELSE "refused")
  /\ draft' = [draft EXCEPT ![a] = configStatus = "DRAFT"]
  /\ UNCHANGED <<rows, keys, plan, buyers, faults>>

ListTicketClasses(a) ==
  /\ Continue(a, "classes", "info")
  /\ plan' = [plan EXCEPT ![a] = totalQuantity]
  /\ UNCHANGED <<rows, keys, draft, buyers, faults>>

\* The classes a configure request has read and is going to stock.
Planned(a) == {c \in Classes : plan[a][c] # 0}

\* Variant: an event that is published already is not refused.
ConfigurableIfComplete(a) == info /\ Planned(a) # {}

\* "has not been configured yet" and "has been published", in that order.
Configurable(a) == info /\ Planned(a) # {} /\ draft[a]

FindInfo(a) ==
  /\ Continue(a, "info", IF Configurable(a) THEN "event" ELSE "refused")
  /\ UNCHANGED <<rows, keys, draft, plan, buyers, faults>>

\* Variant: the status is written along with the event.
StoreEventAndStatus(a) ==
  /\ Continue(a, "event", "stock")
  /\ eventKey' = TRUE
  /\ saleStatus' = TRUE
  /\ UNCHANGED <<rows, stocked, available, hold, draft, plan, buyers, faults>>

StoreEvent(a) ==
  /\ Continue(a, "event", "stock")
  /\ eventKey' = TRUE
  /\ UNCHANGED <<rows, saleStatus, stocked, available, hold, draft, plan,
                 buyers, faults>>

\* HSET of a class writes its counters from the start, whatever they are.
Stock(a, S) ==
  /\ stocked' = stocked \cup S
  /\ available' = [c \in Classes |-> IF c \in S THEN plan[a][c] ELSE available[c]]
  /\ hold' = [c \in Classes |-> IF c \in S THEN 0 ELSE hold[c]]

\* Variant: the status key is forgotten.
StockAndPublish(a) ==
  /\ Continue(a, "stock", "publish")
  /\ Stock(a, Planned(a))
  /\ UNCHANGED <<rows, eventKey, saleStatus, draft, plan, buyers, faults>>

StockTicketClasses(a) ==
  /\ Continue(a, "stock", "open")
  /\ Stock(a, Planned(a))
  /\ UNCHANGED <<rows, eventKey, saleStatus, draft, plan, buyers, faults>>

OpenSale(a) ==
  /\ Continue(a, "open", "publish")
  /\ saleStatus' = TRUE
  /\ UNCHANGED <<rows, eventKey, stocked, available, hold, draft, plan, buyers,
                 faults>>

\* Variant: the status of the key, "1", goes to the column as well.
PublishOk(a) ==
  /\ Continue(a, "publish", "done")
  /\ configStatus' = "1"
  /\ UNCHANGED <<info, totalQuantity, removed, keys, draft, plan, buyers, faults>>

\* The update of an event that is gone throws.
Publish(a) ==
  /\ Continue(a, "publish", IF Exists THEN "done" ELSE "failed")
  /\ configStatus' = IF Exists THEN "PUBLISHED" ELSE configStatus
  /\ UNCHANGED <<info, totalQuantity, removed, keys, draft, plan, buyers, faults>>

-----------------------------------------------------------------------------
(* EventConfigService.getSaleData, for OrderService.createOrderOnRedis *)

Advance(b, from, to) ==
  /\ buyer[b] = from
  /\ buyer' = [buyer EXCEPT ![b] = to]

\* isEventExist, which throws when it does not.
FindEvent(b) ==
  /\ Advance(b, "idle", IF Exists THEN "checking" ELSE "rejected")
  /\ UNCHANGED <<rows, keys, admins, ready, wanted, view, seen, faults>>

\* Variant: an event that has its hash counts as ready.
ReadyIfStored(b) ==
  /\ Advance(b, "checking", "listing")
  /\ ready' = [ready EXCEPT ![b] = eventKey]
  /\ UNCHANGED <<rows, keys, admins, wanted, view, seen, faults>>

CheckIsReadyForSale(b) ==
  /\ Advance(b, "checking", "listing")
  /\ ready' = [ready EXCEPT ![b] = saleStatus]
  /\ UNCHANGED <<rows, keys, admins, wanted, view, seen, faults>>

\* Variant: the classes are taken from their hashes in Redis.
ListStocked(b) ==
  /\ Advance(b, "listing", "reading")
  /\ view' = [view EXCEPT ![b] = stocked]
  /\ UNCHANGED <<rows, keys, admins, ready, wanted, seen, faults>>

\* The rows it lists; the hash of each is read next.
ListForSale(b) ==
  /\ Advance(b, "listing", "reading")
  /\ view' = [view EXCEPT ![b] = Listed]
  /\ UNCHANGED <<rows, keys, admins, ready, wanted, seen, faults>>

\* HGETALL of a class without a hash answers with an empty object.
GetTicketClasses(b) ==
  /\ Advance(b, "reading", "deciding")
  /\ view' = [view EXCEPT ![b] = @ \cap stocked]
  /\ seen' = [seen EXCEPT ![b] = available[wanted[b]]]
  /\ UNCHANGED <<rows, keys, admins, ready, wanted, faults>>

\* createOrderOnRedis and reserveTickets refuse an event that is not ready, a
\* class they did not find, and a class with too few tickets.
Accepted(b) == ready[b] /\ wanted[b] \in view[b] /\ seen[b] >= 1

ReserveTickets(b) ==
  /\ Advance(b, "deciding", IF Accepted(b) THEN "held" ELSE "rejected")
  /\ IF Accepted(b)
       THEN /\ available' = [available EXCEPT ![wanted[b]] = @ - 1]
            /\ hold' = [hold EXCEPT ![wanted[b]] = @ + 1]
       ELSE UNCHANGED <<available, hold>>
  /\ UNCHANGED <<rows, eventKey, saleStatus, stocked, admins, ready, wanted,
                 view, seen, faults>>

ReleaseTickets(b) ==
  /\ Advance(b, "held", "returned")
  /\ available' = [available EXCEPT ![wanted[b]] = @ + 1]
  /\ hold' = [hold EXCEPT ![wanted[b]] = @ - 1]
  /\ UNCHANGED <<rows, eventKey, saleStatus, stocked, admins, ready, wanted,
                 view, seen, faults>>

-----------------------------------------------------------------------------
(* A request dies between two of its steps: its process, or a call of it. *)
ConfigureFails(a) ==
  /\ faults < MaxFaults
  /\ faults' = faults + 1
  /\ configure[a] \in ConfigureRunning
  /\ configure' = [configure EXCEPT ![a] = "failed"]
  /\ UNCHANGED <<rows, keys, draft, plan, buyers>>

(* ... or among the HSETs of the ticket classes. *)
StockPartly(a) ==
  /\ faults < MaxFaults
  /\ faults' = faults + 1
  /\ Continue(a, "stock", "failed")
  /\ \E S \in SUBSET Planned(a) : Stock(a, S)
  /\ UNCHANGED <<rows, eventKey, saleStatus, draft, plan, buyers>>

ConfigureStep(a) ==
  \/ ReadEvent(a) \/ ListTicketClasses(a) \/ FindInfo(a)
  \/ StoreEvent(a) \/ StockTicketClasses(a) \/ OpenSale(a) \/ Publish(a)

BuyerStep(b) ==
  \/ FindEvent(b) \/ CheckIsReadyForSale(b) \/ ListForSale(b)
  \/ GetTicketClasses(b) \/ ReserveTickets(b) \/ ReleaseTickets(b)

Next ==
  \/ CreateInfo \/ DeleteInfo
  \/ \E c \in Classes : WriteTicketClass(c) \/ RemoveTicketClass(c)
  \/ PatchStatus \/ RemoveEvent
  \/ \E a \in Admins : ConfigureStep(a) \/ ConfigureFails(a) \/ StockPartly(a)
  \/ \E b \in Buyers : BuyerStep(b)

Spec == Init /\ [][Next]_vars

-----------------------------------------------------------------------------
(* Properties *)

\* Every variable stays in its domain; the counters of Redis may go negative.
TypeOK ==
  /\ configStatus \in {"DRAFT", "PUBLISHED", "CANCELLED", "REMOVED"}
  /\ info \in BOOLEAN /\ eventKey \in BOOLEAN /\ saleStatus \in BOOLEAN
  /\ totalQuantity \in [Classes -> Quantities \cup {0}]
  /\ removed \subseteq Classes \ Listed
  /\ stocked \subseteq Classes
  /\ available \in [Classes -> Int] /\ hold \in [Classes -> Int]
  /\ configure \in [Admins -> ConfigureState]
  /\ draft \in [Admins -> BOOLEAN]
  /\ plan \in [Admins -> [Classes -> Quantities \cup {0}]]
  /\ buyer \in [Buyers -> BuyerState]
  /\ ready \in [Buyers -> BOOLEAN]
  /\ wanted \in [Buyers -> Classes]
  /\ view \in [Buyers -> SUBSET Classes]
  /\ seen \in [Buyers -> Int]
  /\ faults \in 0 .. MaxFaults

\* The classes of some configure request that got as far as stocking them
\* all: an event on sale is at least one whole listing of its classes.
WholeListing(S) == \E a \in Admins : Planned(a) # {} /\ Planned(a) \subseteq S

\* The event goes on sale complete: event, stock and status are three writes,
\* and whoever of several administrators writes the status, a whole listing is
\* in Redis by then, after partial writes and repeated requests.
SaleOpensComplete == saleStatus => eventKey /\ WholeListing(stocked)

\* getSaleData reads the status first and the hashes last, so a buyer who found
\* the event ready for sale finds a whole listing of its classes as well, but
\* for those that have been removed.
BuyersFindTheSale ==
  \A b \in Buyers :
    buyer[b] = "deciding" /\ ready[b] => WholeListing(view[b] \cup removed)

\* A class that is removed keeps its hash, its stock and the status of the sale,
\* and leaves the sale all the same: nobody who had not seen it before does.
RemovedGoesOffSale ==
  [][\A b \in Buyers : view'[b] \cap removed \subseteq view[b]]_vars

\* An event is PUBLISHED in Postgres only when it is on sale in Redis, as long
\* as nobody writes the status by hand.
PublishedIsOnSale ==
  "PUBLISHED" \notin Patches /\ configStatus = "PUBLISHED" => saleStatus

\* The hold of a class is what buyers hold of it: configuring an event does
\* not wipe out reservations that are under way.
ReservationsSurvive ==
  \A c \in Classes :
    hold[c] = Cardinality({b \in Buyers : buyer[b] = "held" /\ wanted[b] = c})

\* It holds for certain only while no two requests have read the same DRAFT:
\* neither two administrators at once, nor a second try after a request that
\* died before it published the event.
OneConfigurationSurvives ==
  Cardinality({a \in Admins : draft[a]}) <= 1 => ReservationsSurvive
=============================================================================
