-------------------------- MODULE EventSaleProofs --------------------------
(***************************************************************************)
(* Proofs about EventSale for any classes, administrators, buyers and      *)
(* number of requests that die.  SaleInvariant is inductive: a configure   *)
(* request carries what it has written so far in its stage, its listing    *)
(* is a set of rows, hashes are never taken away and rows only to be       *)
(* counted as removed, so what a buyer has found stays found.              *)
(* SurvivalInvariant is inductive beside it: whoever has opened the sale   *)
(* has read a DRAFT and is past the classes, so a single reader of the     *)
(* DRAFT never writes counters that a reservation has moved.               *)
(***************************************************************************)
EXTENDS EventSale, FiniteSetTheorems, TLAPS

\* What the stage of a configure request says of its plan and of Redis.
StageTellsKeys ==
  \A a \in Admins :
    /\ configure[a] \in {"idle", "classes"} => Planned(a) = {}
    /\ configure[a] \in {"event", "stock", "open", "publish", "done"}
         => Planned(a) # {}
    /\ configure[a] \in {"stock", "open", "publish", "done"} => eventKey
    /\ configure[a] \in {"open", "publish", "done"}
         => Planned(a) \subseteq stocked
    /\ configure[a] \in {"publish", "done"} => saleStatus

\* A class that was listed has a row, unless it was removed.
PlansAreRows == \A a \in Admins : Planned(a) \subseteq Listed \cup removed

\* What a buyer found ready keeps what it needs while the buyer reads on.
BuyersKeepTheSale ==
  \A b \in Buyers : ready[b] =>
    /\ buyer[b] = "listing" => saleStatus
    /\ buyer[b] = "reading" => WholeListing((view[b] \cap stocked) \cup removed)
    /\ buyer[b] = "deciding" => WholeListing(view[b] \cup removed)

SaleInvariant ==
  /\ TypeOK
  /\ StageTellsKeys
  /\ PlansAreRows
  /\ SaleOpensComplete
  /\ BuyersKeepTheSale
  /\ PublishedIsOnSale

-----------------------------------------------------------------------------
(* Lemmas *)

\* More classes hold no fewer listings.
LEMMA ListingGrows ==
  ASSUME NEW S, NEW T, S \subseteq T, WholeListing(S)
  PROVE  WholeListing(T)
BY DEF WholeListing

\* The inductive invariant holds when the service starts.
LEMMA InitSale == Init => SaleInvariant
<1> SUFFICES ASSUME Init PROVE SaleInvariant
    OBVIOUS
<1>1. TypeOK
  <2>1. /\ totalQuantity \in [Classes -> Quantities \cup {0}]
        /\ plan \in [Admins -> [Classes -> Quantities \cup {0}]]
    BY DEF Init
  <2>8. removed \subseteq Classes \ Listed
    BY DEF Init
  <2>2. stocked \subseteq Classes /\ view \in [Buyers -> SUBSET Classes]
    BY DEF Init
  <2>3. faults \in 0 .. MaxFaults
    BY FaultsAssumption DEF Init
  <2>4. available \in [Classes -> Int] /\ hold \in [Classes -> Int]
    BY DEF Init
  <2>5. seen \in [Buyers -> Int] /\ wanted \in [Buyers -> Classes]
    BY DEF Init
  <2>6. /\ configure \in [Admins -> ConfigureState]
        /\ draft \in [Admins -> BOOLEAN]
        /\ buyer \in [Buyers -> BuyerState]
        /\ ready \in [Buyers -> BOOLEAN]
    BY DEF Init, ConfigureState, BuyerState
  <2>7. /\ configStatus \in {"DRAFT", "PUBLISHED", "CANCELLED", "REMOVED"}
        /\ info \in BOOLEAN /\ eventKey \in BOOLEAN /\ saleStatus \in BOOLEAN
    BY DEF Init
  <2> QED  BY <2>1, <2>2, <2>3, <2>4, <2>5, <2>6, <2>7, <2>8 DEF TypeOK
<1>2. StageTellsKeys /\ PlansAreRows
  BY DEF Init, StageTellsKeys, PlansAreRows, Planned
<1>3. SaleOpensComplete /\ BuyersKeepTheSale /\ PublishedIsOnSale
  BY DEF Init, SaleOpensComplete, BuyersKeepTheSale, PublishedIsOnSale
<1> QED  BY <1>1, <1>2, <1>3 DEF SaleInvariant

\* Every step keeps every variable in its domain.
LEMMA TypeStep == TypeOK /\ [Next]_vars => TypeOK'
<1> SUFFICES ASSUME TypeOK, [Next]_vars PROVE TypeOK'
    OBVIOUS
<1> USE DEF rows, keys, admins, buyers
<1>1. CASE CreateInfo \/ DeleteInfo
  BY <1>1 DEF TypeOK, CreateInfo, DeleteInfo, Listed
<1>2. ASSUME NEW c \in Classes, WriteTicketClass(c) \/ RemoveTicketClass(c)
      PROVE  TypeOK'
  <2>1. CASE WriteTicketClass(c)
    <3>1. PICK q \in Quantities : totalQuantity' = [totalQuantity EXCEPT ![c] = q]
      BY <2>1 DEF WriteTicketClass
    <3>2. c \notin removed /\ removed' = removed
      BY <2>1 DEF WriteTicketClass
    <3>3. removed' \subseteq Classes \ Listed'
      BY <3>1, <3>2 DEF TypeOK, Listed
    <3> QED  BY <2>1, <3>1, <3>3 DEF TypeOK, WriteTicketClass
  <2>2. CASE RemoveTicketClass(c)
    <3>1. removed' \subseteq Classes \ Listed'
      BY <2>2 DEF TypeOK, Listed, RemoveTicketClass
    <3> QED  BY <2>2, <3>1 DEF TypeOK, RemoveTicketClass
  <2> QED  BY <1>2, <2>1, <2>2
<1>3. CASE PatchStatus \/ RemoveEvent
  <2>1. CASE PatchStatus
    BY <2>1, PatchesAssumption DEF TypeOK, PatchStatus, Listed
  <2>2. CASE RemoveEvent
    <3>1. removed' \subseteq Classes \ Listed'
      BY <2>2 DEF TypeOK, Listed, RemoveEvent
    <3> QED  BY <2>2, <3>1 DEF TypeOK, RemoveEvent
  <2> QED  BY <1>3, <2>1, <2>2
<1>4. ASSUME NEW a \in Admins, ReadEvent(a) PROVE TypeOK'
  BY <1>4 DEF TypeOK, Listed, ReadEvent, Continue, ConfigureState,
              ConfigureRunning
<1>5. ASSUME NEW a \in Admins, ListTicketClasses(a) PROVE TypeOK'
  BY <1>5 DEF TypeOK, Listed, ListTicketClasses, Continue, ConfigureState,
              ConfigureRunning
<1>6. ASSUME NEW a \in Admins, FindInfo(a) PROVE TypeOK'
  BY <1>6 DEF TypeOK, Listed, FindInfo, Continue, ConfigureState,
              ConfigureRunning
<1>7. ASSUME NEW a \in Admins, StoreEvent(a) PROVE TypeOK'
  BY <1>7 DEF TypeOK, Listed, StoreEvent, Continue, ConfigureState,
              ConfigureRunning
<1>8. ASSUME NEW a \in Admins, NEW S \in SUBSET Planned(a), Stock(a, S)
      PROVE  /\ stocked' \subseteq Classes
             /\ available' \in [Classes -> Int]
             /\ hold' \in [Classes -> Int]
  <2>1. \A c \in Classes : plan[a][c] \in Int
    <3>1. plan[a] \in [Classes -> Quantities \cup {0}]
      BY <1>8 DEF TypeOK
    <3>2. \A q \in Quantities \cup {0} : q \in Int
      BY QuantitiesAssumption
    <3> QED  BY <3>1, <3>2
  <2>2. stocked' \subseteq Classes
    BY <1>8 DEF TypeOK, Stock, Planned
  <2>3. available' \in [Classes -> Int]
    <3>1. available' = [c \in Classes |->
                          IF c \in S THEN plan[a][c] ELSE available[c]]
      BY <1>8 DEF Stock
    <3>2. \A c \in Classes : available[c] \in Int
      BY DEF TypeOK
    <3> QED  BY <2>1, <3>1, <3>2
  <2>4. hold' \in [Classes -> Int]
    BY <1>8 DEF TypeOK, Stock
  <2> QED  BY <2>2, <2>3, <2>4
<1>9. ASSUME NEW a \in Admins, StockTicketClasses(a) PROVE TypeOK'
  BY <1>8, <1>9 DEF TypeOK, Listed, StockTicketClasses, Continue, ConfigureState,
                    ConfigureRunning
<1>10. ASSUME NEW a \in Admins, OpenSale(a) PROVE TypeOK'
  BY <1>10 DEF TypeOK, Listed, OpenSale, Continue, ConfigureState,
              ConfigureRunning
<1>11. ASSUME NEW a \in Admins, Publish(a) PROVE TypeOK'
  BY <1>11 DEF TypeOK, Listed, Publish, Continue, ConfigureState,
              ConfigureRunning
<1>12. ASSUME NEW a \in Admins, ConfigureFails(a) PROVE TypeOK'
  BY <1>12, FaultsAssumption DEF TypeOK, Listed, ConfigureFails, ConfigureState
<1>13. ASSUME NEW a \in Admins, StockPartly(a) PROVE TypeOK'
  <2>1. PICK S \in SUBSET Planned(a) : Stock(a, S)
    BY <1>13 DEF StockPartly
  <2>2. /\ stocked' \subseteq Classes
        /\ available' \in [Classes -> Int]
        /\ hold' \in [Classes -> Int]
    BY <1>8, <2>1
  <2> QED  BY <1>13, <2>2, FaultsAssumption
           DEF TypeOK, Listed, StockPartly, Continue, ConfigureState
<1>14. ASSUME NEW b \in Buyers, FindEvent(b) \/ CheckIsReadyForSale(b)
       PROVE  TypeOK'
  BY <1>14 DEF TypeOK, Listed, FindEvent, CheckIsReadyForSale, Advance,
               BuyerState
<1>15. ASSUME NEW b \in Buyers, ListForSale(b) PROVE TypeOK'
  BY <1>15 DEF TypeOK, Listed, ListForSale, Advance, BuyerState
<1>16. ASSUME NEW b \in Buyers, GetTicketClasses(b) PROVE TypeOK'
  BY <1>16 DEF TypeOK, Listed, GetTicketClasses, Advance, BuyerState
<1>17. ASSUME NEW b \in Buyers, ReserveTickets(b) PROVE TypeOK'
  BY <1>17 DEF TypeOK, Listed, ReserveTickets, Advance, BuyerState
<1>18. ASSUME NEW b \in Buyers, ReleaseTickets(b) PROVE TypeOK'
  BY <1>18 DEF TypeOK, Listed, ReleaseTickets, Advance, BuyerState
<1>19. CASE UNCHANGED vars
  BY <1>19 DEF TypeOK, Listed, vars
<1> QED
  BY <1>1, <1>2, <1>3, <1>4, <1>5, <1>6, <1>7, <1>9, <1>10, <1>11, <1>12,
     <1>13, <1>14, <1>15, <1>16, <1>17, <1>18, <1>19
  DEF Next, ConfigureStep, BuyerStep

-----------------------------------------------------------------------------
(* The steps of the invariant, one lemma per kind of step *)

\* Steps that write no key and no plan, and move no stage.
Idle == UNCHANGED <<configStatus, totalQuantity, removed, keys, admins, buyers>>

LEMMA IdleStep == SaleInvariant /\ TypeOK' /\ Idle => SaleInvariant'
BY DEF SaleInvariant, Idle, keys, admins, buyers, StageTellsKeys, PlansAreRows,
       SaleOpensComplete, BuyersKeepTheSale, PublishedIsOnSale, WholeListing,
       Planned, Listed

\* Rows are added, their quantities changed, never to zero, and taken away to
\* be counted as removed.
LEMMA RowStep ==
  ASSUME SaleInvariant, TypeOK',
         \/ \E c \in Classes : WriteTicketClass(c) \/ RemoveTicketClass(c)
         \/ RemoveEvent
  PROVE  SaleInvariant'
<1> USE DEF keys, admins, buyers
<1>1. /\ UNCHANGED <<keys, admins, buyers>>
      /\ configStatus' \in {configStatus, "REMOVED"}
      /\ removed \subseteq removed'
  BY DEF WriteTicketClass, RemoveTicketClass, RemoveEvent
<1>2. Listed \cup removed \subseteq Listed' \cup removed'
  <2>1. ASSUME NEW c \in Classes, WriteTicketClass(c)
        PROVE  Listed \cup removed \subseteq Listed' \cup removed'
    BY <2>1, QuantitiesAssumption
       DEF SaleInvariant, TypeOK, WriteTicketClass, Listed
  <2>2. ASSUME NEW c \in Classes, RemoveTicketClass(c)
        PROVE  Listed \cup removed \subseteq Listed' \cup removed'
    BY <2>2 DEF SaleInvariant, TypeOK, RemoveTicketClass, Listed
  <2>3. CASE RemoveEvent
    BY <2>3 DEF RemoveEvent
  <2> QED  BY <2>1, <2>2, <2>3
<1>3. \A x \in Admins : Planned(x)' = Planned(x)
  BY <1>1 DEF Planned
<1>4. PlansAreRows'
  BY <1>2, <1>3 DEF SaleInvariant, PlansAreRows
<1>5. StageTellsKeys' /\ SaleOpensComplete' /\ PublishedIsOnSale'
  BY <1>1, <1>3 DEF SaleInvariant, StageTellsKeys, SaleOpensComplete,
                    PublishedIsOnSale, WholeListing
<1>6. BuyersKeepTheSale'
  <2>1. ASSUME NEW S, WholeListing(S \cup removed)
        PROVE  WholeListing(S \cup removed)'
    BY <1>1, <1>3, <2>1 DEF WholeListing
  <2> QED  BY <1>1, <1>3 DEF SaleInvariant, BuyersKeepTheSale, WholeListing
<1> QED  BY <1>4, <1>5, <1>6 DEF SaleInvariant

LEMMA PatchStep == SaleInvariant /\ TypeOK' /\ PatchStatus => SaleInvariant'
BY DEF SaleInvariant, PatchStatus, keys, admins, buyers, StageTellsKeys,
       PlansAreRows, SaleOpensComplete, BuyersKeepTheSale, PublishedIsOnSale,
       WholeListing, Planned, Listed

\* A listing replaces an empty plan, so every listing known before stays.
LEMMA ListStep ==
  ASSUME SaleInvariant, TypeOK', NEW a \in Admins, ListTicketClasses(a)
  PROVE  SaleInvariant'
<1> USE DEF rows, keys, buyers
<1>1. Planned(a) = {}
  BY DEF SaleInvariant, StageTellsKeys, ListTicketClasses, Continue
<1>2. \A x \in Admins \ {a} : plan'[x] = plan[x] /\ configure'[x] = configure[x]
  BY DEF SaleInvariant, TypeOK, ListTicketClasses, Continue
<1>3. plan'[a] = totalQuantity /\ configure'[a] = "info"
  BY DEF SaleInvariant, TypeOK, ListTicketClasses, Continue
<1>4. ASSUME NEW S, WholeListing(S) PROVE WholeListing(S)'
  <2>1. PICK x \in Admins : Planned(x) # {} /\ Planned(x) \subseteq S
    BY <1>4 DEF WholeListing
  <2>2. Planned(x)' = Planned(x)
    BY <1>1, <1>2, <2>1 DEF Planned
  <2> QED  BY <2>1, <2>2 DEF WholeListing
<1>5. StageTellsKeys'
  BY <1>2, <1>3 DEF SaleInvariant, StageTellsKeys, Planned, ListTicketClasses
<1>6. PlansAreRows'
  BY <1>2, <1>3 DEF SaleInvariant, PlansAreRows, Planned, Listed,
                    ListTicketClasses
<1>7. UNCHANGED <<configStatus, removed, eventKey, saleStatus, stocked, buyer,
                  ready, view>>
  BY DEF ListTicketClasses
<1>8. SaleOpensComplete' /\ PublishedIsOnSale'
  <2>1. saleStatus => eventKey /\ WholeListing(stocked)
    BY DEF SaleInvariant, SaleOpensComplete
  <2>2. WholeListing(stocked) => WholeListing(stocked)'
    BY <1>4, <1>7 DEF WholeListing
  <2> QED  BY <1>7, <2>1, <2>2
           DEF SaleInvariant, SaleOpensComplete, PublishedIsOnSale
<1>9. BuyersKeepTheSale'
  <2> SUFFICES ASSUME NEW b \in Buyers, ready[b]
               PROVE  /\ buyer[b] = "listing" => saleStatus
                      /\ buyer[b] = "reading" =>
                           WholeListing((view[b] \cap stocked) \cup removed)'
                      /\ buyer[b] = "deciding" =>
                           WholeListing(view[b] \cup removed)'
    BY <1>7 DEF BuyersKeepTheSale
  <2>1. /\ buyer[b] = "listing" => saleStatus
        /\ buyer[b] = "reading" =>
             WholeListing((view[b] \cap stocked) \cup removed)
        /\ buyer[b] = "deciding" => WholeListing(view[b] \cup removed)
    BY DEF SaleInvariant, BuyersKeepTheSale
  <2>2. WholeListing((view[b] \cap stocked) \cup removed) =>
          WholeListing((view[b] \cap stocked) \cup removed)'
    BY <1>4, <1>7 DEF WholeListing
  <2>3. WholeListing(view[b] \cup removed) =>
          WholeListing(view[b] \cup removed)'
    BY <1>4, <1>7 DEF WholeListing
  <2> QED  BY <2>1, <2>2, <2>3
<1> QED  BY <1>5, <1>6, <1>8, <1>9 DEF SaleInvariant

\* The steps of a configure request up to its first write: the plan stays.
LEMMA ReadStep ==
  ASSUME SaleInvariant, TypeOK', NEW a \in Admins, ReadEvent(a) \/ FindInfo(a)
  PROVE  SaleInvariant'
<1> USE DEF rows, keys, buyers
<1>1. UNCHANGED <<rows, keys, plan, buyers>>
  BY DEF ReadEvent, FindInfo
<1>2. \A x \in Admins : Planned(x)' = Planned(x)
  BY <1>1 DEF Planned
<1>3. StageTellsKeys'
  <2>1. \A x \in Admins \ {a} : configure'[x] = configure[x]
    BY DEF SaleInvariant, TypeOK, ReadEvent, FindInfo, Continue
  <2>2. CASE ReadEvent(a)
    <3>1. configure[a] = "idle" /\ configure'[a] \in {"classes", "refused"}
      BY <2>2 DEF SaleInvariant, TypeOK, ReadEvent, Continue
    <3> QED  BY <1>1, <1>2, <2>1, <3>1 DEF SaleInvariant, StageTellsKeys
  <2>3. CASE FindInfo(a)
    <3>1. configure'[a] = IF Configurable(a) THEN "event" ELSE "refused"
      BY <2>3 DEF SaleInvariant, TypeOK, FindInfo, Continue
    <3>2. Configurable(a) => Planned(a) # {}
      BY DEF Configurable
    <3> QED  BY <1>1, <1>2, <2>1, <3>1, <3>2 DEF SaleInvariant, StageTellsKeys
  <2> QED  BY <2>2, <2>3
<1>4. PlansAreRows'
  BY <1>1, <1>2 DEF SaleInvariant, PlansAreRows, Listed
<1>5. SaleOpensComplete' /\ BuyersKeepTheSale' /\ PublishedIsOnSale'
  BY <1>1, <1>2 DEF SaleInvariant, SaleOpensComplete, BuyersKeepTheSale,
                    PublishedIsOnSale, WholeListing
<1> QED  BY <1>3, <1>4, <1>5 DEF SaleInvariant

\* The writes of a configure request, complete or cut short: keys are only
\* added, and a request moves on when its own writes are there.
LEMMA WriteStep ==
  ASSUME SaleInvariant, TypeOK', NEW a \in Admins,
         UNCHANGED <<totalQuantity, removed, plan, buyers>>,
         eventKey => eventKey', saleStatus => saleStatus',
         stocked \subseteq stocked',
         \A x \in Admins \ {a} : configure'[x] = configure[x],
         StageTellsKeys', SaleOpensComplete', PublishedIsOnSale'
  PROVE  SaleInvariant'
<1> USE DEF buyers
<1>1. \A x \in Admins : Planned(x)' = Planned(x)
  BY DEF Planned
<1>2. PlansAreRows'
  BY <1>1 DEF SaleInvariant, PlansAreRows, Listed
<1>3. BuyersKeepTheSale'
  <2> SUFFICES ASSUME NEW b \in Buyers, ready[b]
               PROVE  /\ buyer[b] = "listing" => saleStatus'
                      /\ buyer[b] = "reading" =>
                           WholeListing((view[b] \cap stocked) \cup removed)'
                      /\ buyer[b] = "deciding" =>
                           WholeListing(view[b] \cup removed)'
    BY DEF BuyersKeepTheSale
  <2>1. /\ buyer[b] = "listing" => saleStatus
        /\ buyer[b] = "reading" =>
             WholeListing((view[b] \cap stocked) \cup removed)
        /\ buyer[b] = "deciding" => WholeListing(view[b] \cup removed)
    BY DEF SaleInvariant, BuyersKeepTheSale
  <2> QED  BY <1>1, <2>1 DEF WholeListing
<1> QED  BY <1>2, <1>3 DEF SaleInvariant

LEMMA ConfigureWrites ==
  ASSUME SaleInvariant, TypeOK', NEW a \in Admins,
         \/ StoreEvent(a) \/ StockTicketClasses(a) \/ OpenSale(a) \/ Publish(a)
         \/ ConfigureFails(a) \/ StockPartly(a)
  PROVE  SaleInvariant'
<1> USE DEF rows, keys, buyers
<1>1. UNCHANGED <<totalQuantity, removed, plan, buyers>>
  BY DEF StoreEvent, StockTicketClasses, OpenSale, Publish, ConfigureFails,
         StockPartly
<1>2. /\ \A x \in Admins \ {a} : configure'[x] = configure[x]
      /\ configure' = [configure EXCEPT ![a] = configure'[a]]
  BY DEF SaleInvariant, TypeOK, StoreEvent, StockTicketClasses, OpenSale,
         Publish, ConfigureFails, StockPartly, Continue
<1>3. \A x \in Admins : Planned(x)' = Planned(x)
  BY <1>1 DEF Planned
<1>4. ASSUME NEW S, WholeListing(S), NEW T, S \subseteq T PROVE WholeListing(T)'
  BY <1>3, <1>4 DEF WholeListing
<1> USE DEF SaleInvariant, SaleOpensComplete, PublishedIsOnSale
<1>5. CASE StoreEvent(a)
  <2>1. configure[a] = "event" /\ configure'[a] = "stock" /\ eventKey'
    BY <1>5 DEF TypeOK, StoreEvent, Continue
  <2>2. UNCHANGED <<configStatus, saleStatus, stocked>>
    BY <1>5 DEF StoreEvent
  <2>3. StageTellsKeys'
    BY <1>2, <1>3, <2>1, <2>2 DEF StageTellsKeys
  <2>4. SaleOpensComplete' /\ PublishedIsOnSale'
    BY <1>4, <2>1, <2>2
  <2> QED  BY <1>1, <1>2, <2>1, <2>2, <2>3, <2>4, WriteStep
<1>6. CASE StockTicketClasses(a)
  <2>1. configure[a] = "stock" /\ configure'[a] = "open"
    BY <1>6 DEF TypeOK, StockTicketClasses, Continue
  <2>2. UNCHANGED <<configStatus, eventKey, saleStatus>>
    BY <1>6 DEF StockTicketClasses
  <2>3. stocked' = stocked \cup Planned(a)
    BY <1>6 DEF StockTicketClasses, Stock
  <2>4. StageTellsKeys'
    BY <1>2, <1>3, <2>1, <2>2, <2>3 DEF StageTellsKeys
  <2>5. SaleOpensComplete' /\ PublishedIsOnSale'
    BY <1>4, <2>2, <2>3
  <2> QED  BY <1>1, <1>2, <2>2, <2>3, <2>4, <2>5, WriteStep
<1>7. CASE OpenSale(a)
  <2>1. configure[a] = "open" /\ configure'[a] = "publish" /\ saleStatus'
    BY <1>7 DEF TypeOK, OpenSale, Continue
  <2>2. UNCHANGED <<configStatus, eventKey, stocked>>
    BY <1>7 DEF OpenSale
  <2>3. eventKey /\ Planned(a) # {} /\ Planned(a) \subseteq stocked
    BY <2>1 DEF StageTellsKeys
  <2>4. StageTellsKeys'
    BY <1>2, <1>3, <2>1, <2>2 DEF StageTellsKeys
  <2>5. SaleOpensComplete' /\ PublishedIsOnSale'
    BY <1>3, <2>1, <2>2, <2>3 DEF WholeListing
  <2> QED  BY <1>1, <1>2, <2>1, <2>2, <2>4, <2>5, WriteStep
<1>8. CASE Publish(a)
  <2>1. configure[a] = "publish" /\ configure'[a] \in {"done", "failed"}
    BY <1>8 DEF TypeOK, Publish, Continue
  <2>2. UNCHANGED <<eventKey, saleStatus, stocked>>
    BY <1>8 DEF Publish
  <2>3. saleStatus
    BY <2>1 DEF StageTellsKeys
  <2>4. StageTellsKeys'
    BY <1>2, <1>3, <2>1, <2>2 DEF StageTellsKeys
  <2>5. SaleOpensComplete' /\ PublishedIsOnSale'
    BY <1>4, <2>2, <2>3
  <2> QED  BY <1>1, <1>2, <2>2, <2>4, <2>5, WriteStep
<1>9. CASE ConfigureFails(a)
  <2>1. configure'[a] = "failed"
    BY <1>9 DEF TypeOK, ConfigureFails
  <2>2. UNCHANGED <<configStatus, eventKey, saleStatus, stocked>>
    BY <1>9 DEF ConfigureFails
  <2>3. StageTellsKeys'
    BY <1>2, <1>3, <2>1, <2>2 DEF StageTellsKeys
  <2>4. SaleOpensComplete' /\ PublishedIsOnSale'
    BY <1>4, <2>2
  <2> QED  BY <1>1, <1>2, <2>2, <2>3, <2>4, WriteStep
<1>10. CASE StockPartly(a)
  <2>1. configure'[a] = "failed"
    BY <1>10 DEF TypeOK, StockPartly, Continue
  <2>2. UNCHANGED <<configStatus, eventKey, saleStatus>>
    BY <1>10 DEF StockPartly
  <2>3. stocked \subseteq stocked'
    BY <1>10 DEF StockPartly, Stock
  <2>4. StageTellsKeys'
    BY <1>2, <1>3, <2>1, <2>2, <2>3 DEF StageTellsKeys
  <2>5. SaleOpensComplete' /\ PublishedIsOnSale'
    BY <1>4, <2>2, <2>3
  <2> QED  BY <1>1, <1>2, <2>2, <2>3, <2>4, <2>5, WriteStep
<1> QED  BY <1>5, <1>6, <1>7, <1>8, <1>9, <1>10

\* A buyer's step touches the buyer alone and the counters.
LEMMA BuyerReads ==
  ASSUME SaleInvariant, TypeOK', NEW b \in Buyers, BuyerStep(b)
  PROVE  SaleInvariant'
<1> USE DEF rows, keys, admins
<1>1. UNCHANGED <<rows, eventKey, saleStatus, stocked, admins>>
  BY DEF BuyerStep, FindEvent, CheckIsReadyForSale, ListForSale, GetTicketClasses,
         ReserveTickets, ReleaseTickets
<1>2. \A x \in Admins : Planned(x)' = Planned(x)
  BY <1>1 DEF Planned
<1>3. ASSUME NEW S PROVE WholeListing(S) => WholeListing(S)'
  BY <1>2 DEF WholeListing
<1>4. /\ StageTellsKeys' /\ PlansAreRows' /\ SaleOpensComplete'
      /\ PublishedIsOnSale'
  BY <1>1, <1>2 DEF SaleInvariant, StageTellsKeys, PlansAreRows, Listed,
                    SaleOpensComplete, PublishedIsOnSale, WholeListing
<1>5. \A x \in Buyers \ {b} :
        ready'[x] = ready[x] /\ buyer'[x] = buyer[x] /\ view'[x] = view[x]
  BY DEF SaleInvariant, TypeOK, BuyerStep, FindEvent, CheckIsReadyForSale,
         ListForSale, GetTicketClasses, ReserveTickets, ReleaseTickets, Advance
<1>6. ASSUME ready'[b]
      PROVE  /\ buyer'[b] = "listing" => saleStatus'
             /\ buyer'[b] = "reading" =>
                  WholeListing((view'[b] \cap stocked') \cup removed')
             /\ buyer'[b] = "deciding" => WholeListing(view'[b] \cup removed')
  <2>1. CASE CheckIsReadyForSale(b)
    BY <1>1, <1>6, <2>1 DEF SaleInvariant, TypeOK, CheckIsReadyForSale, Advance
  <2>2. CASE ListForSale(b)
    <3>1. buyer[b] = "listing" /\ ready[b] /\ buyer'[b] = "reading"
      BY <1>6, <2>2 DEF SaleInvariant, TypeOK, ListForSale, Advance
    <3>2. WholeListing(stocked)
      BY <3>1 DEF SaleInvariant, BuyersKeepTheSale, SaleOpensComplete
    <3>3. view'[b] = Listed
      BY <2>2 DEF SaleInvariant, TypeOK, ListForSale
    <3>4. WholeListing((view'[b] \cap stocked') \cup removed')
      BY <1>1, <1>2, <3>2, <3>3 DEF SaleInvariant, PlansAreRows, WholeListing
    <3> QED  BY <3>1, <3>4
  <2>3. CASE GetTicketClasses(b)
    <3>1. buyer[b] = "reading" /\ ready[b] /\ buyer'[b] = "deciding"
      BY <1>6, <2>3 DEF SaleInvariant, TypeOK, GetTicketClasses, Advance
    <3>2. WholeListing((view[b] \cap stocked) \cup removed)
      BY <3>1 DEF SaleInvariant, BuyersKeepTheSale
    <3>3. view'[b] = view[b] \cap stocked
      BY <2>3 DEF SaleInvariant, TypeOK, GetTicketClasses
    <3> QED  BY <1>1, <1>2, <3>1, <3>2, <3>3 DEF WholeListing
  <2>4. CASE ReserveTickets(b)
    <3>1. buyer'[b] \in {"held", "rejected"}
      BY <2>4 DEF SaleInvariant, TypeOK, ReserveTickets, Advance
    <3> QED  BY <3>1
  <2>5. CASE ReleaseTickets(b)
    <3>1. buyer'[b] = "returned"
      BY <2>5 DEF SaleInvariant, TypeOK, ReleaseTickets, Advance
    <3> QED  BY <3>1
  <2>6. CASE FindEvent(b)
    <3>1. buyer'[b] \in {"checking", "rejected"}
      BY <2>6 DEF SaleInvariant, TypeOK, FindEvent, Advance
    <3> QED  BY <3>1
  <2> QED  BY <2>1, <2>2, <2>3, <2>4, <2>5, <2>6 DEF BuyerStep
<1>7. BuyersKeepTheSale'
  BY <1>1, <1>2, <1>5, <1>6 DEF SaleInvariant, BuyersKeepTheSale, WholeListing
<1> QED  BY <1>4, <1>7 DEF SaleInvariant

LEMMA SaleStep == SaleInvariant /\ [Next]_vars => SaleInvariant'
<1> SUFFICES ASSUME SaleInvariant, [Next]_vars PROVE SaleInvariant'
    OBVIOUS
<1>1. TypeOK'
  BY TypeStep DEF SaleInvariant
<1>2. CASE CreateInfo \/ DeleteInfo
  BY <1>1, <1>2, IdleStep DEF CreateInfo, DeleteInfo, Idle
<1>3. CASE \/ \E c \in Classes : WriteTicketClass(c) \/ RemoveTicketClass(c)
           \/ RemoveEvent
  BY <1>1, <1>3, RowStep
<1>4. CASE PatchStatus
  BY <1>1, <1>4, PatchStep
<1>5. ASSUME NEW a \in Admins,
             ConfigureStep(a) \/ ConfigureFails(a) \/ StockPartly(a)
      PROVE  SaleInvariant'
  BY <1>1, <1>5, ReadStep, ListStep, ConfigureWrites DEF ConfigureStep
<1>6. ASSUME NEW b \in Buyers, BuyerStep(b) PROVE SaleInvariant'
  BY <1>1, <1>6, BuyerReads
<1>7. CASE UNCHANGED vars
  BY <1>1, <1>7, IdleStep DEF vars, rows, Idle
<1> QED  BY <1>2, <1>3, <1>4, <1>5, <1>6, <1>7 DEF Next

-----------------------------------------------------------------------------
(* Reservations survive one configuration *)

Drafted == {a \in Admins : draft[a]}
Holders(c) == {b \in Buyers : buyer[b] = "held" /\ wanted[b] = c}

\* A request that writes has read a DRAFT, which one that has not begun has not.
DraftTellsStage ==
  \A a \in Admins :
    /\ configure[a] = "idle" => ~draft[a]
    /\ configure[a] \in {"event", "stock", "open", "publish", "done"}
         => draft[a]

\* Nobody holds a ticket, or is about to, before a request has opened the sale,
\* and the one that has is past the classes for good.
OpenedBeforeHeld ==
  /\ \A b \in Buyers : buyer[b] = "held" => ready[b]
  /\ saleStatus \/ (\E b \in Buyers : ready[b]) =>
       \E a \in Drafted : configure[a] \in {"publish", "done", "failed"}

Countable == IsFiniteSet(Drafted) /\ \A c \in Classes : IsFiniteSet(Holders(c))

SurvivalInvariant ==
  /\ DraftTellsStage
  /\ OpenedBeforeHeld
  /\ Countable
  /\ OneConfigurationSurvives

\* Two requests that have read the DRAFT are one, when it is at most one.
LEMMA SoleDraft ==
  ASSUME Countable, Cardinality(Drafted) <= 1,
         NEW a \in Drafted, NEW x \in Drafted
  PROVE  a = x
<1>1. Cardinality(Drafted) \in Nat
  BY FS_CardinalityType DEF Countable
<1>2. CASE Cardinality(Drafted) = 0
  BY <1>2, FS_EmptySet DEF Countable
<1>3. CASE Cardinality(Drafted) = 1
  <2>1. \E y : Drafted = {y}
    BY <1>3, FS_Singleton DEF Countable
  <2> QED  BY <2>1
<1> QED  BY <1>1, <1>2, <1>3

\* A request reads the status once.
LEMMA DraftedGrow ==
  ASSUME TypeOK, DraftTellsStage, Countable, [Next]_vars
  PROVE  /\ Drafted \subseteq Drafted'
         /\ IsFiniteSet(Drafted')
         /\ Cardinality(Drafted') <= 1 => Cardinality(Drafted) <= 1
<1>1. Drafted \subseteq Drafted' /\ IsFiniteSet(Drafted')
  <2>1. ASSUME NEW a \in Admins, ReadEvent(a)
        PROVE  Drafted \subseteq Drafted' /\ IsFiniteSet(Drafted')
    <3>1. configure[a] = "idle" /\ \A x \in Admins \ {a} : draft'[x] = draft[x]
      BY <2>1 DEF TypeOK, ReadEvent, Continue
    <3>2. ~draft[a]
      BY <3>1 DEF DraftTellsStage
    <3>3. Drafted \subseteq Drafted' /\ Drafted' \in SUBSET (Drafted \cup {a})
      BY <3>1, <3>2 DEF Drafted
    <3>4. IsFiniteSet(Drafted \cup {a})
      BY FS_AddElement DEF Countable
    <3> QED  BY <3>3, <3>4, FS_Subset
  <2>2. ASSUME draft' = draft
        PROVE  Drafted \subseteq Drafted' /\ IsFiniteSet(Drafted')
    BY <2>2 DEF Drafted, Countable
  <2> QED
    BY <2>1, <2>2
    DEF Next, CreateInfo, DeleteInfo, WriteTicketClass, RemoveTicketClass,
        PatchStatus, RemoveEvent, ConfigureStep, ListTicketClasses, FindInfo,
        StoreEvent, StockTicketClasses, OpenSale, Publish, ConfigureFails,
        StockPartly, BuyerStep, FindEvent, CheckIsReadyForSale, ListForSale,
        GetTicketClasses, ReserveTickets, ReleaseTickets, admins, vars
<1>2. Cardinality(Drafted) <= Cardinality(Drafted')
  BY <1>1, FS_Subset
<1>3. Cardinality(Drafted) \in Nat /\ Cardinality(Drafted') \in Nat
  BY <1>1, FS_CardinalityType DEF Countable
<1> QED  BY <1>1, <1>2, <1>3

\* A step of a request moves its own stage, and only reading the event its flag.
LEMMA DraftStep ==
  ASSUME TypeOK, DraftTellsStage, [Next]_vars
  PROVE  DraftTellsStage'
<1>1. ASSUME NEW a \in Admins,
             ConfigureStep(a) \/ ConfigureFails(a) \/ StockPartly(a)
      PROVE  DraftTellsStage'
  <2>1. \A x \in Admins \ {a} :
          configure'[x] = configure[x] /\ draft'[x] = draft[x]
    BY <1>1 DEF TypeOK, ConfigureStep, ReadEvent, ListTicketClasses, FindInfo,
                StoreEvent, StockTicketClasses, OpenSale, Publish,
                ConfigureFails, StockPartly, Continue
  <2>2. /\ configure'[a] = "idle" => ~draft'[a]
        /\ configure'[a] \in {"event", "stock", "open", "publish", "done"}
             => draft'[a]
    <3>1. CASE ReadEvent(a)
      BY <3>1 DEF TypeOK, ReadEvent, Continue
    <3>2. CASE FindInfo(a)
      BY <3>2 DEF TypeOK, FindInfo, Continue, Configurable
    <3>3. CASE \/ ListTicketClasses(a) \/ StoreEvent(a) \/ StockTicketClasses(a)
               \/ OpenSale(a) \/ Publish(a) \/ ConfigureFails(a)
               \/ StockPartly(a)
      BY <3>3 DEF TypeOK, DraftTellsStage, ListTicketClasses, StoreEvent,
                  StockTicketClasses, OpenSale, Publish, ConfigureFails,
                  StockPartly, Continue
    <3> QED  BY <1>1, <3>1, <3>2, <3>3 DEF ConfigureStep
  <2> QED  BY <2>1, <2>2 DEF DraftTellsStage
<1>2. ASSUME UNCHANGED <<configure, draft>> PROVE DraftTellsStage'
  BY <1>2 DEF DraftTellsStage
<1> QED
  BY <1>1, <1>2
  DEF Next, CreateInfo, DeleteInfo, WriteTicketClass, RemoveTicketClass,
      PatchStatus, RemoveEvent, BuyerStep, FindEvent, CheckIsReadyForSale,
      ListForSale, GetTicketClasses, ReserveTickets, ReleaseTickets, admins, vars

\* The status is written once its request is past the classes, and read after.
LEMMA OpenStep ==
  ASSUME TypeOK, DraftTellsStage, OpenedBeforeHeld, [Next]_vars
  PROVE  OpenedBeforeHeld'
<1> DEFINE Past == {"publish", "done", "failed"}
           Opener == \E a \in Drafted : configure[a] \in Past
<1>1. ASSUME NEW a \in Admins,
             ConfigureStep(a) \/ ConfigureFails(a) \/ StockPartly(a)
      PROVE  OpenedBeforeHeld'
  <2>1. \A x \in Admins \ {a} :
          configure'[x] = configure[x] /\ draft'[x] = draft[x]
    BY <1>1 DEF TypeOK, ConfigureStep, ReadEvent, ListTicketClasses, FindInfo,
                StoreEvent, StockTicketClasses, OpenSale, Publish,
                ConfigureFails, StockPartly, Continue
  <2>2. UNCHANGED buyers
    BY <1>1 DEF ConfigureStep, ReadEvent, ListTicketClasses, FindInfo,
                StoreEvent, StockTicketClasses, OpenSale, Publish,
                ConfigureFails, StockPartly
  <2>3. draft[a] /\ configure[a] \in Past => draft'[a] /\ configure'[a] \in Past
    BY <1>1 DEF TypeOK, ConfigureStep, ReadEvent, ListTicketClasses, FindInfo,
                StoreEvent, StockTicketClasses, OpenSale, Publish,
                ConfigureFails, StockPartly, Continue
  <2>4. Opener => Opener'
    BY <2>1, <2>3 DEF Drafted
  <2>5. CASE OpenSale(a)
    <3>1. configure[a] = "open" /\ configure'[a] = "publish" /\ draft' = draft
      BY <2>5 DEF TypeOK, OpenSale, Continue
    <3>2. draft[a]
      BY <3>1 DEF DraftTellsStage
    <3> QED  BY <2>2, <3>1, <3>2 DEF OpenedBeforeHeld, Drafted, buyers
  <2>6. CASE ~OpenSale(a)
    <3>1. saleStatus' = saleStatus
      BY <1>1, <2>6 DEF ConfigureStep, ReadEvent, ListTicketClasses, FindInfo,
           StoreEvent, StockTicketClasses, Publish, ConfigureFails,
           StockPartly, keys
    <3> QED  BY <2>2, <2>4, <3>1 DEF OpenedBeforeHeld, buyers
  <2> QED  BY <2>5, <2>6
<1>2. ASSUME NEW b \in Buyers, BuyerStep(b) PROVE OpenedBeforeHeld'
  <2>1. UNCHANGED <<configure, draft, saleStatus>>
    BY <1>2 DEF BuyerStep, FindEvent, CheckIsReadyForSale, ListForSale,
                GetTicketClasses, ReserveTickets, ReleaseTickets, keys, admins
  <2>2. /\ \A x \in Buyers \ {b} : ready'[x] = ready[x] /\ buyer'[x] = buyer[x]
        /\ ready'[b] \in {ready[b], saleStatus}
    BY <1>2 DEF TypeOK, BuyerStep, FindEvent, CheckIsReadyForSale, ListForSale,
                GetTicketClasses, ReserveTickets, ReleaseTickets, Advance
  <2>3. buyer'[b] = "held" => ready'[b]
    BY <1>2 DEF TypeOK, BuyerStep, FindEvent, CheckIsReadyForSale, ListForSale,
                GetTicketClasses, ReserveTickets, ReleaseTickets, Advance,
                Accepted
  <2>4. Opener' <=> Opener
    BY <2>1 DEF Drafted
  <2> QED  BY <2>1, <2>2, <2>3, <2>4 DEF OpenedBeforeHeld
<1>3. ASSUME UNCHANGED <<configure, draft, saleStatus, buyers>>
      PROVE  OpenedBeforeHeld'
  BY <1>3 DEF OpenedBeforeHeld, Drafted, buyers
<1> QED
  BY <1>1, <1>2, <1>3
  DEF Next, CreateInfo, DeleteInfo, WriteTicketClass, RemoveTicketClass,
      PatchStatus, RemoveEvent, keys, admins, vars

\* The counters of the classes: reserving and releasing are one ticket each.
Reservations == \A c \in Classes : hold[c] = Cardinality(Holders(c))

LEMMA ReserveStep ==
  ASSUME TypeOK, TypeOK', Countable, NEW b \in Buyers, ReserveTickets(b)
  PROVE  /\ \A c \in Classes : IsFiniteSet(Holders(c)')
         /\ Reservations => Reservations'
<1>1. /\ buyer[b] = "deciding" /\ wanted' = wanted
      /\ buyer' = [buyer EXCEPT ![b] = IF Accepted(b) THEN "held" ELSE "rejected"]
  BY DEF ReserveTickets, Advance
<1>2. CASE ~Accepted(b)
  <2>1. hold' = hold
    BY <1>2 DEF ReserveTickets
  <2>2. \A c \in Classes : Holders(c)' = Holders(c)
    BY <1>1, <1>2 DEF Holders, TypeOK
  <2> QED  BY <2>1, <2>2 DEF Countable, Reservations
<1>3. CASE Accepted(b)
  <2>1. hold' = [hold EXCEPT ![wanted[b]] = @ + 1]
    BY <1>3 DEF ReserveTickets
  <2>2. ASSUME NEW c \in Classes
        PROVE  /\ IsFiniteSet(Holders(c)')
               /\ hold[c] = Cardinality(Holders(c))
                    => hold'[c] = Cardinality(Holders(c)')
    <3>1. CASE c # wanted[b]
      <4>1. Holders(c)' = Holders(c) /\ hold'[c] = hold[c]
        BY <1>1, <2>1, <3>1 DEF Holders, TypeOK
      <4> QED  BY <4>1 DEF Countable
    <3>2. CASE c = wanted[b]
      <4>1. Holders(c)' = Holders(c) \cup {b} /\ hold'[c] = hold[c] + 1
        BY <1>1, <1>3, <2>1, <3>2 DEF Holders, TypeOK
      <4>2. b \notin Holders(c) /\ IsFiniteSet(Holders(c))
        BY <1>1 DEF Holders, Countable
      <4> QED  BY <4>1, <4>2, FS_AddElement
    <3> QED  BY <3>1, <3>2
  <2> QED  BY <2>2 DEF Reservations
<1> QED  BY <1>2, <1>3

LEMMA ReleaseStep ==
  ASSUME TypeOK, TypeOK', Countable, NEW b \in Buyers, ReleaseTickets(b)
  PROVE  /\ \A c \in Classes : IsFiniteSet(Holders(c)')
         /\ Reservations => Reservations'
<1>1. /\ buyer[b] = "held" /\ wanted' = wanted
      /\ buyer' = [buyer EXCEPT ![b] = "returned"]
      /\ hold' = [hold EXCEPT ![wanted[b]] = @ - 1]
  BY DEF ReleaseTickets, Advance
<1>2. ASSUME NEW c \in Classes
      PROVE  /\ IsFiniteSet(Holders(c)')
             /\ hold[c] = Cardinality(Holders(c))
                  => hold'[c] = Cardinality(Holders(c)')
  <2>1. CASE c # wanted[b]
    <3>1. Holders(c)' = Holders(c) /\ hold'[c] = hold[c]
      BY <1>1, <2>1 DEF Holders, TypeOK
    <3> QED  BY <3>1 DEF Countable
  <2>2. CASE c = wanted[b]
    <3>1. Holders(c)' = Holders(c) \ {b} /\ hold'[c] = hold[c] - 1
      BY <1>1, <2>2 DEF Holders, TypeOK
    <3>2. b \in Holders(c) /\ IsFiniteSet(Holders(c))
      BY <1>1, <2>2 DEF Holders, Countable
    <3> QED  BY <3>1, <3>2, FS_RemoveElement
  <2> QED  BY <2>1, <2>2
<1> QED  BY <1>2 DEF Reservations

\* The only request that has read the DRAFT writes the counters before anybody
\* has found the event ready.
LEMMA StockStep ==
  ASSUME TypeOK, DraftTellsStage, OpenedBeforeHeld, Countable,
         Cardinality(Drafted) <= 1, Reservations,
         NEW a \in Admins, configure[a] = "stock",
         NEW S \in SUBSET Planned(a), Stock(a, S), UNCHANGED buyers
  PROVE  Reservations'
<1>1. a \in Drafted
  BY DEF DraftTellsStage, Drafted
<1>2. \A b \in Buyers : ~ready[b]
  <2> SUFFICES ASSUME NEW b \in Buyers, ready[b] PROVE FALSE
      OBVIOUS
  <2>1. PICK x \in Drafted : configure[x] \in {"publish", "done", "failed"}
    BY DEF OpenedBeforeHeld
  <2>2. x = a
    BY <1>1, SoleDraft
  <2> QED  BY <2>1, <2>2
<1>3. \A c \in Classes : Holders(c)' = {} /\ Holders(c) = {}
  BY <1>2 DEF OpenedBeforeHeld, Holders, buyers
<1>4. \A c \in Classes : hold'[c] \in {0, hold[c]}
  BY DEF Stock
<1>5. Cardinality({}) = 0
  BY FS_EmptySet
<1> QED  BY <1>3, <1>4, <1>5 DEF Reservations

LEMMA InitSurvival == Init => SurvivalInvariant
<1> SUFFICES ASSUME Init PROVE SurvivalInvariant
    OBVIOUS
<1>1. Drafted = {} /\ \A c \in Classes : Holders(c) = {}
  BY DEF Init, Drafted, Holders
<1>2. IsFiniteSet({}) /\ Cardinality({}) = 0
  BY FS_EmptySet
<1>3. Countable
  BY <1>1, <1>2 DEF Countable
<1>4. Reservations
  BY <1>1, <1>2 DEF Init, Reservations
<1>5. DraftTellsStage /\ OpenedBeforeHeld
  BY DEF Init, DraftTellsStage, OpenedBeforeHeld
<1> QED  BY <1>3, <1>4, <1>5
         DEF SurvivalInvariant, OneConfigurationSurvives, ReservationsSurvive,
             Reservations, Holders

LEMMA SurvivalStep ==
  TypeOK /\ TypeOK' /\ SurvivalInvariant /\ [Next]_vars => SurvivalInvariant'
<1> SUFFICES ASSUME TypeOK, TypeOK', SurvivalInvariant, [Next]_vars
             PROVE  SurvivalInvariant'
    OBVIOUS
<1> USE DEF SurvivalInvariant
<1>1. DraftTellsStage' /\ OpenedBeforeHeld'
  BY DraftStep, OpenStep
<1>2. /\ IsFiniteSet(Drafted')
      /\ Cardinality(Drafted') <= 1 => Cardinality(Drafted) <= 1
  BY DraftedGrow
<1>3. /\ \A c \in Classes : IsFiniteSet(Holders(c)')
      /\ Cardinality(Drafted) <= 1 /\ Reservations => Reservations'
  <2>1. ASSUME NEW b \in Buyers, ReserveTickets(b) \/ ReleaseTickets(b)
        PROVE  /\ \A c \in Classes : IsFiniteSet(Holders(c)')
               /\ Reservations => Reservations'
    BY <2>1, ReserveStep, ReleaseStep
  <2>2. ASSUME NEW b \in Buyers, \/ FindEvent(b) \/ CheckIsReadyForSale(b)
                                 \/ ListForSale(b) \/ GetTicketClasses(b)
        PROVE  hold' = hold /\ \A c \in Classes : Holders(c)' = Holders(c)
    <3>1. /\ \A x \in Buyers \ {b} : buyer'[x] = buyer[x]
          /\ buyer[b] # "held" /\ buyer'[b] # "held"
          /\ wanted' = wanted /\ hold' = hold
      BY <2>2 DEF TypeOK, FindEvent, CheckIsReadyForSale, ListForSale,
                  GetTicketClasses, Advance, keys
    <3> QED  BY <3>1 DEF Holders
  <2>3. ASSUME NEW a \in Admins, StockTicketClasses(a) \/ StockPartly(a)
        PROVE  /\ \A c \in Classes : Holders(c)' = Holders(c)
               /\ Cardinality(Drafted) <= 1 /\ Reservations => Reservations'
    <3>1. configure[a] = "stock" /\ UNCHANGED buyers
      BY <2>3 DEF StockTicketClasses, StockPartly, Continue
    <3>2. \E S \in SUBSET Planned(a) : Stock(a, S)
      BY <2>3 DEF StockTicketClasses, StockPartly
    <3>3. \A c \in Classes : Holders(c)' = Holders(c)
      BY <3>1 DEF Holders, buyers
    <3> QED  BY <3>1, <3>2, <3>3, StockStep
  <2>4. ASSUME hold' = hold, UNCHANGED buyers
        PROVE  \A c \in Classes : Holders(c)' = Holders(c)
    BY <2>4 DEF Holders, buyers
  <2>5. (hold' = hold /\ \A c \in Classes : Holders(c)' = Holders(c))
          => (Reservations => Reservations')
    BY DEF Reservations
  <2>6. (\A c \in Classes : Holders(c)' = Holders(c))
          => \A c \in Classes : IsFiniteSet(Holders(c)')
    BY DEF Countable
  <2>7. CASE hold' = hold /\ UNCHANGED buyers
    BY <2>4, <2>5, <2>6, <2>7
  <2>8. \/ hold' = hold /\ UNCHANGED buyers
        \/ \E b \in Buyers : BuyerStep(b)
        \/ \E a \in Admins : StockTicketClasses(a) \/ StockPartly(a)
    BY DEF Next, CreateInfo, DeleteInfo, WriteTicketClass, RemoveTicketClass,
         PatchStatus, RemoveEvent, ConfigureStep, ReadEvent, ListTicketClasses,
         FindInfo, StoreEvent, OpenSale, Publish, ConfigureFails, keys, vars
  <2>9. CASE \E b \in Buyers : BuyerStep(b)
    BY <2>1, <2>2, <2>5, <2>6, <2>9 DEF BuyerStep
  <2>10. CASE \E a \in Admins : StockTicketClasses(a) \/ StockPartly(a)
    BY <2>3, <2>6, <2>10
  <2> QED  BY <2>7, <2>8, <2>9, <2>10
<1>4. /\ OneConfigurationSurvives <=> (Cardinality(Drafted) <= 1 => Reservations)
      /\ OneConfigurationSurvives' <=>
           (Cardinality(Drafted') <= 1 => Reservations')
  BY DEF OneConfigurationSurvives, ReservationsSurvive, Reservations, Drafted,
         Holders
<1>5. OneConfigurationSurvives'
  BY <1>2, <1>3, <1>4
<1> QED  BY <1>1, <1>2, <1>3, <1>5 DEF Countable

-----------------------------------------------------------------------------
(* Theorems *)

\* However many administrators configure, edit and give up: what the stages of
\* their requests say is true of Redis, and every variable has its type.
THEOREM SaleInvariantHolds == Spec => []SaleInvariant
<1>1. Init => SaleInvariant
  BY InitSale
<1>2. SaleInvariant /\ [Next]_vars => SaleInvariant'
  BY SaleStep
<1> QED  BY <1>1, <1>2, PTL DEF Spec

\* The types of the rows, of the keys in Redis and of what the requests read.
THEOREM SaleTypeCorrect == Spec => []TypeOK
<1>1. SaleInvariant => TypeOK
  BY DEF SaleInvariant
<1> QED  BY <1>1, SaleInvariantHolds, PTL

\* The stages of the requests, the status of the sale and the counters of the
\* classes agree on which request opened the sale and on who holds tickets.
THEOREM SurvivalInvariantHolds == Spec => []SurvivalInvariant
<1>1. Init => SurvivalInvariant
  BY InitSurvival
<1>2. TypeOK /\ TypeOK' /\ SurvivalInvariant /\ [Next]_vars => SurvivalInvariant'
  BY SurvivalStep
<1> QED  BY <1>1, <1>2, SaleTypeCorrect, PTL DEF Spec

\* requestConfigure wipes out no reservation as long as at most one request has
\* read the event as a DRAFT, whatever dies, is edited or removed meanwhile.
THEOREM OneConfigurationAlwaysSurvives == Spec => []OneConfigurationSurvives
<1>1. SurvivalInvariant => OneConfigurationSurvives
  BY DEF SurvivalInvariant
<1> QED  BY <1>1, SurvivalInvariantHolds, PTL

\* requestConfigure writes the status of the sale when a whole listing of the
\* classes is in Redis, and it stays there.
THEOREM SaleAlwaysOpensComplete == Spec => []SaleOpensComplete
<1>1. SaleInvariant => SaleOpensComplete
  BY DEF SaleInvariant
<1> QED  BY <1>1, SaleInvariantHolds, PTL

\* getSaleData: a buyer who found the event ready finds a whole listing.
THEOREM BuyersAlwaysFindTheSale == Spec => []BuyersFindTheSale
<1>1. SaleInvariant => BuyersFindTheSale
  BY DEF SaleInvariant, BuyersKeepTheSale, BuyersFindTheSale
<1> QED  BY <1>1, SaleInvariantHolds, PTL

\* The event is PUBLISHED in Postgres only after its sale is open in Redis,
\* unless PATCH event/:id writes PUBLISHED by hand.
THEOREM PublishedIsAlwaysOnSale == Spec => []PublishedIsOnSale
<1>1. SaleInvariant => PublishedIsOnSale
  BY DEF SaleInvariant
<1> QED  BY <1>1, SaleInvariantHolds, PTL

\* Whatever the deletion of a class leaves in Redis, getSaleData shows it to no
\* buyer who lists the classes afterwards.
THEOREM RemovedStaysOffSale == Spec => RemovedGoesOffSale
<1>1. SaleInvariant /\ [Next]_vars
        => [\A b \in Buyers : view'[b] \cap removed \subseteq view[b]]_vars
  <2> SUFFICES ASSUME SaleInvariant, [Next]_vars, NEW b \in Buyers
               PROVE  view'[b] \cap removed \subseteq view[b]
      OBVIOUS
  <2>1. removed \cap Listed = {} /\ view \in [Buyers -> SUBSET Classes]
    BY DEF SaleInvariant, TypeOK
  <2>2. ASSUME NEW x \in Buyers, ListForSale(x) \/ GetTicketClasses(x)
        PROVE  view'[b] \cap removed \subseteq view[b]
    <3>1. view'[b] \in {view[b], Listed, view[b] \cap stocked}
      BY <2>1, <2>2 DEF ListForSale, GetTicketClasses
    <3> QED  BY <2>1, <3>1
  <2>3. ASSUME view' = view PROVE view'[b] \cap removed \subseteq view[b]
    BY <2>3
  <2> QED
    BY <2>2, <2>3
    DEF Next, CreateInfo, DeleteInfo, WriteTicketClass, RemoveTicketClass,
        PatchStatus, RemoveEvent, ConfigureStep, ReadEvent, ListTicketClasses,
        FindInfo, StoreEvent, StockTicketClasses, OpenSale, Publish,
        ConfigureFails, StockPartly, BuyerStep, FindEvent, CheckIsReadyForSale,
        ReserveTickets, ReleaseTickets, buyers, vars
<1> QED  BY <1>1, SaleInvariantHolds, PTL DEF Spec, RemovedGoesOffSale
=============================================================================
