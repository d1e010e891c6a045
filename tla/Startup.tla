------------------------------- MODULE Startup -------------------------------
(***************************************************************************)
(* The start of the container and the catalogue it serves: entrypoint.sh   *)
(* seeds the database, whatever an earlier start or the administrators     *)
(* have left in it, and the application starts only when that is done.     *)
(* While it runs, administrators edit the events; the process may die at   *)
(* any time, and the container is started again.                           *)
(*                                                                         *)
(* One upsert is one step, and so is one request of an administrator: each *)
(* is one statement of Postgres.                                           *)
(***************************************************************************)
EXTENDS Naturals, FiniteSets

CONSTANTS
  Followed,        \* bound: the mock events that are followed, by number
  FollowedClasses, \* bound: the classes of these that are followed, by number
  GivenCategories, \* sets of categories that administrators give to an event
  LastYear,        \* bound of the calendar
  MaxEdits,        \* bound: requests of administrators
  MaxRestarts      \* bound: times that the container is started again

MockEvents == 1 .. 42

Category == {"MUSIC", "SPORT", "THEATERS_AND_ART", "OTHER"}

MockClasses == 1 .. 84

ASSUME FollowedAssumption ==
  Followed \subseteq MockEvents /\ FollowedClasses \subseteq MockClasses
ASSUME CategoriesAssumption == GivenCategories \subseteq SUBSET Category
ASSUME BoundsAssumption ==
  LastYear \in Nat \ (0 .. 2024) /\ MaxEdits \in Nat /\ MaxRestarts \in Nat

-----------------------------------------------------------------------------
(* prisma/seed.ts: the rows it asks for *)

Organizers == 1 .. 6

\* The text that is searched for categories is put together from a name and
\* a description that the events do not have, and matches none.
SeedCategories == {"OTHER"}

\* The infos begin with mockEvent11.  The first ten have a description, and
\* an organizer each ...
DescribedBy == [n \in 11 .. 20 |-> <<1, 2, 3, 4, 4, 4, 5, 5, 6, 6>>[n - 10]]

\* ... the next twelve go twice round the organizers ...
TwiceRound == [n \in 21 .. 32 |-> ((n - 21) % 6) + 1]

\* ... and the last ten begin with the second one and leave out none.
LastRound == [n \in 33 .. 42 |-> ((n - 32) % 6) + 1]

OrganizerOf(n) ==
  CASE n <= 20 -> DescribedBy[n]
    [] n \in 21 .. 32 -> TwiceRound[n]
    [] OTHER -> LastRound[n]

\* Only the first of the infos is of 2024.
FirstYear == 2024
YearOf(n) == IF n = 11 THEN 2024 ELSE 2025

Informed == {n \in Followed : n > 10}

\* Two for each event: 2n - 1 is the Standard one of event n, 2n its VIP one.
EventOf(c) == (c + 1) \div 2
Classes == {c \in FollowedClasses : EventOf(c) \in Followed}

-----------------------------------------------------------------------------
VARIABLES
  organizers, \* the mock organizers with a row
  events,     \* the events with a row
  infos,      \* the events with an info row
  classes,    \* the classes with the row of the seed
  holder,     \* holder[c]: the row that has the name of class c in its event
  categories, \* categories[n]: column of the event
  published,  \* the events with configStatus PUBLISHED
  starts,     \* starts[n]: the year of startDate of its info
  phase,      \* what the container does
  table,      \* the table that the seed is at
  left,       \* the rows it still has to upsert there
  year, edits, restarts

rows == <<organizers, events, infos, classes, holder>>
columns == <<categories, published, starts>>
progress == <<phase, table, left>>
bounds == <<year, edits, restarts>>
startupVars == <<rows, columns, progress, bounds>>

Years == FirstYear .. LastYear
Holder == {"none", "seed", "other"}
Phase == {"seeding", "booting", "running", "down"}
Tables == {"organizers", "events", "infos", "classes"}

\* A column of an event without a row.
NoCategories == {}
NoDate == 0

StartupInit ==
  /\ organizers = {} /\ events = {} /\ infos = {} /\ classes = {}
  /\ holder = [c \in Classes |-> "none"]
  /\ categories = [n \in Followed |-> NoCategories]
  /\ published = {}
  /\ starts = [n \in Followed |-> NoDate]
  /\ phase = "seeding"
  /\ table = "organizers"
  /\ left = Organizers
  /\ year \in Years
  /\ edits = 0
  /\ restarts = 0

-----------------------------------------------------------------------------
(* main() of the seed *)

\* x is the row that the loop over table t has come to.
IsNext(x) == x \in left /\ \A y \in left : x <= y

Upsert(t, x) ==
  /\ phase = "seeding" /\ table = t /\ IsNext(x)
  /\ left' = left \ {x}
  /\ UNCHANGED <<phase, table, bounds>>

UpsertOrganizer(o) ==
  /\ Upsert("organizers", o)
  /\ organizers' = organizers \cup {o}
  /\ UNCHANGED <<events, infos, classes, holder, columns>>

\* Variant: an event that exists is given the values of the seed.
OverwriteEvent(n) ==
  /\ Upsert("events", n)
  /\ events' = events \cup {n}
  /\ categories' = [categories EXCEPT ![n] = SeedCategories]
  /\ published' = published \ {n}
  /\ UNCHANGED <<organizers, infos, classes, holder, starts>>

\* An event that exists is left as it is.
UpsertEvent(n) ==
  /\ Upsert("events", n)
  /\ events' = events \cup {n}
  /\ categories' = IF n \in events
                     THEN categories
                     ELSE [categories EXCEPT ![n] = SeedCategories]
  /\ UNCHANGED <<organizers, infos, classes, holder, published, starts>>

UpsertInfo(n) ==
  /\ n \in infos \/ (n \in events /\ OrganizerOf(n) \in organizers)
  /\ Upsert("infos", n)
  /\ infos' = infos \cup {n}
  /\ starts' = IF n \in infos THEN starts ELSE [starts EXCEPT ![n] = YearOf(n)]
  /\ UNCHANGED <<organizers, events, classes, holder, categories, published>>

\* A class is found by its id; to create it, its event has to exist and its
\* name to be free among the classes of the event.
UpsertClass(c) ==
  /\ c \in classes \/ (EventOf(c) \in events /\ holder[c] = "none")
  /\ Upsert("classes", c)
  /\ classes' = classes \cup {c}
  /\ holder' = IF c \in classes THEN holder ELSE [holder EXCEPT ![c] = "seed"]
  /\ UNCHANGED <<organizers, events, infos, columns>>

\* The rows whose upsert throws: those without a parent ...
Orphans ==
  CASE table = "infos" -> {n \in left \ infos :
                             n \notin events \/ OrganizerOf(n) \notin organizers}
    [] table = "classes" -> {c \in left \ classes : EventOf(c) \notin events}
    [] OTHER -> {}

NameLost(c) == c \notin classes /\ holder[c] = "other"

\* Variant: the rows are created, as if there had never been a start.
CreatedAgain ==
  IF table = "classes" THEN {c \in left : holder[c] # "none"} ELSE {}

\* ... and the classes whose name another row has.
Clashes == IF table = "classes" THEN {c \in left : NameLost(c)} ELSE {}

(* The seed exits with 1, and set -e ends the container with it. *)
SeedFails ==
  /\ phase = "seeding"
  /\ \E x \in Orphans \cup Clashes : IsNext(x)
  /\ phase' = "down"
  /\ UNCHANGED <<rows, columns, table, left, bounds>>

Rows(t) ==
  CASE t = "organizers" -> Organizers
    [] t = "events" -> Followed
    [] t = "infos" -> Informed
    [] t = "classes" -> Classes

\* Variant: infos come before the events they belong to.
InfosFirst(t) ==
  CASE t = "organizers" -> "infos"
    [] t = "infos" -> "events"
    [] OTHER -> "classes"

TableAfter(t) ==
  CASE t = "organizers" -> "events"
    [] t = "events" -> "infos"
    [] OTHER -> "classes"

NextTable ==
  /\ phase = "seeding" /\ left = {}
  /\ IF table = "classes"
       THEN phase' = "booting" /\ UNCHANGED <<table, left>>
       ELSE /\ table' = TableAfter(table)
            /\ left' = Rows(TableAfter(table))
            /\ UNCHANGED phase
  /\ UNCHANGED <<rows, columns, bounds>>

\* Variant: a database that has events counts as seeded.
RestartSeeded ==
  /\ phase = "down" /\ restarts < MaxRestarts
  /\ restarts' = restarts + 1
  /\ phase' = IF events = {} THEN "seeding" ELSE "booting"
  /\ table' = "organizers"
  /\ left' = Organizers
  /\ UNCHANGED <<rows, columns, year, edits>>

(* The restart policy runs entrypoint.sh, and with it the seed, once more. *)
Restart ==
  /\ phase = "down" /\ restarts < MaxRestarts
  /\ restarts' = restarts + 1
  /\ phase' = "seeding"
  /\ table' = "organizers"
  /\ left' = Organizers
  /\ UNCHANGED <<rows, columns, year, edits>>

(* onModuleInit connects and finds or creates the administrator's account;
   then the application listens. *)
Boot ==
  /\ phase = "booting"
  /\ phase' = "running"
  /\ UNCHANGED <<rows, columns, table, left, bounds>>

(* The process dies, while it seeds, boots or serves; one that nobody starts
   again is of no interest. *)
Die ==
  /\ phase # "down" /\ restarts < MaxRestarts
  /\ phase' = "down"
  /\ UNCHANGED <<rows, columns, table, left, bounds>>

-----------------------------------------------------------------------------
(* Administrators *)

Edit ==
  /\ phase = "running"
  /\ edits < MaxEdits
  /\ edits' = edits + 1
  /\ UNCHANGED <<organizers, progress, year, restarts>>

\* Variant: the rows that belong to an event stay.
DeleteEventAlone(n) ==
  /\ Edit
  /\ n \in events
  /\ events' = events \ {n}
  /\ published' = published \ {n}
  /\ UNCHANGED <<infos, classes, holder, categories, starts>>

\* The rows of its info and its classes go with an event.
DeleteEvent(n) ==
  /\ Edit
  /\ n \in events
  /\ events' = events \ {n}
  /\ infos' = infos \ {n}
  /\ classes' = {c \in classes : EventOf(c) # n}
  /\ holder' = [c \in Classes |-> IF EventOf(c) = n THEN "none" ELSE holder[c]]
  /\ categories' = [categories EXCEPT ![n] = NoCategories]
  /\ published' = published \ {n}
  /\ starts' = [starts EXCEPT ![n] = NoDate]

PatchCategories(n) ==
  /\ Edit
  /\ n \in events
  /\ \E S \in GivenCategories : categories' = [categories EXCEPT ![n] = S]
  /\ UNCHANGED <<events, infos, classes, holder, published, starts>>

\* PATCH event/:id with a configStatus, and the last step of configure.
PatchStatus(n) ==
  /\ Edit
  /\ n \in events
  /\ published' \in {published \cup {n}, published \ {n}}
  /\ UNCHANGED <<events, infos, classes, holder, categories, starts>>

CreateInfo(n) ==
  /\ Edit
  /\ n \in events \ infos
  /\ infos' = infos \cup {n}
  /\ \E y \in Years : starts' = [starts EXCEPT ![n] = y]
  /\ UNCHANGED <<events, classes, holder, categories, published>>

UpdateEventInfo(n) ==
  /\ Edit
  /\ n \in infos
  /\ \E y \in Years : starts' = [starts EXCEPT ![n] = y]
  /\ UNCHANGED <<events, infos, classes, holder, categories, published>>

DeleteInfo(n) ==
  /\ Edit
  /\ n \in infos
  /\ infos' = infos \ {n}
  /\ starts' = [starts EXCEPT ![n] = NoDate]
  /\ UNCHANGED <<events, classes, holder, categories, published>>

\* The class of the seed, or the other one with its name.
DeleteTicketClass(c) ==
  /\ Edit
  /\ \E h \in {"seed", "other"} :
       /\ holder[c] = h \/ (h = "seed" /\ c \in classes)
       /\ classes' = IF h = "seed" THEN classes \ {c} ELSE classes
       /\ holder' = IF holder[c] = h THEN [holder EXCEPT ![c] = "none"] ELSE holder
  /\ UNCHANGED <<events, infos, columns>>

\* A new class gets an id of its own; its name has to be free.
CreateTicketClass(c) ==
  /\ Edit
  /\ EventOf(c) \in events
  /\ holder[c] = "none"
  /\ holder' = [holder EXCEPT ![c] = "other"]
  /\ UNCHANGED <<events, infos, classes, columns>>

\* PATCH ticket-class/:id gives a class of the seed another name, or its own
\* one back.
RenameTicketClass(c) ==
  /\ Edit
  /\ c \in classes
  /\ \/ holder[c] = "seed" /\ holder' = [holder EXCEPT ![c] = "none"]
     \/ holder[c] = "none" /\ holder' = [holder EXCEPT ![c] = "seed"]
  /\ UNCHANGED <<events, infos, classes, columns>>

NewYear ==
  /\ year < LastYear
  /\ year' = year + 1
  /\ UNCHANGED <<rows, columns, progress, edits, restarts>>

-----------------------------------------------------------------------------
SeedStep ==
  \/ \E o \in Organizers : UpsertOrganizer(o)
  \/ \E n \in Followed : UpsertEvent(n)
  \/ \E n \in Informed : UpsertInfo(n)
  \/ \E c \in Classes : UpsertClass(c)
  \/ NextTable
  \/ SeedFails

AdminStep ==
  \/ \E n \in Followed :
        \/ DeleteEvent(n) \/ PatchCategories(n) \/ PatchStatus(n)
        \/ CreateInfo(n) \/ UpdateEventInfo(n) \/ DeleteInfo(n)
  \/ \E c \in Classes : 
       DeleteTicketClass(c) \/ CreateTicketClass(c) \/ RenameTicketClass(c)

StartupNext == SeedStep \/ Boot \/ Restart \/ Die \/ AdminStep \/ NewYear

\* The container runs on until it dies, and is started again when it has.
StartupFairness ==
  /\ WF_startupVars(SeedStep) /\ WF_startupVars(Boot)
  /\ WF_startupVars(Restart)

StartupSpec == StartupInit /\ [][StartupNext]_startupVars

-----------------------------------------------------------------------------
(* Properties *)

\* Every variable stays in its domain, and no row is without its parent.
StartupTypeOK ==
  /\ organizers \subseteq Organizers
  /\ events \subseteq Followed
  /\ infos \subseteq events
  /\ classes \subseteq Classes
  /\ holder \in [Classes -> Holder]
  /\ \A c \in Classes : c \in classes \/ holder[c] # "none" => EventOf(c) \in events
  /\ categories \in [Followed -> SUBSET Category]
  /\ published \subseteq events
  /\ starts \in [Followed -> Years \cup {NoDate}]
  /\ phase \in Phase
  /\ table \in Tables
  /\ left \subseteq Rows(table)
  /\ year \in Years
  /\ edits \in 0 .. MaxEdits
  /\ restarts \in 0 .. MaxRestarts

\* The order of the upserts satisfies every foreign key, whatever an earlier
\* start that was cut and the administrators have left: the seed fails, and
\* with it every start to come, only when a class was removed and its name
\* given to a new one.
OnlyNamesBlockSeeding == phase = "seeding" => Orphans = {}

\* When the application starts, every row of the seed is there, those that
\* administrators removed included, after any number of cuts.
SeededBeforeBoot ==
  phase = "booting" =>
    /\ organizers = Organizers /\ events = Followed
    /\ Informed \subseteq infos /\ classes = Classes

\* No row is removed, and no column of one that is there is changed.
RowsKept ==
  /\ events \subseteq events' /\ infos \subseteq infos'
  /\ classes \subseteq classes'
  /\ \A n \in events : categories'[n] = categories[n]
                       /\ (n \in published <=> n \in published')
  /\ \A n \in infos : starts'[n] = starts[n]

\* Seeding again is not noticed by the rows that exist: the seed overwrites no
\* edit, and removes nothing.
EditsSurvive == [][phase = "seeding" => RowsKept]_startupVars

\* The container comes up in the end, unless a class of the seed was removed
\* and its name taken; restarts do no harm.
StartsAgain == <>[](phase = "running") \/ <>(\E c \in Classes : NameLost(c))
=============================================================================
