---------------------------- MODULE StartupProofs ----------------------------
(***************************************************************************)
(* Proofs about Startup for any of the mock events and classes, any        *)
(* categories, edits, years and restarts.  SeedInvariant is inductive: the *)
(* rows that the loops have passed are in the database, and stay there     *)
(* while the seed runs, because nobody can edit before the application has *)
(* started.                                                                *)
(***************************************************************************)
EXTENDS Startup, TLAPS

\* How far the seed has come: the tables that it has left are complete, and so
\* is what it has passed of the one that it is at.
SeedProgress ==
  phase = "seeding" =>
    /\ table = "organizers" => Organizers \ left \subseteq organizers
    /\ table # "organizers" => organizers = Organizers
    /\ table = "events" => Followed \ left \subseteq events
    /\ table \in {"infos", "classes"} => events = Followed
    /\ table = "infos" => Informed \ left \subseteq infos
    /\ table = "classes" => Informed \subseteq infos
    /\ table = "classes" => Classes \ left \subseteq classes

SeedInvariant == StartupTypeOK /\ SeedProgress /\ SeededBeforeBoot

-----------------------------------------------------------------------------
(* The rows of the seed *)

\* Every info that the seed asks for has one of its organizers.
LEMMA InfosHaveOrganizers == \A n \in Informed : OrganizerOf(n) \in Organizers
<1> SUFFICES ASSUME NEW n \in Informed PROVE OrganizerOf(n) \in Organizers
    OBVIOUS
<1>1. n \in 11 .. 42
  BY FollowedAssumption DEF Informed, MockEvents
<1>2. CASE n \in 11 .. 20
  <2>1. n = 11 \/ n = 12 \/ n = 13 \/ n = 14 \/ n = 15
        \/ n = 16 \/ n = 17 \/ n = 18 \/ n = 19 \/ n = 20
    BY <1>2
  <2>2. OrganizerOf(n) = <<1, 2, 3, 4, 4, 4, 5, 5, 6, 6>>[n - 10]
    BY <1>2 DEF OrganizerOf, DescribedBy
  <2>3. n - 10 \in 1 .. 10
    BY <1>2
  <2> QED  BY <2>1, <2>2, <2>3 DEF Organizers
<1>3. CASE n \in 21 .. 32
  <2>1. OrganizerOf(n) = ((n - 21) % 6) + 1
    BY <1>3 DEF OrganizerOf, TwiceRound
  <2>2. n - 21 \in Nat /\ (n - 21) % 6 \in 0 .. 5
    BY <1>3
  <2> QED  BY <2>1, <2>2 DEF Organizers
<1>4. CASE n \in 33 .. 42
  <2>1. OrganizerOf(n) = ((n - 32) % 6) + 1
    BY <1>4 DEF OrganizerOf, LastRound
  <2>2. n - 32 \in Nat /\ (n - 32) % 6 \in 0 .. 5
    BY <1>4
  <2> QED  BY <2>1, <2>2 DEF Organizers
<1> QED  BY <1>1, <1>2, <1>3, <1>4

\* The calendar of the model has the years of the seed.
LEMMA CalendarHasSeed == \A n \in Followed : YearOf(n) \in Years
BY BoundsAssumption DEF YearOf, Years, FirstYear

-----------------------------------------------------------------------------
(* Type correctness *)

LEMMA InitTypes == StartupInit => StartupTypeOK
BY BoundsAssumption
   DEF StartupInit, StartupTypeOK, Phase, Tables, Rows, Holder, NoCategories,
       NoDate, Organizers

\* The steps of the seed keep every row with its parent.
LEMMA SeedTypes == StartupTypeOK /\ SeedStep => StartupTypeOK'
<1> SUFFICES ASSUME StartupTypeOK, SeedStep PROVE StartupTypeOK'
    OBVIOUS
<1> USE DEF columns, bounds
<1>1. ASSUME NEW o \in Organizers, UpsertOrganizer(o) PROVE StartupTypeOK'
  BY <1>1 DEF UpsertOrganizer, Upsert, StartupTypeOK, Rows
<1>2. ASSUME NEW n \in Followed, UpsertEvent(n) PROVE StartupTypeOK'
  BY <1>2 DEF UpsertEvent, Upsert, StartupTypeOK, Rows, SeedCategories, Category
<1>3. ASSUME NEW n \in Informed, UpsertInfo(n) PROVE StartupTypeOK'
  <2>1. n \in Followed /\ n \in events
    BY <1>3 DEF UpsertInfo, Informed, StartupTypeOK
  <2> QED  BY <1>3, <2>1, CalendarHasSeed
           DEF UpsertInfo, Upsert, StartupTypeOK, Rows
<1>4. ASSUME NEW c \in Classes, UpsertClass(c) PROVE StartupTypeOK'
  BY <1>4 DEF UpsertClass, Upsert, StartupTypeOK, Rows, Holder
<1>5. CASE NextTable
  <2>1. TableAfter(table) \in Tables
    BY DEF TableAfter, Tables
  <2> QED  BY <1>5, <2>1 DEF NextTable, StartupTypeOK, rows, Phase, Rows
<1>6. CASE SeedFails
  BY <1>6 DEF SeedFails, StartupTypeOK, rows, Phase
<1> QED  BY <1>1, <1>2, <1>3, <1>4, <1>5, <1>6 DEF SeedStep

\* So do the requests of administrators.
LEMMA AdminTypes == StartupTypeOK /\ AdminStep => StartupTypeOK'
<1> SUFFICES ASSUME StartupTypeOK, AdminStep PROVE StartupTypeOK'
    OBVIOUS
<1> USE DEF columns, progress
<1>1. ASSUME Edit
      PROVE  /\ organizers' \subseteq Organizers /\ phase' \in Phase
             /\ table' \in Tables /\ left' \subseteq Rows(table')
             /\ year' \in Years /\ edits' \in 0 .. MaxEdits
             /\ restarts' \in 0 .. MaxRestarts
  BY <1>1, BoundsAssumption DEF Edit, StartupTypeOK
<1>2. ASSUME NEW n \in Followed, DeleteEvent(n) PROVE StartupTypeOK'
  BY <1>1, <1>2
     DEF DeleteEvent, StartupTypeOK, Holder, NoCategories, NoDate
<1>3. ASSUME NEW n \in Followed, PatchCategories(n) PROVE StartupTypeOK'
  BY <1>1, <1>3, CategoriesAssumption DEF PatchCategories, StartupTypeOK
<1>4. ASSUME NEW n \in Followed, PatchStatus(n) PROVE StartupTypeOK'
  BY <1>1, <1>4 DEF PatchStatus, StartupTypeOK
<1>5. ASSUME NEW n \in Followed, CreateInfo(n) PROVE StartupTypeOK'
  BY <1>1, <1>5 DEF CreateInfo, StartupTypeOK
<1>6. ASSUME NEW n \in Followed, UpdateEventInfo(n) PROVE StartupTypeOK'
  BY <1>1, <1>6 DEF UpdateEventInfo, StartupTypeOK
<1>7. ASSUME NEW n \in Followed, DeleteInfo(n) PROVE StartupTypeOK'
  BY <1>1, <1>7 DEF DeleteInfo, StartupTypeOK, NoDate
<1>8. ASSUME NEW c \in Classes, DeleteTicketClass(c) PROVE StartupTypeOK'
  <2>1. /\ classes' \subseteq classes
        /\ holder' \in [Classes -> Holder]
        /\ \A k \in Classes : holder'[k] \in {holder[k], "none"}
    BY <1>8 DEF DeleteTicketClass, StartupTypeOK, Holder
  <2> QED  BY <1>1, <1>8, <2>1 DEF DeleteTicketClass, StartupTypeOK
<1>9. ASSUME NEW c \in Classes, CreateTicketClass(c) PROVE StartupTypeOK'
  BY <1>1, <1>9 DEF CreateTicketClass, StartupTypeOK, Holder
<1>10. ASSUME NEW c \in Classes, RenameTicketClass(c) PROVE StartupTypeOK'
  BY <1>1, <1>10 DEF RenameTicketClass, StartupTypeOK, Holder
<1> QED  BY <1>2, <1>3, <1>4, <1>5, <1>6, <1>7, <1>8, <1>9, <1>10 DEF AdminStep

LEMMA TypeStep == StartupTypeOK /\ [StartupNext]_startupVars => StartupTypeOK'
<1> SUFFICES ASSUME StartupTypeOK, [StartupNext]_startupVars
             PROVE  StartupTypeOK'
    OBVIOUS
<1> USE DEF rows, columns, bounds
<1>1. CASE Boot
  BY <1>1 DEF Boot, StartupTypeOK, Phase
<1>2. CASE Restart
  BY <1>2, BoundsAssumption DEF Restart, StartupTypeOK, Phase, Tables, Rows
<1>3. CASE Die
  BY <1>3 DEF Die, StartupTypeOK, Phase
<1>4. CASE NewYear
  BY <1>4, BoundsAssumption
     DEF NewYear, StartupTypeOK, progress, Years, FirstYear
<1>5. CASE UNCHANGED startupVars
  BY <1>5 DEF startupVars, StartupTypeOK, progress
<1> QED  BY <1>1, <1>2, <1>3, <1>4, <1>5, SeedTypes, AdminTypes
         DEF StartupNext

-----------------------------------------------------------------------------
(* The progress of the seed *)

LEMMA InitSeed == StartupInit => SeedInvariant
<1> SUFFICES ASSUME StartupInit PROVE SeedInvariant
    OBVIOUS
<1>1. phase = "seeding" /\ table = "organizers" /\ left = Organizers
  BY DEF StartupInit
<1> QED  BY <1>1, InitTypes DEF SeedInvariant, SeedProgress, SeededBeforeBoot

\* An upsert moves one row from those that are left to those that are there.
LEMMA UpsertProgress ==
  ASSUME SeedInvariant, StartupTypeOK',
         \/ \E o \in Organizers : UpsertOrganizer(o)
         \/ \E n \in Followed : UpsertEvent(n)
         \/ \E n \in Informed : UpsertInfo(n)
         \/ \E c \in Classes : UpsertClass(c)
  PROVE  SeedInvariant'
<1> USE DEF SeedInvariant, SeedProgress, SeededBeforeBoot, Upsert, columns
<1>1. ASSUME NEW o \in Organizers, UpsertOrganizer(o) PROVE SeedInvariant'
  BY <1>1 DEF UpsertOrganizer
<1>2. ASSUME NEW n \in Followed, UpsertEvent(n) PROVE SeedInvariant'
  BY <1>2 DEF UpsertEvent
<1>3. ASSUME NEW n \in Informed, UpsertInfo(n) PROVE SeedInvariant'
  BY <1>3 DEF UpsertInfo
<1>4. ASSUME NEW c \in Classes, UpsertClass(c) PROVE SeedInvariant'
  BY <1>4 DEF UpsertClass
<1> QED  BY <1>1, <1>2, <1>3, <1>4

\* A table is left when it is complete, and none of the next has been passed.
LEMMA TableProgress ==
  ASSUME SeedInvariant, StartupTypeOK', NextTable
  PROVE  SeedInvariant'
<1> USE DEF SeedInvariant, SeedProgress, SeededBeforeBoot, NextTable, rows
<1>1. table \in Tables /\ phase = "seeding" /\ left = {}
  BY DEF StartupTypeOK
<1>2. CASE table = "organizers"
  <2>1. table' = "events" /\ left' = Followed
    BY <1>2 DEF TableAfter, Rows
  <2>2. organizers' = Organizers
    BY <1>1, <1>2 DEF StartupTypeOK
  <2>3. phase' = "seeding"
    BY <1>1, <1>2
  <2> QED  BY <2>1, <2>2, <2>3
<1>3. CASE table = "events"
  <2>1. table' = "infos" /\ left' = Informed
    BY <1>3 DEF TableAfter, Rows
  <2>2. organizers' = Organizers /\ events' = Followed
    BY <1>1, <1>3 DEF StartupTypeOK
  <2>3. phase' = "seeding"
    BY <1>1, <1>3
  <2> QED  BY <2>1, <2>2, <2>3
<1>4. CASE table = "infos"
  <2>1. table' = "classes" /\ left' = Classes
    BY <1>4 DEF TableAfter, Rows
  <2>2. organizers' = Organizers /\ events' = Followed /\ Informed \subseteq infos'
    BY <1>1, <1>4
  <2>3. phase' = "seeding"
    BY <1>1, <1>4
  <2> QED  BY <2>1, <2>2, <2>3
<1>5. CASE table = "classes"
  <2>1. phase' = "booting"
    BY <1>5
  <2>2. /\ organizers' = Organizers /\ events' = Followed
        /\ Informed \subseteq infos' /\ classes' = Classes
    BY <1>1, <1>5 DEF StartupTypeOK
  <2> QED  BY <2>1, <2>2
<1> QED  BY <1>1, <1>2, <1>3, <1>4, <1>5 DEF Tables

LEMMA SeedKeeps == SeedInvariant /\ [StartupNext]_startupVars => SeedInvariant'
<1> SUFFICES ASSUME SeedInvariant, [StartupNext]_startupVars
             PROVE  SeedInvariant'
    OBVIOUS
<1>1. StartupTypeOK'
  BY TypeStep DEF SeedInvariant
<1>2. CASE SeedStep
  <2>1. CASE SeedFails
    BY <1>1, <2>1 DEF SeedFails, SeedInvariant, SeedProgress, SeededBeforeBoot
  <2> QED  BY <1>1, <1>2, <2>1, UpsertProgress, TableProgress DEF SeedStep
<1>3. CASE AdminStep
  <2>1. phase' = "running"
    BY <1>3
       DEF AdminStep, Edit, progress, DeleteEvent, PatchCategories, PatchStatus,
           CreateInfo, UpdateEventInfo, DeleteInfo, DeleteTicketClass,
           CreateTicketClass, RenameTicketClass
  <2> QED  BY <1>1, <2>1 DEF SeedInvariant, SeedProgress, SeededBeforeBoot
<1>4. CASE Boot \/ Die
  <2>1. phase' \in {"running", "down"}
    BY <1>4 DEF Boot, Die
  <2> QED  BY <1>1, <2>1 DEF SeedInvariant, SeedProgress, SeededBeforeBoot
<1>5. CASE Restart
  <2>1. phase' = "seeding" /\ table' = "organizers" /\ left' = Organizers
    BY <1>5 DEF Restart
  <2> QED  BY <1>1, <2>1 DEF SeedInvariant, SeedProgress, SeededBeforeBoot
<1>6. CASE NewYear \/ UNCHANGED startupVars
  <2>1. UNCHANGED <<rows, progress>>
    BY <1>6 DEF NewYear, startupVars
  <2> QED  BY <1>1, <2>1
           DEF SeedInvariant, SeedProgress, SeededBeforeBoot, rows, progress
<1> QED  BY <1>2, <1>3, <1>4, <1>5, <1>6 DEF StartupNext

-----------------------------------------------------------------------------
(* Theorems *)

\* However often main() of the seed is cut and run again: the tables it has
\* left are complete, and every row has its parent.
THEOREM SeedInvariantHolds == StartupSpec => []SeedInvariant
<1>1. StartupInit => SeedInvariant
  BY InitSeed
<1>2. SeedInvariant /\ [StartupNext]_startupVars => SeedInvariant'
  BY SeedKeeps
<1> QED  BY <1>1, <1>2, PTL DEF StartupSpec

\* entrypoint.sh: the application starts over all rows of the seed.
THEOREM AlwaysSeededBeforeBoot == StartupSpec => []SeededBeforeBoot
<1>1. SeedInvariant => SeededBeforeBoot
  BY DEF SeedInvariant
<1> QED  BY <1>1, SeedInvariantHolds, PTL

\* The order of the tables in main() satisfies the foreign keys: an upsert can
\* only be refused because of a name.
THEOREM OnlyNamesEverBlock == StartupSpec => []OnlyNamesBlockSeeding
<1>1. SeedInvariant => OnlyNamesBlockSeeding
  <2> SUFFICES ASSUME SeedInvariant, phase = "seeding" PROVE Orphans = {}
      BY DEF OnlyNamesBlockSeeding
  <2>1. CASE table = "infos"
    <3>1. left \subseteq Informed
      BY <2>1 DEF SeedInvariant, StartupTypeOK, Rows
    <3>2. events = Followed /\ organizers = Organizers
      BY <2>1 DEF SeedInvariant, SeedProgress
    <3>3. \A n \in left : n \in events /\ OrganizerOf(n) \in organizers
      BY <3>1, <3>2, InfosHaveOrganizers DEF Informed
    <3>4. Orphans = {n \in left \ infos :
                       n \notin events \/ OrganizerOf(n) \notin organizers}
      BY <2>1 DEF Orphans
    <3> QED  BY <3>3, <3>4
  <2>2. CASE table = "classes"
    <3>1. left \subseteq Classes
      BY <2>2 DEF SeedInvariant, StartupTypeOK, Rows
    <3>2. events = Followed
      BY <2>2 DEF SeedInvariant, SeedProgress
    <3>3. \A c \in left : EventOf(c) \in events
      BY <3>1, <3>2 DEF Classes
    <3>4. Orphans = {c \in left \ classes : EventOf(c) \notin events}
      BY <2>2 DEF Orphans
    <3> QED  BY <3>3, <3>4
  <2>3. CASE table \notin {"infos", "classes"}
    BY <2>3 DEF Orphans
  <2> QED  BY <2>1, <2>2, <2>3
<1> QED  BY <1>1, SeedInvariantHolds, PTL

\* The upserts update nothing: what administrators have made of a row outlives
\* every restart.
THEOREM EditsAlwaysSurvive == StartupSpec => EditsSurvive
<1>1. SeedInvariant /\ [StartupNext]_startupVars
        => (phase = "seeding" => RowsKept)
  <2> SUFFICES ASSUME SeedInvariant, [StartupNext]_startupVars,
                      phase = "seeding"
               PROVE  RowsKept
      OBVIOUS
  <2> USE DEF columns, RowsKept, SeedInvariant, StartupTypeOK
  <2>1. CASE UNCHANGED <<rows, columns>>
    BY <2>1 DEF rows
  <2>2. ASSUME NEW o \in Organizers, UpsertOrganizer(o) PROVE RowsKept
    BY <2>2 DEF UpsertOrganizer
  <2>3. ASSUME NEW n \in Followed, UpsertEvent(n) PROVE RowsKept
    BY <2>3 DEF UpsertEvent
  <2>4. ASSUME NEW n \in Informed, UpsertInfo(n) PROVE RowsKept
    BY <2>4 DEF UpsertInfo, Informed
  <2>5. ASSUME NEW c \in Classes, UpsertClass(c) PROVE RowsKept
    BY <2>5 DEF UpsertClass
  <2>6. CASE NextTable \/ SeedFails \/ NewYear \/ Die \/ UNCHANGED startupVars
    BY <2>1, <2>6 DEF NextTable, SeedFails, NewYear, Die, startupVars
  <2>7. ~(AdminStep \/ Boot \/ Restart)
    BY DEF AdminStep, Boot, Restart, Edit, DeleteEvent, PatchCategories,
           PatchStatus, CreateInfo, UpdateEventInfo, DeleteInfo,
           DeleteTicketClass, CreateTicketClass, RenameTicketClass
  <2> QED  BY <2>2, <2>3, <2>4, <2>5, <2>6, <2>7 DEF StartupNext, SeedStep
<1>2. SeedInvariant /\ [StartupNext]_startupVars
        => [phase = "seeding" => RowsKept]_startupVars
  BY <1>1
<1> QED  BY <1>2, SeedInvariantHolds, PTL DEF StartupSpec, EditsSurvive
=============================================================================
