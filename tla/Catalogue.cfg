\* Three mock events, one of them without an info; two edits and a restart.
SPECIFICATION Spec
CONSTANTS
  Followed = {10, 11, 12}
  GivenCategories <- CategoriesUsed
  Filters <- FiltersUsed
  FollowedClasses = {21}
  LastYear = 2025
  MaxEdits = 2
  MaxRestarts = 1
  Requests = {r1}
  ListTake = 1
  SameTake = 1
  Limit = 2
  PerPage = 1
INVARIANTS TypeOK OnlyNamesBlockSeeding SeededBeforeBoot
INVARIANTS CategoriesComplete RecommendedOnce PagesCover
PROPERTIES EditsSurvive StartsAgain
CHECK_DEADLOCK FALSE
