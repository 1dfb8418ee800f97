\* Three findings at most, read a page of one at a time.
CONSTANTS
  Findings <- SomeFindings
  MaxFindings = 3
  Limit = 1
  Filters <- SomeFilters
  World = {"external", "failures"}
  MaxWrites = 2
SPECIFICATION Spec
INVARIANTS
  FabIsClean
  PagesTellReport
  IntroducedAreNew
