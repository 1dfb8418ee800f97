\* Nothing fails and nobody else writes: two edits in a row.
CONSTANTS
  root = root
  beside = beside
  below = below
  Root = root
  Beside = {beside}
  Below = {below}
  Files = {root}
  Tools = {"schContext", "contextDelta", "addSymbol", "setValue", "setFootprint",
           "connectPins"}
  Retention = 1
  MaxSnaps = 2
  MaxWrites = 3
  MaxEdits = 2
  World = {}
SPECIFICATION Spec
INVARIANTS
  NextMutationWorks
CHECK_DEADLOCK FALSE
