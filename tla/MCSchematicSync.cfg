\* Everything may happen around the server.
CONSTANTS
  root = root
  beside = beside
  below = below
  Root = root
  Beside = {beside}
  Below = {below}
  Files = {root}
  Tools = {"schContext", "contextDelta", "addSymbol", "setValue", "setFootprint",
           "connectPins"}
  Retention = 1
  MaxSnaps = 2
  MaxWrites = 3
  MaxEdits = 2
  World = {"external", "restore", "restart", "failures"}
SPECIFICATION Spec
INVARIANTS
  SchTypeOK
  CacheIsTruth
  ValidBaseIsTruth
  MutationHasBackup
  AuditOrFailure
PROPERTIES
  OkSnapIsValid
  SchWriteKeepsEdits
