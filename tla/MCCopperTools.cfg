CONSTANTS
  gnd = gnd
  sig = sig
  none = none
  Nets = {gnd, sig}
  NoNet = none
  Pads <- SomePads
  Boards <- SomeBoards
  Shapes <- SomeShapes
  MaxCorners = 4
  Filters <- SomeFilters
  Points <- SomeTargets
  Reports <- SomeReports
  Places <- SomePlaces
  StitchRadius = 2
  Tolerance = 1
  World = {"editor", "failures"}
  MaxZones = 3
  MaxEdits = 1
  MaxCalls = 2
SPECIFICATION Spec
INVARIANTS
  OutlinesAreSimple
  StitchIsSound
PROPERTY DeletionsAreExact
CHECK_DEADLOCK FALSE
