CONSTANTS
  Mishaps = {"external", "failures", "silent"}
  MaxRuns = 4
  MaxBoards = 6
SPECIFICATION TripSpec
PROPERTY InstallsItsOwnRouting
CHECK_DEADLOCK FALSE
