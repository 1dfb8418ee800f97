\* route_board among the other tools; the world about them.
CONSTANTS
  sch = sch
  pcb = pcb
  Pcb = pcb
  Sch = sch
  Files = {sch, pcb}
  Tools = {"saveBoard", "reloadBoard", "confirmReloaded"}
  Retention = 1
  MaxSnaps = 3
  MaxWrites = 6
  MaxEdits = 3
  World = {"external", "gui", "editor", "restart", "failures"}
SPECIFICATION RouteSpec
INVARIANT BehindIsGuarded
PROPERTIES
  SaveKeepsDisk
  RouteSavesKeepDisk
  RouteIsPersisted
