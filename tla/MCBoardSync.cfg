\* Everything may happen around the server.
CONSTANTS
  sch = sch
  pcb = pcb
  Pcb = pcb
  Sch = sch
  Files = {sch, pcb}
  Tools = {"addTrack", "addVia", "deleteCopper", "setFootprintRef", "drawBoardOutline",
           "addKeepoutZone", "deleteZone", "moveFootprint", "addZone", "deleteTracksBulk",
           "fillZones", "saveBoard", "reloadBoard", "liveContext", "confirmReloaded",
           "schContext", "contextDelta", "addSymbol", "setProperty", "connectPins"}
  Retention = 1
  MaxSnaps = 3
  MaxWrites = 4
  MaxEdits = 3
  World = {"external", "schematic", "gui", "editor", "restart", "failures"}
SPECIFICATION Spec
INVARIANTS
  TypeOK
  BehindIsGuarded
PROPERTIES
  SaveKeepsDisk
  FillIsPersisted
  ReloadUnblocks
  OwnWritesAreKnown
  StoreRefined
