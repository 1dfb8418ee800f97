\* Everything may happen around the bridge, with and without a pinned socket.
CONSTANTS
  Legacy = Legacy
  NoPath = NoPath
  Overrides = {NoPath, 1}
  Tools = {"health", "readBoard", "editBoard", "addCopper"}
  World = {"exit", "crash", "environ", "failures", "reassigned", "empty"}
  MaxStarts = 2
  MaxCalls = 3
SPECIFICATION Spec
INVARIANTS
  BridgeTypeOK
  MutationOnce
  RecoversAfterOne
PROPERTIES
  ReplyTellsBoard
  CallEnds
