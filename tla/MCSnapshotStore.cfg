\* One server process and the two files of its project.
CONSTANTS
  Files = {sch, pcb}
  Retention = 2
  MaxSnaps = 4
  MaxWrites = 4
SPECIFICATION StoreSpec
INVARIANTS
  RetentionWindow
  AnchorIsNewestDisk
PROPERTIES
  StaleNeverRevives
  DetectsEdits
