\* Three components in two places; a net that collapses, one that does not, and
\* one whose name is truncated to that of the second.
CONSTANTS
  u1 = u1
  u2 = u2
  u3 = u3
  gnd = gnd
  sda = sda
  long = long
  Refs = {u1, u2, u3}
  Places = {0, 1}
  Nets = {gnd, sda, long}
  Sanitized <- Truncated
  PowerNets = {gnd}
  Radii = {0}
  PowerCollapseThreshold = 1
  AreaOkThreshold = 1
  Files = {}
  Retention = 2
  MaxSnaps = 3
  MaxWrites = 1
  InitialBoards <- GroundedBoards
  MaxEdits = 2
SYMMETRY RefSymmetry
SPECIFICATION Spec
INVARIANTS
  ViewTypeOK
  ViewsTellStates
  LossIsDeclared
PROPERTIES
  OkRefsAreUnchanged
CHECK_DEADLOCK FALSE
