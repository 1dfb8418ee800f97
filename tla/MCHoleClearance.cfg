CONSTANTS
  ground = ground
  power = power
  groundPad = groundPad
  powerPad = powerPad
  npth = npth
  none = none
  Zones = {ground, power}
  Holes = {groundPad, powerPad, npth}
  Net <- MCNet
  NoNet = none
  Layer <- MCLayer
  World = {"edit", "failures"}
  BatchSize = 2
  MaxPasses = 3
SPECIFICATION Spec
INVARIANTS KeepoutsExact ForeignHolesClear
