\* three requests, two bundles with a file name in common, two faults
SPECIFICATION Spec
CONSTANTS
  a1 = a1
  a2 = a2
  a3 = a3
  Assets = {a1, a2, a3}
  Name <- AssetNames
  Bundles <- TwoBundles
  Requests = {r1, r2, r3}
  None = None
  Hole = Hole
  MaxFaults = 2
SYMMETRY Same
INVARIANTS TypeOK ServedWhole
CHECK_DEADLOCK FALSE
