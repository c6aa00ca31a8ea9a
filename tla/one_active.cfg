\* Two suspensions by staff are enough to overlap.
CONSTANTS
  LastDay = 4
  Hours = {1, 3}
  Notes = {n1}
  MaxStaff = 2
  Versions <- TwoVersions
  Ends = {0, 2, 4}
SPECIFICATION Spec
INVARIANTS
  OneInForce
