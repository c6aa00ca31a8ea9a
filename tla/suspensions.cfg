\* Four days, one note of staff, two policies, one suspension by staff.
CONSTANTS
  LastDay = 4
  Hours = {1, 3}
  Notes = {n1}
  MaxStaff = 1
  Versions <- TwoVersions
  Ends = {0, 3}
SPECIFICATION FairSpec
INVARIANTS
  SanctionsAreEarned
PROPERTIES
  BookersInGoodStanding
  NeverStacked
  EndsAreNotified
  StrikesAnswered
CHECK_DEADLOCK FALSE
