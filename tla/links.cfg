\* Two requests, two links of each purpose; it stops once no more may be issued.
CONSTANTS
  Processes = {p1, p2}
  MaxLinks = 2
SPECIFICATION FairSpec
INVARIANTS
  RedeemedOnce
  OneLiveLink
PROPERTIES
  OnlyNewestRedeemed
  EveryCallEnds
CHECK_DEADLOCK FALSE
