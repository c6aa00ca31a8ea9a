\* One event in the hands of two workers, one of which may die: leases and
\* back-offs of two minutes, three attempts, and drains that keep coming.
CONSTANTS
  None = None
  Events = {e1}
  Workers = {w1, w2}
  BatchSize = 2
  LeaseTime = 2
  MaxAttempts = 3
  LongestWait = 2
  MaxCrashes = 1
  Backoff <- ShortBackoff
SPECIFICATION FairSpec
INVARIANTS
  DuplicatesExcused
  ExhaustedAfterAllAttempts
PROPERTIES
  EveryEventSettles
