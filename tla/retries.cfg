\* Two submissions that race or retry, one key and the keyless form, two payloads,
\* two retries, under fairness.
CONSTANTS
  None = None
  NoKey = NoKey
  Requests = {a, b}
  Keys = {k}
  Payloads = {x, y}
  MaxRetries = 2
  MaxTime = 2
SPECIFICATION FairSpec
INVARIANTS
  TypeOK
  AtMostOncePerKey
  RejectionKeepsReconciliation
PROPERTIES
  TimeFollowsLock
  OncePerKey
  EveryRequestEnds
