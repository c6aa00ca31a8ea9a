\* One student, two rooms, three dates of two hours (of the last only the first), a
\* class in one room, and the rules of quota.py: two hours a date and one unfinished.
\* The grid looks one date further ahead than the policy.
CONSTANTS
  None = None
  Users = {u1}
  Staff = {}
  Rooms = {r1, r2}
  Sessions = {p1}
  Closures = {}
  ManagedRooms = {}
  ManagedUsers = {}
  MaxBookings = 3
  LastSlot = 4
  SlotsPerDay = 2
  SlotLen = 2
  Grace = 1
  HorizonDays = 1
  GridHorizonDays = 2
  StaffHorizonDays = 0
  DailyQuota = 2
  MaxUpcoming = 1
  StrikeThreshold = 3
  StrikeWindow = 4
  SuspensionLen = 3
  ReconcileBudget = 3
  Profiles <- PlainOnly
  Audience <- Everyone
  Listed <- Everyone
  ClassHours <- OneClass
  DayHours <- NoOverride
  ClosureScopes <- NoScopes
  IncidentScopes <- NoScopes
  SuspensionEnds <- Never
SPECIFICATION Spec
INVARIANTS
  StudentHoursApart
  QuotaKept
  UpcomingKept
  ForfeitNotReclaimed
  SuggestionsHold
