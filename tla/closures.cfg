\* A student and a member of staff; a closure of the second hour, a date that may
\* be closed, an account that may be blocked or retired, an incident; the
\* scheduler and the clock run.
CONSTANTS
  None = None
  Users = {u1, u2}
  Staff = {u2}
  Rooms = {r1}
  Sessions = {p1}
  Closures = {c1}
  ManagedRooms = {}
  ManagedUsers = {u1}
  MaxBookings = 2
  LastSlot = 1
  SlotsPerDay = 2
  SlotLen = 2
  Grace = 1
  HorizonDays = 0
  GridHorizonDays = 0
  StaffHorizonDays = 0
  DailyQuota = 2
  MaxUpcoming = 2
  StrikeThreshold = 2
  StrikeWindow = 4
  SuspensionLen = 3
  ReconcileBudget = 3
  Profiles <- ApprovalDisplay
  Audience <- Everyone
  Listed <- Everyone
  ClassHours <- NoClasses
  DayHours <- NoHours
  ClosureScopes <- WholeFirst
  IncidentScopes <- WholeFirst
  SuspensionEnds <- Never
SPECIFICATION FairSpec
INVARIANTS
  ClosureClearsHours
  ClosedSessionsReviewed
  SuggestionsHold
PROPERTIES
  EveryBookingEnds
