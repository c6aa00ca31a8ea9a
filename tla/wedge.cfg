\* Two bookings end together and the budget is one row.
CONSTANTS
  None = None
  Users = {u1, u2}
  Staff = {}
  Rooms = {r1, r2}
  Sessions = {p1}
  Closures = {}
  ManagedRooms = {}
  ManagedUsers = {}
  MaxBookings = 2
  LastSlot = 1
  SlotsPerDay = 2
  SlotLen = 2
  Grace = 1
  HorizonDays = 0
  GridHorizonDays = 0
  StaffHorizonDays = 0
  DailyQuota = 2
  MaxUpcoming = 2
  StrikeThreshold = 2
  StrikeWindow = 4
  SuspensionLen = 3
  ReconcileBudget = 1
  Profiles <- PlainOnly
  Audience <- Everyone
  Listed <- Everyone
  ClassHours <- NoClasses
  DayHours <- NoOverride
  ClosureScopes <- NoScopes
  IncidentScopes <- NoScopes
  SuspensionEnds <- Never
SPECIFICATION FairSpec
PROPERTIES
  BacklogClears
