\* Strikes, automatic and staff suspensions and incidents, one strike to a
\* suspension.
CONSTANTS
  None = None
  Users = {u1}
  Staff = {}
  Rooms = {r1}
  Sessions = {p1}
  Closures = {}
  ManagedRooms = {}
  ManagedUsers = {}
  MaxBookings = 3
  LastSlot = 2
  SlotsPerDay = 3
  SlotLen = 2
  Grace = 1
  HorizonDays = 0
  GridHorizonDays = 0
  StaffHorizonDays = 0
  DailyQuota = 3
  MaxUpcoming = 3
  StrikeThreshold = 1
  StrikeWindow = 4
  SuspensionLen = 2
  ReconcileBudget = 3
  Profiles <- PlainMembers
  Audience <- Everyone
  Listed <- Everyone
  ClassHours <- NoClasses
  DayHours <- NoOverride
  ClosureScopes <- NoScopes
  IncidentScopes <- WholeFirst
  SuspensionEnds <- TwoEnds
SPECIFICATION Spec
INVARIANTS
  StrikeMatchesNoShow
PROPERTIES
  SuspensionClearsCalendar
  SuspensionBitesAtOnce
