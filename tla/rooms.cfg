\* A student and a member of staff around one room that staff may re-profile or
\* retire: reservations, requests, walk-ins, staff ranges and early completions, two
\* requests in flight at once.
CONSTANTS
  None = None
  Users = {u1, u2}
  Staff = {u2}
  Rooms = {r1}
  Sessions = {p1, p2}
  Closures = {}
  ManagedRooms = {r1}
  ManagedUsers = {}
  MaxBookings = 2
  LastSlot = 1
  SlotsPerDay = 2
  SlotLen = 2
  Grace = 1
  HorizonDays = 0
  GridHorizonDays = 0
  StaffHorizonDays = 0
  DailyQuota = 2
  MaxUpcoming = 2
  StrikeThreshold = 2
  StrikeWindow = 4
  SuspensionLen = 3
  ReconcileBudget = 3
  Profiles <- PlainOnly
  Audience <- Everyone
  Listed <- Everyone
  ClassHours <- NoClasses
  DayHours <- NoOverride
  ClosureScopes <- NoScopes
  IncidentScopes <- NoScopes
  SuspensionEnds <- Never
SPECIFICATION Spec
INVARIANTS
  RoomHourExclusive
PROPERTIES
  HistoryIsFinal
  HoursKept
SYMMETRY AlikeRequests
