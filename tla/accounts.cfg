\* One account that is registered with its own ID or with another one, the roster
\* row of the first ID, an access list, and settings that drop the room or not.
CONSTANTS
  Nobody = Nobody
  Users = {u1}
  Ids = {"i1", "i2"}
  Emails = {"e1", "e2"}
  Institutional = {"e1"}
  Requests = {q1, q2}
  Files <- TwoFiles
  Uploads <- SmallFiles
  Typed <- TwoIds
  Listable = {"e1"}
  Configs <- TwoConfigs
  Capacities = {"small", "large"}
SPECIFICATION Spec
INVARIANTS
  ConfirmedOnce
  UnseenAreConfirmed
  ForecastHolds
  ImportsIdempotent
PROPERTIES
  DecisionsStand
  RowsStayLinked
  StaffWordStands
SYMMETRY Alike
