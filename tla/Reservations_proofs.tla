------------------------- MODULE Reservations_proofs -------------------------
(***************************************************************************)
(* Proofs about Reservations for every value of its constants.             *)
(***************************************************************************)
EXTENDS Reservations, TLAPS

(***************************************************************************)
(* What a transaction finds after reconciliation                           *)
(***************************************************************************)

\* Reconciliation yields statuses, strikes and suspensions.
LEMMA SettledTypes ==
  ASSUME TypeOK
  PROVE  /\ Settled \in [Bookings -> Statuses]
         /\ SettledStrike \in [Bookings -> {"none", "live", "consumed", "void"}]
         /\ SettledBan \in [Users -> [from : Nat, until : Nat]]
<1>1. Reconciled \in [Bookings -> Statuses]
  BY DEF TypeOK, Reconciled, Statuses, Upcoming, Final
<1>2. Recorded \in [Bookings -> {"none", "live", "consumed", "void"}]
  BY DEF TypeOK, Recorded
<1>3. Settled \in [Bookings -> Statuses]
  BY <1>1 DEF Settled, Statuses, Upcoming, Final
<1>4. SettledStrike \in [Bookings -> {"none", "live", "consumed", "void"}]
  BY <1>2 DEF SettledStrike
<1>5. SettledBan \in [Users -> [from : Nat, until : Nat]]
  <2>1. now \in Nat /\ now + SuspensionLen \in Nat
    BY LedgerAssumption DEF TypeOK
  <2>2. QED
    BY <2>1 DEF SettledBan, TypeOK
<1>6. QED
  BY <1>3, <1>4, <1>5

\* Reconciliation never makes a room hour taken that was not.
LEMMA SettledFrees ==
  ASSUME TypeOK, NEW b \in Bookings, Settled[b] \in Blocking
  PROVE  status[b] \in Blocking
<1>1. Reconciled[b] = Settled[b]
  BY DEF Settled, Blocking
<1>2. QED
  BY <1>1 DEF Reconciled, Expired, Missed, Begun, Ended, Blocking

\* Reconciliation allocates no booking.
LEMMA SettledAllocates ==
  ASSUME TypeOK, NEW b \in Bookings, Settled[b] # "FREE"
  PROVE  status[b] # "FREE"
<1>1. Reconciled[b] # "FREE"
  BY DEF Settled, Undecided
<1>2. QED
  BY <1>1 DEF Reconciled, Expired, Missed, Begun, Ended

\* Nor do the cancellations and the review flags of an administrative act.
LEMMA ActTypes ==
  ASSUME TypeOK, NEW S
  PROVE  /\ CancelAll(S) \in [Bookings -> Statuses]
         /\ FlagSessions(S) \in [Bookings -> {"none", "open", "resolved"}]
         /\ \A b \in Bookings :
              /\ CancelAll(S)[b] # "FREE" => status[b] # "FREE"
              /\ CancelAll(S)[b] \in Blocking => status[b] \in Blocking
<1>1. CancelAll(S) \in [Bookings -> Statuses]
  BY SettledTypes DEF CancelAll, Statuses, Final
<1>2. FlagSessions(S) \in [Bookings -> {"none", "open", "resolved"}]
  BY DEF FlagSessions, TypeOK
<1>3. ASSUME NEW b \in Bookings
      PROVE  /\ CancelAll(S)[b] # "FREE" => status[b] # "FREE"
             /\ CancelAll(S)[b] \in Blocking => status[b] \in Blocking
  BY SettledAllocates, SettledFrees DEF CancelAll, Undecided, Blocking
<1>4. QED
  BY <1>1, <1>2, <1>3

\* Voiding writes strikes.
LEMMA VoidedTypes ==
  ASSUME TypeOK, NEW S
  PROVE  Voided(S) \in [Bookings -> {"none", "live", "consumed", "void"}]
  BY SettledTypes DEF Voided

(***************************************************************************)
(* Type correctness                                                        *)
(***************************************************************************)

\* The initial ledger is well typed.
LEMMA TypeInit == ASSUME Init PROVE TypeOK
<1>1. 0 \in 0..MaxTime
  BY LedgerAssumption DEF MaxTime, End, Start
<1>2. profile \in [Rooms -> Profile]
  BY LedgerAssumption DEF Init
<1>3. QED
  BY <1>1, <1>2, LedgerAssumption DEF Init, TypeOK, Statuses, Accounts, Slots

\* Inserting bookings of a typed request for hours of the calendar keeps the
\* booking rows well typed.
LEMMA InsertTypes ==
  ASSUME TypeOK, NEW b \in Bookings, NEW p \in Sessions, request[p] # None,
         NEW first \in Slots, NEW last \in Slots,
         NEW st \in Upcoming, NEW h \in BOOLEAN,
         Insert(b, request[p], first, last, st, h)
  PROVE  /\ status' \in [Bookings -> Statuses]
         /\ owner' \in [Bookings -> Users \cup {None}]
         /\ room' \in [Bookings -> Rooms \cup {None}]
         /\ slot' \in [Bookings -> Slots]
         /\ hold' \in [Bookings -> BOOLEAN]
         /\ review' = review
         /\ \A x \in Bookings : status'[x] # "FREE" => owner'[x] \in Users /\ room'[x] \in Rooms
<1>1. request[p] \in Requests
  BY DEF TypeOK
<1>2. request[p].user \in Users /\ request[p].room \in Rooms
  BY <1>1 DEF Requests
<1>3. st \in Statuses /\ st # "FREE"
  BY DEF Upcoming, Statuses
<1>4. \A x \in b..(b + (last - first)) : first + (x - b) \in Slots
  BY LedgerAssumption DEF Bookings, Slots
<1>5. status' \in [Bookings -> Statuses]
  BY <1>3, SettledTypes DEF Insert
<1>6. /\ owner' \in [Bookings -> Users \cup {None}]
      /\ room' \in [Bookings -> Rooms \cup {None}]
  BY <1>2 DEF Insert, TypeOK
<1>7. slot' \in [Bookings -> Slots]
  BY <1>4 DEF Insert, TypeOK
<1>8. hold' \in [Bookings -> BOOLEAN] /\ review' = review
  BY DEF Insert, TypeOK
<1>9. ASSUME NEW x \in Bookings, status'[x] # "FREE"
      PROVE  owner'[x] \in Users /\ room'[x] \in Rooms
  BY <1>2, <1>9, SettledAllocates DEF Insert, TypeOK
<1>10. QED
  BY <1>5, <1>6, <1>7, <1>8, <1>9

\* Every step keeps the ledger well typed.
LEMMA TypeNext == ASSUME TypeOK, [Next]_vars PROVE TypeOK'
<1> USE DEF SettleSanctions, Answered, bookingVars, sanctionVars, siteVars
<1>1. ASSUME NEW p \in Sessions, NEW u \in Users, NEW r \in Rooms, Fetch(p, u, r)
      PROVE  TypeOK'
  <2>1. RequestOf(u, r) \in Requests
    BY <1>1 DEF Fetch, RequestOf, TypeOK, Requests
  <2>2. QED
    BY <1>1, <2>1 DEF Fetch, TypeOK
<1>2. ASSUME NEW p \in Sessions, LockTimeout(p) PROVE TypeOK'
  BY <1>2 DEF LockTimeout, TypeOK
<1>3. ASSUME NEW p \in Sessions, NEW b \in Bookings, NEW s \in Slots, AdvanceBooking(p, s, b)
      PROVE  TypeOK'
  <2>1. PICK st \in Upcoming, h \in BOOLEAN : Insert(b, request[p], s, s, st, h)
    BY <1>3 DEF AdvanceBooking, Reservable, Upcoming, StaffActor
  <2>2. QED
    BY <1>3, <2>1, InsertTypes, SettledTypes DEF AdvanceBooking, Reservable, TypeOK
<1>4. ASSUME NEW p \in Sessions, NEW b \in Bookings, UseNow(p, b) PROVE TypeOK'
  <2>1. now \div SlotLen \in Slots /\ "IN_USE" \in Upcoming
    BY <1>4 DEF UseNow, Usable, Upcoming
  <2>2. QED
    BY <1>4, <2>1, InsertTypes, SettledTypes DEF UseNow, Usable, TypeOK
<1>5. ASSUME NEW p \in Sessions, NEW b \in Bookings, MoveBooking(p, b) PROVE TypeOK'
  <2>1. request[p].room \in Rooms
    BY <1>5 DEF MoveBooking, Movable, TypeOK, Requests
  <2>2. status' \in [Bookings -> Statuses] /\ status[b] # "FREE"
    BY <1>5, SettledTypes, SettledAllocates DEF MoveBooking, Movable, Statuses, Upcoming, Undecided
  <2>3. \A x \in Bookings : status'[x] # "FREE" => status[x] # "FREE"
    BY <1>5, <2>2, SettledTypes, SettledAllocates DEF MoveBooking, Movable
  <2>4. room' \in [Bookings -> Rooms \cup {None}]
    BY <1>5, <2>1 DEF MoveBooking, Movable, TypeOK
  <2>5. \A x \in Bookings : status'[x] # "FREE" => owner'[x] \in Users /\ room'[x] \in Rooms
    BY <1>5, <2>1, <2>3 DEF MoveBooking, Movable, TypeOK
  <2>6. QED
    BY <1>5, <2>2, <2>4, <2>5, SettledTypes DEF MoveBooking, Movable, TypeOK
<1>6. ASSUME NEW p \in Sessions, NEW b \in Bookings, NEW first \in Slots, NEW last \in Slots,
             StaffBooking(p, first, last, b)
      PROVE  TypeOK'
  <2>1. "SCHEDULED" \in Upcoming
    BY DEF Upcoming
  <2>2. QED
    BY <1>6, <2>1, InsertTypes, SettledTypes DEF StaffBooking, Holdable, TypeOK
<1>7. ASSUME NEW b \in Bookings, CheckIn(b) PROVE TypeOK'
  <2>1. Settled[b] # "FREE" /\ "IN_USE" \in Statuses
    BY <1>7 DEF CheckIn, Enterable, Statuses, Upcoming
  <2>2. QED
    BY <1>7, <2>1, SettledTypes, SettledAllocates DEF CheckIn, Enterable, TypeOK
<1>8. ASSUME NEW b \in Bookings, NEW staffAction \in BOOLEAN, Cancel(b, staffAction)
      PROVE  TypeOK'
  <2>1. Settled[b] # "FREE" /\ "CANCELLED" \in Statuses
    BY <1>8 DEF Cancel, Statuses, Final, Undecided
  <2>2. QED
    BY <1>8, <2>1, SettledTypes, SettledAllocates DEF Cancel, TypeOK
<1>9. ASSUME NEW b \in Bookings, NEW decision \in {"SCHEDULED", "REJECTED"},
             DecideApproval(b, decision)
      PROVE  TypeOK'
  <2>1. Settled[b] # "FREE" /\ decision \in Statuses
    BY <1>9 DEF DecideApproval, Statuses, Upcoming, Final
  <2>2. QED
    BY <1>9, <2>1, SettledTypes, SettledAllocates DEF DecideApproval, TypeOK
<1>10. ASSUME NEW b \in Bookings, CompleteEarly(b) PROVE TypeOK'
  <2>1. Settled[b] # "FREE" /\ "COMPLETED" \in Statuses
    BY <1>10 DEF CompleteEarly, Statuses, Final
  <2>2. QED
    BY <1>10, <2>1, SettledTypes, SettledAllocates DEF CompleteEarly, TypeOK
<1>11. ASSUME NEW b \in Bookings, ResolveReview(b) PROVE TypeOK'
  BY <1>11, SettledTypes, SettledAllocates DEF ResolveReview, TypeOK
<1>12. ASSUME NEW c \in Closures, RevokeClosure(c) PROVE TypeOK'
  BY <1>12, SettledTypes, SettledAllocates DEF RevokeClosure, TypeOK
<1>13. ASSUME NEW c \in Closures, NEW scope \in ClosureScopes, CreateClosure(c, scope)
       PROVE  TypeOK'
  <2>1. scope \in SUBSET Cells
    BY LedgerAssumption
  <2>2. QED
    BY <1>13, <2>1, SettledTypes, ActTypes DEF CreateClosure, TypeOK
<1>14. ASSUME NEW r \in ManagedRooms, DeactivateRoom(r) PROVE TypeOK'
  <2>1. profile' \in [Rooms -> Profile]
    BY <1>14 DEF DeactivateRoom, TypeOK, Profile
  <2>2. QED
    BY <1>14, <2>1, SettledTypes, ActTypes DEF DeactivateRoom, TypeOK
<1>15. ASSUME NEW r \in ManagedRooms, NEW approval \in BOOLEAN, UpdateProfile(r, approval)
       PROVE  TypeOK'
  <2>1. profile' \in [Rooms -> Profile]
    BY <1>15 DEF UpdateProfile, TypeOK, Profile
  <2>2. QED
    BY <1>15, <2>1, SettledTypes, SettledAllocates DEF UpdateProfile, TypeOK
<1>16. ASSUME NEW u \in ManagedUsers, DeactivateAccount(u) PROVE TypeOK'
  BY <1>16, SettledTypes, ActTypes DEF DeactivateAccount, TypeOK, Accounts
<1>17. ASSUME NEW u \in ManagedUsers, NEW decision \in {"ok", "blocked"},
              DecideEligibility(u, decision)
       PROVE  TypeOK'
  BY <1>17, SettledTypes, SettledAllocates DEF DecideEligibility, TypeOK, Accounts
<1>18. ASSUME NEW d \in Days, NEW hours \in DayHours, SetCalendarOverride(d, hours)
       PROVE  TypeOK'
  BY <1>18, SettledTypes, SettledAllocates DEF SetCalendarOverride, TypeOK
<1>19. ASSUME NEW scope \in IncidentScopes, NEW cancelScheduled \in BOOLEAN,
              CreateIncident(scope, cancelScheduled)
       PROVE  TypeOK'
  <2>1. scope \in SUBSET Cells
    BY LedgerAssumption
  <2>2. /\ status' \in [Bookings -> Statuses]
        /\ \A b \in Bookings : status'[b] # "FREE" => status[b] # "FREE"
    BY <1>19, SettledTypes, SettledAllocates, ActTypes DEF CreateIncident
  <2>3. QED
    BY <1>19, <2>1, <2>2, SettledTypes DEF CreateIncident, TypeOK
<1>20. ASSUME NEW scope \in IncidentScopes, VoidIncidentViolations(scope) PROVE TypeOK'
  BY <1>20, SettledTypes, SettledAllocates, VoidedTypes DEF VoidIncidentViolations, TypeOK
<1>21. ASSUME NEW b \in Bookings, VoidViolation(b) PROVE TypeOK'
  BY <1>21, SettledTypes, SettledAllocates, VoidedTypes DEF VoidViolation, TypeOK
<1>22. ASSUME NEW u \in Users, NEW end \in SuspensionEnds, ApplySuspension(u, end)
       PROVE  TypeOK'
  <2>1. ban' \in [Users -> [from : Nat, until : Nat]]
    BY <1>22, SettledTypes, LedgerAssumption DEF ApplySuspension, TypeOK
  <2>2. QED
    BY <1>22, <2>1, SettledTypes, ActTypes DEF ApplySuspension, TypeOK
<1>23. ASSUME NEW u \in Users, NEW end \in SuspensionEnds, AdjustSuspension(u, end)
       PROVE  TypeOK'
  <2>1. ban' \in [Users -> [from : Nat, until : Nat]]
    BY <1>23, SettledTypes, LedgerAssumption DEF AdjustSuspension
  <2>2. QED
    BY <1>23, <2>1, SettledTypes, SettledAllocates DEF AdjustSuspension, TypeOK
<1>24. ASSUME NEW u \in Users, LiftSuspension(u) PROVE TypeOK'
  BY <1>24, SettledTypes, SettledAllocates DEF LiftSuspension, TypeOK
<1>25. ASSUME Refuse PROVE TypeOK'
  <2>1. request' \in [Sessions -> Requests \cup {None}]
    BY <1>25 DEF Refuse, TypeOK
  <2>2. QED
    BY <1>25, <2>1, SettledTypes, SettledAllocates DEF Refuse, TypeOK
<1>26. ASSUME Tick PROVE TypeOK'
  BY <1>26, SettledTypes, SettledAllocates DEF Tick, TypeOK
<1>27. ASSUME ClockTick PROVE TypeOK'
  <2>1. now' \in 0..MaxTime
    BY <1>27, LedgerAssumption DEF ClockTick, TypeOK, MaxTime, End, Start
  <2>2. QED
    BY <1>27, <2>1 DEF ClockTick, TypeOK
<1>28. ASSUME UNCHANGED vars PROVE TypeOK'
  BY <1>28 DEF vars, TypeOK
<1>29. QED
  BY <1>1, <1>2, <1>3, <1>4, <1>5, <1>6, <1>7, <1>8, <1>9, <1>10, <1>11, <1>12, <1>13,
     <1>14, <1>15, <1>16, <1>17, <1>18, <1>19, <1>20, <1>21, <1>22, <1>23, <1>24, <1>25,
     <1>26, <1>27, <1>28
     DEF Next, RequestStep, Operation, RoomOperation, BookingOperation, SiteOperation,
         SanctionOperation

\* In every reachable ledger every row holds values of its kind.
THEOREM TypeCorrect == Spec => []TypeOK
<1>1. Init => TypeOK
  BY TypeInit
<1>2. TypeOK /\ [Next]_vars => TypeOK'
  BY TypeNext
<1>3. QED
  BY <1>1, <1>2, PTL DEF Spec

(***************************************************************************)
(* No room hour is sold twice                                              *)
(***************************************************************************)

\* A step that leaves rooms and hours alone, and makes no booking blocking
\* that was not, sells nothing.
LEMMA NothingSold ==
  ASSUME TypeOK, RoomHourExclusive, room' = room, slot' = slot,
         \A b \in Bookings : status'[b] \in Blocking => status[b] \in Blocking
  PROVE  RoomHourExclusive'
  BY DEF RoomHourExclusive, Cell

\* Bookings inserted for hours that are free after reconciliation collide with
\* no other booking and, one per hour, not with each other.
LEMMA FreeHoursSold ==
  ASSUME TypeOK, RoomHourExclusive, NEW b \in Bookings, NEW p \in Sessions,
         NEW first \in Slots, NEW last \in Slots, NEW st, NEW h,
         \A s \in first..last : SlotFree(Settled, request[p].room, s),
         Insert(b, request[p], first, last, st, h)
  PROVE  RoomHourExclusive'
<1> DEFINE new == b..(b + (last - first))
<1>1. ASSUME NEW x \in Bookings, x \in new
      PROVE  /\ Cell(x)' = <<request[p].room, first + (x - b)>>
             /\ first + (x - b) \in first..last
  BY <1>1, LedgerAssumption DEF Insert, Cell, Bookings, Slots
<1>2. ASSUME NEW x \in Bookings, x \notin new, status'[x] \in Blocking
      PROVE  Cell(x)' = Cell(x) /\ Settled[x] \in Blocking /\ status[x] \in Blocking
  BY <1>2, SettledFrees DEF Insert, Cell, TypeOK
<1>3. ASSUME NEW x \in Bookings, NEW y \in Bookings, x \in new, y \in new,
             Cell(x)' = Cell(y)'
      PROVE  x = y
  <2>1. x \in Int /\ y \in Int /\ b \in Int /\ first \in Int
    BY LedgerAssumption DEF Bookings, Slots
  <2>2. first + (x - b) = first + (y - b)
    BY <1>1, <1>3
  <2>3. QED
    BY <2>1, <2>2
<1>4. ASSUME NEW x \in Bookings, NEW y \in Bookings, x \in new, y \notin new,
             status'[y] \in Blocking
      PROVE  Cell(x)' # Cell(y)'
  BY <1>1, <1>2, <1>4 DEF SlotFree
<1>5. ASSUME NEW x \in Bookings, NEW y \in Bookings, x \notin new, y \notin new,
             status'[x] \in Blocking, status'[y] \in Blocking, Cell(x)' = Cell(y)'
      PROVE  x = y
  BY <1>2, <1>5 DEF RoomHourExclusive
<1>6. QED
  BY <1>3, <1>4, <1>5 DEF RoomHourExclusive

\* Every step keeps room hours exclusive.
LEMMA ExclusiveNext ==
  ASSUME TypeOK, RoomHourExclusive, [Next]_vars
  PROVE  RoomHourExclusive'
<1> USE DEF bookingVars
<1>1. ASSUME NEW p \in Sessions, NEW b \in Bookings, NEW s \in Slots, AdvanceBooking(p, s, b)
      PROVE  RoomHourExclusive'
  <2>1. \A t \in s..s : SlotFree(Settled, request[p].room, t)
    BY <1>1 DEF AdvanceBooking, Reservable, Slots
  <2>2. PICK st, h : Insert(b, request[p], s, s, st, h)
    BY <1>1 DEF AdvanceBooking, Reservable
  <2>3. QED
    BY <2>1, <2>2, FreeHoursSold
<1>2. ASSUME NEW p \in Sessions, NEW b \in Bookings, UseNow(p, b)
      PROVE  RoomHourExclusive'
  <2> DEFINE s == now \div SlotLen
  <2>1. s \in Slots /\ \A t \in s..s : SlotFree(Settled, request[p].room, t)
    BY <1>2 DEF UseNow, Usable, Slots
  <2>2. Insert(b, request[p], s, s, "IN_USE", FALSE)
    BY <1>2 DEF UseNow, Usable
  <2> HIDE DEF s
  <2>3. QED
    BY <2>1, <2>2, FreeHoursSold
<1>3. ASSUME NEW p \in Sessions, NEW b \in Bookings, NEW first \in Slots, NEW last \in Slots,
             StaffBooking(p, first, last, b)
      PROVE  RoomHourExclusive'
  BY <1>3, FreeHoursSold DEF StaffBooking, Holdable
<1>4. ASSUME NEW p \in Sessions, NEW b \in Bookings, MoveBooking(p, b)
      PROVE  RoomHourExclusive'
  <2>1. ASSUME NEW x \in Bookings, x # b, status'[x] \in Blocking
        PROVE  /\ Cell(x)' = Cell(x) /\ status[x] \in Blocking
               /\ Cell(x) # <<request[p].room, slot[b]>>
    BY <1>4, <2>1, SettledFrees DEF MoveBooking, Movable, SlotFree, Cell, TypeOK
  <2>2. Cell(b)' = <<request[p].room, slot[b]>>
    BY <1>4 DEF MoveBooking, Movable, Cell, TypeOK
  <2>3. QED
    BY <2>1, <2>2 DEF RoomHourExclusive
<1>5. ASSUME NEW b \in Bookings,
             \/ CheckIn(b) \/ (\E staffAction \in BOOLEAN : Cancel(b, staffAction))
             \/ (\E decision \in {"SCHEDULED", "REJECTED"} : DecideApproval(b, decision))
             \/ CompleteEarly(b) \/ ResolveReview(b) \/ VoidViolation(b)
      PROVE  RoomHourExclusive'
  <2>1. room' = room /\ slot' = slot
    BY <1>5 DEF CheckIn, Enterable, Cancel, DecideApproval, CompleteEarly, ResolveReview, VoidViolation
  <2>2. ASSUME NEW x \in Bookings, status'[x] \in Blocking
        PROVE  Settled[x] \in Blocking
    BY <1>5, <2>2, SettledTypes
       DEF CheckIn, Enterable, Cancel, DecideApproval, CompleteEarly, ResolveReview, VoidViolation,
           Blocking, Undecided
  <2>3. QED
    BY <2>1, <2>2, SettledFrees, NothingSold
<1>6. ASSUME SiteOperation \/ SanctionOperation PROVE RoomHourExclusive'
  <2>1. /\ room' = room /\ slot' = slot
        /\ status' = Settled \/ \E S : status' = CancelAll(S)
    BY <1>6 DEF SiteOperation, SanctionOperation, RevokeClosure, CreateClosure,
         DeactivateRoom, UpdateProfile, DeactivateAccount, DecideEligibility,
         SetCalendarOverride, VoidIncidentViolations, CreateIncident, LiftSuspension,
         ApplySuspension, AdjustSuspension
  <2>2. QED
    BY <2>1, SettledFrees, ActTypes, NothingSold
<1>7. ASSUME Refuse \/ Tick PROVE RoomHourExclusive'
  BY <1>7, SettledFrees, NothingSold DEF Refuse, Tick
<1>8. ASSUME RequestStep \/ ClockTick \/ UNCHANGED vars PROVE RoomHourExclusive'
  BY <1>8, NothingSold DEF RequestStep, Fetch, RequestOf, LockTimeout, ClockTick, vars
<1>9. QED
  BY <1>1, <1>2, <1>3, <1>4, <1>5, <1>6, <1>7, <1>8
     DEF Next, Operation, RoomOperation, BookingOperation

\* No room hour is ever sold twice: the type invariant is all the induction
\* needs beside the property, for every operation decides under the lock by
\* the reconciled rows.
THEOREM ExclusiveHours == Spec => []RoomHourExclusive
<1>1. Init => RoomHourExclusive
  BY DEF Init, RoomHourExclusive, Blocking
<1>2. TypeOK /\ RoomHourExclusive /\ [Next]_vars => RoomHourExclusive'
  BY ExclusiveNext
<1>3. QED
  BY <1>1, <1>2, TypeCorrect, PTL DEF Spec

(***************************************************************************)
(* A closure leaves nobody waiting inside it                               *)
(***************************************************************************)

\* Reconciliation makes nobody wait who did not.
LEMMA SettledWaits ==
  ASSUME TypeOK, NEW b \in Bookings, Settled[b] \in Undecided
  PROVE  status[b] \in Undecided
<1>1. Reconciled[b] = Settled[b]
  BY DEF Settled, Undecided
<1>2. QED
  BY <1>1 DEF Reconciled, Expired, Missed, Begun, Ended, Undecided

\* A step that opens no closure, moves no row and makes nobody wait keeps it.
LEMMA NobodyWaits ==
  ASSUME ClosureClearsHours, room' = room, slot' = slot,
         \A c \in Closures : closure'[c] \subseteq closure[c],
         \A b \in Bookings : status'[b] \in Undecided => status[b] \in Undecided
  PROVE  ClosureClearsHours'
  BY DEF ClosureClearsHours, Closed

\* Rows inserted for open hours wait outside every closure.
LEMMA OpenHoursSold ==
  ASSUME TypeOK, ClosureClearsHours, NEW b \in Bookings, NEW p \in Sessions,
         NEW first \in Slots, NEW last \in Slots, NEW st, NEW h,
         \A s \in first..last : SlotOpen(request[p], s),
         Insert(b, request[p], first, last, st, h), closure' = closure
  PROVE  ClosureClearsHours'
<1> SUFFICES ASSUME NEW x \in Bookings, status'[x] \in Undecided
             PROVE  ~Closed(room[x], slot[x])'
  BY DEF ClosureClearsHours
<1>1. CASE x \in b..(b + (last - first))
  <2>1. first + (x - b) \in first..last
    BY <1>1, LedgerAssumption DEF Bookings, Slots
  <2>2. room'[x] = request[p].room /\ slot'[x] = first + (x - b)
    BY <1>1 DEF Insert
  <2>3. QED
    BY <2>1, <2>2 DEF SlotOpen, Closed
<1>2. CASE x \notin b..(b + (last - first))
  <2>1. Settled[x] \in Undecided /\ room'[x] = room[x] /\ slot'[x] = slot[x]
    BY <1>2 DEF Insert
  <2>2. QED
    BY <2>1, SettledWaits DEF ClosureClearsHours, Closed
<1>3. QED
  BY <1>1, <1>2

LEMMA ClosureNext ==
  ASSUME TypeOK, ClosureClearsHours, [Next]_vars
  PROVE  ClosureClearsHours'
<1> USE DEF bookingVars, siteVars
<1>1. ASSUME NEW p \in Sessions, NEW b \in Bookings, NEW s \in Slots, AdvanceBooking(p, s, b)
      PROVE  ClosureClearsHours'
  <2>1. \A t \in s..s : SlotOpen(request[p], t)
    BY <1>1 DEF AdvanceBooking, Reservable, Slots
  <2>2. closure' = closure /\ \E st, h : Insert(b, request[p], s, s, st, h)
    BY <1>1 DEF AdvanceBooking, Reservable
  <2>3. QED
    BY <2>1, <2>2, OpenHoursSold
<1>2. ASSUME NEW p \in Sessions, NEW b \in Bookings, UseNow(p, b)
      PROVE  ClosureClearsHours'
  <2> DEFINE s == now \div SlotLen
  <2>1. s \in Slots /\ \A t \in s..s : SlotOpen(request[p], t)
    BY <1>2 DEF UseNow, Usable, Slots
  <2>2. closure' = closure /\ Insert(b, request[p], s, s, "IN_USE", FALSE)
    BY <1>2 DEF UseNow, Usable
  <2> HIDE DEF s
  <2>3. QED
    BY <2>1, <2>2, OpenHoursSold
<1>3. ASSUME NEW p \in Sessions, NEW b \in Bookings, NEW first \in Slots, NEW last \in Slots,
             StaffBooking(p, first, last, b)
      PROVE  ClosureClearsHours'
  BY <1>3, OpenHoursSold DEF StaffBooking, Holdable
<1>4. ASSUME NEW p \in Sessions, NEW b \in Bookings, MoveBooking(p, b)
      PROVE  ClosureClearsHours'
  <2>1. ASSUME NEW x \in Bookings, x # b, status'[x] \in Undecided
        PROVE  status[x] \in Undecided /\ room'[x] = room[x]
    BY <1>4, <2>1, SettledWaits, SettledTypes DEF MoveBooking, Movable, TypeOK
  <2>2. /\ room'[b] = request[p].room /\ ~Closed(request[p].room, slot[b])
        /\ slot' = slot /\ closure' = closure
    BY <1>4 DEF MoveBooking, Movable, SlotOpen, TypeOK
  <2>3. QED
    BY <2>1, <2>2 DEF ClosureClearsHours, Closed
<1>5. ASSUME NEW b \in Bookings,
             \/ CheckIn(b) \/ (\E staffAction \in BOOLEAN : Cancel(b, staffAction))
             \/ (\E decision \in {"SCHEDULED", "REJECTED"} : DecideApproval(b, decision))
             \/ CompleteEarly(b) \/ ResolveReview(b) \/ VoidViolation(b)
      PROVE  ClosureClearsHours'
  <2>1. room' = room /\ slot' = slot /\ closure' = closure
    BY <1>5 DEF CheckIn, Enterable, Cancel, DecideApproval, CompleteEarly, ResolveReview, VoidViolation
  <2>2. ASSUME NEW x \in Bookings, status'[x] \in Undecided
        PROVE  Settled[x] \in Undecided
    BY <1>5, <2>2, SettledTypes
       DEF CheckIn, Enterable, Cancel, DecideApproval, CompleteEarly, ResolveReview, VoidViolation,
           Undecided
  <2>3. QED
    BY <2>1, <2>2, SettledWaits, NobodyWaits
<1>6. ASSUME NEW c \in Closures, NEW scope \in ClosureScopes, CreateClosure(c, scope)
      PROVE  ClosureClearsHours'
  <2> SUFFICES ASSUME NEW x \in Bookings, status'[x] \in Undecided
               PROVE  ~Closed(room[x], slot[x])'
    BY DEF ClosureClearsHours
  <2>1. /\ room' = room /\ slot' = slot /\ closure' = [closure EXCEPT ![c] = scope]
        /\ status' = CancelAll({b \in Bookings : Cell(b) \in scope})
    BY <1>6 DEF CreateClosure
  <2>2. Cell(x) \notin scope /\ Settled[x] \in Undecided
    BY <2>1 DEF CancelAll, Undecided
  <2>3. ~Closed(room[x], slot[x])
    BY <2>2, SettledWaits DEF ClosureClearsHours
  <2>4. QED
    BY <2>1, <2>2, <2>3 DEF Closed, Cell, TypeOK
<1>7. ASSUME \/ \E c \in Closures : RevokeClosure(c)
             \/ \E r \in ManagedRooms :
                  DeactivateRoom(r) \/ \E approval \in BOOLEAN : UpdateProfile(r, approval)
             \/ \E u \in ManagedUsers :
                  \/ DeactivateAccount(u)
                  \/ \E decision \in {"ok", "blocked"} : DecideEligibility(u, decision)
             \/ \E d \in Days, hours \in DayHours : SetCalendarOverride(d, hours)
             \/ SanctionOperation \/ Refuse \/ Tick
      PROVE  ClosureClearsHours'
  <2>1. /\ room' = room /\ slot' = slot
        /\ closure' = closure \/ \E c \in Closures : closure' = [closure EXCEPT ![c] = {}]
        /\ \E S : status' = Settled \/ status' = CancelAll(S)
    BY <1>7 DEF SanctionOperation, RevokeClosure, DeactivateRoom, UpdateProfile,
         DeactivateAccount, DecideEligibility, SetCalendarOverride, VoidIncidentViolations,
         CreateIncident, LiftSuspension, ApplySuspension, AdjustSuspension, Refuse, Tick
  <2>2. \A c \in Closures : closure'[c] \subseteq closure[c]
    BY <2>1 DEF TypeOK
  <2>3. \A b \in Bookings : status'[b] \in Undecided => Settled[b] \in Undecided
    BY <2>1 DEF CancelAll, Undecided
  <2>4. QED
    BY <2>1, <2>2, <2>3, SettledWaits, NobodyWaits
<1>8. ASSUME RequestStep \/ ClockTick \/ UNCHANGED vars PROVE ClosureClearsHours'
  BY <1>8, NobodyWaits DEF RequestStep, Fetch, RequestOf, LockTimeout, ClockTick, vars
<1>9. QED
  BY <1>1, <1>2, <1>3, <1>4, <1>5, <1>6, <1>7, <1>8
     DEF Next, Operation, RoomOperation, BookingOperation, SiteOperation

\* While a closure is in force nobody waits for, or holds, an hour inside it,
\* whatever was booked, approved or moved meanwhile (maintenance.py).
THEOREM ClosuresClear == Spec => []ClosureClearsHours
<1>1. Init => ClosureClearsHours
  BY DEF Init, ClosureClearsHours, Undecided
<1>2. TypeOK /\ ClosureClearsHours /\ [Next]_vars => ClosureClearsHours'
  BY ClosureNext
<1>3. QED
  BY <1>1, <1>2, TypeCorrect, PTL DEF Spec

(***************************************************************************)
(* Whoever is in a closed room is flagged                                  *)
(***************************************************************************)

\* A session reconciliation finds or begins in a closed room is flagged: the
\* hold it began would have waited inside the closure.
LEMMA SettledSessions ==
  ASSUME TypeOK, ClosureClearsHours, ClosedSessionsReviewed,
         NEW b \in Bookings, Settled[b] = "IN_USE", Closed(room[b], slot[b])
  PROVE  review[b] # "none"
<1>1. status[b] = "IN_USE" \/ status[b] \in Undecided
  <2>1. Reconciled[b] = "IN_USE"
    BY DEF Settled
  <2>2. QED
    BY <2>1 DEF Reconciled, Expired, Missed, Begun, Ended, Undecided
<1>2. QED
  BY <1>1 DEF ClosureClearsHours, ClosedSessionsReviewed

\* A step that opens no closure, moves no row, withdraws no flag of a session
\* and begins only sessions that reconciliation begins or that stand open.
LEMMA SessionsReviewed ==
  ASSUME TypeOK, ClosureClearsHours, ClosedSessionsReviewed,
         room' = room, slot' = slot,
         \A c \in Closures : closure'[c] \subseteq closure[c],
         \A b \in Bookings : status'[b] = "IN_USE" =>
           /\ Settled[b] = "IN_USE" \/ status[b] = "IN_USE" \/ ~Closed(room[b], slot[b])
           /\ review[b] # "none" => review'[b] # "none"
  PROVE  ClosedSessionsReviewed'
<1> SUFFICES ASSUME NEW b \in Bookings, status'[b] = "IN_USE", Closed(room[b], slot[b])'
             PROVE  review'[b] # "none"
  BY DEF ClosedSessionsReviewed
<1>1. Closed(room[b], slot[b])
  BY DEF Closed
<1>2. review[b] # "none"
  BY <1>1, SettledSessions DEF ClosedSessionsReviewed
<1>3. QED
  BY <1>2

\* Rows inserted for open hours are not in a closed room.
LEMMA OpenHoursBegun ==
  ASSUME TypeOK, ClosureClearsHours, ClosedSessionsReviewed,
         NEW b \in Bookings, NEW p \in Sessions,
         NEW first \in Slots, NEW last \in Slots, NEW st, NEW h,
         \A s \in first..last : SlotOpen(request[p], s),
         Insert(b, request[p], first, last, st, h), closure' = closure
  PROVE  ClosedSessionsReviewed'
<1> SUFFICES ASSUME NEW x \in Bookings, status'[x] = "IN_USE", Closed(room[x], slot[x])'
             PROVE  review'[x] # "none"
  BY DEF ClosedSessionsReviewed
<1>1. x \notin b..(b + (last - first))
  <2> SUFFICES ASSUME x \in b..(b + (last - first)) PROVE FALSE
    OBVIOUS
  <2>1. first + (x - b) \in first..last
    BY LedgerAssumption DEF Bookings, Slots
  <2>2. room'[x] = request[p].room /\ slot'[x] = first + (x - b)
    BY DEF Insert
  <2>3. QED
    BY <2>1, <2>2 DEF SlotOpen, Closed
<1>2. /\ Settled[x] = "IN_USE" /\ room'[x] = room[x] /\ slot'[x] = slot[x]
      /\ review' = review
  BY <1>1 DEF Insert
<1>3. QED
  BY <1>2, SettledSessions DEF Closed

LEMMA ReviewNext ==
  ASSUME TypeOK, ClosureClearsHours, ClosedSessionsReviewed, [Next]_vars
  PROVE  ClosedSessionsReviewed'
<1> USE DEF bookingVars, siteVars
<1>1. ASSUME NEW p \in Sessions, NEW b \in Bookings, NEW s \in Slots, AdvanceBooking(p, s, b)
      PROVE  ClosedSessionsReviewed'
  <2>1. \A t \in s..s : SlotOpen(request[p], t)
    BY <1>1 DEF AdvanceBooking, Reservable, Slots
  <2>2. closure' = closure /\ \E st, h : Insert(b, request[p], s, s, st, h)
    BY <1>1 DEF AdvanceBooking, Reservable
  <2>3. QED
    BY <2>1, <2>2, OpenHoursBegun
<1>2. ASSUME NEW p \in Sessions, NEW b \in Bookings, UseNow(p, b)
      PROVE  ClosedSessionsReviewed'
  <2> DEFINE s == now \div SlotLen
  <2>1. s \in Slots /\ \A t \in s..s : SlotOpen(request[p], t)
    BY <1>2 DEF UseNow, Usable, Slots
  <2>2. closure' = closure /\ Insert(b, request[p], s, s, "IN_USE", FALSE)
    BY <1>2 DEF UseNow, Usable
  <2> HIDE DEF s
  <2>3. QED
    BY <2>1, <2>2, OpenHoursBegun
<1>3. ASSUME NEW p \in Sessions, NEW b \in Bookings, NEW first \in Slots, NEW last \in Slots,
             StaffBooking(p, first, last, b)
      PROVE  ClosedSessionsReviewed'
  BY <1>3, OpenHoursBegun DEF StaffBooking, Holdable
<1>4. ASSUME NEW p \in Sessions, NEW b \in Bookings, MoveBooking(p, b)
      PROVE  ClosedSessionsReviewed'
  <2> SUFFICES ASSUME NEW x \in Bookings, status'[x] = "IN_USE", Closed(room[x], slot[x])'
               PROVE  review'[x] # "none"
    BY DEF ClosedSessionsReviewed
  <2>1. /\ x # b /\ Settled[x] = "IN_USE" /\ room'[x] = room[x]
        /\ slot' = slot /\ closure' = closure /\ review' = review
    BY <1>4, SettledTypes DEF MoveBooking, Movable, TypeOK
  <2>2. QED
    BY <2>1, SettledSessions DEF Closed
<1>5. ASSUME NEW b \in Bookings,
             \/ CheckIn(b) \/ (\E staffAction \in BOOLEAN : Cancel(b, staffAction))
             \/ (\E decision \in {"SCHEDULED", "REJECTED"} : DecideApproval(b, decision))
             \/ CompleteEarly(b) \/ ResolveReview(b) \/ VoidViolation(b)
      PROVE  ClosedSessionsReviewed'
  <2>1. room' = room /\ slot' = slot /\ closure' = closure
    BY <1>5 DEF CheckIn, Enterable, Cancel, DecideApproval, CompleteEarly, ResolveReview, VoidViolation
  <2>2. ASSUME NEW x \in Bookings, status'[x] = "IN_USE"
        PROVE  /\ Settled[x] = "IN_USE" \/ ~Closed(room[x], slot[x])
               /\ review[x] # "none" => review'[x] # "none"
    <3>1. CASE CheckIn(b)
      BY <2>2, <3>1, SettledWaits, SettledTypes DEF CheckIn, Enterable, Undecided, ClosureClearsHours
    <3>2. CASE CompleteEarly(b)
      BY <2>2, <3>2, SettledTypes DEF CompleteEarly, TypeOK
    <3>3. CASE ResolveReview(b)
      BY <2>2, <3>3 DEF ResolveReview, TypeOK
    <3>4. CASE \/ \E staffAction \in BOOLEAN : Cancel(b, staffAction)
               \/ \E decision \in {"SCHEDULED", "REJECTED"} : DecideApproval(b, decision)
               \/ VoidViolation(b)
      BY <2>2, <3>4, SettledTypes DEF Cancel, DecideApproval, VoidViolation
    <3>5. QED
      BY <1>5, <3>1, <3>2, <3>3, <3>4
  <2>3. QED
    BY <2>1, <2>2, SessionsReviewed
<1>6. ASSUME NEW c \in Closures, NEW scope \in ClosureScopes, CreateClosure(c, scope)
      PROVE  ClosedSessionsReviewed'
  <2> SUFFICES ASSUME NEW x \in Bookings, status'[x] = "IN_USE", Closed(room[x], slot[x])'
               PROVE  review'[x] # "none"
    BY DEF ClosedSessionsReviewed
  <2> DEFINE hit == {b \in Bookings : Cell(b) \in scope}
  <2>1. /\ room' = room /\ slot' = slot /\ closure' = [closure EXCEPT ![c] = scope]
        /\ status' = CancelAll(hit) /\ review' = FlagSessions(hit)
    BY <1>6 DEF CreateClosure
  <2>2. Settled[x] = "IN_USE"
    BY <2>1 DEF CancelAll
  <2>3. CASE Cell(x) \in scope
    BY <2>1, <2>2, <2>3 DEF FlagSessions
  <2>4. CASE Cell(x) \notin scope
    <3>1. Closed(room[x], slot[x]) /\ review'[x] = review[x]
      BY <2>1, <2>4 DEF Closed, Cell, FlagSessions, TypeOK
    <3>2. QED
      BY <2>2, <3>1, SettledSessions
  <2>5. QED
    BY <2>3, <2>4
<1>7. ASSUME \/ \E c \in Closures : RevokeClosure(c)
             \/ \E r \in ManagedRooms :
                  DeactivateRoom(r) \/ \E approval \in BOOLEAN : UpdateProfile(r, approval)
             \/ \E u \in ManagedUsers :
                  \/ DeactivateAccount(u)
                  \/ \E decision \in {"ok", "blocked"} : DecideEligibility(u, decision)
             \/ \E d \in Days, hours \in DayHours : SetCalendarOverride(d, hours)
             \/ SanctionOperation \/ Refuse \/ Tick
      PROVE  ClosedSessionsReviewed'
  <2>1. /\ room' = room /\ slot' = slot
        /\ closure' = closure \/ \E c \in Closures : closure' = [closure EXCEPT ![c] = {}]
        /\ \E S : status' = Settled \/ status' = CancelAll(S)
        /\ review' = review \/ \E S : review' = FlagSessions(S)
    BY <1>7 DEF SanctionOperation, RevokeClosure, DeactivateRoom, UpdateProfile,
         DeactivateAccount, DecideEligibility, SetCalendarOverride, VoidIncidentViolations,
         CreateIncident, LiftSuspension, ApplySuspension, AdjustSuspension, Refuse, Tick
  <2>2. \A c \in Closures : closure'[c] \subseteq closure[c]
    BY <2>1 DEF TypeOK
  <2>3. \A b \in Bookings :
          /\ status'[b] = "IN_USE" => Settled[b] = "IN_USE"
          /\ review[b] # "none" => review'[b] # "none"
    BY <2>1 DEF CancelAll, FlagSessions
  <2>4. QED
    BY <2>1, <2>2, <2>3, SessionsReviewed
<1>8. ASSUME RequestStep \/ ClockTick \/ UNCHANGED vars PROVE ClosedSessionsReviewed'
  BY <1>8, SessionsReviewed DEF RequestStep, Fetch, RequestOf, LockTimeout, ClockTick, vars
<1>9. QED
  BY <1>1, <1>2, <1>3, <1>4, <1>5, <1>6, <1>7, <1>8
     DEF Next, Operation, RoomOperation, BookingOperation, SiteOperation

\* Whoever is in a room that has been closed is flagged for the on-site
\* review, holds that began in the same transaction included (maintenance.py).
THEOREM SessionsFlagged == Spec => []ClosedSessionsReviewed
<1>1. Init => ClosedSessionsReviewed
  BY DEF Init, ClosedSessionsReviewed
<1>2. TypeOK /\ ClosureClearsHours /\ ClosedSessionsReviewed /\ [Next]_vars
      => ClosedSessionsReviewed'
  BY ReviewNext
<1>3. QED
  BY <1>1, <1>2, TypeCorrect, ClosuresClear, PTL DEF Spec
=============================================================================
