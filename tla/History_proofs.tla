---------------------------- MODULE History_proofs ----------------------------
(***************************************************************************)
(* What holds across the rows of one account and along their history, for  *)
(* every value of the constants of Reservations: ids, strikes, adjacency,  *)
(* forfeits, quota and cap, suspensions that begin, the promise of         *)
(* RoomHours, and reconciliation repeated, late or over budget.            *)
(*                                                                         *)
(* The properties look at few columns, so the operations fall into four    *)
(* kinds: those that insert rows, the move, those that only rewrite        *)
(* statuses on top of reconciliation, and those that touch no row.  Steps  *)
(* says so once; each theorem is an induction over the four kinds.         *)
(***************************************************************************)
EXTENDS Reservations_proofs, FiniteSetTheorems

\* Rows for consecutive free hours; a student's row is one hour, apart from
\* the account's others, inside quota and cap, and a forfeited hour is past for
\* a staff range.  Only staff hold rows while suspended, and only as holds.
Insertion ==
  \E p \in Sessions, b \in Bookings, first \in Slots, last \in Slots,
     st \in Upcoming, h \in BOOLEAN :
    LET rq == request[p] IN
    /\ rq # None /\ NextId(b)
    /\ Insert(b, rq, first, last, st, h)
    /\ h \/ /\ first = last /\ NotAdjacent(Settled, rq.user, first)
            /\ QuotaLeft(Settled, rq.user, first) /\ UpcomingLeft(Settled, rq.user)
    /\ IF rq.user \in Staff THEN h \/ st = "IN_USE" ELSE ~h
    /\ (h /\ rq.user \in Staff) \/ ~SuspendedNow(rq.user)
    /\ \/ first = last /\ NotForfeited(Settled, rq.user, rq.room, first)
       \/ now < Start(first)
    /\ SettleSanctions /\ now' = now

\* One undecided row goes to another room for its hour.
Move ==
  \E p \in Sessions, b \in Bookings, st \in Undecided :
    LET rq == request[p] IN
    /\ rq # None /\ owner[b] = rq.user /\ Settled[b] \in Undecided
    /\ NotForfeited(Settled, rq.user, rq.room, slot[b])
    /\ ~SuspendedNow(rq.user)
    /\ room' = [room EXCEPT ![b] = rq.room]
    /\ status' = [Settled EXCEPT ![b] = st]
    /\ UNCHANGED <<owner, slot, hold, now>> /\ SettleSanctions

\* What an operation that neither inserts nor moves does to the status of a
\* row, on top of reconciliation.
Rewritten(x) ==
  \/ status'[x] = Settled[x]
  \/ Settled[x] \in Undecided /\ status'[x] \in {"SCHEDULED", "CANCELLED", "REJECTED"}
  \/ Settled[x] = "IN_USE" /\ status'[x] = "COMPLETED"
  \/ CheckIn(x)

\* Statuses of unfinished rows and strikes of no-shows are rewritten.
Rewriting ==
  /\ UNCHANGED <<owner, room, slot, hold, now>>
  /\ \A x \in Bookings : Rewritten(x)
  /\ \A x \in Bookings :
       \/ strike'[x] = SettledStrike[x]
       \/ SettledStrike[x] # "none" /\ strike'[x] # "none"

\* Not even reconciliation: requests, the lock and the clock.
Idle == UNCHANGED <<status, owner, room, slot, hold, strike, ban>> /\ now <= now'

LEMMA Steps ==
  ASSUME TypeOK, [Next]_vars
  PROVE  Insertion \/ Move \/ Rewriting \/ Idle
<1> USE DEF bookingVars, sanctionVars, siteVars
<1>0. now \in Int
  BY LedgerAssumption DEF TypeOK, MaxTime, End, Start
<1>1. ASSUME NEW p \in Sessions, NEW b \in Bookings, NEW s \in Slots, AdvanceBooking(p, s, b)
      PROVE  Insertion
  <2> DEFINE st == IF request[p].profile.approval /\ ~StaffActor(request[p])
                   THEN "PENDING_APPROVAL" ELSE "SCHEDULED"
             h == StaffActor(request[p])
  <2>1. st \in Upcoming /\ h \in BOOLEAN
    BY DEF Upcoming, StaffActor
  <2>2. Insert(b, request[p], s, s, st, h)
    BY <1>1 DEF AdvanceBooking, Reservable
  <2> HIDE DEF st, h
  <2>3. /\ request[p] # None /\ NextId(b) /\ SettleSanctions /\ now' = now
        /\ MayBook(Settled, request[p].user, request[p].room, s)
        /\ ~SuspendedNow(request[p].user)
    BY <1>1 DEF AdvanceBooking, Reservable, MayReserve, MayUse
  <2>4. IF request[p].user \in Staff THEN h ELSE ~h
    BY <1>1 DEF h, AdvanceBooking, Reservable, MayReserve, MayUse, StaffActor
  <2>5. QED
    BY <2>1, <2>2, <2>3, <2>4 DEF Insertion, MayBook
<1>2. ASSUME NEW p \in Sessions, NEW b \in Bookings, UseNow(p, b) PROVE Insertion
  <2> DEFINE s == now \div SlotLen
  <2>1. /\ s \in Slots /\ request[p] # None /\ NextId(b) /\ SettleSanctions /\ now' = now
        /\ MayBook(Settled, request[p].user, request[p].room, s)
        /\ ~SuspendedNow(request[p].user)
        /\ Insert(b, request[p], s, s, "IN_USE", FALSE)
    BY <1>2 DEF UseNow, Usable, MayUse
  <2>2. "IN_USE" \in Upcoming
    BY DEF Upcoming
  <2> HIDE DEF s
  <2>3. QED
    BY <2>1, <2>2 DEF Insertion, MayBook
<1>3. ASSUME NEW p \in Sessions, NEW b \in Bookings, NEW first \in Slots, NEW last \in Slots,
             StaffBooking(p, first, last, b)
      PROVE  Insertion
  <2>1. /\ request[p] # None /\ NextId(b) /\ SettleSanctions /\ now' = now
        /\ now < Start(first) /\ Insert(b, request[p], first, last, "SCHEDULED", TRUE)
        /\ request[p].user \in Staff
    BY <1>3 DEF StaffBooking, Holdable, StaffActor
  <2>2. "SCHEDULED" \in Upcoming
    BY DEF Upcoming
  <2>3. QED
    BY <2>1, <2>2 DEF Insertion
<1>4. ASSUME NEW p \in Sessions, NEW b \in Bookings, MoveBooking(p, b) PROVE Move
  <2> DEFINE st == IF request[p].profile.approval /\ ~StaffActor(request[p])
                   THEN "PENDING_APPROVAL" ELSE "SCHEDULED"
  <2>1. st \in Undecided
    BY DEF Undecided
  <2>2. status' = [Settled EXCEPT ![b] = st]
    BY <1>4 DEF MoveBooking, Movable
  <2> HIDE DEF st
  <2>3. QED
    BY <1>4, <2>1, <2>2 DEF MoveBooking, Movable, MayReserve, MayUse, Move
<1>5. ASSUME NEW b \in Bookings,
             \/ CheckIn(b) \/ (\E staffAction \in BOOLEAN : Cancel(b, staffAction))
             \/ (\E decision \in {"SCHEDULED", "REJECTED"} : DecideApproval(b, decision))
             \/ CompleteEarly(b) \/ ResolveReview(b)
      PROVE  Rewriting
  <2>1. UNCHANGED <<owner, room, slot, hold, now>> /\ SettleSanctions
    BY <1>5 DEF CheckIn, Enterable, Cancel, DecideApproval, CompleteEarly, ResolveReview
  <2>2. \/ CheckIn(b) \/ status' = Settled
        \/ /\ Settled[b] \in Undecided
           /\ \E st \in {"CANCELLED", "SCHEDULED", "REJECTED"} :
                status' = [Settled EXCEPT ![b] = st]
        \/ Settled[b] = "IN_USE" /\ status' = [Settled EXCEPT ![b] = "COMPLETED"]
    BY <1>5 DEF Cancel, DecideApproval, CompleteEarly, ResolveReview, Undecided
  <2>3. \A x \in Bookings : Rewritten(x)
    BY <2>2, SettledTypes DEF Rewritten, CheckIn
  <2>4. QED
    BY <2>1, <2>3 DEF Rewriting, SettleSanctions
<1>6. ASSUME NEW S, status' = Settled \/ status' = CancelAll(S)
      PROVE  \A x \in Bookings : Rewritten(x)
  BY <1>6 DEF CancelAll, Rewritten
<1>7. ASSUME \/ SiteOperation \/ SanctionOperation \/ Refuse \/ Tick
             \/ \E b \in Bookings : VoidViolation(b)
      PROVE  Rewriting
  <2>1. UNCHANGED <<owner, room, slot, hold, now>>
    BY <1>7 DEF SiteOperation, SanctionOperation, RevokeClosure, CreateClosure,
         DeactivateRoom, UpdateProfile, DeactivateAccount, DecideEligibility,
         SetCalendarOverride, VoidIncidentViolations, CreateIncident, LiftSuspension,
         ApplySuspension, AdjustSuspension, Refuse, Tick, VoidViolation
  <2>2. \E S : status' = Settled \/ status' = CancelAll(S)
    BY <1>7 DEF SiteOperation, SanctionOperation, RevokeClosure, CreateClosure,
         DeactivateRoom, UpdateProfile, DeactivateAccount, DecideEligibility,
         SetCalendarOverride, VoidIncidentViolations, CreateIncident, LiftSuspension,
         ApplySuspension, AdjustSuspension, Refuse, Tick, VoidViolation
  <2>3. strike' = SettledStrike \/ \E S : strike' = Voided(S)
    BY <1>7 DEF SiteOperation, SanctionOperation, RevokeClosure, CreateClosure,
         DeactivateRoom, UpdateProfile, DeactivateAccount, DecideEligibility,
         SetCalendarOverride, VoidIncidentViolations, CreateIncident, LiftSuspension,
         ApplySuspension, AdjustSuspension, Refuse, Tick, VoidViolation, SettleSanctions
  <2>4. \A x \in Bookings : \/ strike'[x] = SettledStrike[x]
                            \/ SettledStrike[x] # "none" /\ strike'[x] # "none"
    BY <2>3 DEF Voided
  <2>5. QED
    BY <1>6, <2>1, <2>2, <2>4 DEF Rewriting
<1>8. ASSUME RequestStep \/ ClockTick \/ UNCHANGED vars PROVE Idle
  BY <1>0, <1>8 DEF RequestStep, Fetch, RequestOf, LockTimeout, ClockTick, vars, Idle
<1>9. QED
  BY <1>1, <1>2, <1>3, <1>4, <1>5, <1>7, <1>8
     DEF Next, Operation, RoomOperation, BookingOperation

\* A rewriting revives no finished row and never makes a no-show.
LEMMA RewrittenRow ==
  ASSUME NEW x \in Bookings, Rewritten(x)
  PROVE  \/ status'[x] = Settled[x]
         \/ /\ Settled[x] \in Upcoming
            /\ status'[x] \notin {"FREE", "NO_SHOW"}
<1>1. ASSUME CheckIn(x) PROVE status'[x] \in {Settled[x], "IN_USE"} /\ Settled[x] = "SCHEDULED"
  BY <1>1 DEF CheckIn, Enterable, Settled
<1>2. QED
  BY <1>1 DEF Rewritten, Undecided, Upcoming

(***************************************************************************)
(* What reconciliation does to one row                                     *)
(***************************************************************************)
LEMMA SettledRow ==
  ASSUME TypeOK, NEW x \in Bookings
  PROVE  /\ status[x] = "FREE" <=> Settled[x] = "FREE"
         /\ status[x] \in Final => Settled[x] = status[x]
         /\ Settled[x] = "NO_SHOW" =>
              \/ status[x] = "NO_SHOW"
              \/ status[x] \in Blocking /\ Deadline(slot[x]) <= now
<1>1. /\ status[x] = "FREE" <=> Reconciled[x] = "FREE"
      /\ status[x] \in Final => Reconciled[x] = status[x]
      /\ Reconciled[x] = "NO_SHOW" =>
           \/ status[x] = "NO_SHOW"
           \/ status[x] \in Blocking /\ Deadline(slot[x]) <= now
  BY DEF Reconciled, Expired, Missed, Begun, Ended, Final, Blocking
<1>2. QED
  BY <1>1 DEF Settled, Undecided, Final

\* Reconciliation records a strike exactly where it finds or makes a no-show.
LEMMA SettledStrikeMatches ==
  ASSUME TypeOK, StrikeMatchesNoShow, NEW x \in Bookings
  PROVE  SettledStrike[x] # "none" <=> Settled[x] = "NO_SHOW"
<1>1. Settled[x] = "NO_SHOW" <=> Reconciled[x] = "NO_SHOW"
  BY DEF Settled, Undecided
<1>2. status[x] = "NO_SHOW" => Reconciled[x] = "NO_SHOW"
  BY DEF Reconciled, Expired, Missed, Begun, Ended
<1>3. Recorded[x] # "none" <=> Reconciled[x] = "NO_SHOW"
  BY <1>2 DEF Recorded, StrikeMatchesNoShow
<1>4. QED
  BY <1>1, <1>3 DEF SettledStrike, EligibleStrikes

(***************************************************************************)
(* Ids come from a sequence, and finished rows are never touched           *)
(***************************************************************************)

\* No id is used before the ones below it.
IdsInOrder ==
  \A b, c \in Bookings : c < b /\ status[b] # "FREE" => status[c] # "FREE"

\* So the ids of a range are unused when its first one is.
LEMMA FreshIds ==
  ASSUME IdsInOrder, NEW b \in Bookings, NextId(b), NEW n, NEW x \in Bookings, x \in b..n
  PROVE  status[x] = "FREE"
<1>1. x \in Int /\ b \in Int /\ (x = b \/ b < x)
  BY LedgerAssumption DEF Bookings
<1>2. QED
  BY <1>1 DEF NextId, IdsInOrder

LEMMA IdsNext == ASSUME TypeOK, IdsInOrder, [Next]_vars PROVE IdsInOrder'
<1>1. CASE Insertion
  <2>1. PICK p \in Sessions, b \in Bookings, first \in Slots, last \in Slots,
             st \in Upcoming, h \in BOOLEAN :
               NextId(b) /\ Insert(b, request[p], first, last, st, h)
    BY <1>1 DEF Insertion
  <2> DEFINE new == b..(b + (last - first))
  <2>2. \A x \in Bookings : status'[x] = IF x \in new THEN st ELSE Settled[x]
    BY <2>1 DEF Insert
  <2>3. st # "FREE" /\ b \in Int /\ first \in Int /\ last \in Int
    BY LedgerAssumption DEF Upcoming, Bookings, Slots
  <2>4. ASSUME NEW y \in Bookings, NEW c \in Bookings, c < y, status'[y] # "FREE"
        PROVE  status'[c] # "FREE"
    <3>1. y \in Int /\ c \in Int
      BY LedgerAssumption DEF Bookings
    <3>2. CASE y \in new
      <4>1. c \in new \/ c < b
        BY <2>3, <2>4, <3>1, <3>2
      <4>2. QED
        BY <2>1, <2>2, <2>3, <4>1, SettledRow DEF NextId
    <3>3. CASE y \notin new
      BY <2>2, <2>3, <2>4, <3>3, SettledRow DEF IdsInOrder
    <3>4. QED
      BY <3>2, <3>3
  <2>5. QED
    BY <2>4 DEF IdsInOrder
<1>2. CASE Move
  <2>1. \A x \in Bookings : status'[x] # "FREE" <=> status[x] # "FREE"
    <3>1. PICK b \in Bookings, st \in Undecided :
             Settled[b] \in Undecided /\ status' = [Settled EXCEPT ![b] = st]
      BY <1>2 DEF Move
    <3>2. QED
      BY <3>1, SettledRow, SettledTypes DEF Undecided
  <2>2. QED
    BY <2>1 DEF IdsInOrder
<1>3. CASE Rewriting
  <2>1. \A x \in Bookings : status'[x] # "FREE" <=> status[x] # "FREE"
    BY <1>3, SettledRow, RewrittenRow DEF Rewriting, Upcoming
  <2>2. QED
    BY <2>1 DEF IdsInOrder
<1>4. CASE Idle
  BY <1>4 DEF Idle, IdsInOrder
<1>5. QED
  BY <1>1, <1>2, <1>3, <1>4, Steps

LEMMA SpecIds == Spec => []IdsInOrder
<1>1. Init => IdsInOrder
  BY DEF Init, IdsInOrder
<1>2. TypeOK /\ IdsInOrder /\ [Next]_vars => IdsInOrder'
  BY IdsNext
<1>3. QED
  BY <1>1, <1>2, TypeCorrect, PTL DEF Spec

\* No operation leads out of a final status, and a finished booking keeps its
\* account, room and hour, whatever arrives late (cancel.py, checkin.py,
\* maintenance.py).
THEOREM FinishedStays == Spec => HistoryIsFinal
<1> DEFINE Kept == \A b \in Bookings : status[b] \in Final =>
                     /\ status'[b] = status[b] /\ owner'[b] = owner[b]
                     /\ Cell(b)' = Cell(b) /\ hold'[b] = hold[b]
<1>1. ASSUME TypeOK, IdsInOrder, [Next]_vars PROVE Kept
  <2> SUFFICES ASSUME NEW x \in Bookings, status[x] \in Final
               PROVE  /\ status'[x] = status[x] /\ owner'[x] = owner[x]
                      /\ Cell(x)' = Cell(x) /\ hold'[x] = hold[x]
    OBVIOUS
  <2>1. Settled[x] = status[x] /\ status[x] # "FREE" /\ status[x] \notin Upcoming
    BY <1>1, SettledRow DEF Final, Upcoming
  <2>2. CASE Insertion
    <3>1. PICK p \in Sessions, b \in Bookings, first \in Slots, last \in Slots,
               st \in Upcoming, h \in BOOLEAN :
                 NextId(b) /\ Insert(b, request[p], first, last, st, h)
      BY <2>2 DEF Insertion
    <3>2. x \notin b..(b + (last - first))
      BY <1>1, <2>1, <3>1, FreshIds
    <3>3. QED
      BY <2>1, <3>1, <3>2 DEF Insert, Cell
  <2>3. CASE Move
    <3>1. PICK p \in Sessions, b \in Bookings, st \in Undecided :
             /\ Settled[b] \in Undecided
             /\ room' = [room EXCEPT ![b] = request[p].room]
             /\ status' = [Settled EXCEPT ![b] = st]
             /\ UNCHANGED <<owner, slot, hold>>
      BY <2>3 DEF Move
    <3>2. x # b
      BY <2>1, <3>1 DEF Undecided, Upcoming
    <3>3. QED
      BY <1>1, <2>1, <3>1, <3>2, SettledTypes DEF Cell, TypeOK
  <2>4. CASE Rewriting
    BY <2>1, <2>4, RewrittenRow DEF Rewriting, Cell
  <2>5. CASE Idle
    BY <2>5 DEF Idle, Cell
  <2>6. QED
    BY <1>1, <2>2, <2>3, <2>4, <2>5, Steps
<1>2. QED
  BY <1>1, TypeCorrect, SpecIds, PTL DEF Spec, HistoryIsFinal

(***************************************************************************)
(* Strikes and no-shows                                                    *)
(***************************************************************************)
LEMMA StrikesNext ==
  ASSUME TypeOK, IdsInOrder, StrikeMatchesNoShow, [Next]_vars
  PROVE  StrikeMatchesNoShow'
<1> SUFFICES ASSUME NEW x \in Bookings
             PROVE  strike'[x] # "none" <=> status'[x] = "NO_SHOW"
  BY DEF StrikeMatchesNoShow
<1>1. SettledStrike[x] # "none" <=> Settled[x] = "NO_SHOW"
  BY SettledStrikeMatches
<1>2. CASE Insertion
  <2>1. PICK p \in Sessions, b \in Bookings, first \in Slots, last \in Slots,
             st \in Upcoming, h \in BOOLEAN :
               /\ NextId(b) /\ Insert(b, request[p], first, last, st, h)
               /\ strike' = SettledStrike
    BY <1>2 DEF Insertion, SettleSanctions
  <2>2. CASE x \in b..(b + (last - first))
    <3>1. Settled[x] = "FREE" /\ status'[x] = st
      BY <2>1, <2>2, FreshIds, SettledRow DEF Insert
    <3>2. QED
      BY <1>1, <2>1, <3>1 DEF Upcoming
  <2>3. CASE x \notin b..(b + (last - first))
    BY <1>1, <2>1, <2>3 DEF Insert
  <2>4. QED
    BY <2>2, <2>3
<1>3. CASE Move
  <2>1. PICK b \in Bookings, st \in Undecided :
           /\ Settled[b] \in Undecided /\ status' = [Settled EXCEPT ![b] = st]
           /\ strike' = SettledStrike
    BY <1>3 DEF Move, SettleSanctions
  <2>2. QED
    BY <1>1, <2>1, SettledTypes DEF Undecided
<1>4. CASE Rewriting
  BY <1>1, <1>4, RewrittenRow DEF Rewriting, Upcoming
<1>5. CASE Idle
  BY <1>5 DEF Idle, StrikeMatchesNoShow
<1>6. QED
  BY <1>2, <1>3, <1>4, <1>5, Steps

\* A strike hangs on a booking exactly when that booking is a no-show: nothing
\* overwrites what reconciliation recorded (reconcile.py, sanctions.py).
THEOREM StrikesMatch == Spec => []StrikeMatchesNoShow
<1>1. Init => StrikeMatchesNoShow
  BY DEF Init, StrikeMatchesNoShow
<1>2. TypeOK /\ IdsInOrder /\ StrikeMatchesNoShow /\ [Next]_vars => StrikeMatchesNoShow'
  BY StrikesNext
<1>3. QED
  BY <1>1, <1>2, TypeCorrect, SpecIds, PTL DEF Spec

(***************************************************************************)
(* A student's hours stay apart                                            *)
(***************************************************************************)
LEMMA ApartNext ==
  ASSUME TypeOK, StudentHoursApart, [Next]_vars
  PROVE  StudentHoursApart'
<1> DEFINE Own(x) == ~hold'[x] /\ status'[x] \in Blocking
<1> SUFFICES ASSUME NEW x \in Bookings, NEW y \in Bookings, x # y,
                    owner'[x] = owner'[y], Own(x), Own(y)
             PROVE  slot'[x] \notin (slot'[y]-1)..(slot'[y]+1)
  BY DEF StudentHoursApart
<1>1. ASSUME UNCHANGED <<owner, slot, hold>>,
             \A z \in {x, y} : status'[z] \in Blocking => status[z] \in Blocking
      PROVE  slot'[x] \notin (slot'[y]-1)..(slot'[y]+1)
  BY <1>1 DEF StudentHoursApart
<1>2. CASE Insertion
  <2>1. PICK p \in Sessions, b \in Bookings, first \in Slots, last \in Slots,
             st \in Upcoming, h \in BOOLEAN :
               /\ Insert(b, request[p], first, last, st, h)
               /\ h \/ (first = last /\ NotAdjacent(Settled, request[p].user, first))
    BY <1>2 DEF Insertion
  <2> DEFINE new == b..(b + (last - first))
  <2>2. ASSUME NEW z \in {x, y}, z \notin new
        PROVE  /\ Settled[z] \in Blocking /\ status[z] \in Blocking /\ ~hold[z]
               /\ owner'[z] = owner[z] /\ slot'[z] = slot[z] /\ slot[z] \in Int
    <3>1. Settled[z] \in Blocking /\ ~hold[z] /\ owner'[z] = owner[z] /\ slot'[z] = slot[z]
      BY <2>1, <2>2 DEF Insert
    <3>2. QED
      BY <3>1, SettledFrees, LedgerAssumption DEF TypeOK, Slots
  <2>3. ASSUME NEW z \in {x, y}, z \in new
        PROVE  /\ z = b /\ slot'[z] = first /\ owner'[z] = request[p].user
               /\ NotAdjacent(Settled, request[p].user, first)
    <3>1. ~h /\ slot'[z] = first + (z - b) /\ owner'[z] = request[p].user
      BY <2>1, <2>3 DEF Insert
    <3>2. z \in Int /\ b \in Int /\ first \in Int
      BY LedgerAssumption DEF Bookings, Slots
    <3>3. QED
      BY <2>1, <2>3, <3>1, <3>2
  <2>4. first \in Int
    BY LedgerAssumption DEF Slots
  <2>5. CASE x \notin new /\ y \notin new
    BY <2>2, <2>5 DEF StudentHoursApart
  <2>6. CASE x \in new /\ y \notin new
    <3>1. slot[y] \notin (first-1)..(first+1)
      BY <2>2, <2>3, <2>6 DEF NotAdjacent, OfUser
    <3>2. QED
      BY <2>2, <2>3, <2>4, <2>6, <3>1
  <2>7. CASE x \notin new /\ y \in new
    <3>1. slot[x] \notin (first-1)..(first+1)
      BY <2>2, <2>3, <2>7 DEF NotAdjacent, OfUser
    <3>2. QED
      BY <2>2, <2>3, <2>7, <3>1
  <2>8. QED
    BY <2>3, <2>5, <2>6, <2>7
<1>3. CASE Move
  <2>1. PICK b \in Bookings, st \in Undecided :
           /\ Settled[b] \in Undecided /\ status' = [Settled EXCEPT ![b] = st]
           /\ UNCHANGED <<owner, slot, hold>>
    BY <1>3 DEF Move
  <2>2. \A z \in {x, y} : status'[z] \in Blocking => Settled[z] \in Blocking
    BY <2>1, SettledTypes DEF Undecided, Blocking
  <2>3. QED
    BY <1>1, <2>1, <2>2, SettledFrees
<1>4. CASE Rewriting
  <2>1. \A z \in {x, y} : status'[z] \in Blocking => Settled[z] \in Blocking
    BY <1>4, RewrittenRow DEF Rewriting, Upcoming, Blocking
  <2>2. QED
    BY <1>1, <1>4, <2>1, SettledFrees DEF Rewriting
<1>5. CASE Idle
  BY <1>1, <1>5 DEF Idle
<1>6. QED
  BY <1>2, <1>3, <1>4, <1>5, Steps

\* A student's own bookings never fall in the same or in adjacent hours, a
\* rule across rows that only quota.py enforces.
THEOREM HoursApart == Spec => []StudentHoursApart
<1>1. Init => StudentHoursApart
  BY DEF Init, StudentHoursApart, Blocking
<1>2. TypeOK /\ StudentHoursApart /\ [Next]_vars => StudentHoursApart'
  BY ApartNext
<1>3. QED
  BY <1>1, <1>2, TypeCorrect, PTL DEF Spec

(***************************************************************************)
(* A forfeited room hour                                                   *)
(***************************************************************************)

\* A no-show lies in the past, where no staff range can begin.
NoShowsPast ==
  \A b \in Bookings : status[b] = "NO_SHOW" => Deadline(slot[b]) <= now

LEMMA StartsInOrder ==
  ASSUME NEW s \in Slots, NEW t \in Slots, s <= t
  PROVE  Start(s) \in Int /\ Start(t) \in Int /\ Start(s) <= Start(t)
<1>1. s \in Nat /\ t \in Nat /\ SlotLen \in Nat
  BY LedgerAssumption DEF Slots
<1>2. PICK k \in Nat : t = s + k
  BY <1>1
<1>3. k * SlotLen \in Nat
  BY <1>1, <1>2
<1>4. t * SlotLen = s * SlotLen + k * SlotLen
  BY <1>1, <1>2
<1>5. QED
  BY <1>1, <1>3, <1>4 DEF Start

LEMMA TimesAreNumbers ==
  ASSUME TypeOK
  PROVE  now \in Int /\ \A s \in Slots : Deadline(s) \in Int /\ Start(s) < Deadline(s)
  BY LedgerAssumption DEF TypeOK, Deadline, Start, Slots, MaxTime, End

LEMMA SettledPast ==
  ASSUME TypeOK, NoShowsPast, NEW x \in Bookings, Settled[x] = "NO_SHOW"
  PROVE  Deadline(slot[x]) <= now
  BY SettledRow DEF NoShowsPast

LEMMA PastNext ==
  ASSUME TypeOK, NoShowsPast, [Next]_vars
  PROVE  NoShowsPast'
<1> SUFFICES ASSUME NEW x \in Bookings, status'[x] = "NO_SHOW"
             PROVE  Deadline(slot'[x]) <= now'
  BY DEF NoShowsPast, Deadline, Start
<1>1. CASE Insertion
  BY <1>1, SettledPast DEF Insertion, Insert, Upcoming
<1>2. CASE Move
  <2>1. Settled[x] = "NO_SHOW"
    BY <1>2, SettledTypes DEF Move, Undecided
  <2>2. QED
    BY <1>2, <2>1, SettledPast DEF Move
<1>3. CASE Rewriting
  BY <1>3, SettledPast, RewrittenRow DEF Rewriting
<1>4. CASE Idle
  <2>1. Deadline(slot[x]) <= now /\ now <= now' /\ slot' = slot
    BY <1>4 DEF Idle, NoShowsPast
  <2>2. QED
    BY <2>1, TypeNext, TimesAreNumbers, LedgerAssumption
       DEF TypeOK, MaxTime, End, Start
<1>5. QED
  BY <1>1, <1>2, <1>3, <1>4, Steps

LEMMA SpecPast == Spec => []NoShowsPast
<1>1. Init => NoShowsPast
  BY DEF Init, NoShowsPast
<1>2. TypeOK /\ NoShowsPast /\ [Next]_vars => NoShowsPast'
  BY PastNext
<1>3. QED
  BY <1>1, <1>2, TypeCorrect, PTL DEF Spec

\* Reconciliation forfeits an hour of which its owner has no other booking.
LEMMA SettledForfeit ==
  ASSUME TypeOK, RoomHourExclusive, ForfeitNotReclaimed,
         NEW x \in Bookings, NEW y \in Bookings, owner[x] = owner[y],
         Settled[x] = "NO_SHOW", Settled[y] \in Blocking
  PROVE  Cell(x) # Cell(y)
<1>1. status[y] \in Blocking
  BY SettledFrees
<1>2. status[x] = "NO_SHOW" \/ (status[x] \in Blocking /\ x # y)
  BY SettledRow DEF Blocking
<1>3. QED
  BY <1>1, <1>2 DEF RoomHourExclusive, ForfeitNotReclaimed

LEMMA ForfeitNext ==
  ASSUME TypeOK, RoomHourExclusive, NoShowsPast, ForfeitNotReclaimed, [Next]_vars
  PROVE  ForfeitNotReclaimed'
<1> SUFFICES ASSUME NEW x \in Bookings, NEW y \in Bookings,
                    status'[x] = "NO_SHOW", status'[y] \in Blocking, owner'[x] = owner'[y]
             PROVE  Cell(x)' # Cell(y)'
  BY DEF ForfeitNotReclaimed
<1>1. CASE Insertion
  <2>1. PICK p \in Sessions, b \in Bookings, first \in Slots, last \in Slots,
             st \in Upcoming, h \in BOOLEAN :
               /\ Insert(b, request[p], first, last, st, h)
               /\ \/ /\ first = last
                     /\ NotForfeited(Settled, request[p].user, request[p].room, first)
                  \/ now < Start(first)
    BY <1>1 DEF Insertion
  <2> DEFINE new == b..(b + (last - first))
  <2>2. /\ Settled[x] = "NO_SHOW" /\ owner'[x] = owner[x]
        /\ Cell(x)' = Cell(x)
    BY <2>1 DEF Insert, Upcoming, Cell
  <2>3. CASE y \notin new
    <3>1. Settled[y] \in Blocking /\ owner'[y] = owner[y] /\ Cell(y)' = Cell(y)
      BY <2>1, <2>3 DEF Insert, Cell
    <3>2. QED
      BY <2>2, <3>1, SettledForfeit
  <2>4. CASE y \in new
    <3>1. /\ owner'[y] = request[p].user
          /\ Cell(y)' = <<request[p].room, slot'[y]>>
          /\ slot'[y] = first + (y - b)
      BY <2>1, <2>4 DEF Insert, Cell
    <3>2. y \in Int /\ b \in Int /\ first \in Int /\ last \in Int
      BY LedgerAssumption DEF Bookings, Slots
    <3>3. CASE now < Start(first)
      <4>1. slot'[y] \in Slots /\ first <= slot'[y]
        <5>1. y - b \in 0..(last - first)
          BY <2>4, <3>2
        <5>2. QED
          BY <3>1, <3>2, <5>1, LedgerAssumption DEF Slots
      <4>2. slot[x] \in Slots
        BY DEF TypeOK
      <4>3. Start(slot[x]) < Start(first)
        <5>1. Start(first) \in Int /\ Start(slot[x]) \in Int
          BY <4>2, LedgerAssumption DEF Start, Slots
        <5>2. QED
          BY <2>2, <3>3, <4>2, <5>1, SettledPast, TimesAreNumbers
      <4>4. slot'[y] # slot[x]
        BY <4>1, <4>2, <4>3, StartsInOrder
      <4>5. QED
        BY <2>2, <3>1, <4>4 DEF Cell
    <3>4. CASE /\ first = last
               /\ NotForfeited(Settled, request[p].user, request[p].room, first)
      <4>1. slot'[y] = first
        BY <2>4, <3>1, <3>2, <3>4
      <4>2. Cell(x) # <<request[p].room, first>>
        BY <2>2, <3>1, <3>4 DEF NotForfeited, OfUser
      <4>3. QED
        BY <2>2, <3>1, <4>1, <4>2
    <3>5. QED
      BY <2>1, <3>3, <3>4
  <2>5. QED
    BY <2>3, <2>4
<1>2. CASE Move
  <2>1. PICK p \in Sessions, b \in Bookings, st \in Undecided :
           /\ owner[b] = request[p].user /\ Settled[b] \in Undecided
           /\ NotForfeited(Settled, request[p].user, request[p].room, slot[b])
           /\ room' = [room EXCEPT ![b] = request[p].room]
           /\ status' = [Settled EXCEPT ![b] = st]
           /\ UNCHANGED <<owner, slot>>
    BY <1>2 DEF Move
  <2>2. x # b /\ Settled[x] = "NO_SHOW" /\ Cell(x)' = Cell(x)
    BY <2>1, SettledTypes DEF Undecided, Cell, TypeOK
  <2>3. CASE y = b
    <3>1. Cell(b)' = <<request[p].room, slot[b]>>
      BY <2>1 DEF Cell, TypeOK
    <3>2. QED
      BY <2>1, <2>2, <2>3, <3>1 DEF NotForfeited, OfUser
  <2>4. CASE y # b
    <3>1. Settled[y] \in Blocking /\ Cell(y)' = Cell(y)
      BY <2>1, <2>4, SettledTypes DEF Cell, TypeOK
    <3>2. QED
      BY <2>1, <2>2, <3>1, SettledForfeit
  <2>5. QED
    BY <2>3, <2>4
<1>3. CASE Rewriting
  <2>1. Settled[x] = "NO_SHOW" /\ Settled[y] \in Blocking
    BY <1>3, RewrittenRow DEF Rewriting, Upcoming, Blocking
  <2>2. QED
    BY <1>3, <2>1, SettledForfeit DEF Rewriting, Cell
<1>4. CASE Idle
  BY <1>4 DEF Idle, ForfeitNotReclaimed, Cell
<1>5. QED
  BY <1>1, <1>2, <1>3, <1>4, Steps

\* Whoever forfeited a room hour as a no-show never holds it again, by no mix
\* of walk-ins, reservations, moves and staff ranges (quota.py, booking.py).
THEOREM ForfeitsStand == Spec => []ForfeitNotReclaimed
<1>1. Init => ForfeitNotReclaimed
  BY DEF Init, ForfeitNotReclaimed
<1>2. TypeOK /\ RoomHourExclusive /\ NoShowsPast /\ ForfeitNotReclaimed /\ [Next]_vars
      => ForfeitNotReclaimed'
  BY ForfeitNext
<1>3. QED
  BY <1>1, <1>2, TypeCorrect, ExclusiveHours, SpecPast, PTL DEF Spec

(***************************************************************************)
(* Counting an account's rows                                              *)
(***************************************************************************)
LEMMA FewerRows ==
  ASSUME NEW S \in SUBSET Bookings, NEW T \in SUBSET S
  PROVE  /\ IsFiniteSet(S) /\ Cardinality(S) \in Nat
         /\ Cardinality(T) \in Nat /\ Cardinality(T) <= Cardinality(S)
<1>1. IsFiniteSet(Bookings)
  BY LedgerAssumption, FS_Interval DEF Bookings
<1>2. IsFiniteSet(S)
  BY <1>1, FS_Subset
<1>3. IsFiniteSet(T) /\ Cardinality(T) <= Cardinality(S)
  BY <1>2, FS_Subset
<1>4. QED
  BY <1>2, <1>3, FS_CardinalityType

\* One row more than a set below a limit stays inside the limit.
LEMMA OneRowMore ==
  ASSUME NEW S \in SUBSET Bookings, NEW b \in Bookings, NEW T \in SUBSET (S \cup {b}),
         NEW limit \in Nat, Cardinality(S) < limit
  PROVE  Cardinality(T) <= limit
<1>1. IsFiniteSet(S) /\ Cardinality(S) \in Nat
  BY FewerRows
<1>2. Cardinality(S \cup {b}) \in Nat /\ Cardinality(S \cup {b}) <= Cardinality(S) + 1
  <2>1. /\ IsFiniteSet(S \cup {b})
        /\ Cardinality(S \cup {b}) = IF b \in S THEN Cardinality(S) ELSE Cardinality(S) + 1
    BY <1>1, FS_AddElement
  <2>2. QED
    BY <1>1, <2>1
<1>3. Cardinality(T) \in Nat /\ Cardinality(T) <= Cardinality(S \cup {b})
  BY FewerRows
<1>4. QED
  BY <1>1, <1>2, <1>3

\* Reconciliation charges nobody and brings nobody an upcoming hour.
LEMMA SettledCounts ==
  ASSUME TypeOK, NEW x \in Bookings
  PROVE  /\ Settled[x] \in Charged => status[x] \in Charged
         /\ Settled[x] \in Upcoming => status[x] \in Upcoming
<1>1. Settled[x] \in Charged => Reconciled[x] = Settled[x]
  BY DEF Settled, Charged, Blocking
<1>2. Upcoming \subseteq Charged
  BY DEF Upcoming, Charged, Blocking
<1>3. QED
  BY <1>1, <1>2 DEF Reconciled, Expired, Missed, Begun, Ended, Charged, Blocking, Upcoming

\* Whatever is not inserted neither begins to count nor changes hands or hours.
LEMMA NothingCounted ==
  ASSUME TypeOK, [Next]_vars, ~Insertion, NEW x \in Bookings
  PROVE  /\ owner'[x] = owner[x] /\ slot'[x] = slot[x] /\ hold'[x] = hold[x]
         /\ status'[x] \in Charged => status[x] \in Charged
         /\ status'[x] \in Upcoming => status[x] \in Upcoming
<1>1. CASE Move
  <2>1. PICK b \in Bookings, st \in Undecided :
           /\ Settled[b] \in Undecided /\ status' = [Settled EXCEPT ![b] = st]
           /\ UNCHANGED <<owner, slot, hold>>
    BY <1>1 DEF Move
  <2>2. /\ status'[x] \in Charged => Settled[x] \in Charged
        /\ status'[x] \in Upcoming => Settled[x] \in Upcoming
    BY <2>1, SettledTypes DEF Undecided, Charged, Blocking, Upcoming
  <2>3. QED
    BY <2>1, <2>2, SettledCounts
<1>2. CASE Rewriting
  <2>1. /\ status'[x] \in Charged => Settled[x] \in Charged
        /\ status'[x] \in Upcoming => Settled[x] \in Upcoming
    BY <1>2, RewrittenRow DEF Rewriting, Charged, Blocking, Upcoming
  <2>2. QED
    BY <1>2, <2>1, SettledCounts DEF Rewriting
<1>3. CASE Idle
  BY <1>3 DEF Idle
<1>4. QED
  BY <1>1, <1>2, <1>3, Steps

\* A row as reconciliation leaves it.
KeptRow(x) ==
  /\ owner'[x] = owner[x] /\ slot'[x] = slot[x] /\ hold'[x] = hold[x]
  /\ status'[x] = Settled[x]

\* Of the rows that are no holds an insertion adds at most one, decided by what
\* quota and cap leave.
LEMMA OneInserted ==
  ASSUME TypeOK, Insertion
  PROVE  \E b \in Bookings, u \in Users, s \in Slots :
           /\ now' = now
           /\ \A x \in Bookings : ~hold'[x] =>
                \/ KeptRow(x)
                \/ /\ x = b /\ owner'[x] = u /\ slot'[x] = s
                   /\ QuotaLeft(Settled, u, s) /\ UpcomingLeft(Settled, u)
<1>1. PICK p \in Sessions, b \in Bookings, first \in Slots, last \in Slots,
           st \in Upcoming, h \in BOOLEAN :
             /\ request[p] # None /\ now' = now
             /\ Insert(b, request[p], first, last, st, h)
             /\ h \/ /\ first = last
                     /\ QuotaLeft(Settled, request[p].user, first)
                     /\ UpcomingLeft(Settled, request[p].user)
  BY DEF Insertion
<1> DEFINE new == b..(b + (last - first))
<1>2. request[p].user \in Users
  BY <1>1 DEF TypeOK, Requests
<1>3. b \in Int /\ first \in Int /\ last \in Int
  BY LedgerAssumption DEF Bookings, Slots
<1>4. ASSUME NEW x \in Bookings, ~hold'[x]
      PROVE  \/ KeptRow(x)
             \/ /\ x = b /\ owner'[x] = request[p].user /\ slot'[x] = first
                /\ QuotaLeft(Settled, request[p].user, first)
                /\ UpcomingLeft(Settled, request[p].user)
  <2>1. CASE x \notin new
    BY <1>1, <2>1 DEF Insert, KeptRow
  <2>2. CASE x \in new
    <3>1. /\ ~h /\ owner'[x] = request[p].user /\ slot'[x] = first + (x - b)
      BY <1>1, <1>4, <2>2 DEF Insert
    <3>2. x = b
      BY <1>1, <1>3, <2>2, <3>1
    <3>3. slot'[x] = first
      BY <1>3, <3>1, <3>2
    <3>4. QED
      BY <1>1, <3>1, <3>2, <3>3
  <2>3. QED
    BY <2>1, <2>2
<1>5. QED
  BY <1>1, <1>2, <1>4

LEMMA QuotaNext == ASSUME TypeOK, QuotaKept, [Next]_vars PROVE QuotaKept'
<1> SUFFICES ASSUME NEW u \in Users, NEW d \in Days
             PROVE  Cardinality({b \in OwnHours(u, Charged) : Day(slot[b]) = d}') <= DailyQuota
  BY DEF QuotaKept
<1> DEFINE Before == {b \in OwnHours(u, Charged) : Day(slot[b]) = d}
           After  == {x \in Bookings : /\ owner'[x] = u /\ status'[x] \in Charged
                                       /\ ~hold'[x] /\ Day(slot'[x]) = d}
<1>1. {b \in OwnHours(u, Charged) : Day(slot[b]) = d}' = After
  BY DEF OwnHours, OfUser, Day
<1>2. /\ Before \in SUBSET Bookings /\ Cardinality(Before) \in Nat
      /\ Cardinality(Before) <= DailyQuota /\ DailyQuota \in Nat
  <2>1. Before \in SUBSET Bookings /\ Cardinality(Before) <= DailyQuota
    BY DEF QuotaKept, OwnHours, OfUser
  <2>2. QED
    BY <2>1, FewerRows, LedgerAssumption
<1>3. ASSUME After \subseteq Before PROVE Cardinality(After) <= DailyQuota
  <2>1. Cardinality(After) \in Nat /\ Cardinality(After) <= Cardinality(Before)
    BY <1>2, <1>3, FewerRows
  <2>2. QED
    BY <1>2, <2>1
<1>4. CASE ~Insertion
  <2>1. After \subseteq Before
    BY <1>4, NothingCounted DEF OwnHours, OfUser
  <2>2. QED
    BY <1>1, <1>3, <2>1
<1>5. CASE Insertion
  <2>1. PICK b \in Bookings, v \in Users, s \in Slots :
           \A x \in Bookings : ~hold'[x] =>
             \/ KeptRow(x)
             \/ x = b /\ owner'[x] = v /\ slot'[x] = s /\ QuotaLeft(Settled, v, s)
    BY <1>5, OneInserted
  <2>2. ASSUME NEW x \in After, KeptRow(x) PROVE x \in Before
    BY <2>2, SettledCounts DEF KeptRow, OwnHours, OfUser
  <2>3. CASE \A x \in After : KeptRow(x)
    BY <1>1, <1>3, <2>2, <2>3
  <2>4. CASE \E x \in After : ~KeptRow(x)
    <3> DEFINE Counted == {x \in OfUser(Settled, u, Charged) : Day(slot[x]) = d}
    <3>1. b \in After /\ u = v /\ d = Day(s) /\ QuotaLeft(Settled, u, s)
      BY <2>1, <2>4
    <3>2. Counted \in SUBSET Bookings /\ Cardinality(Counted) < DailyQuota
      BY <3>1 DEF QuotaLeft, OfUser
    <3>3. After \in SUBSET (Counted \cup {b})
      BY <2>1 DEF KeptRow, OfUser
    <3>4. Cardinality(After) <= DailyQuota
      BY <1>2, <3>2, <3>3, OneRowMore
    <3>5. QED
      BY <1>1, <3>4
  <2>5. QED
    BY <2>3, <2>4
<1>6. QED
  BY <1>4, <1>5

\* On no date does a student hold more hours than the quota, no-shows included,
\* whatever was cancelled, moved or walked into meanwhile (quota.py).
THEOREM QuotasHold == Spec => []QuotaKept
<1>1. Init => QuotaKept
  <2> SUFFICES ASSUME Init, NEW u \in Users, NEW d \in Days
               PROVE  Cardinality({b \in OwnHours(u, Charged) : Day(slot[b]) = d}) <= DailyQuota
    BY DEF QuotaKept
  <2>1. {b \in OwnHours(u, Charged) : Day(slot[b]) = d} = {}
    BY DEF Init, OwnHours, OfUser, Charged, Blocking
  <2>2. Cardinality({}) <= DailyQuota
    BY FS_EmptySet, LedgerAssumption
  <2>3. QED
    BY <2>1, <2>2, Zenon
<1>2. TypeOK /\ QuotaKept /\ [Next]_vars => QuotaKept'
  BY QuotaNext
<1>3. QED
  BY <1>1, <1>2, TypeCorrect, PTL DEF Spec

LEMMA UpcomingNext == ASSUME TypeOK, UpcomingKept, [Next]_vars PROVE UpcomingKept'
<1> SUFFICES ASSUME NEW u \in Users
             PROVE  Cardinality({b \in OwnHours(u, Upcoming) : now < End(slot[b])}') <= MaxUpcoming
  BY DEF UpcomingKept
<1> DEFINE Before == {b \in OwnHours(u, Upcoming) : now < End(slot[b])}
           After  == {x \in Bookings : /\ owner'[x] = u /\ status'[x] \in Upcoming
                                       /\ ~hold'[x] /\ now' < End(slot'[x])}
<1>1. {b \in OwnHours(u, Upcoming) : now < End(slot[b])}' = After
  BY DEF OwnHours, OfUser, End, Start
<1>2. /\ Before \in SUBSET Bookings /\ Cardinality(Before) \in Nat
      /\ Cardinality(Before) <= MaxUpcoming /\ MaxUpcoming \in Nat
  <2>1. Before \in SUBSET Bookings /\ Cardinality(Before) <= MaxUpcoming
    BY DEF UpcomingKept, OwnHours, OfUser
  <2>2. QED
    BY <2>1, FewerRows, LedgerAssumption
<1>3. ASSUME After \subseteq Before PROVE Cardinality(After) <= MaxUpcoming
  <2>1. Cardinality(After) \in Nat /\ Cardinality(After) <= Cardinality(Before)
    BY <1>2, <1>3, FewerRows
  <2>2. QED
    BY <1>2, <2>1
<1>4. CASE ~Insertion
  <2>1. ASSUME NEW x \in After PROVE now < End(slot[x])
    <3>1. slot'[x] = slot[x] /\ now' < End(slot[x]) /\ End(slot[x]) \in Int
      BY <1>4, <2>1, NothingCounted, LedgerAssumption DEF TypeOK, End, Start, Slots
    <3>2. now \in Int /\ now' \in Int
      BY TypeNext, LedgerAssumption DEF TypeOK, MaxTime, End, Start
    <3>3. now <= now'
      BY <1>4, <3>2, Steps DEF Move, Rewriting, Idle
    <3>4. QED
      BY <3>1, <3>2, <3>3
  <2>2. After \subseteq Before
    BY <1>4, <2>1, NothingCounted DEF OwnHours, OfUser
  <2>3. QED
    BY <1>1, <1>3, <2>2
<1>5. CASE Insertion
  <2>1. PICK b \in Bookings, v \in Users, s \in Slots :
           /\ now' = now
           /\ \A x \in Bookings : ~hold'[x] =>
                KeptRow(x) \/ (x = b /\ owner'[x] = v /\ UpcomingLeft(Settled, v))
    BY <1>5, OneInserted
  <2>2. ASSUME NEW x \in After, KeptRow(x) PROVE x \in Before
    BY <2>1, <2>2, SettledCounts DEF KeptRow, OwnHours, OfUser
  <2>3. CASE \A x \in After : KeptRow(x)
    BY <1>1, <1>3, <2>2, <2>3
  <2>4. CASE \E x \in After : ~KeptRow(x)
    <3> DEFINE Counted == {x \in OfUser(Settled, u, Upcoming) : now < End(slot[x])}
    <3>1. b \in After /\ u = v /\ UpcomingLeft(Settled, u)
      BY <2>1, <2>4
    <3>2. Counted \in SUBSET Bookings /\ Cardinality(Counted) < MaxUpcoming
      BY <3>1 DEF UpcomingLeft, OfUser
    <3>3. After \in SUBSET (Counted \cup {b})
      BY <2>1 DEF KeptRow, OfUser
    <3>4. Cardinality(After) <= MaxUpcoming
      BY <1>2, <3>2, <3>3, OneRowMore
    <3>5. QED
      BY <1>1, <3>4
  <2>5. QED
    BY <2>3, <2>4
<1>6. QED
  BY <1>4, <1>5

\* A student never holds more unfinished hours than the cap, sessions in
\* progress included (quota.py).
THEOREM CapsHold == Spec => []UpcomingKept
<1>1. Init => UpcomingKept
  <2> SUFFICES ASSUME Init, NEW u \in Users
               PROVE  Cardinality({b \in OwnHours(u, Upcoming) : now < End(slot[b])}) <= MaxUpcoming
    BY DEF UpcomingKept
  <2>1. {b \in OwnHours(u, Upcoming) : now < End(slot[b])} = {}
    BY DEF Init, OwnHours, OfUser, Upcoming
  <2>2. Cardinality({}) <= MaxUpcoming
    BY FS_EmptySet, LedgerAssumption
  <2>3. QED
    BY <2>1, <2>2, Zenon
<1>2. TypeOK /\ UpcomingKept /\ [Next]_vars => UpcomingKept'
  BY UpcomingNext
<1>3. QED
  BY <1>1, <1>2, TypeCorrect, PTL DEF Spec

(***************************************************************************)
(* A suspension that begins                                                *)
(***************************************************************************)

\* Staff hold their hours instead of reserving them, and a hold needs no
\* check-in: they have no missed reservation, hence no strike for one.
StaffNeverMiss ==
  \A b \in Bookings : owner[b] \in Staff =>
    status[b] # "NO_SHOW" /\ (hold[b] \/ status[b] \notin Undecided)

LEMMA SettledStaff ==
  ASSUME TypeOK, StaffNeverMiss, NEW x \in Bookings, owner[x] \in Staff
  PROVE  Settled[x] # "NO_SHOW" /\ (hold[x] \/ Settled[x] \notin Undecided)
<1>1. Settled[x] = "NO_SHOW" => Reconciled[x] = "NO_SHOW"
  BY DEF Settled
<1>2. Reconciled[x] # "NO_SHOW"
  BY DEF Reconciled, Expired, Missed, Begun, Ended, StaffNeverMiss, Undecided
<1>3. QED
  BY <1>1, <1>2, SettledWaits DEF StaffNeverMiss

\* A rewriting makes nobody wait who did not.
LEMMA RewrittenWaits ==
  ASSUME TypeOK, NEW x \in Bookings, Rewritten(x), status'[x] \in Undecided
  PROVE  Settled[x] \in Undecided
<1>1. ASSUME CheckIn(x) PROVE status'[x] = "IN_USE"
  BY <1>1, SettledTypes DEF CheckIn
<1>2. QED
  BY <1>1 DEF Rewritten, Undecided

LEMMA StaffNext == ASSUME TypeOK, StaffNeverMiss, [Next]_vars PROVE StaffNeverMiss'
<1> SUFFICES ASSUME NEW x \in Bookings, owner'[x] \in Staff
             PROVE  status'[x] # "NO_SHOW" /\ (hold'[x] \/ status'[x] \notin Undecided)
  BY DEF StaffNeverMiss
<1>1. CASE Insertion
  <2>1. PICK p \in Sessions, b \in Bookings, first \in Slots, last \in Slots,
             st \in Upcoming, h \in BOOLEAN :
               /\ Insert(b, request[p], first, last, st, h)
               /\ request[p].user \in Staff => h \/ st = "IN_USE"
    BY <1>1 DEF Insertion
  <2>2. CASE x \in b..(b + (last - first))
    BY <2>1, <2>2 DEF Insert, Upcoming, Undecided
  <2>3. CASE x \notin b..(b + (last - first))
    BY <2>1, <2>3, SettledStaff DEF Insert
  <2>4. QED
    BY <2>2, <2>3
<1>2. CASE Move
  <2>1. PICK b \in Bookings, st \in Undecided :
           /\ Settled[b] \in Undecided /\ status' = [Settled EXCEPT ![b] = st]
           /\ UNCHANGED <<owner, hold>>
    BY <1>2 DEF Move
  <2>2. status'[x] = Settled[x] \/ (Settled[x] \in Undecided /\ status'[x] \in Undecided)
    BY <2>1, SettledTypes
  <2>3. QED
    BY <2>1, <2>2, SettledStaff DEF Undecided
<1>3. CASE Rewriting
  <2>1. Rewritten(x) /\ owner' = owner /\ hold' = hold
    BY <1>3 DEF Rewriting
  <2>2. QED
    BY <2>1, SettledStaff, RewrittenRow, RewrittenWaits
<1>4. CASE Idle
  BY <1>4 DEF Idle, StaffNeverMiss
<1>5. QED
  BY <1>1, <1>2, <1>3, <1>4, Steps

LEMMA SpecStaff == Spec => []StaffNeverMiss
<1>1. Init => StaffNeverMiss
  BY DEF Init, StaffNeverMiss, Undecided
<1>2. TypeOK /\ StaffNeverMiss /\ [Next]_vars => StaffNeverMiss'
  BY StaffNext
<1>3. QED
  BY <1>1, <1>2, TypeCorrect, PTL DEF Spec

LEMMA StaffNotSanctioned ==
  ASSUME TypeOK, StrikeMatchesNoShow, StaffNeverMiss, NEW u \in Staff
  PROVE  u \notin Sanctioned
<1>1. ASSUME NEW b \in Bookings, owner[b] = u PROVE Recorded[b] # "live"
  <2>1. Reconciled[b] # "NO_SHOW" /\ status[b] # "NO_SHOW"
    BY <1>1 DEF Reconciled, Expired, Missed, Begun, Ended, StaffNeverMiss, Undecided
  <2>2. strike[b] = "none"
    BY <2>1 DEF StrikeMatchesNoShow
  <2>3. QED
    BY <2>1, <2>2 DEF Recorded
<1>2. EligibleStrikes(u) = {}
  BY <1>1 DEF EligibleStrikes
<1>3. ~(Cardinality({}) >= StrikeThreshold)
  BY FS_EmptySet, LedgerAssumption
<1>4. ~(Cardinality(EligibleStrikes(u)) >= StrikeThreshold)
  BY <1>2, <1>3, Zenon
<1>5. QED
  BY <1>4 DEF Sanctioned

\* Who is sanctioned by a reconciliation is suspended after it and waits for
\* nothing.
LEMMA SanctionedLose ==
  ASSUME TypeOK, NEW u \in Sanctioned
  PROVE  /\ SuspendedNow(u)
         /\ \A b \in Bookings : owner[b] = u => Settled[b] \notin Undecided
<1>1. u \in Users /\ SettledBan[u] = [from |-> now, until |-> now + SuspensionLen]
  BY DEF SettledBan, Sanctioned
<1>2. SuspendedNow(u)
  BY <1>1, TimesAreNumbers, LedgerAssumption DEF SuspendedNow
<1>3. QED
  BY <1>2 DEF Settled, Undecided

\* A suspension begins only by reconciliation or by staff.
LEMMA BansBegin ==
  ASSUME TypeOK, [Next]_vars, NEW u \in Users, ban'[u].until # 0,
         ban[u].until = 0 \/ ban'[u].from # ban[u].from
  PROVE  (u \in Sanctioned /\ ~Idle) \/ \E end \in SuspensionEnds : ApplySuspension(u, end)
<1>1. ASSUME SettledBan[u].until # 0, ban[u].until = 0 \/ SettledBan[u].from # ban[u].from
      PROVE  u \in Sanctioned
  BY <1>1 DEF SettledBan
<1>2. ~Idle
  BY DEF Idle
<1>3. CASE ban' = SettledBan
  BY <1>1, <1>2, <1>3
<1>4. ASSUME NEW v \in Users, NEW end \in SuspensionEnds, ApplySuspension(v, end)
      PROVE  u \in Sanctioned \/ ApplySuspension(u, end)
  BY <1>1, <1>4, SettledTypes DEF ApplySuspension
<1>5. ASSUME NEW v \in Users, NEW end \in SuspensionEnds, AdjustSuspension(v, end)
      PROVE  u \in Sanctioned
  <2>1. ban'[u].from = SettledBan[u].from /\ SettledBan[u].until # 0
    BY <1>5, SettledTypes DEF AdjustSuspension
  <2>2. QED
    BY <1>1, <2>1
<1>6. ASSUME NEW v \in Users, LiftSuspension(v) PROVE u \in Sanctioned
  <2>1. u # v /\ ban'[u] = SettledBan[u]
    BY <1>6, SettledTypes DEF LiftSuspension
  <2>2. QED
    BY <1>1, <2>1
<1>7. ban # ban'
  OBVIOUS
<1>8. \/ ban' = SettledBan
      \/ \E v \in Users : \/ LiftSuspension(v)
                          \/ \E end \in SuspensionEnds :
                               ApplySuspension(v, end) \/ AdjustSuspension(v, end)
  BY <1>7 DEF Next, RequestStep, Operation, RoomOperation, BookingOperation, SiteOperation,
     SanctionOperation, Fetch, LockTimeout, AdvanceBooking, UseNow, MoveBooking, StaffBooking,
     CheckIn, Cancel, DecideApproval, CompleteEarly, ResolveReview, VoidViolation,
     RevokeClosure, CreateClosure, DeactivateRoom, UpdateProfile, DeactivateAccount,
     DecideEligibility, SetCalendarOverride, VoidIncidentViolations, CreateIncident,
     Refuse, Tick, ClockTick, SettleSanctions, sanctionVars, vars
<1>9. QED
  BY <1>2, <1>3, <1>4, <1>5, <1>6, <1>8

\* In the transaction that starts a suspension the account loses every
\* reservation and request: nothing the same transaction inserts or moves
\* escapes (sanctions.py, reconcile.py:279).
THEOREM CalendarCleared == Spec => SuspensionClearsCalendar
<1> DEFINE Cleared ==
      \A u \in Users :
        ban'[u].until # 0 /\ (ban[u].until = 0 \/ ban'[u].from # ban[u].from)
        => \A b \in Bookings : owner'[b] = u => status'[b] \notin Undecided
<1>1. ASSUME TypeOK, StrikeMatchesNoShow, StaffNeverMiss, [Next]_vars PROVE Cleared
  <2> SUFFICES ASSUME NEW u \in Users, ban'[u].until # 0,
                      ban[u].until = 0 \/ ban'[u].from # ban[u].from,
                      NEW x \in Bookings, owner'[x] = u, status'[x] \in Undecided
               PROVE  FALSE
    OBVIOUS
  <2>1. CASE \E end \in SuspensionEnds : ApplySuspension(u, end)
    BY <2>1 DEF ApplySuspension, CancelAll, Undecided
  <2>2. CASE u \in Sanctioned /\ ~Idle
    <3>1. /\ u \notin Staff /\ SuspendedNow(u)
          /\ \A b \in Bookings : owner[b] = u => Settled[b] \notin Undecided
      BY <1>1, <2>2, StaffNotSanctioned, SanctionedLose
    <3>2. CASE Insertion
      <4>1. PICK p \in Sessions, b \in Bookings, first \in Slots, last \in Slots,
                 st \in Upcoming, h \in BOOLEAN :
                   /\ Insert(b, request[p], first, last, st, h)
                   /\ request[p].user \in Staff \/ ~SuspendedNow(request[p].user)
        BY <3>2 DEF Insertion
      <4>2. owner'[x] # request[p].user
        BY <3>1, <4>1
      <4>3. QED
        BY <3>1, <4>1, <4>2 DEF Insert
    <3>3. CASE Move
      <4>1. PICK p \in Sessions, b \in Bookings, st \in Undecided :
               /\ owner[b] = request[p].user /\ Settled[b] \in Undecided
               /\ status' = [Settled EXCEPT ![b] = st] /\ owner' = owner
        BY <3>3 DEF Move
      <4>2. Settled[x] \in Undecided
        BY <1>1, <4>1, SettledTypes
      <4>3. QED
        BY <3>1, <4>1, <4>2
    <3>4. CASE Rewriting
      BY <1>1, <3>1, <3>4, RewrittenWaits DEF Rewriting
    <3>5. QED
      BY <1>1, <2>2, <3>2, <3>3, <3>4, Steps
  <2>3. QED
    BY <1>1, <2>1, <2>2, BansBegin
<1>2. QED
  BY <1>1, TypeCorrect, StrikesMatch, SpecStaff, PTL DEF Spec, SuspensionClearsCalendar

\* A student suspended by the reconciliation of the very request that is being
\* answered neither gets a booking nor enters a room (booking.py, checkin.py).
THEOREM SuspendedStayOut == Spec => SuspensionBitesAtOnce
<1> DEFINE Barred ==
      \A b \in Bookings :
        /\ ~hold'[b]
        /\ Created(b) \/ (status[b] # "IN_USE" /\ status'[b] = "IN_USE")
        => ~Suspended(owner[b])'
<1>1. ASSUME TypeOK, [Next]_vars PROVE Barred
  <2> SUFFICES ASSUME NEW x \in Bookings, ~hold'[x],
                      Created(x) \/ (status[x] # "IN_USE" /\ status'[x] = "IN_USE")
               PROVE  ~Suspended(owner[x])'
    OBVIOUS
  <2>1. ASSUME NEW u, ban' = SettledBan, now' = now, ~SuspendedNow(u), owner'[x] = u
        PROVE  ~Suspended(owner[x])'
    BY <2>1 DEF Suspended, SuspendedNow
  <2>2. ASSUME status'[x] = Settled[x], hold'[x] = hold[x] PROVE FALSE
    <3>1. status[x] # "FREE" /\ status[x] # "IN_USE" /\ Settled[x] = "IN_USE"
      BY <1>1, <2>2, SettledRow DEF Created
    <3>2. Reconciled[x] = "IN_USE"
      BY <3>1 DEF Settled
    <3>3. QED
      BY <2>2, <3>1, <3>2 DEF Reconciled, Begun
  <2>3. CASE Insertion
    <3>1. PICK p \in Sessions, b \in Bookings, first \in Slots, last \in Slots,
               st \in Upcoming, h \in BOOLEAN :
                 /\ Insert(b, request[p], first, last, st, h)
                 /\ h \/ ~SuspendedNow(request[p].user)
                 /\ ban' = SettledBan /\ now' = now
      BY <2>3 DEF Insertion, SettleSanctions
    <3>2. CASE x \in b..(b + (last - first))
      BY <2>1, <3>1, <3>2 DEF Insert
    <3>3. CASE x \notin b..(b + (last - first))
      BY <2>2, <3>1, <3>3 DEF Insert
    <3>4. QED
      BY <3>2, <3>3
  <2>4. CASE Move
    BY <1>1, <2>2, <2>4, SettledTypes, SettledWaits DEF Move, Undecided, Created
  <2>5. CASE Rewriting
    <3>1. CASE CheckIn(x)
      BY <2>1, <3>1 DEF CheckIn, Enterable, SettleSanctions
    <3>2. CASE ~CheckIn(x)
      BY <1>1, <2>2, <2>5, <3>2, SettledRow DEF Rewriting, Rewritten, Created, Undecided
    <3>3. QED
      BY <3>1, <3>2
  <2>6. CASE Idle
    BY <2>6 DEF Idle, Created
  <2>7. QED
    BY <1>1, <2>3, <2>4, <2>5, <2>6, Steps
<1>2. QED
  BY <1>1, TypeCorrect, PTL DEF Spec, SuspensionBitesAtOnce

(***************************************************************************)
(* The promise about room hours                                            *)
(***************************************************************************)

\* HourOf of any rows, so that it can be said of the rows before and after.
Stage(st) == CASE st \in Undecided -> "held" [] st = "IN_USE" -> "busy" [] OTHER -> "spent"

HoldersAt(st, rm, sl, c) == {b \in Bookings : st[b] \in Blocking /\ <<rm[b], sl[b]>> = c}

HourAt(st, ow, rm, sl, c) ==
  LET b == CHOOSE x \in HoldersAt(st, rm, sl, c) : TRUE IN
  IF HoldersAt(st, rm, sl, c) = {} THEN [state |-> "free"]
  ELSE [state |-> Stage(st[b]), holder |-> ow[b]]

LEMMA HourIs ==
  ASSUME NEW c
  PROVE  /\ HourOf(c) = HourAt(status, owner, room, slot, c)
         /\ HourOf(c)' = HourAt(status', owner', room', slot', c)
  BY DEF HourOf, HourAt, HoldersAt, Stage, Cell

\* The hour shows its only holder.
LEMMA HourTaken ==
  ASSUME NEW st, NEW ow, NEW rm, NEW sl, NEW c,
         NEW b \in HoldersAt(st, rm, sl, c), \A x \in HoldersAt(st, rm, sl, c) : x = b
  PROVE  HourAt(st, ow, rm, sl, c) = [state |-> Stage(st[b]), holder |-> ow[b]]
<1>1. (CHOOSE x \in HoldersAt(st, rm, sl, c) : TRUE) = b
  OBVIOUS
<1>2. QED
  BY <1>1 DEF HourAt

LEMMA HourUntaken ==
  ASSUME NEW st, NEW ow, NEW rm, NEW sl, NEW c, HoldersAt(st, rm, sl, c) = {}
  PROVE  HourAt(st, ow, rm, sl, c) = Hours!Free
  BY DEF HourAt, Hours!Free

\* Only the account that held the row ends it, where it was.
LEMMA SpentRow ==
  ASSUME TypeOK, [Next]_vars, NEW x \in Bookings, status'[x] = "COMPLETED"
  PROVE  status[x] \in Blocking /\ Cell(x)' = Cell(x) /\ owner'[x] = owner[x]
<1>1. ASSUME Settled[x] \in Blocking PROVE status[x] \in Blocking
  BY <1>1, SettledFrees
<1>2. CASE Insertion
  BY <1>1, <1>2 DEF Insertion, Insert, Upcoming, Blocking, Cell
<1>3. CASE Move
  <2>1. PICK b \in Bookings, st \in Undecided : \E r :
           /\ Settled[b] \in Undecided /\ status' = [Settled EXCEPT ![b] = st]
           /\ room' = [room EXCEPT ![b] = r] /\ UNCHANGED <<owner, slot>>
    BY <1>3 DEF Move
  <2>2. x # b /\ Settled[x] = "COMPLETED"
    BY <2>1, SettledTypes DEF Undecided
  <2>3. QED
    BY <1>1, <2>1, <2>2 DEF Blocking, Cell, TypeOK
<1>4. CASE Rewriting
  <2>1. Rewritten(x) /\ UNCHANGED <<owner, room, slot>>
    BY <1>4 DEF Rewriting
  <2>2. Settled[x] \in Blocking
    BY <2>1, RewrittenRow DEF Blocking, Upcoming
  <2>3. QED
    BY <1>1, <2>1, <2>2 DEF Cell
<1>5. CASE Idle
  BY <1>5 DEF Idle, Blocking, Cell
<1>6. QED
  BY <1>2, <1>3, <1>4, <1>5, Steps

\* Whoever is inside stays with the hour, and the hour with the account.
LEMMA BusyRow ==
  ASSUME TypeOK, IdsInOrder, [Next]_vars, NEW x \in Bookings, status[x] \in {"IN_USE", "COMPLETED"}
  PROVE  /\ status'[x] \in {status[x], "COMPLETED"}
         /\ Cell(x)' = Cell(x) /\ owner'[x] = owner[x]
<1>1. Settled[x] \in {status[x], "COMPLETED"}
  BY DEF Settled, Reconciled, Expired, Missed, Begun, Ended, Undecided
<1>2. CASE Insertion
  <2>1. PICK p \in Sessions, b \in Bookings, first \in Slots, last \in Slots,
             st \in Upcoming, h \in BOOLEAN :
               NextId(b) /\ Insert(b, request[p], first, last, st, h)
    BY <1>2 DEF Insertion
  <2>2. x \notin b..(b + (last - first))
    BY <2>1, FreshIds
  <2>3. QED
    BY <1>1, <2>1, <2>2 DEF Insert, Cell
<1>3. CASE Move
  <2>1. PICK b \in Bookings, st \in Undecided : \E r :
           /\ Settled[b] \in Undecided /\ status' = [Settled EXCEPT ![b] = st]
           /\ room' = [room EXCEPT ![b] = r] /\ UNCHANGED <<owner, slot>>
    BY <1>3 DEF Move
  <2>2. x # b
    BY <1>1, <2>1 DEF Undecided
  <2>3. QED
    BY <1>1, <2>1, <2>2, SettledTypes DEF Cell, TypeOK
<1>4. CASE Rewriting
  <2>1. Rewritten(x) /\ UNCHANGED <<owner, room, slot>>
    BY <1>4 DEF Rewriting
  <2>2. status'[x] \in {Settled[x], "COMPLETED"}
    BY <1>1, <2>1 DEF Rewritten, CheckIn, Enterable, Undecided
  <2>3. QED
    BY <1>1, <2>1, <2>2 DEF Cell
<1>5. CASE Idle
  BY <1>5 DEF Idle, Cell
<1>6. QED
  BY <1>2, <1>3, <1>4, <1>5, Steps

LEMMA HourTyped ==
  ASSUME NEW st, NEW ow, NEW rm, NEW sl, NEW c,
         \A b \in Bookings : st[b] \in Blocking => ow[b] \in Users
  PROVE  HourAt(st, ow, rm, sl, c) \in Hours!HourStates
<1>1. CASE HoldersAt(st, rm, sl, c) = {}
  BY <1>1, HourUntaken DEF Hours!HourStates
<1>2. CASE HoldersAt(st, rm, sl, c) # {}
  <2> DEFINE b == CHOOSE x \in HoldersAt(st, rm, sl, c) : TRUE
  <2>1. b \in HoldersAt(st, rm, sl, c)
    BY <1>2
  <2>2. ow[b] \in Users /\ Stage(st[b]) \in {"held", "busy", "spent"}
    BY <2>1 DEF HoldersAt, Stage
  <2>3. HourAt(st, ow, rm, sl, c) = [state |-> Stage(st[b]), holder |-> ow[b]]
    BY <1>2 DEF HourAt
  <2> HIDE DEF b
  <2>4. QED
    BY <2>2, <2>3 DEF Hours!HourStates
<1>3. QED
  BY <1>1, <1>2

LEMMA HourLives ==
  ASSUME TypeOK, IdsInOrder, RoomHourExclusive, RoomHourExclusive', [Next]_vars, NEW c \in Cells
  PROVE  Hours!MayBecome(HourOf(c), HourOf(c)')
<1> DEFINE old == HoldersAt(status, room, slot, c)
           new == HoldersAt(status', room', slot', c)
<1>1. /\ \A x, y \in old : x = y
      /\ \A x, y \in new : x = y
  BY DEF RoomHourExclusive, HoldersAt, Cell
<1>2. ASSUME NEW b \in old PROVE HourOf(c) = [state |-> Stage(status[b]), holder |-> owner[b]]
  BY <1>1, HourIs, HourTaken
<1>3. ASSUME NEW b \in new PROVE HourOf(c)' = [state |-> Stage(status'[b]), holder |-> owner'[b]]
  BY <1>1, HourIs, HourTaken
<1>4. ASSUME NEW x \in new, Stage(status'[x]) = "spent"
      PROVE  x \in old /\ owner'[x] = owner[x]
  <2>1. x \in Bookings /\ status'[x] = "COMPLETED"
    BY <1>4 DEF HoldersAt, Stage, Blocking, Undecided
  <2>2. QED
    BY <2>1, SpentRow DEF HoldersAt, Cell
<1>5. CASE old = {}
  <2>1. HourOf(c) = Hours!Free
    BY <1>5, HourIs, HourUntaken
  <2>2. CASE new = {}
    BY <2>1, <2>2, HourIs, HourUntaken DEF Hours!MayBecome, Hours!Free
  <2>3. ASSUME NEW x \in new PROVE Hours!MayBecome(HourOf(c), HourOf(c)')
    BY <1>3, <1>4, <1>5, <2>1 DEF Hours!MayBecome, Hours!Free
  <2>4. QED
    BY <2>2, <2>3
<1>6. ASSUME NEW b \in old, status[b] \in Undecided
      PROVE  Hours!MayBecome(HourOf(c), HourOf(c)')
  <2>1. HourOf(c) = [state |-> "held", holder |-> owner[b]]
    <3>1. Stage(status[b]) = "held"
      BY <1>6 DEF Stage, Undecided
    <3>2. QED
      BY <1>2, <3>1
  <2>2. CASE new = {}
    BY <2>1, <2>2, HourIs, HourUntaken DEF Hours!MayBecome, Hours!Free
  <2>3. ASSUME NEW x \in new PROVE Hours!MayBecome(HourOf(c), HourOf(c)')
    <3>1. Stage(status'[x]) = "spent" => owner'[x] = owner[b]
      BY <1>1, <1>4
    <3>2. QED
      BY <1>3, <2>1, <3>1 DEF Hours!MayBecome
  <2>4. QED
    BY <2>2, <2>3
<1>7. ASSUME NEW b \in old, status[b] \notin Undecided
      PROVE  Hours!MayBecome(HourOf(c), HourOf(c)')
  <2>1. b \in Bookings /\ status[b] \in {"IN_USE", "COMPLETED"}
    BY <1>7 DEF HoldersAt, Blocking, Undecided
  <2>2. /\ status'[b] \in {status[b], "COMPLETED"}
        /\ Cell(b)' = Cell(b) /\ owner'[b] = owner[b]
    BY <2>1, BusyRow
  <2>3. b \in new
    BY <2>1, <2>2 DEF HoldersAt, Cell, Blocking
  <2>4. /\ HourOf(c) = [state |-> Stage(status[b]), holder |-> owner[b]]
        /\ HourOf(c)' = [state |-> Stage(status'[b]), holder |-> owner[b]]
    BY <1>2, <1>3, <2>2, <2>3
  <2>5. \/ Stage(status[b]) = "busy" /\ Stage(status'[b]) \in {"busy", "spent"}
        \/ Stage(status[b]) = "spent" /\ Stage(status'[b]) = "spent"
    BY <2>1, <2>2 DEF Stage, Undecided
  <2>6. QED
    BY <2>4, <2>5 DEF Hours!MayBecome
<1>8. QED
  BY <1>5, <1>6, <1>7

\* Seen by room and hour the service keeps the promise of RoomHours: from the
\* moment somebody is inside, the hour stays with that account and is never
\* sold again, and no hour is spent that was not held (booking.py, reconcile.py).
THEOREM HoursKeepPromise == Spec => HoursKept
<1> DEFINE hours == [c \in Cells |-> HourOf(c)]
<1>1. Init => Hours!Init
  <2> SUFFICES ASSUME Init, NEW c \in Cells PROVE HourOf(c) = Hours!Free
    BY DEF Hours!Init
  <2>1. HoldersAt(status, room, slot, c) = {}
    BY DEF Init, HoldersAt, Blocking
  <2>2. QED
    BY <2>1, HourIs, HourUntaken
<1>2. TypeOK /\ TypeOK' /\ IdsInOrder /\ RoomHourExclusive /\ RoomHourExclusive' /\ [Next]_vars
      => Hours!Transaction
  <2> SUFFICES ASSUME TypeOK, TypeOK', IdsInOrder, RoomHourExclusive, RoomHourExclusive',
                      [Next]_vars
               PROVE  Hours!Transaction
    OBVIOUS
  <2>1. ASSUME NEW c \in Cells PROVE HourOf(c)' \in Hours!HourStates
    <3>1. \A b \in Bookings : status'[b] \in Blocking => owner'[b] \in Users
      BY DEF TypeOK, Blocking
    <3>2. QED
      BY <3>1, HourIs, HourTyped
  <2>2. \A c \in Cells : Hours!MayBecome(HourOf(c), HourOf(c)')
    BY HourLives
  <2>3. QED
    BY <2>1, <2>2 DEF Hours!Transaction
<1>3. QED
  BY <1>1, <1>2, TypeCorrect, SpecIds, ExclusiveHours, PTL DEF Spec, HoursKept, Hours!Spec

(***************************************************************************)
(* Reconciliation repeated, and reconciliation that comes late             *)
(***************************************************************************)

\* Unless a backlog stops it, every stage runs.
LEMMA AllStagesRun ==
  ASSUME ~Backlogged
  PROVE  /\ \A k \in 1..4 : k \in StagesRun
         /\ \A k \in 1..4 : Cardinality(Due(k)) <= ReconcileBudget
BY DEF Backlogged, StagesRun

\* The scheduler leaves no row due, but for those excused.
LEMMA NothingDue ==
  ASSUME TypeOK, Tick, NEW b \in Bookings
  PROVE  /\ ~Expired(b)' /\ ~Begun(b)' /\ ~Ended(b)'
         /\ Missed(b)' => Missed(b) /\ Covered(b)
<1>1. ~Backlogged /\ \A k \in 1..4 : k \in StagesRun
  BY AllStagesRun DEF Tick
<1>2. /\ status' = Settled /\ now' = now /\ slot' = slot /\ hold' = hold
  BY DEF Tick
<1>3. Settled[b] \in {Reconciled[b], "CANCELLED"}
  BY DEF Settled
<1>4. CASE Settled[b] = "CANCELLED"
  BY <1>2, <1>4 DEF Expired, Missed, Begun, Ended
<1>5. CASE Settled[b] = Reconciled[b]
  <2>1. ~Expired(b)' /\ ~Begun(b)'
    BY <1>1, <1>2, <1>5 DEF Reconciled, Expired, Missed, Begun, Ended
  <2>2. ~Ended(b)'
    <3>1. slot[b] \in Slots
      BY DEF TypeOK
    <3>2. now \in Int /\ End(slot[b]) \in Int
      BY <3>1, TimesAreNumbers, LedgerAssumption DEF End, Start, Slots
    <3>3. Begun(b) => ~(End(slot[b]) <= now)
      BY <3>2 DEF Begun
    <3>4. QED
      BY <1>1, <1>2, <1>5, <3>3 DEF Reconciled, Expired, Missed, Begun, Ended, End, Start
  <2>3. Missed(b)' => Missed(b) /\ Covered(b)
    BY <1>1, <1>2, <1>5 DEF Reconciled, Expired, Missed, Begun, Ended
  <2>4. QED
    BY <2>1, <2>2, <2>3
<1>6. QED
  BY <1>3, <1>4, <1>5

LEMMA NoBacklogLeft ==
  ASSUME TypeOK, Tick
  PROVE  ~Backlogged'
<1>1. \A k \in 1..4 : Due(k) \in SUBSET Bookings /\ Cardinality(Due(k)) <= ReconcileBudget
  BY AllStagesRun DEF Tick, Due
<1>2. ASSUME NEW k \in 1..4 PROVE Due(k)' \in SUBSET Due(k)
  <2>1. CASE k = 2
    BY <2>1, NothingDue DEF Due
  <2>2. ASSUME NEW b \in Bookings, b \in Due(k)', k # 2 PROVE FALSE
    <3>1. CASE k = 1
      BY <2>2, <3>1, NothingDue DEF Due
    <3>2. CASE k = 3
      BY <2>2, <3>2, NothingDue DEF Due
    <3>3. CASE k = 4
      BY <2>2, <3>3, NothingDue DEF Due
    <3>4. QED
      BY <1>2, <2>2, <3>1, <3>2, <3>3
  <2>3. Due(k)' \subseteq Bookings
    BY DEF Due
  <2>4. QED
    BY <2>1, <2>2, <2>3
<1>3. ASSUME NEW k \in 1..4 PROVE Cardinality(Due(k)') <= ReconcileBudget
  <2>1. Cardinality(Due(k)') <= Cardinality(Due(k)) /\ Cardinality(Due(k)') \in Nat
        /\ Cardinality(Due(k)) \in Nat
    BY <1>1, <1>2, FewerRows
  <2>2. QED
    BY <1>1, <2>1, LedgerAssumption
<1>4. QED
  BY <1>3 DEF Backlogged, StagesRun

\* After the scheduler nobody is left to be sanctioned.
LEMMA NobodyLeft ==
  ASSUME TypeOK, StrikeMatchesNoShow', Tick
  PROVE  /\ \A b \in Bookings : Reconciled[b]' = status'[b] /\ Recorded[b]' = strike'[b]
         /\ Sanctioned' = {}
<1>1. ASSUME NEW b \in Bookings PROVE Reconciled[b]' = status'[b]
  <2>1. /\ ~Expired(b)' /\ ~Begun(b)' /\ ~Ended(b)'
        /\ Missed(b)' => Covered(b)'
    BY <1>1, NothingDue DEF Tick, siteVars, Covered, Cell
  <2>2. QED
    BY <1>1, <2>1 DEF Reconciled
<1>2. ASSUME NEW b \in Bookings PROVE Recorded[b]' = strike'[b]
  BY <1>1, <1>2 DEF Recorded, StrikeMatchesNoShow
<1>3. ASSUME NEW u \in Sanctioned PROVE u \notin Sanctioned'
  <2>1. SuspendedNow(u) /\ u \in Users
    BY SanctionedLose DEF Sanctioned
  <2>2. Suspended(u)'
    BY <2>1 DEF Tick, SettleSanctions, SuspendedNow, Suspended
  <2>3. QED
    BY <2>2 DEF Sanctioned
<1>4. ASSUME NEW u \in Users \ Sanctioned PROVE u \notin Sanctioned'
  <2>1. Suspended(u) \/ ~(Cardinality(EligibleStrikes(u)) >= StrikeThreshold)
    BY DEF Sanctioned, Tick
  <2>2. CASE Suspended(u)
    <3>1. Suspended(u)'
      BY <2>2, SettledTypes DEF Tick, SettleSanctions, SettledBan, Suspended
    <3>2. QED
      BY <3>1 DEF Sanctioned
  <2>3. CASE ~(Cardinality(EligibleStrikes(u)) >= StrikeThreshold)
    <3>1. ASSUME NEW b \in Bookings, owner[b] = u PROVE strike'[b] = Recorded[b]
      BY <3>1 DEF Tick, SettleSanctions, SettledStrike
    <3>2. EligibleStrikes(u)' = EligibleStrikes(u)
      BY <1>2, <3>1 DEF EligibleStrikes, Tick, Deadline, Start
    <3>3. QED
      BY <2>3, <3>2 DEF Sanctioned
  <2>4. QED
    BY <2>1, <2>2, <2>3
<1>5. Sanctioned' \subseteq Users
  BY DEF Sanctioned
<1>6. QED
  BY <1>1, <1>2, <1>3, <1>4, <1>5

\* A reconciliation right after another changes nothing and is not refused:
\* requests, ticks and retries may reconcile as often as they like
\* (reconcile.py, protocol.py).
ReconciledTwice ==
  [][Tick => /\ ~Backlogged'
             /\ Settled' = status' /\ SettledStrike' = strike' /\ SettledBan' = ban']_vars

\* Every run of the scheduler leaves the ledger settled.
THEOREM OnceIsEnough == Spec => ReconciledTwice
<1> DEFINE Done == /\ ~Backlogged'
                   /\ Settled' = status' /\ SettledStrike' = strike' /\ SettledBan' = ban'
<1>1. ASSUME TypeOK, TypeOK', StrikeMatchesNoShow', Tick PROVE Done
  <2>1. \A b \in Bookings : Reconciled[b]' = status'[b] /\ Recorded[b]' = strike'[b]
    BY <1>1, NobodyLeft
  <2>2. Sanctioned' = {}
    BY <1>1, NobodyLeft
  <2>3. Settled' = status'
    BY <1>1, <2>1, <2>2 DEF Settled, TypeOK
  <2>4. SettledStrike' = strike'
    BY <1>1, <2>1, <2>2 DEF SettledStrike, TypeOK
  <2>5. SettledBan' = ban'
    BY <1>1, <2>2 DEF SettledBan, TypeOK
  <2>6. QED
    BY <1>1, <2>3, <2>4, <2>5, NoBacklogLeft
<1>2. TypeOK /\ TypeOK' /\ StrikeMatchesNoShow' /\ [Next]_vars => [Tick => Done]_vars
  BY <1>1
<1>3. QED
  BY <1>2, TypeCorrect, StrikesMatch, PTL DEF Spec, ReconciledTwice

\* A run of the scheduler ends every booking whose hour is over, unless an
\* incident excuses it (reconcile.py).  With ticks that never stop this is what
\* makes EveryBookingEnds true.
NoneOverstays ==
  [][Tick => \A b \in Bookings :
       status'[b] \in Upcoming => now' < End(slot[b])' \/ Covered(b)']_vars

\* Every run of the scheduler ends what is over.
THEOREM RunsEndBookings == Spec => NoneOverstays
<1> DEFINE Ends == \A b \in Bookings :
             status'[b] \in Upcoming => now' < End(slot[b])' \/ Covered(b)'
<1>1. ASSUME TypeOK, TypeOK', Tick PROVE Ends
  <2> SUFFICES ASSUME NEW b \in Bookings, status'[b] \in Upcoming, ~(now' < End(slot[b])')
               PROVE  Covered(b)'
    OBVIOUS
  <2>1. slot[b] \in Slots /\ slot' = slot /\ now' = now
    BY <1>1 DEF TypeOK, Tick
  <2>2. /\ now \in Int /\ Start(slot[b]) \in Int /\ Deadline(slot[b]) \in Int
        /\ Start(slot[b]) < Deadline(slot[b]) /\ Deadline(slot[b]) < End(slot[b])
        /\ End(slot[b]) \in Int
    BY <1>1, <2>1, TimesAreNumbers, LedgerAssumption DEF Start, End, Deadline, Slots
  <2>3. End(slot[b]) <= now
    BY <2>1, <2>2 DEF End, Start
  <2>4. ~Expired(b)' /\ ~Ended(b)' /\ (Missed(b)' => Covered(b))
    BY <1>1, NothingDue
  <2>5. Missed(b)'
    BY <2>1, <2>2, <2>3, <2>4 DEF Upcoming, Expired, Ended, Missed, Start, End, Deadline
  <2>6. QED
    BY <1>1, <2>4, <2>5 DEF Tick, siteVars, Covered, Cell
<1>2. TypeOK /\ TypeOK' /\ [Next]_vars => [Tick => Ends]_vars
  BY <1>1
<1>3. QED
  BY <1>2, TypeCorrect, PTL DEF Spec, NoneOverstays

\* What the four stages make of the row b with status st at time t, if none of
\* them is stopped by a backlog.
StagesAt(t, st, b) ==
  CASE st = "PENDING_APPROVAL" /\ Start(slot[b]) <= t                         -> "REJECTED"
    [] st = "SCHEDULED" /\ ~hold[b] /\ Deadline(slot[b]) <= t /\ ~Covered(b)  -> "NO_SHOW"
    [] st = "SCHEDULED" /\ hold[b] /\ Start(slot[b]) <= t /\ t < End(slot[b]) -> "IN_USE"
    [] st = "SCHEDULED" /\ hold[b] /\ End(slot[b]) <= t                       -> "COMPLETED"
    [] st = "IN_USE" /\ End(slot[b]) <= t                                     -> "COMPLETED"
    [] OTHER                                                                  -> st

\* A scheduler that was down, or slow, ends no booking differently, while the
\* same incidents are on record: a row reconciled late is what it would be had
\* it been reconciled in time and again now (reconcile.py, where every stage
\* compares with the row's own hour; v3.md:30).
THEOREM LateIsInTime ==
  ASSUME TypeOK, NEW b \in Bookings
  PROVE  /\ ~Backlogged => Reconciled[b] = StagesAt(now, status[b], b)
         /\ \A early, late \in Nat : early <= late =>
              StagesAt(late, StagesAt(early, status[b], b), b) = StagesAt(late, status[b], b)
<1>1. slot[b] \in Slots
  BY DEF TypeOK
<1>2. /\ now \in Int /\ Start(slot[b]) \in Int /\ Deadline(slot[b]) \in Int
      /\ Start(slot[b]) < Deadline(slot[b]) /\ Deadline(slot[b]) < End(slot[b])
      /\ End(slot[b]) \in Int
  BY <1>1, TimesAreNumbers, LedgerAssumption DEF Start, End, Deadline, Slots
<1>3. ASSUME ~Backlogged PROVE Reconciled[b] = StagesAt(now, status[b], b)
  <2>1. \A k \in 1..4 : k \in StagesRun
    BY <1>3, AllStagesRun
  <2>2. Reconciled[b] = CASE Expired(b)              -> "REJECTED"
                          [] Missed(b) /\ ~Covered(b) -> "NO_SHOW"
                          [] Begun(b)                -> "IN_USE"
                          [] Ended(b)                -> "COMPLETED"
                          [] OTHER                   -> status[b]
    BY <2>1 DEF Reconciled
  <2>3. QED
    BY <1>2, <2>2 DEF StagesAt, Expired, Missed, Begun, Ended
<1>4. ASSUME NEW early \in Nat, NEW late \in Nat, early <= late
      PROVE  StagesAt(late, StagesAt(early, status[b], b), b) = StagesAt(late, status[b], b)
  <2>1. CASE status[b] = "SCHEDULED" /\ hold[b]
    BY <1>2, <1>4, <2>1 DEF StagesAt
  <2>2. CASE status[b] = "SCHEDULED" /\ ~hold[b]
    BY <1>2, <1>4, <2>2 DEF StagesAt
  <2>3. CASE status[b] # "SCHEDULED"
    BY <1>2, <1>4, <2>3 DEF StagesAt
  <2>4. QED
    BY <2>1, <2>2, <2>3
<1>5. QED
  BY <1>3, <1>4

(***************************************************************************)
(* A backlog that never clears                                             *)
(***************************************************************************)

\* More requests, no-shows or endings are due than the budget allows.
Wedged == \E k \in {1, 2, 4} : Cardinality(Due(k)) > ReconcileBudget

\* A row of an overfull stage is left as it is, and stays due as time passes.
LEMMA StaysDue ==
  ASSUME TypeOK, [Next]_vars, NEW k \in {1, 2, 4}, Cardinality(Due(k)) > ReconcileBudget
  PROVE  Backlogged /\ Due(k) \subseteq Due(k)'
<1>1. Cardinality(Due(k)) \in Nat /\ ReconcileBudget \in Nat
  <2>1. Due(k) \in SUBSET Bookings
    BY DEF Due
  <2>2. QED
    BY <2>1, FewerRows, LedgerAssumption
<1>2. k \notin StagesRun /\ Backlogged /\ (k = 1 => StagesRun = {})
  BY <1>1 DEF StagesRun, Backlogged
<1>3. Sanctioned = {}
  BY <1>2 DEF Sanctioned
<1>4. ASSUME NEW b \in Due(k) PROVE Settled[b] = status[b]
  <2>1. b \in Bookings /\ slot[b] \in Slots
    BY DEF Due, TypeOK
  <2>2. now \in Int /\ End(slot[b]) \in Int
    BY <2>1, TimesAreNumbers, LedgerAssumption DEF End, Start, Slots
  <2>3. CASE k = 1
    <3>1. Expired(b)
      BY <2>3 DEF Due
    <3>2. QED
      BY <1>2, <1>3, <2>1, <2>3, <3>1 DEF Settled, Reconciled, Expired, Missed, Begun, Ended
  <2>4. CASE k = 2
    <3>1. Missed(b)
      BY <2>4 DEF Due
    <3>2. QED
      BY <1>2, <1>3, <2>1, <2>4, <3>1 DEF Settled, Reconciled, Expired, Missed, Begun, Ended
  <2>5. CASE k = 4
    <3>1. Ended(b) /\ ~Begun(b)
      BY <2>2, <2>5 DEF Due, Begun, Ended
    <3>2. QED
      BY <1>2, <1>3, <2>1, <2>5, <3>1 DEF Settled, Reconciled, Expired, Missed, Ended
  <2>6. QED
    BY <2>3, <2>4, <2>5
<1>5. /\ UNCHANGED <<slot, hold>> /\ now' \in {now, now + 1}
      /\ status' = status \/ status' = Settled
  BY <1>2 DEF Next, Operation, RequestStep, Fetch, LockTimeout, Refuse, Tick, ClockTick,
     bookingVars, vars
<1>6. ASSUME NEW b \in Due(k) PROVE b \in Due(k)'
  <2>1. b \in Bookings /\ slot[b] \in Slots
    BY DEF Due, TypeOK
  <2>2. /\ now \in Int /\ Start(slot[b]) \in Int /\ Deadline(slot[b]) \in Int
        /\ End(slot[b]) \in Int
    BY <2>1, TimesAreNumbers, LedgerAssumption DEF Start, End, Deadline, Slots
  <2>3. /\ Start(slot[b]) <= now => Start(slot[b]) <= now'
        /\ Deadline(slot[b]) <= now => Deadline(slot[b]) <= now'
        /\ End(slot[b]) <= now => End(slot[b]) <= now'
    BY <1>5, <2>2
  <2>4. status'[b] = status[b] /\ slot'[b] = slot[b] /\ hold'[b] = hold[b]
    BY <1>4, <1>5
  <2>5. CASE k = 1
    <3>1. Expired(b)
      BY <2>5 DEF Due
    <3>2. Expired(b)'
      BY <2>3, <2>4, <3>1 DEF Expired, Start
    <3>3. QED
      BY <2>1, <2>5, <3>2 DEF Due
  <2>6. CASE k = 2
    <3>1. Missed(b)
      BY <2>6 DEF Due
    <3>2. Missed(b)'
      BY <2>3, <2>4, <3>1 DEF Missed, Deadline, Start
    <3>3. QED
      BY <2>1, <2>6, <3>2 DEF Due
  <2>7. CASE k = 4
    <3>1. Ended(b)
      BY <2>7 DEF Due
    <3>2. Ended(b)'
      BY <2>3, <2>4, <3>1 DEF Ended, End, Start
    <3>3. QED
      BY <2>1, <2>7, <3>2 DEF Due
  <2>8. QED
    BY <2>5, <2>6, <2>7
<1>7. QED
  BY <1>2, <1>6

\* Once more rows are due at one of these stages than the budget allows, every
\* operation is answered BUSY from then on, and the scheduler changes nothing
\* about it, for whatever budget and however many ticks: BacklogClears fails not
\* only on the instance of the run wedge (reconcile.py, scheduler.py:65).
THEOREM WedgeIsForever == Spec => [](Wedged => []Backlogged)
<1>1. TypeOK /\ Wedged /\ [Next]_vars => Wedged'
  <2> SUFFICES ASSUME TypeOK, [Next]_vars, NEW k \in {1, 2, 4},
                      Cardinality(Due(k)) > ReconcileBudget
               PROVE  Cardinality(Due(k)') > ReconcileBudget
    BY DEF Wedged
  <2>1. Due(k) \subseteq Due(k)'
    BY StaysDue
  <2>2. Due(k)' \in SUBSET Bookings /\ Due(k) \in SUBSET Due(k)'
    BY <2>1 DEF Due
  <2>3. /\ Cardinality(Due(k)) \in Nat /\ Cardinality(Due(k)') \in Nat
        /\ Cardinality(Due(k)) <= Cardinality(Due(k)')
    BY <2>2, FewerRows
  <2>4. QED
    BY <2>3, LedgerAssumption
<1>2. TypeOK /\ Wedged => Backlogged
  <2> SUFFICES ASSUME NEW k \in {1, 2, 4}, Cardinality(Due(k)) > ReconcileBudget
               PROVE  Backlogged
    BY DEF Wedged
  <2>1. Due(k) \in SUBSET Bookings
    BY DEF Due
  <2>2. Cardinality(Due(k)) \in Nat /\ ReconcileBudget \in Nat
    BY <2>1, FewerRows, LedgerAssumption
  <2>3. QED
    BY <2>2 DEF Backlogged, StagesRun
<1>3. QED
  BY <1>1, <1>2, TypeCorrect, PTL DEF Spec
=============================================================================
