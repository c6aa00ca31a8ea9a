----------------------------- MODULE Availability -----------------------------
(***************************************************************************)
(* The read side of the booking service: the public grid                   *)
(* (core/services/availability.py) and the suggestions made from it        *)
(* (core/services/suggest.py), the staff timeline (timeline.py) and the    *)
(* page behind the code on a room's door (core/views/public.py).           *)
(* Pages read the stored rows without a lock and without reconciling, so   *)
(* every operator here is over `status` itself and not over Settled, which *)
(* is what an operation will decide by.                                    *)
(***************************************************************************)
EXTENDS Reservations

CONSTANT GridHorizonDays  \* how far ahead the deployment's settings let the grid offer
                          \* hours; HorizonDays is what the policy in force accepts

ASSUME AvailabilityAssumption == GridHorizonDays \in Nat

HoursShown == 4       \* hours the panel lists, the soonest ones

(***************************************************************************)
(* The grid                                                                *)
(***************************************************************************)
Occupied(r, s) == \E b \in Bookings : status[b] \in Blocking /\ Cell(b) = <<r, s>>

\* Mutant: a closure in force is overlooked.
OfferedDespiteClosure(r, s) ==
  profile[r].active /\ s \in openHours /\ <<r, s>> \notin ClassHours
\* Nothing on the calendar takes hour s of the room away.
Offered(r, s) ==
  /\ profile[r].active /\ s \in openHours
  /\ ~Closed(r, s) /\ <<r, s>> \notin ClassHours

Unclaimed(r, s) == Offered(r, s) /\ ~Occupied(r, s) /\ ~profile[r].display

Admits(u, r) ==
  /\ profile[r].members =>
       (u \in Staff /\ account[u] # "inactive") \/ <<u, r>> \in Listed
  /\ <<u, r>> \in Audience

\* The cell offers the viewer a reservation.
Bookable(u, r, s) ==
  /\ Unclaimed(r, s)
  /\ now < Start(s) /\ WithinHorizon(s, GridHorizonDays)
  /\ Admits(u, r)

(***************************************************************************)
(* Suggestions                                                             *)
(***************************************************************************)
CanAct(u) == account[u] = "ok" /\ ~Suspended(u)

\* Mutant: only the hours the viewer holds, not the ones beside them.
ConflictsSameHour(u, without) ==
  {slot[b] : b \in OfUser(status, u, Blocking) \ without}
\* The hours the viewer holds and the ones beside them.
Conflicts(u, without) ==
  UNION {(slot[b]-1)..(slot[b]+1) : b \in OfUser(status, u, Blocking) \ without}

\* The room hours the panel for date d lists.
HourGroups(u, d) ==
  LET open == {c \in Cells : /\ Day(c[2]) = d /\ Bookable(u, c[1], c[2])
                             /\ c[2] \notin Conflicts(u, {})
                             /\ QuotaLeft(status, u, c[2]) /\ UpcomingLeft(status, u)}
      sooner(s) == {t \in {c[2] : c \in open} : t < s}
  IN {c \in open : Cardinality(sooner(c[2])) < HoursShown}

\* The rooms the panel says may be walked into.
FreeNow(u) ==
  LET s == now \div SlotLen IN
  {r \in Rooms : /\ Unclaimed(r, s)
                 /\ ~profile[r].approval /\ ~profile[r].members
                 /\ s \notin Conflicts(u, {})
                 /\ NotForfeited(status, u, r, s)
                 /\ QuotaLeft(status, u, s) /\ UpcomingLeft(status, u)}

\* The other rooms a refused reservation of hour s, or the page that moves the
\* bookings in `without`, offers at the same hour.
ForSlot(u, s, without) ==
  {r \in Rooms : /\ Unclaimed(r, s) /\ Admits(u, r)
                 /\ now < Start(s) /\ s \notin Conflicts(u, without)}

\* The bookings of the viewer whose page offers a move.
MovableOf(u) == {b \in OfUser(status, u, Undecided) : now < Start(slot[b])}

\* The booking the page behind the code on the door offers to check in to: the
\* viewer's own in the hour in progress, by the stored row, staff holds included.
DoorReady(u, r) ==
  {b \in OfUser(status, u, {"SCHEDULED"}) :
     /\ Cell(b) = <<r, now \div SlotLen>>
     /\ Start(slot[b]) <= now /\ now < Deadline(slot[b])}

\* The room hours the staff timeline offers for a department booking.
Gaps ==
  {c \in Cells : /\ Offered(c[1], c[2]) /\ now < Start(c[2])
                 /\ \A b \in Bookings : status[b] \in Charged => Cell(b) # c}

\* The reservation passed every other rule and is refused because the hour is
\* taken, which the code looks at last.
SlotTaken(rq, s) ==
  /\ now < Start(s) /\ WithinHorizon(s, HorizonDays)
  /\ MayReserve(rq) /\ SlotOpen(rq, s)
  /\ MayBook(Settled, rq.user, rq.room, s)
  /\ ~SlotFree(Settled, rq.room, s)

(***************************************************************************)
(* The promise of suggest.py                                               *)
(***************************************************************************)

\* The panel: an hour it lists is refused exactly when it lies beyond the horizon of
\* the policy, and every room free now can be walked into.
PanelHolds(u) ==
  /\ \A d \in Days : \A c \in HourGroups(u, d) :
       Reservable(RequestOf(u, c[1]), c[2]) <=> WithinHorizon(c[2], HorizonDays)
  /\ \A r \in FreeNow(u) : Usable(RequestOf(u, r), now \div SlotLen)

\* The door: what it shows as ready can be checked in to unless it is a staff hold,
\* which needs no check-in and is in use once it is reconciled.
DoorHolds(u) ==
  \A r \in Rooms : \A b \in DoorReady(u, r) : Enterable(b) <=> ~hold[b]

\* The rooms named to whoever moves a booking: each can take it.
MovesHold(u) ==
  \A b \in MovableOf(u) : \A r \in ForSlot(u, slot[b], {b}) : Movable(RequestOf(u, r), b)

\* The rooms named after a refusal: each accepts the hour exactly when it lies within
\* the horizon of the policy and quota and cap last, which the page does not look at
\* and a request refused for a class has not been tested for; and none is named for an
\* hour in or beside one of the viewer's own.
AlternativesHold(u) ==
  \A s \in Slots : \A r \in ForSlot(u, s, {}) :
    /\ Reservable(RequestOf(u, r), s) <=>
         /\ WithinHorizon(s, HorizonDays)
         /\ QuotaLeft(Settled, u, s) /\ UpcomingLeft(Settled, u)
    /\ NotAdjacent(Settled, u, s)

\* The timeline: staff may hold a gap exactly when it lies within their horizon.
GapsHold ==
  \A u \in Users, c \in Gaps :
    Holdable(RequestOf(u, c[1]), c[2], c[2]) <=> WithinHorizon(c[2], StaffHorizonDays)

\* Whatever the pages suggest to an account that may act, from rows nobody has
\* reconciled yet, the service accepts, in every case but the ones named above, and
\* in those it never does (suggest.py, availability.py, timeline.py, views/public.py).
\* Excepted are the requests whose own reconciliation suspends the account or
\* finds too much to do.
SuggestionsHold ==
  ~Backlogged =>
    /\ GapsHold
    /\ \A u \in Users \ Sanctioned :
         CanAct(u) => PanelHolds(u) /\ DoorHolds(u) /\ MovesHold(u) /\ AlternativesHold(u)

\* What for_slot says of the rooms it names (suggest.py:92), where it is true: after a
\* refusal because the hour is taken, each of them accepts the same hour.
TakenHourHasOthers ==
  ~Backlogged =>
    \A u \in Users \ Sanctioned, r \in Rooms, s \in Slots :
      CanAct(u) /\ SlotTaken(RequestOf(u, r), s) =>
        \A other \in ForSlot(u, s, {}) : Reservable(RequestOf(u, other), s)
=============================================================================
