----------------------------- MODULE Reservations -----------------------------
(***************************************************************************)
(* The operations of the room booking service over the ledger: what        *)
(* students do (core/services/booking.py, walkin.py, checkin.py,           *)
(* cancel.py), what staff do (maintenance.py, incidents.py, sanctions.py,  *)
(* rooms.py), and the scheduler tick (scheduler.py).                       *)
(*                                                                         *)
(* Operations that take a room or decide for the signed-in account use the *)
(* rows the view fetched BEFORE the lock: Fetch records them in `request`, *)
(* and other transactions may commit between Fetch and the operation.      *)
(* Operations on a booking reload its row under the lock                   *)
(* (core/services/refs.py), so they read the ledger itself.                *)
(***************************************************************************)
EXTENDS BookingLedger

(***************************************************************************)
(* Requests and the protocol around an operation                           *)
(***************************************************************************)

\* The rows the view loads for the signed-in user and the room.
RequestOf(u, r) ==
  [user |-> u, room |-> r, profile |-> profile[r], account |-> account[u]]

Fetch(p, u, r) ==
  /\ request[p] = None /\ account[u] # "inactive"
  /\ now < MaxTime
  /\ request' = [request EXCEPT ![p] = RequestOf(u, r)]
  /\ UNCHANGED <<now, bookingVars, sanctionVars, siteVars>>

\* The control lock was not granted in time: BUSY, and nothing is written.
LockTimeout(p) ==
  /\ request[p] # None
  /\ Answered(p)
  /\ UNCHANGED <<now, bookingVars, sanctionVars, siteVars>>

\* A refused operation commits reconciliation and nothing else; over budget,
\* the stages that ran before the overfull one.
Refuse ==
  /\ status' = Settled
  /\ SettleSanctions
  /\ \/ UNCHANGED request
     \/ \E p \in Sessions : request[p] # None /\ Answered(p)
  /\ UNCHANGED <<now, owner, room, slot, hold, review, siteVars>>

(***************************************************************************)
(* Students                                                                *)
(***************************************************************************)

\* Everything a reservation of hour s is refused for.
Reservable(rq, s) ==
  LET st == Settled IN
  /\ now < Start(s) /\ WithinHorizon(s, HorizonDays)
  /\ MayReserve(rq) /\ SlotOpen(rq, s)
  /\ MayBook(st, rq.user, rq.room, s)
  /\ SlotFree(st, rq.room, s)

AdvanceBooking(p, s, b) ==
  LET rq == request[p] IN
  /\ NextId(b) /\ rq # None
  /\ Reservable(rq, s)
  /\ Insert(b, rq, s, s,
            IF rq.profile.approval /\ ~StaffActor(rq) THEN "PENDING_APPROVAL"
                                                      ELSE "SCHEDULED",
            StaffActor(rq))
  /\ SettleSanctions /\ Answered(p)
  /\ UNCHANGED <<now, siteVars>>

\* Everything a walk-in during hour s is refused for.
Usable(rq, s) ==
  LET st == Settled IN
  /\ MayUse(rq) /\ ~rq.profile.approval /\ ~rq.profile.members
  /\ SlotOpen(rq, s)
  /\ SlotFree(st, rq.room, s)
  /\ MayBook(st, rq.user, rq.room, s)

\* The walk-in takes the hour in progress under the lock, whatever hour the
\* confirmation page named.
UseNow(p, b) ==
  LET rq == request[p]
      s  == now \div SlotLen IN
  /\ NextId(b) /\ rq # None /\ s \in Slots
  /\ Usable(rq, s)
  /\ Insert(b, rq, s, s, "IN_USE", FALSE)
  /\ SettleSanctions /\ Answered(p)
  /\ UNCHANGED <<now, siteVars>>

\* Everything a check-in to booking b is refused for.
Enterable(b) ==
  /\ Settled[b] = "SCHEDULED"
  /\ Start(slot[b]) <= now /\ now < Deadline(slot[b])
  /\ account[owner[b]] = "ok" /\ ~SuspendedNow(owner[b])

CheckIn(b) ==
  /\ Enterable(b)
  /\ status' = [Settled EXCEPT ![b] = "IN_USE"]
  /\ SettleSanctions
  /\ UNCHANGED <<now, owner, room, slot, hold, review, siteVars, request>>

\* Mutant: cancels the caller's copy of the row, not the committed one.
CancelStale(b, staffAction) ==
  /\ status[b] \in Undecided
  /\ staffAction \/ now < Start(slot[b])
  /\ status' = [Settled EXCEPT ![b] = "CANCELLED"]
  /\ SettleSanctions
  /\ UNCHANGED <<now, owner, room, slot, hold, review, siteVars, request>>
Cancel(b, staffAction) ==
  /\ Settled[b] \in Undecided
  /\ staffAction \/ now < Start(slot[b])
  /\ status' = [Settled EXCEPT ![b] = "CANCELLED"]
  /\ SettleSanctions
  /\ UNCHANGED <<now, owner, room, slot, hold, review, siteVars, request>>

\* Everything a move of booking b is refused for.  The hour, and with it quota
\* and adjacency, stay as they are.
Movable(rq, b) ==
  LET st == Settled IN
  /\ st[b] \in Undecided /\ owner[b] = rq.user /\ now < Start(slot[b])
  /\ room[b] # rq.room
  /\ MayReserve(rq) /\ SlotOpen(rq, slot[b])
  /\ NotForfeited(st, rq.user, rq.room, slot[b])
  /\ SlotFree(st, rq.room, slot[b])

MoveBooking(p, b) ==
  LET rq == request[p]
      st == Settled IN
  /\ rq # None
  /\ Movable(rq, b)
  /\ room' = [room EXCEPT ![b] = rq.room]
  /\ status' = [st EXCEPT ![b] =
       IF rq.profile.approval /\ ~StaffActor(rq) THEN "PENDING_APPROVAL"
                                                 ELSE "SCHEDULED"]
  /\ SettleSanctions /\ Answered(p)
  /\ UNCHANGED <<now, owner, slot, hold, review, siteVars>>

(***************************************************************************)
(* Staff: bookings                                                         *)
(***************************************************************************)

\* Everything a range of hours is refused to staff for.
Holdable(rq, first, last) ==
  LET st == Settled IN
  /\ first <= last /\ Day(first) = Day(last)
  /\ now < Start(first) /\ WithinHorizon(first, StaffHorizonDays)
  /\ \A s \in first..last : SlotOpen(rq, s) /\ SlotFree(st, rq.room, s)

StaffBooking(p, first, last, b) ==
  LET rq == request[p] IN
  /\ NextId(b) /\ rq # None /\ StaffActor(rq)
  /\ Holdable(rq, first, last)
  /\ Insert(b, rq, first, last, "SCHEDULED", TRUE)
  /\ SettleSanctions /\ Answered(p)
  /\ UNCHANGED <<now, siteVars>>

\* Mutant: a decision is taken whatever became of the request meanwhile.
DecideAnyway(b, decision) ==
  /\ Settled[b] # "FREE"
  /\ status' = [Settled EXCEPT ![b] = decision]
  /\ SettleSanctions
  /\ UNCHANGED <<now, owner, room, slot, hold, review, siteVars, request>>
DecideApproval(b, decision) ==
  /\ Settled[b] = "PENDING_APPROVAL"
  /\ status' = [Settled EXCEPT ![b] = decision]
  /\ SettleSanctions
  /\ UNCHANGED <<now, owner, room, slot, hold, review, siteVars, request>>

\* Mutant: ending a session early cancels it.
CompleteByCancelling(b) ==
  /\ Settled[b] = "IN_USE"
  /\ status' = [Settled EXCEPT ![b] = "CANCELLED"]
  /\ review' = [review EXCEPT ![b] = "none"]
  /\ SettleSanctions
  /\ UNCHANGED <<now, owner, room, slot, hold, siteVars, request>>
CompleteEarly(b) ==
  /\ Settled[b] = "IN_USE"
  /\ status' = [Settled EXCEPT ![b] = "COMPLETED"]
  /\ review' = [review EXCEPT ![b] = "none"]
  /\ SettleSanctions
  /\ UNCHANGED <<now, owner, room, slot, hold, siteVars, request>>

ResolveReview(b) ==
  /\ status[b] # "FREE"
  /\ status' = Settled
  /\ review' = [review EXCEPT ![b] = IF @ = "open" THEN "resolved" ELSE @]
  /\ SettleSanctions
  /\ UNCHANGED <<now, owner, room, slot, hold, siteVars, request>>

(***************************************************************************)
(* Staff: rooms, accounts and the calendar                                 *)
(***************************************************************************)
CreateClosure(c, scope) ==
  LET hit == {b \in Bookings : Cell(b) \in scope} IN
  /\ closure[c] = {}
  /\ closure' = [closure EXCEPT ![c] = scope]
  /\ status' = CancelAll(hit) /\ review' = FlagSessions(hit)
  /\ SettleSanctions
  /\ UNCHANGED <<now, owner, room, slot, hold, account, profile, openHours, incidents, request>>

RevokeClosure(c) ==
  /\ closure[c] # {}
  /\ closure' = [closure EXCEPT ![c] = {}]
  /\ status' = Settled /\ SettleSanctions
  /\ UNCHANGED <<now, owner, room, slot, hold, review, account, profile, openHours, incidents, request>>

DeactivateRoom(r) ==
  LET hit == {b \in Bookings : room[b] = r} IN
  /\ profile' = [profile EXCEPT ![r].active = FALSE]
  /\ status' = CancelAll(hit) /\ review' = FlagSessions(hit)
  /\ SettleSanctions
  /\ UNCHANGED <<now, owner, room, slot, hold, account, openHours, closure, incidents, request>>

UpdateProfile(r, approval) ==
  /\ profile' = [profile EXCEPT ![r].approval = approval]
  /\ status' = Settled /\ SettleSanctions
  /\ UNCHANGED <<now, owner, room, slot, hold, review, account, openHours, closure, incidents, request>>

DeactivateAccount(u) ==
  LET hit == {b \in Bookings : owner[b] = u} IN
  /\ account' = [account EXCEPT ![u] = "inactive"]
  /\ status' = CancelAll(hit) /\ review' = FlagSessions(hit)
  /\ SettleSanctions
  /\ UNCHANGED <<now, owner, room, slot, hold, profile, openHours, closure, incidents, request>>

\* Leaves the bookings alone: only later decisions see the new eligibility.
DecideEligibility(u, decision) ==
  /\ account[u] # "inactive"
  /\ account' = [account EXCEPT ![u] = decision]
  /\ status' = Settled /\ SettleSanctions
  /\ UNCHANGED <<now, owner, room, slot, hold, review, profile, openHours, closure, incidents, request>>

SetCalendarOverride(d, hours) ==
  LET day == {s \in Slots : Day(s) = d} IN
  /\ openHours' = (openHours \ day) \cup (hours \cap day)
  /\ status' = Settled /\ SettleSanctions
  /\ UNCHANGED <<now, owner, room, slot, hold, review, account, profile, closure, incidents, request>>

(***************************************************************************)
(* Staff: incidents and sanctions                                          *)
(***************************************************************************)
CreateIncident(scope, cancelScheduled) ==
  /\ incidents' = incidents \cup {scope}
  /\ status' = IF cancelScheduled
               THEN CancelAll({b \in Bookings : Cell(b) \in scope}) ELSE Settled
  /\ SettleSanctions
  /\ UNCHANGED <<now, owner, room, slot, hold, review, account, profile, openHours, closure, request>>

Voided(S) ==
  [b \in Bookings |-> IF b \in S /\ SettledStrike[b] # "none" THEN "void"
                      ELSE SettledStrike[b]]

VoidIncidentViolations(scope) ==
  /\ scope \in incidents
  /\ status' = Settled /\ ban' = SettledBan
  /\ strike' = Voided({b \in Bookings : Settled[b] = "NO_SHOW" /\ Cell(b) \in scope})
  /\ UNCHANGED <<now, owner, room, slot, hold, review, siteVars, request>>

VoidViolation(b) ==
  /\ SettledStrike[b] \in {"live", "consumed"}
  /\ status' = Settled /\ ban' = SettledBan
  /\ strike' = Voided({b})
  /\ UNCHANGED <<now, owner, room, slot, hold, review, siteVars, request>>

\* A new suspension cancels the user's bookings ...
ApplySuspension(u, end) ==
  /\ ~SuspendedNow(u) /\ now < end
  /\ status' = CancelAll({b \in Bookings : owner[b] = u})
  /\ strike' = SettledStrike
  /\ ban' = [SettledBan EXCEPT ![u] = [from |-> now, until |-> end]]
  /\ UNCHANGED <<now, owner, room, slot, hold, review, siteVars, request>>

\* ... an adjusted one, whether in force or already over, does not.
AdjustSuspension(u, end) ==
  /\ SettledBan[u].until # 0 /\ SettledBan[u].from < end
  /\ status' = Settled
  /\ strike' = SettledStrike
  /\ ban' = [SettledBan EXCEPT ![u].until = end]
  /\ UNCHANGED <<now, owner, room, slot, hold, review, siteVars, request>>

LiftSuspension(u) ==
  /\ SettledBan[u].until # 0
  /\ status' = Settled
  /\ strike' = SettledStrike
  /\ ban' = [SettledBan EXCEPT ![u] = [from |-> 0, until |-> 0]]
  /\ UNCHANGED <<now, owner, room, slot, hold, review, siteVars, request>>

(***************************************************************************)
(* The scheduler and the clock                                             *)
(***************************************************************************)

\* An overfull stage aborts the tick's transaction as a whole.
Tick ==
  /\ ~Backlogged
  /\ status' = Settled /\ SettleSanctions
  /\ UNCHANGED <<now, owner, room, slot, hold, review, siteVars, request>>

ClockTick ==
  /\ now < MaxTime /\ now' = now + 1
  /\ UNCHANGED <<bookingVars, sanctionVars, siteVars, request>>

Init ==
  /\ now = 0
  /\ status = [b \in Bookings |-> "FREE"]
  /\ owner = [b \in Bookings |-> None] /\ room = [b \in Bookings |-> None]
  /\ slot = [b \in Bookings |-> 0] /\ hold = [b \in Bookings |-> FALSE]
  /\ review = [b \in Bookings |-> "none"] /\ strike = [b \in Bookings |-> "none"]
  /\ ban = [u \in Users |-> [from |-> 0, until |-> 0]]
  /\ account = [u \in Users |-> "ok"]
  /\ profile \in [Rooms -> Profiles]
  /\ openHours = Slots
  /\ closure = [c \in Closures |-> {}] /\ incidents = {}
  /\ request = [p \in Sessions |-> None]

RequestStep ==
  \E p \in Sessions :
    \/ \E u \in Users, r \in Rooms : Fetch(p, u, r)
    \/ LockTimeout(p)

RoomOperation ==
  \E p \in Sessions, b \in Bookings :
    \/ \E s \in Slots : AdvanceBooking(p, s, b)
    \/ UseNow(p, b)
    \/ MoveBooking(p, b)
    \/ \E first, last \in Slots : StaffBooking(p, first, last, b)

BookingOperation ==
  \E b \in Bookings :
    \/ CheckIn(b)
    \/ \E staffAction \in BOOLEAN : Cancel(b, staffAction)
    \/ \E decision \in {"SCHEDULED", "REJECTED"} : DecideApproval(b, decision)
    \/ CompleteEarly(b)
    \/ ResolveReview(b)
    \/ VoidViolation(b)

SiteOperation ==
  \/ \E c \in Closures :
       RevokeClosure(c) \/ \E scope \in ClosureScopes : CreateClosure(c, scope)
  \/ \E r \in ManagedRooms :
       DeactivateRoom(r) \/ \E approval \in BOOLEAN : UpdateProfile(r, approval)
  \/ \E u \in ManagedUsers :
       \/ DeactivateAccount(u)
       \/ \E decision \in {"ok", "blocked"} : DecideEligibility(u, decision)
  \/ \E d \in Days, hours \in DayHours : SetCalendarOverride(d, hours)

SanctionOperation ==
  \/ \E scope \in IncidentScopes :
       \/ VoidIncidentViolations(scope)
       \/ \E cancelScheduled \in BOOLEAN : CreateIncident(scope, cancelScheduled)
  \/ \E u \in Users :
       \/ LiftSuspension(u)
       \/ \E end \in SuspensionEnds : ApplySuspension(u, end) \/ AdjustSuspension(u, end)

\* run_operation: an operation only runs when reconciliation got through.
Operation ==
  /\ ~Backlogged
  /\ RoomOperation \/ BookingOperation \/ SiteOperation \/ SanctionOperation

Next == RequestStep \/ Operation \/ Refuse \/ Tick \/ ClockTick

Spec == Init /\ [][Next]_vars
FairSpec == Spec /\ WF_vars(Tick) /\ WF_vars(ClockTick)

(***************************************************************************)
(* Invariants                                                              *)
(***************************************************************************)

\* Every row holds values of its kind, and a booking row names an account and
\* a room from the moment it is inserted (core/models/booking.py).
TypeOK ==
  /\ now \in 0..MaxTime
  /\ status \in [Bookings -> Statuses]
  /\ owner \in [Bookings -> Users \cup {None}]
  /\ room \in [Bookings -> Rooms \cup {None}]
  /\ slot \in [Bookings -> Slots]
  /\ hold \in [Bookings -> BOOLEAN]
  /\ review \in [Bookings -> {"none", "open", "resolved"}]
  /\ strike \in [Bookings -> {"none", "live", "consumed", "void"}]
  /\ ban \in [Users -> [from : Nat, until : Nat]]
  /\ account \in [Users -> Accounts]
  /\ profile \in [Rooms -> Profile]
  /\ openHours \subseteq Slots
  /\ closure \in [Closures -> SUBSET Cells]
  /\ incidents \subseteq SUBSET Cells
  /\ request \in [Sessions -> Requests \cup {None}]
  /\ \A b \in Bookings : status[b] # "FREE" => owner[b] \in Users /\ room[b] \in Rooms

\* No room hour is ever sold twice, by whatever mix of reservations, walk-ins,
\* moves, staff ranges and early completions: the pre-checks under the lock
\* suffice and booking_room_slot_unique never has to arbitrate.
RoomHourExclusive ==
  \A b, c \in Bookings :
    status[b] \in Blocking /\ status[c] \in Blocking /\ Cell(b) = Cell(c) => b = c

\* A student's own bookings never fall in the same or in adjacent hours of any
\* rooms (quota.py).  A database constraint has the same hour (models/booking.py:304);
\* adjacency is a rule across rows.
StudentHoursApart ==
  \A b, c \in Bookings :
    /\ b # c /\ owner[b] = owner[c] /\ ~hold[b] /\ ~hold[c]
    /\ status[b] \in Blocking /\ status[c] \in Blocking
    => slot[b] \notin (slot[c]-1)..(slot[c]+1)

OwnHours(u, kinds) == {b \in OfUser(status, u, kinds) : ~hold[b]}

\* On no date does a student hold more hours than the daily quota, no-shows
\* included, whatever was cancelled, moved or walked into meanwhile.
QuotaKept ==
  \A u \in Users, d \in Days :
    Cardinality({b \in OwnHours(u, Charged) : Day(slot[b]) = d}) <= DailyQuota

\* A student never holds more unfinished hours than the upcoming cap, sessions
\* in progress included.
UpcomingKept ==
  \A u \in Users :
    Cardinality({b \in OwnHours(u, Upcoming) : now < End(slot[b])}) <= MaxUpcoming

\* Whoever forfeited a room hour as a no-show never holds it again, though the
\* hour is free for everybody else (walk-in, reservation or move).
ForfeitNotReclaimed ==
  \A b, c \in Bookings :
    status[b] = "NO_SHOW" /\ status[c] \in Blocking /\ owner[b] = owner[c]
    => Cell(b) # Cell(c)

\* A strike hangs on a booking exactly when that booking is a no-show: no late
\* check-in or cancellation overwrites what reconciliation recorded.
StrikeMatchesNoShow ==
  \A b \in Bookings : strike[b] # "none" <=> status[b] = "NO_SHOW"

\* While a closure is in force nobody waits for, or holds, an hour inside it,
\* not even by a booking made, approved or moved between preview and confirm.
ClosureClearsHours ==
  \A b \in Bookings : status[b] \in Undecided => ~Closed(room[b], slot[b])

\* Whoever is in a room that has been closed is flagged for the on-site
\* review, staff holds that began in the same transaction included.
ClosedSessionsReviewed ==
  \A b \in Bookings :
    status[b] = "IN_USE" /\ Closed(room[b], slot[b]) => review[b] # "none"

\* What refs.py:9-11 says of every mutation, that it decides by committed
\* rows: no reservation waits in a room that was taken out of service.
RetiredRoomHoldsNothing ==
  \A b \in Bookings : status[b] \in Undecided => profile[room[b]].active

(***************************************************************************)
(* Action properties                                                       *)
(***************************************************************************)

Created(b) == status[b] = "FREE" /\ status'[b] # "FREE"

\* No operation leads out of a final status, and a finished booking keeps its
\* account, room and hour: reports and strikes refer to it.
HistoryIsFinal ==
  [][\A b \in Bookings : status[b] \in Final =>
       /\ status'[b] = status[b] /\ owner'[b] = owner[b]
       /\ Cell(b)' = Cell(b) /\ hold'[b] = hold[b]]_vars

\* In the transaction that starts a suspension, automatic or by staff, the
\* account loses every reservation and request, also those beyond its end.
SuspensionClearsCalendar ==
  [][\A u \in Users :
       ban'[u].until # 0 /\ (ban[u].until = 0 \/ ban'[u].from # ban[u].from)
       => \A b \in Bookings : owner'[b] = u => status'[b] \notin Undecided]_vars

\* A student suspended now, if only by the reconciliation of the very request
\* that is being answered, neither gets a booking nor enters a room.
SuspensionBitesAtOnce ==
  [][\A b \in Bookings :
       /\ ~hold'[b]
       /\ Created(b) \/ (status[b] # "IN_USE" /\ status'[b] = "IN_USE")
       => ~Suspended(owner[b])']_vars

(***************************************************************************)
(* The promise about room hours, and liveness                              *)
(***************************************************************************)
HourOf(c) ==
  LET holders == {b \in Bookings : status[b] \in Blocking /\ Cell(b) = c}
      b == CHOOSE x \in holders : TRUE IN
  IF holders = {} THEN [state |-> "free"]
  ELSE [state  |-> CASE status[b] \in Undecided -> "held"
                     [] status[b] = "IN_USE"    -> "busy"
                     [] OTHER                   -> "spent",
        holder |-> owner[b]]

Hours == INSTANCE RoomHours WITH hour <- [c \in Cells |-> HourOf(c)]

\* Seen by room and hour, the service keeps the promise of RoomHours: an hour
\* somebody is in stays with that account and is never sold again.
HoursKept == Hours!Spec

\* Every reservation, request and session ends: decided, used, forfeited or
\* cancelled.  Only a reservation excused by an incident waits for staff.
EveryBookingEnds ==
  \A b \in Bookings :
    status[b] \in Upcoming ~> status[b] \in Final \/ Covered(b)

\* What roomreserveapp.v3.md:186 promises: when a backlog exceeds the budget,
\* requests are refused and the job catches up.
BacklogClears == Backlogged ~> ~Backlogged
=============================================================================
