---------------------------- MODULE BookingLedger ----------------------------
(***************************************************************************)
(* The rows every operation of the booking service reads and writes, the   *)
(* rules it decides by, and reconciliation.                                *)
(*                                                                         *)
(* All operational writes of the program take the BookingControl row lock, *)
(* read the clock once, reconcile, and only then decide                    *)
(* (core/services/protocol.py).  A transaction is therefore one atomic     *)
(* step, and what it decides on is not the stored ledger but the           *)
(* reconciled one: the operators Settled, SettledStrike and SettledBan.    *)
(*                                                                         *)
(* Time is counted in ticks.  Hour number s runs over                      *)
(* [Start(s), End(s)); a reservation of it must be checked in before       *)
(* Deadline(s).                                                            *)
(***************************************************************************)
EXTENDS Integers, FiniteSets

CONSTANTS
  Users,           \* accounts
  Staff,           \* the accounts that are operational staff
  Rooms,
  Sessions,        \* web requests that may be between their reads and the lock
  Closures,        \* ids of closures
  ManagedRooms,    \* BOUND: the rooms staff re-profile or take out of service
  ManagedUsers,    \* BOUND: the accounts staff decide about
  None,            \* no request, no owner, no room
  MaxBookings,     \* BOUND: rows the booking table may hold
  LastSlot,        \* BOUND: the last hour of the calendar
  SlotsPerDay,     \* hours of one local date
  SlotLen,         \* ticks of an hour
  Grace,           \* ticks of the check-in grace
  HorizonDays,     \* how far ahead a student may reserve
  StaffHorizonDays,
  DailyQuota,
  MaxUpcoming,
  StrikeThreshold,
  StrikeWindow,    \* ticks a strike stays eligible
  SuspensionLen,   \* ticks of an automatic suspension
  ReconcileBudget, \* rows one reconciliation stage may process
  Profiles,        \* the room rows the site starts with
  Audience,        \* <<user, room>>: the room's instrument audience admits the user
  Listed,          \* <<user, room>>: the user is on the room's member list
  ClassHours,      \* <<room, hour>> cells of the teaching timetable
  DayHours,        \* opening hours a calendar override may give a date
  ClosureScopes,   \* cells a closure may cover
  IncidentScopes,  \* cells an incident may cover
  SuspensionEnds   \* end times staff may give a suspension

Bookings == 1..MaxBookings
Slots    == 0..LastSlot
Cells    == Rooms \X Slots
Start(s) == s * SlotLen
End(s)   == Start(s) + SlotLen
Deadline(s) == Start(s) + Grace
Day(s)   == s \div SlotsPerDay
Days     == 0..Day(LastSlot)
MaxTime  == End(LastSlot)     \* BOUND: the clock stops when the last hour is over

\* A room row as the booking code reads it: is_active, availability_only,
\* requires_approval, members_only.
Profile == [active : BOOLEAN, display : BOOLEAN, approval : BOOLEAN, members : BOOLEAN]

ASSUME LedgerAssumption ==
  /\ Staff \subseteq Users /\ ManagedUsers \subseteq Users /\ ManagedRooms \subseteq Rooms
  /\ MaxBookings \in Nat /\ LastSlot \in Nat /\ SlotsPerDay \in Nat \ {0}
  /\ SlotLen \in Nat /\ Grace \in Nat /\ 0 < Grace /\ Grace < SlotLen
  /\ HorizonDays \in Nat /\ StaffHorizonDays \in Nat
  /\ DailyQuota \in Nat /\ MaxUpcoming \in Nat
  /\ StrikeThreshold \in Nat \ {0} /\ StrikeWindow \in Nat \ {0}
  /\ SuspensionLen \in Nat \ {0} /\ ReconcileBudget \in Nat
  /\ Profiles \subseteq Profile
  /\ DayHours \subseteq SUBSET Slots
  /\ ClosureScopes \subseteq SUBSET Cells /\ {} \notin ClosureScopes
  /\ IncidentScopes \subseteq SUBSET Cells
  /\ SuspensionEnds \subseteq Nat
  /\ None \notin Users /\ None \notin Rooms

VARIABLES
  now,       \* the clock
  status,    \* booking -> its status, "FREE" while the id is not allocated
  owner,     \* booking -> user
  room,      \* booking -> room
  slot,      \* booking -> hour
  hold,      \* booking -> is_staff_booking
  review,    \* booking -> on-site review: "open" = needs_review, "resolved" = cleared again
  strike,    \* booking -> its NO_SHOW violation: "none", "live", "consumed", "void"
  ban,       \* user -> the latest unlifted suspension [from, until), until = 0 for none
  account,   \* user -> "ok", "blocked" (not eligible), "inactive"
  profile,   \* room -> its row
  openHours, \* the hours inside the opening hours of their date
  closure,   \* closure -> the cells it covers while in force, {} otherwise
  incidents, \* scopes of the recorded service incidents
  request    \* session -> what a request read before it asked for the lock

bookingVars == <<status, owner, room, slot, hold, review>>
sanctionVars == <<strike, ban>>
siteVars    == <<account, profile, openHours, closure, incidents>>
vars        == <<now, status, owner, room, slot, hold, review, strike, ban,
                 account, profile, openHours, closure, incidents, request>>

(***************************************************************************)
(* Statuses                                                                *)
(***************************************************************************)
Blocking == {"PENDING_APPROVAL", "SCHEDULED", "IN_USE", "COMPLETED"}
Charged  == Blocking \cup {"NO_SHOW"}
Upcoming == {"PENDING_APPROVAL", "SCHEDULED", "IN_USE"}
Undecided == {"PENDING_APPROVAL", "SCHEDULED"}   \* what an administrative act cancels
Final    == {"COMPLETED", "NO_SHOW", "CANCELLED", "REJECTED"}
Statuses == {"FREE"} \cup Upcoming \cup Final

Accounts == {"ok", "blocked", "inactive"}
Requests == [user : Users, room : Rooms, profile : Profile, account : Accounts]

Cell(b) == <<room[b], slot[b]>>

(***************************************************************************)
(* Reconciliation: four stages over the booking rows, each refusing to run *)
(* (and with it every later one) when more rows are due than the budget.   *)
(***************************************************************************)
Covered(b) == \E i \in incidents : Cell(b) \in i

Expired(b) == status[b] = "PENDING_APPROVAL" /\ Start(slot[b]) <= now
Missed(b)  == status[b] = "SCHEDULED" /\ ~hold[b] /\ Deadline(slot[b]) <= now
Begun(b)   == /\ status[b] = "SCHEDULED" /\ hold[b]
              /\ Start(slot[b]) <= now /\ now < End(slot[b])
\* Mutant: a staff hold nobody reconciled during its hour is forgotten.
EndedSession(b) == status[b] = "IN_USE" /\ End(slot[b]) <= now
Ended(b)   == /\ status[b] = "IN_USE" \/ (status[b] = "SCHEDULED" /\ hold[b])
              /\ End(slot[b]) <= now

Due(stage) == {b \in Bookings : CASE stage = 1 -> Expired(b)
                                  [] stage = 2 -> Missed(b)
                                  [] stage = 3 -> Begun(b)
                                  [] stage = 4 -> Ended(b)}

\* The stages that run: those before the first overfull one.
StagesRun ==
  {k \in 1..4 : \A j \in 1..k : Cardinality(Due(j)) <= ReconcileBudget}

Backlogged == 4 \notin StagesRun

Reconciled ==
  LET run == StagesRun IN
  [b \in Bookings |->
     CASE Expired(b) /\ 1 \in run                -> "REJECTED"
       [] Missed(b) /\ 2 \in run /\ ~Covered(b)  -> "NO_SHOW"
       [] Begun(b) /\ 3 \in run                  -> "IN_USE"
       [] Ended(b) /\ 4 \in run                  -> "COMPLETED"
       [] OTHER                                  -> status[b]]

Recorded ==
  LET done == Reconciled IN
  [b \in Bookings |-> IF done[b] = "NO_SHOW" /\ strike[b] = "none"
                      THEN "live" ELSE strike[b]]

(***************************************************************************)
(* Sanctions: an unsuspended user with enough eligible strikes is          *)
(* suspended from now, all eligible strikes are consumed and every booking *)
(* not yet in use is cancelled.                                            *)
(***************************************************************************)
Suspended(u) == ban[u].from <= now /\ now < ban[u].until

EligibleStrikes(u) ==
  {b \in Bookings : /\ owner[b] = u
                    /\ Deadline(slot[b]) <= now
                    /\ now < Deadline(slot[b]) + StrikeWindow
                    /\ Recorded[b] = "live"}

Sanctioned ==
  {u \in Users : /\ Cardinality(EligibleStrikes(u)) >= StrikeThreshold
                 /\ ~Suspended(u) /\ ~Backlogged}

Settled ==
  LET done == Reconciled
      hit  == Sanctioned IN
  [b \in Bookings |-> IF owner[b] \in hit /\ done[b] \in Undecided
                      THEN "CANCELLED" ELSE done[b]]

SettledStrike ==
  LET record == Recorded
      hit    == Sanctioned IN
  [b \in Bookings |-> IF owner[b] \in hit /\ b \in EligibleStrikes(owner[b])
                      THEN "consumed" ELSE record[b]]

SettledBan ==
  LET hit == Sanctioned IN
  [u \in Users |-> IF u \in hit
                   THEN [from |-> now, until |-> now + SuspensionLen] ELSE ban[u]]

\* Mutant: suspension is read before this transaction reconciles.
SuspendedBefore(u) == Suspended(u)
\* The user is suspended once this transaction has reconciled.
SuspendedNow(u) == SettledBan[u].from <= now /\ now < SettledBan[u].until

(***************************************************************************)
(* The rules a booking is decided by, over the reconciled statuses st.     *)
(***************************************************************************)
\* Mutant: a session that was ended early gives its hour back.
SlotFreeAfterEarlyEnd(st, r, s) ==
  \A b \in Bookings : st[b] \in Upcoming => Cell(b) # <<r, s>>
SlotFree(st, r, s) == \A b \in Bookings : st[b] \in Blocking => Cell(b) # <<r, s>>

OfUser(st, u, kinds) == {b \in Bookings : owner[b] = u /\ st[b] \in kinds}

\* Mutant: only the same hour is looked at.
NotSameHour(st, u, s) == \A b \in OfUser(st, u, Blocking) : slot[b] # s
NotAdjacent(st, u, s) == \A b \in OfUser(st, u, Blocking) : slot[b] \notin (s-1)..(s+1)

\* Mutant: a no-show gives its charge back.
QuotaLeftAfterNoShow(st, u, s) ==
  Cardinality({b \in OfUser(st, u, Blocking) : Day(slot[b]) = Day(s)}) < DailyQuota
QuotaLeft(st, u, s) ==
  Cardinality({b \in OfUser(st, u, Charged) : Day(slot[b]) = Day(s)}) < DailyQuota

\* Mutant: the session in progress is not counted.
UpcomingLeftBeforeStart(st, u) == Cardinality(OfUser(st, u, Undecided)) < MaxUpcoming
UpcomingLeft(st, u) ==
  Cardinality({b \in OfUser(st, u, Upcoming) : now < End(slot[b])}) < MaxUpcoming

\* Mutant: a forfeited hour may be taken back.
ForfeitIgnored(st, u, r, s) == TRUE
NotForfeited(st, u, r, s) == \A b \in OfUser(st, u, {"NO_SHOW"}) : Cell(b) # <<r, s>>

MayBook(st, u, r, s) ==
  /\ NotAdjacent(st, u, s)
  /\ QuotaLeft(st, u, s)
  /\ UpcomingLeft(st, u)
  /\ NotForfeited(st, u, r, s)

Closed(r, s) == \E c \in Closures : <<r, s>> \in closure[c]

\* The calendar gate.  The room row is the one the request read before the
\* lock; hours, closures and classes are queried under it.
SlotOpen(rq, s) ==
  /\ rq.profile.active
  /\ s \in openHours
  /\ ~Closed(rq.room, s)
  /\ <<rq.room, s>> \notin ClassHours

WithinHorizon(s, days) == Day(s) <= (now \div SlotLen) \div SlotsPerDay + days

\* is_booking_staff of the actor as the request read it.
StaffActor(rq) == rq.user \in Staff /\ rq.account # "inactive"

MayUse(rq) ==
  /\ rq.account = "ok" /\ ~SuspendedNow(rq.user)
  /\ rq.profile.active /\ ~rq.profile.display

MayReserve(rq) ==
  /\ MayUse(rq)
  /\ rq.profile.members => StaffActor(rq) \/ <<rq.user, rq.room>> \in Listed
  /\ <<rq.user, rq.room>> \in Audience

(***************************************************************************)
(* Writes shared by the operations.                                        *)
(***************************************************************************)
SettleSanctions == strike' = SettledStrike /\ ban' = SettledBan

\* Mutant: requests still waiting for approval are left standing.
CancelScheduled(S) ==
  LET st == Settled IN
  [b \in Bookings |-> IF b \in S /\ st[b] = "SCHEDULED" THEN "CANCELLED" ELSE st[b]]
\* Mutant: a reservation inside its check-in grace is left standing.
CancelUnstarted(S) ==
  LET st == Settled IN
  [b \in Bookings |-> IF b \in S /\ st[b] \in Undecided /\ now < Start(slot[b])
                      THEN "CANCELLED" ELSE st[b]]
CancelAll(S) ==
  LET st == Settled IN
  [b \in Bookings |-> IF b \in S /\ st[b] \in Undecided THEN "CANCELLED" ELSE st[b]]

\* Mutant: the sessions to flag are read before reconciliation starts any.
FlagSessionsBefore(S) ==
  [b \in Bookings |-> IF b \in S /\ status[b] = "IN_USE" THEN "open" ELSE review[b]]
FlagSessions(S) ==
  [b \in Bookings |-> IF b \in S /\ Settled[b] = "IN_USE" THEN "open" ELSE review[b]]

\* Booking ids come from a sequence: the next one is the least free.
NextId(b) == status[b] = "FREE" /\ \A c \in Bookings : c < b => status[c] # "FREE"

\* Insert one booking per hour of first..last, with ids from b on.
Insert(b, rq, first, last, st, staffBooking) ==
  LET new == b..(b + (last - first))
      kept == Settled IN
  /\ new \subseteq Bookings
  /\ status' = [x \in Bookings |-> IF x \in new THEN st ELSE kept[x]]
  /\ owner'  = [x \in Bookings |-> IF x \in new THEN rq.user ELSE owner[x]]
  /\ room'   = [x \in Bookings |-> IF x \in new THEN rq.room ELSE room[x]]
  /\ slot'   = [x \in Bookings |-> IF x \in new THEN first + (x - b) ELSE slot[x]]
  /\ hold'   = [x \in Bookings |-> IF x \in new THEN staffBooking ELSE hold[x]]
  /\ UNCHANGED review

Answered(p) == request' = [request EXCEPT ![p] = None]
=============================================================================
