------------------------ MODULE Availability_proofs ------------------------
(***************************************************************************)
(* What the pages offer is accepted, for every value of the constants.     *)
(* The pages read the stored rows; an operation decides by the reconciled  *)
(* ones.  The argument is that reconciliation only takes away: rows stop   *)
(* blocking, counting and forfeiting hours to come, none begins to.        *)
(***************************************************************************)
EXTENDS Availability, History_proofs

\* A room hour the pages show as free is free to the operation.
LEMMA FreeStaysFree ==
  ASSUME TypeOK, NEW r, NEW s,
         \A b \in Bookings : status[b] \in Blocking => Cell(b) # <<r, s>>
  PROVE  SlotFree(Settled, r, s)
BY SettledFrees DEF SlotFree

\* The calendar a page reads is the one the operation reads.
LEMMA OfferedIsOpen ==
  ASSUME NEW u \in Users, NEW r \in Rooms, NEW s, Offered(r, s)
  PROVE  SlotOpen(RequestOf(u, r), s)
BY DEF Offered, SlotOpen, RequestOf

\* An account that may act, and that the reconciliation itself does not suspend,
\* may still act after it.
LEMMA ActsNow ==
  ASSUME NEW u \in Users \ Sanctioned, CanAct(u)
  PROVE  account[u] = "ok" /\ ~SuspendedNow(u)
  BY DEF CanAct, SuspendedNow, SettledBan, Suspended

\* Whoever a room admits may reserve it.
LEMMA AdmittedMayReserve ==
  ASSUME NEW u \in Users \ Sanctioned, CanAct(u), NEW r \in Rooms,
         profile[r].active, ~profile[r].display, Admits(u, r)
  PROVE  MayReserve(RequestOf(u, r))
  BY ActsNow DEF MayReserve, MayUse, StaffActor, RequestOf, Admits

\* Hours that do not conflict with the stored rows conflict with no
\* reconciled one.
LEMMA ApartStaysApart ==
  ASSUME TypeOK, NEW u, NEW s \in Slots, s \notin Conflicts(u, {})
  PROVE  NotAdjacent(Settled, u, s)
<1> SUFFICES ASSUME NEW b \in OfUser(Settled, u, Blocking), slot[b] \in (s-1)..(s+1)
             PROVE  FALSE
  BY DEF NotAdjacent
<1>1. b \in OfUser(status, u, Blocking)
  BY SettledFrees DEF OfUser
<1>2. b \in Bookings /\ slot[b] \in Slots
  BY <1>1 DEF OfUser, TypeOK
<1>3. slot[b] \in Int /\ s \in Int
  BY <1>2, LedgerAssumption DEF Slots
<1>4. s \in (slot[b]-1)..(slot[b]+1)
  BY <1>3
<1>5. QED
  BY <1>1, <1>4 DEF Conflicts

\* Quota and cap leave no less after reconciliation.
LEMMA QuotaStaysLeft ==
  ASSUME TypeOK, NEW u, NEW s, QuotaLeft(status, u, s)
  PROVE  QuotaLeft(Settled, u, s)
<1> DEFINE Stored  == {b \in OfUser(status, u, Charged) : Day(slot[b]) = Day(s)}
           Counted == {b \in OfUser(Settled, u, Charged) : Day(slot[b]) = Day(s)}
<1>1. Stored \in SUBSET Bookings /\ Counted \in SUBSET Stored
  BY SettledCounts DEF OfUser
<1>2. /\ Cardinality(Stored) \in Nat /\ Cardinality(Counted) \in Nat
      /\ Cardinality(Counted) <= Cardinality(Stored)
  BY <1>1, FewerRows
<1>3. Cardinality(Stored) < DailyQuota
  BY DEF QuotaLeft
<1> HIDE DEF Stored, Counted
<1>4. Cardinality(Counted) < DailyQuota
  BY <1>2, <1>3, LedgerAssumption
<1>5. QED
  BY <1>4 DEF QuotaLeft, Counted

LEMMA UpcomingStaysLeft ==
  ASSUME TypeOK, NEW u, UpcomingLeft(status, u)
  PROVE  UpcomingLeft(Settled, u)
<1> DEFINE Stored  == {b \in OfUser(status, u, Upcoming) : now < End(slot[b])}
           Counted == {b \in OfUser(Settled, u, Upcoming) : now < End(slot[b])}
<1>1. Stored \in SUBSET Bookings /\ Counted \in SUBSET Stored
  BY SettledCounts DEF OfUser
<1>2. /\ Cardinality(Stored) \in Nat /\ Cardinality(Counted) \in Nat
      /\ Cardinality(Counted) <= Cardinality(Stored)
  BY <1>1, FewerRows
<1>3. Cardinality(Stored) < MaxUpcoming
  BY DEF UpcomingLeft
<1> HIDE DEF Stored, Counted
<1>4. Cardinality(Counted) < MaxUpcoming
  BY <1>2, <1>3, LedgerAssumption
<1>5. QED
  BY <1>4 DEF UpcomingLeft, Counted

\* No hour to come is forfeited, nor will be by this reconciliation.
LEMMA FutureNotForfeited ==
  ASSUME TypeOK, NoShowsPast, NEW u, NEW r, NEW s \in Slots, now < Start(s)
  PROVE  NotForfeited(Settled, u, r, s)
<1> SUFFICES ASSUME NEW b \in Bookings, Settled[b] = "NO_SHOW", Cell(b) = <<r, s>>
             PROVE  FALSE
  BY DEF NotForfeited, OfUser
<1>1. Deadline(s) <= now
  BY SettledPast DEF Cell
<1>2. QED
  BY <1>1, TimesAreNumbers, LedgerAssumption DEF Start, Slots

\* An hour in progress that nobody holds is not forfeited by this reconciliation.
LEMMA UnclaimedNotForfeited ==
  ASSUME TypeOK, NEW u, NEW r, NEW s, NotForfeited(status, u, r, s),
         \A b \in Bookings : status[b] \in Blocking => Cell(b) # <<r, s>>
  PROVE  NotForfeited(Settled, u, r, s)
  BY SettledRow DEF NotForfeited, OfUser

\* A reservation that is not due is left alone, unless its owner is sanctioned.
LEMMA NotDueStays ==
  ASSUME TypeOK, NEW b \in Bookings, owner[b] \notin Sanctioned,
         \/ status[b] \in Undecided /\ now < Start(slot[b])
         \/ status[b] = "SCHEDULED" /\ ~hold[b] /\ now < Deadline(slot[b])
  PROVE  Settled[b] = status[b]
<1>1. slot[b] \in Slots
  BY DEF TypeOK
<1>2. /\ now \in Int /\ Start(slot[b]) \in Int /\ Deadline(slot[b]) \in Int
      /\ Start(slot[b]) < Deadline(slot[b]) /\ Deadline(slot[b]) < End(slot[b])
      /\ End(slot[b]) \in Int
  BY <1>1, TimesAreNumbers, LedgerAssumption DEF Start, End, Deadline, Slots
<1>3. ~Expired(b) /\ ~Missed(b) /\ ~Begun(b) /\ ~Ended(b)
  BY <1>2 DEF Expired, Missed, Begun, Ended, Undecided
<1>4. QED
  BY <1>3 DEF Settled, Reconciled

\* A staff hold whose hour has begun is in use once it is reconciled.
LEMMA HoldsBegin ==
  ASSUME TypeOK, ~Backlogged, NEW b \in Bookings,
         status[b] = "SCHEDULED", hold[b], Start(slot[b]) <= now, now < Deadline(slot[b])
  PROVE  Settled[b] # "SCHEDULED"
<1>1. slot[b] \in Slots
  BY DEF TypeOK
<1>2. now < End(slot[b]) /\ ~(End(slot[b]) <= now)
  BY <1>1, TimesAreNumbers, LedgerAssumption DEF Start, End, Deadline, Slots
<1>3. Begun(b) /\ ~Expired(b) /\ ~Missed(b) /\ ~Ended(b)
  BY <1>2 DEF Begun, Expired, Missed, Ended
<1>4. 3 \in StagesRun
  <2>1. 4 \in StagesRun
    BY DEF Backlogged
  <2>2. \A j \in 1..4 : Cardinality(Due(j)) <= ReconcileBudget
    BY <2>1 DEF StagesRun
  <2>3. 3 \in 1..4 /\ \A j \in 1..3 : j \in 1..4
    OBVIOUS
  <2>4. QED
    BY <2>2, <2>3 DEF StagesRun
<1>5. Reconciled[b] = "IN_USE"
  BY <1>3, <1>4 DEF Reconciled
<1>6. QED
  BY <1>5 DEF Settled, Undecided

\* A free hour to come, away from the viewer's own in a room that admits the viewer,
\* is refused for the horizon, the quota or the cap, or not at all.
LEMMA FreeIsReservable ==
  ASSUME TypeOK, NoShowsPast, NEW u \in Users \ Sanctioned, CanAct(u),
         NEW r \in Rooms, NEW s \in Slots,
         Unclaimed(r, s), Admits(u, r), now < Start(s), s \notin Conflicts(u, {})
  PROVE  /\ Reservable(RequestOf(u, r), s) <=>
              /\ WithinHorizon(s, HorizonDays)
              /\ QuotaLeft(Settled, u, s) /\ UpcomingLeft(Settled, u)
         /\ NotAdjacent(Settled, u, s)
<1>1. MayReserve(RequestOf(u, r)) /\ SlotOpen(RequestOf(u, r), s)
  BY AdmittedMayReserve, OfferedIsOpen DEF Unclaimed, Offered
<1>2. SlotFree(Settled, r, s)
  BY FreeStaysFree DEF Unclaimed, Occupied
<1>3. NotAdjacent(Settled, u, s) /\ NotForfeited(Settled, u, r, s)
  BY ApartStaysApart, FutureNotForfeited
<1>4. RequestOf(u, r).user = u /\ RequestOf(u, r).room = r
  BY DEF RequestOf
<1>5. QED
  BY <1>1, <1>2, <1>3, <1>4 DEF Reservable, MayBook

(***************************************************************************)
(* The six kinds of offer                                                  *)
(***************************************************************************)

\* The hours of the panel.
LEMMA HoursReservable ==
  ASSUME TypeOK, NoShowsPast, NEW u \in Users \ Sanctioned, CanAct(u),
         NEW d \in Days, NEW c \in HourGroups(u, d)
  PROVE  Reservable(RequestOf(u, c[1]), c[2]) <=> WithinHorizon(c[2], HorizonDays)
<1>1. /\ c \in Cells /\ Bookable(u, c[1], c[2]) /\ c[2] \notin Conflicts(u, {})
      /\ QuotaLeft(status, u, c[2]) /\ UpcomingLeft(status, u)
  BY DEF HourGroups
<1>2. c[1] \in Rooms /\ c[2] \in Slots
  BY <1>1 DEF Cells
<1>3. Unclaimed(c[1], c[2]) /\ Admits(u, c[1]) /\ now < Start(c[2])
  BY <1>1 DEF Bookable
<1>4. QuotaLeft(Settled, u, c[2]) /\ UpcomingLeft(Settled, u)
  BY <1>1, QuotaStaysLeft, UpcomingStaysLeft
<1>5. QED
  BY <1>1, <1>2, <1>3, <1>4, FreeIsReservable

\* The rooms free now.
LEMMA RoomsUsable ==
  ASSUME TypeOK, NEW u \in Users \ Sanctioned, CanAct(u), NEW r \in FreeNow(u)
  PROVE  Usable(RequestOf(u, r), now \div SlotLen)
<1> DEFINE s == now \div SlotLen
<1>1. /\ r \in Rooms /\ Unclaimed(r, s) /\ ~profile[r].approval /\ ~profile[r].members
      /\ s \notin Conflicts(u, {}) /\ NotForfeited(status, u, r, s)
      /\ QuotaLeft(status, u, s) /\ UpcomingLeft(status, u)
  BY DEF FreeNow
<1> HIDE DEF s
<1>2. Offered(r, s) /\ s \in Slots
  BY <1>1 DEF Unclaimed, Offered, TypeOK
<1>3. MayUse(RequestOf(u, r))
  BY <1>1, <1>2, ActsNow DEF MayUse, RequestOf, Unclaimed, Offered
<1>4. SlotOpen(RequestOf(u, r), s)
  BY <1>1, <1>2, OfferedIsOpen
<1>5. SlotFree(Settled, r, s) /\ NotForfeited(Settled, u, r, s)
  BY <1>1, FreeStaysFree, UnclaimedNotForfeited DEF Unclaimed, Occupied
<1>6. MayBook(Settled, u, r, s)
  BY <1>1, <1>2, <1>5, ApartStaysApart, QuotaStaysLeft, UpcomingStaysLeft DEF MayBook
<1>7. /\ RequestOf(u, r).user = u /\ RequestOf(u, r).room = r
      /\ RequestOf(u, r).profile = profile[r]
  BY DEF RequestOf
<1>8. Usable(RequestOf(u, r), s)
  BY <1>1, <1>3, <1>4, <1>5, <1>6, <1>7 DEF Usable
<1>9. QED
  BY <1>8 DEF s

\* The booking at the door.
LEMMA DoorEnterable ==
  ASSUME TypeOK, ~Backlogged, NEW u \in Users \ Sanctioned, CanAct(u),
         NEW r, NEW b \in DoorReady(u, r)
  PROVE  Enterable(b) <=> ~hold[b]
<1>1. /\ b \in Bookings /\ owner[b] = u /\ status[b] = "SCHEDULED"
      /\ Start(slot[b]) <= now /\ now < Deadline(slot[b])
  BY DEF DoorReady, OfUser
<1>2. CASE hold[b]
  BY <1>1, <1>2, HoldsBegin DEF Enterable
<1>3. CASE ~hold[b]
  <2>1. Settled[b] = "SCHEDULED"
    BY <1>1, <1>3, NotDueStays
  <2>2. QED
    BY <1>1, <1>3, <2>1, ActsNow DEF Enterable
<1>4. QED
  BY <1>2, <1>3

\* The other rooms for a booking.
LEMMA RoomsMovable ==
  ASSUME TypeOK, NoShowsPast, NEW u \in Users \ Sanctioned, CanAct(u),
         NEW b \in MovableOf(u), NEW r \in ForSlot(u, slot[b], {b})
  PROVE  Movable(RequestOf(u, r), b)
<1>1. /\ b \in Bookings /\ owner[b] = u /\ status[b] \in Undecided /\ now < Start(slot[b])
      /\ slot[b] \in Slots
  BY DEF MovableOf, OfUser, TypeOK
<1>2. r \in Rooms /\ Unclaimed(r, slot[b]) /\ Offered(r, slot[b]) /\ Admits(u, r)
  BY DEF ForSlot, Unclaimed
<1>3. Settled[b] = status[b]
  BY <1>1, NotDueStays
<1>4. room[b] # r
  BY <1>1, <1>2 DEF Unclaimed, Occupied, Cell, Undecided, Blocking
<1>5. MayReserve(RequestOf(u, r)) /\ SlotOpen(RequestOf(u, r), slot[b])
  BY <1>2, AdmittedMayReserve, OfferedIsOpen DEF Unclaimed, Offered
<1>6. SlotFree(Settled, r, slot[b]) /\ NotForfeited(Settled, u, r, slot[b])
  BY <1>1, <1>2, FreeStaysFree, FutureNotForfeited DEF Unclaimed, Occupied
<1>7. RequestOf(u, r).user = u /\ RequestOf(u, r).room = r
  BY DEF RequestOf
<1>8. QED
  BY <1>1, <1>3, <1>4, <1>5, <1>6, <1>7 DEF Movable

\* The rooms named after a refusal.
LEMMA AlternativesReservable ==
  ASSUME TypeOK, NoShowsPast, NEW u \in Users \ Sanctioned, CanAct(u)
  PROVE  AlternativesHold(u)
<1> SUFFICES ASSUME NEW s \in Slots, NEW r \in ForSlot(u, s, {})
             PROVE  /\ Reservable(RequestOf(u, r), s) <=>
                         /\ WithinHorizon(s, HorizonDays)
                         /\ QuotaLeft(Settled, u, s) /\ UpcomingLeft(Settled, u)
                    /\ NotAdjacent(Settled, u, s)
  BY DEF AlternativesHold
<1>1. /\ r \in Rooms /\ Unclaimed(r, s) /\ Admits(u, r)
      /\ now < Start(s) /\ s \notin Conflicts(u, {})
  BY DEF ForSlot
<1>2. QED
  BY <1>1, FreeIsReservable

\* The gaps of the timeline.
LEMMA GapsHoldable ==
  ASSUME TypeOK, NEW u \in Users, NEW c \in Gaps
  PROVE  Holdable(RequestOf(u, c[1]), c[2], c[2]) <=> WithinHorizon(c[2], StaffHorizonDays)
<1>1. /\ c[1] \in Rooms /\ c[2] \in Slots /\ c = <<c[1], c[2]>>
      /\ Offered(c[1], c[2]) /\ now < Start(c[2])
      /\ \A b \in Bookings : status[b] \in Charged => Cell(b) # c
  BY DEF Gaps, Cells
<1>2. SlotOpen(RequestOf(u, c[1]), c[2])
  BY <1>1, OfferedIsOpen
<1>3. SlotFree(Settled, c[1], c[2])
  BY <1>1, FreeStaysFree DEF Charged
<1>4. c[2] <= c[2] /\ \A s \in c[2]..c[2] : s = c[2]
  BY <1>1, LedgerAssumption DEF Slots
<1>5. RequestOf(u, c[1]).room = c[1]
  BY DEF RequestOf
<1>6. QED
  BY <1>1, <1>2, <1>3, <1>4, <1>5 DEF Holdable

\* Whatever the pages suggest to an account that may act, from rows nobody has
\* reconciled yet, the service accepts, and in the cases SuggestionsHold names it never
\* does (suggest.py, availability.py, timeline.py, views/public.py).
THEOREM OffersHold == Spec => []SuggestionsHold
<1>1. ASSUME TypeOK, NoShowsPast PROVE SuggestionsHold
  <2> SUFFICES ASSUME ~Backlogged
               PROVE  /\ GapsHold
                      /\ \A u \in Users \ Sanctioned :
                           CanAct(u) => /\ PanelHolds(u) /\ DoorHolds(u)
                                        /\ MovesHold(u) /\ AlternativesHold(u)
    BY DEF SuggestionsHold
  <2>1. GapsHold
    BY <1>1, GapsHoldable DEF GapsHold
  <2>2. ASSUME NEW u \in Users \ Sanctioned, CanAct(u)
        PROVE  PanelHolds(u) /\ DoorHolds(u) /\ MovesHold(u) /\ AlternativesHold(u)
    <3>1. PanelHolds(u)
      BY <1>1, <2>2, HoursReservable, RoomsUsable DEF PanelHolds
    <3>2. DoorHolds(u)
      BY <1>1, <2>2, DoorEnterable DEF DoorHolds
    <3>3. MovesHold(u)
      BY <1>1, <2>2, RoomsMovable DEF MovesHold
    <3>4. AlternativesHold(u)
      BY <1>1, <2>2, AlternativesReservable
    <3>5. QED
      BY <3>1, <3>2, <3>3, <3>4
  <2>3. QED
    BY <2>1, <2>2
<1>2. QED
  BY <1>1, TypeCorrect, SpecPast, PTL

\* After a refusal because the hour is taken, each room named instead accepts it
\* (suggest.py:92): the refused request has already passed horizon, quota and cap.
THEOREM TakenHoursHelp == Spec => []TakenHourHasOthers
<1>1. ASSUME TypeOK, NoShowsPast PROVE TakenHourHasOthers
  <2> SUFFICES ASSUME NEW u \in Users \ Sanctioned, NEW r \in Rooms, NEW s \in Slots,
                      CanAct(u), SlotTaken(RequestOf(u, r), s),
                      NEW other \in ForSlot(u, s, {})
               PROVE  Reservable(RequestOf(u, other), s)
    BY DEF TakenHourHasOthers
  <2>1. RequestOf(u, r).user = u
    BY DEF RequestOf
  <2>2. /\ WithinHorizon(s, HorizonDays)
        /\ QuotaLeft(Settled, u, s) /\ UpcomingLeft(Settled, u)
    BY <2>1 DEF SlotTaken, MayBook
  <2>3. AlternativesHold(u)
    BY <1>1, AlternativesReservable
  <2>4. QED
    BY <2>2, <2>3 DEF AlternativesHold
<1>2. QED
  BY <1>1, TypeCorrect, SpecPast, PTL
=============================================================================
