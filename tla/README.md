# A verification development of room-reserve

`room-reserve` is a Django service by which a school of music lends practice
rooms by the hour: students reserve, walk in, check in and cancel; staff approve,
close, retire and sanction; a scheduler marks no-shows, suspends repeat offenders
and mails everybody.  This directory holds TLA+ models of its core
(`src/core/services`, `src/core/models` and the views that call them), the
configurations that check them with TLC, and theorems about them checked by TLAPS.
File and line references are to the repository's `src/`; service files are named
without their directory.

## 1. Inventory

| Part | State it keeps | Operations | Interacts with |
|---|---|---|---|
| Operation protocol (`protocol.py`, `refs.py`, `errors.py`) | the `BookingControl` row lock, `OperationRequest` answers | `run_operation`: lock with a bounded wait, clock, reconcile, idempotency check, body in a savepoint, record, commit; two retries on a serialization failure | every write of the booking side, and of staff, runs inside it |
| Reconciliation (`reconcile.py`) | none of its own | expired requests, no-shows, staff holds, completions, strike thresholds; notices of finished suspensions; reminders | first step of every operation and of every tick |
| Reservations (`booking.py`, `walkin.py`, `checkin.py`, `cancel.py`) | `Booking` rows | reserve, staff range, edit details, move, cancel, approve or reject, walk in, check in, cancel a series | rules; reconciliation; outbox |
| Rules (`quota.py`, `eligibility.py`, `calendar.py`, `room_access.py`, `instruments.py`) | none | adjacency, quota, upcoming cap, forfeits; account, sanction, audience, access list; opening hours, closures, classes | read by reservations and by the pages |
| Maintenance (`maintenance.py`, `rooms.py`) | `Closure`, `CalendarOverride`, `Room`, weekly blocks, account flags | preview, create and revoke a closure; complete a session; resolve a review; override a date; retire a room or an account; room profile; the seed command | cancels and flags bookings |
| Sanctions and incidents (`sanctions.py`, `incidents.py`) | `Violation`, `Suspension`, `ServiceIncident` | record and void violations; suspend, adjust, lift; record an incident, void its no-shows | reconciliation; reservations; policy |
| Scheduler (`scheduler.py`) | advisory lock, heartbeat | `run_tick`: reconcile and queue reminders under the lock, then drain mail | reconciliation; outbox |
| Outbox (`outbox.py`, `notifications.py`) | `Notification` rows | enqueue with a dedupe key; claim with a lease; revalidate, send, mark sent, failed or cancelled | written by every operation; drained by the scheduler and by staff |
| Identity and roster (`identity.py`, `roster.py`, `room_access.py`) | accounts, links, roster rows, access lists | register, complete, invite, reset a password, decide eligibility, correct an ID or an address, list an address, import a roster | account status gates reservations |
| Pages (`availability.py`, `suggest.py`, `timeline.py`, `views/public.py`) | none | what each cell, panel, door and timeline offers | read the ledger without lock or reconciliation |
| Policy (`policy.py`) | immutable versions | create a version | rules and sanctions read the current one |
| Views (`views/`) | sessions | fetch rows, run one operation, render | the protocol |
| Audit, complaints, posters, rate limits, CSV | logs, counters | record, serve, throttle | only `rooms.py` reads the log back |

### What is hard about it

* **Stale reads.**  A view loads the room and the signed-in account before it asks
  for the lock; the operation decides by those copies, while bookings are reloaded
  under the lock (`refs.py`).  Anything may commit in between.
* **Reconciliation inside every operation.**  Nothing in the tables is true until
  reconciled; every rule must be evaluated after it, in the same transaction, with
  sanctions it has just applied.  The pages do not reconcile.
* **Rules no constraint backs.**  Adjacency, quota, cap and forfeits span rows.
  The database states only that a room hour, and an hour of one student, is held once
  (`models/booking.py:298-310`).
* **A budget.**  A reconciliation stage with more due rows than the budget refuses
  the request; the scheduler has the same budget.
* **Staff acts against moving bookings.**  Closures, retirements and suspensions
  must catch what was booked, approved, moved or started meanwhile.
* **Long disciplinary files.**  Strikes lapse, are voided and spent; suspensions are
  lifted, shortened, and extended after they ended; the policy changes in between.
* **Three locks.**  Staff decisions take the control lock, completing a registration
  the account's row, imports and the seed command neither, and all of them write
  accounts, roster rows and rooms under READ COMMITTED.
* **Two confirmations.**  Double submits, retries and lost answers
  (`protocol.py`); links followed twice (`identity.py`); mail workers that die or
  outlive a lease (`outbox.py`).

### What makes each part correct

* Reservations: one holder per room hour; a student's hours apart, within quota
  and cap; forfeited hours stay forfeited; finished rows never change.
* Pages: what they offer, the service accepts, in every case but a few that can be
  named exactly (section 4).
* Reconciliation: one strike per no-show; every booking ends.
* Maintenance: a closure leaves nobody waiting inside it and flags who is there; a
  deployment does not undo what staff decided about a room.
* Sanctions: every suspension is earned by strikes of its own, acts in the
  transaction that starts it and clears the calendar; nobody books out of good
  standing; strikes at the threshold are answered; an end is announced.
* Protocol: one effect per key, and the same answer to every retry.
* Identity: a link works once, and only the newest; no approval without a confirmed
  address or a person; a decision of staff stands; a roster row stays with its
  account; a dry run tells the truth.
* Outbox: every committed event is sent at least once or visibly given up.

## 2. The modules

| Module | Models | State and actions |
|---|---|---|
| `BookingLedger` | the booking, sanction, room and calendar rows; the rules; reconciliation | the variables are the columns a decision reads; `Settled`, `SettledStrike` and `SettledBan` are the tables after `reconcile`; `MayBook`, `MayUse`, `MayReserve`, `SlotOpen`, `SlotFree` are the rules |
| `Reservations` (EXTENDS `BookingLedger`) | every operation on bookings, closures, rooms, accounts, incidents and suspensions; the tick; the clock | one action per service function, named after it; `Reservable`, `Usable`, `Enterable`, `Movable` and `Holdable` are everything the five ways into a room are refused for |
| `RoomHours` | the abstract promise of a room hour: free, held, busy, spent | `Reservations!HoursKept` is its specification under the map `HourOf` |
| `Availability` (EXTENDS `Reservations`) | the grid, the suggestion panel, alternatives, the door page, the timeline's gaps | operators over the stored `status`, compared with the refusals above, which are over `Settled` |
| `Suspensions` | one student's violations and suspensions, with their notices, under a changing policy | `Reconciled` is `reconcile` as far as it touches the file; `Recorded`, `Voided`, `Adjusted`, `ManualSuspension`, `Lifted` are the services of `sanctions.py`; an action per staff view |
| `OperationProtocol` | `run_operation` step by step | `stage` is the program counter of a request; `Reconcile`, `Replay`, `Run`, `RecordAnswer`, `Commit` are the parts of `_run_once`; `TransientFailure` is the retry loop |
| `KeyedRequests` | the abstract promise of an idempotency key | `OperationProtocol!OncePerKey` |
| `Outbox` | `outbox.py` and `notifications.drain` by concurrent workers | `Claim` is `claim_due`; `Revalidate`, `Send` are `deliver`; `MarkSent`, `MarkStale`, `MarkFailed` write the row |
| `Roster` | what a file does to the roster, as pure operators | `Applied` is `_apply_entry` for the first n entries; `Accepted` and `Forecast` are the import and its dry run |
| `RoomSeed` | one room between staff and the seed command | `SeedRead` and `SeedWrite` are `ensure_rooms`; `room` carries what its audit events say |
| `Accounts` (EXTENDS `Roster`, `RoomSeed`) | registration, completion, approval, correction, listing, imports | completions, imports and the seed are taken apart into what they read and what they write; decisions of staff share the lock `staff` |
| `Links` | the single-use password links of one account | `create_invitation` and `set_initial_password` statement by statement, with the row locks each holds |
| `MCReservations`, `MCSuspensions`, `MCOperationProtocol`, `MCOutbox`, `MCAccounts`, `MCLinks` | instances for TLC | sets, policies, files, back-offs and symmetries the configurations name |
| `*_proofs` (eight modules; `History_proofs` is about `Reservations` too, `Accounts_proofs` also about `Roster`) | theorems | section 5 |

### How they fit together

Every operational write holds the `BookingControl` row from before its first read
until it commits, so two of them never overlap: `OperationProtocol` shows what this
discipline gives (`TimeFollowsLock`, `AtMostOncePerKey`,
`RejectionKeepsReconciliation`), and `Reservations` and `Suspensions` rely on it by
making lock, clock, reconciliation, rules, write and commit one step.  What does
overlap are the reads the view makes before it asks for the lock: `Fetch` takes
them, and any other transaction may commit before the operation that uses them.

`Availability` extends `Reservations` so that a page and the operation it offers
are compared in one state: the page is computed from the tables as they are, the
refusal from the tables as the operation will find them.

`Reservations` keeps the latest suspension of an account (`ban`), against all its
bookings; `Suspensions` keeps all suspensions of one student against whole days of
bookings.  Every query of `sanctions.py` and of the strike stages selects by user,
so students do not interact there, while in the ledger they do.

`Accounts` composes `Roster` and `RoomSeed` because the access list counts only
while the room is active and for members, which staff and the seed both write; and
an import writes rows that a completion links.  `Links` is apart: password links
read and write nothing that `Accounts` decides by.

### Correspondence

* `Refuse` is a rejected operation: it commits reconciliation and nothing else.
  Over budget, the stages before the overfull one are committed, which is what
  `Settled` computes (`StagesRun`); `Operation` as a whole is guarded by
  `~Backlogged`, as `_run_once` runs no body then.  `Tick` does nothing when
  backlogged, because the exception aborts the whole tick (`scheduler.py:65`).
* A `request` holds the room row and the account row of the view.  `AdvanceBooking`,
  `UseNow`, `MoveBooking` (for its target room) and `StaffBooking` decide by it;
  the operations on a booking reload their row (`refs.py`) and read the ledger.
  One `Fetch` stands for the page (which names an hour) and for the reads of the
  POST before the lock.
* A walk-in is a row created `IN_USE`; a staff range is a set of rows with `hold`.
* `profile.active` is `is_active`, `profile.display` is `availability_only`; a staff
  hold asks only for `is_active`, as `assert_slot_open` does.
* `ban` is the latest suspension of an account that is not lifted; an indefinite one
  ends after `MaxTime`.  `strike` is the no-show violation of a booking.
* `review` is `needs_review`; `resolved` remembers that it was set and cleared.
* The grid looks as far ahead as the settings say (`GridHorizonDays`,
  `availability.py:142`), the service as far as the policy in force says
  (`HorizonDays`, `booking.py:98-100`), which staff may set to anything from 1 to 60
  days: two constants, neither bounding the other.
* In `Suspensions` a day is the unit of time: a booking of day d is overdue when the
  day is over, and a no-show is filed under its day, a violation by staff under its
  note.  `consumed` and `needed` remember what a suspension was started for.
  A blank end of a suspension is `NoEnd`.  Adjusting an automatic suspension to no
  end is refused by the database and rolls everything back, so it is no step.
* In `OperationProtocol` the effect of an operation is the request's own name, and
  reconciliation is the time the tables are settled to.
* In `Outbox` times count down to their moment (`wait`, `lease`) or up from it (`age`),
  so that the clock needs no bound; `known` holds the deadlines already passed at
  the `now` a drain was given.  Rows due together are claimed in any order.
  Attempts are counted up to one past the limit and mails up to two.  The mail
  server may take a mail, refuse it, or take it and seem to fail.  An exception
  that escapes the loop of `drain` ends the worker, as `Crash` does.
* In `Accounts` a completion (`request`) locks the account's row in `Begin`, reads
  roster and list in `Consult` and writes in `Commit`.  `CorrectId` checks, and
  `CorrectIdWrite` waits for the row; `AddMember` reads who waits, and
  `AddMemberCommit` makes entry and approvals visible.  An import is what it will
  write, column by column (`ImportRead`), and then writes it onto the rows as they
  are (`ImportWrite`), because the code saves only the columns it changed.  The IDs
  of a file are distinct, so that the rows after n entries are given by a formula
  and need no recursion.  An account has one verification link: nothing but
  `start_registration` issues one, and it issues one.
* In `Links` an expired link is one whose time is up.  `SELECT ... FOR UPDATE` reads
  the newest generation before it waits for the row, so an `issue` may find its
  generation taken; the unique constraint then rolls it back (`Taken`).

### Bounds

`MaxBookings`, `LastSlot`, `MaxTime`, `ManagedRooms`, `ManagedUsers`,
`OperationProtocol!MaxTime`, `LongestWait`, `MaxCrashes`, `LastDay`, `Hours`,
`Notes`, `MaxStaff`, `Requests`, `Files`, `Typed`, `Listable`, `Processes` and
`MaxLinks` are marked BOUND where they are declared; everything else is a parameter
of the program.  In `Reservations` an hour is two ticks, the grace one: before, at
and after the check-in deadline are different instants, and that is all the rules
tell apart.

## 3. The runs

| Run | Instance | Shows |
|---|---|---|
| `students` | one student, two rooms, a class in one of them, three dates (two hours each, one on the last), three rows; quota 2, cap 1; the grid looks two dates ahead, the policy one | `StudentHoursApart`, `QuotaKept`, `UpcomingKept`, `ForfeitNotReclaimed`: two rooms and two dates are the least in which adjacency, moves, forfeits, quota and cap can disagree; and `SuggestionsHold` of every page in every such state, hours beyond the policy and alternatives after a class included |
| `rooms` | a student, a member of staff, two requests in flight, one room that is re-profiled or retired meanwhile | `RoomHourExclusive`, `HistoryIsFinal`, and the refinement `HoursKept`, although both requests decide by rows read before the lock. With one room nothing moves here: a move takes place in `students`, where room rows do not change, and a move decided by a stale room row is covered by the theorems of section 5 alone |
| `closures` | one closure of an hour, date overrides, an account that may be blocked or retired, an incident, a room with approval or a display room; scheduler and clock under fairness | `ClosureClearsHours`, `ClosedSessionsReviewed`, `EveryBookingEnds`; and `SuggestionsHold` beside closures, closed dates, blocked accounts and staff holds, which `students` has none of. Two rows cannot exceed the budget here, so what a backlog does is the business of `wedge` |
| `sanctions` | one student, three rows, one strike to a suspension, incidents, staff suspensions, a plain or a members' room | `StrikeMatchesNoShow`, `SuspensionClearsCalendar`, `SuspensionBitesAtOnce` |
| `suspensions` | four days, two days to book, one note of staff, one staff suspension, a policy followed by a stricter one; scheduler under fairness | `SanctionsAreEarned`, `BookersInGoodStanding`, `NeverStacked`, `EndsAreNotified`, `StrikesAnswered`: three strikes in two days of window and suspensions of one and two days are the least in which strikes lapse, outlive a suspension and are spent. `EndsAreNotified` is about the first notice of an end: the dedupe key swallows a later one |
| `retries` | two submissions, one key and none, two payloads, two retries, under fairness | `TypeOK` (no request is attempted past the limit), `AtMostOncePerKey`, `RejectionKeepsReconciliation`, `TimeFollowsLock`, `OncePerKey`, `EveryRequestEnds`: two are the least that can race for a key, and the theorems cover any number |
| `outbox` | one row, two workers, leases and back-offs of two minutes, three attempts, a crash, under fairness | `DuplicatesExcused`, `ExhaustedAfterAllAttempts`, `EveryEventSettles`: the row is the unit of locking, and a late worker and its successor are two |
| `accounts` | one account with its own ID or another, two completions at once, the roster row of the first ID with either of two addresses, an access list, settings that drop the room or not | `ConfirmedOnce`, `UnseenAreConfirmed`, `DecisionsStand`, `RowsStayLinked`, `StaffWordStands`; `ForecastHolds` and `ImportsIdempotent` for every file of one entry or two over two IDs and two addresses |
| `links` | two requests, two links of each purpose, under fairness | `RedeemedOnce`, `OneLiveLink`, `OnlyNewestRedeemed`, `EveryCallEnds` |
| `stale_room`, `wedge`, `one_active` | | the disagreements of section 4 |

Deadlock is checked in every run but those of `Suspensions` and `Links`, which may
come to rest when their clock, their notes or their links are used up.

**Fairness.**  `Reservations!FairSpec` assumes that the tick is run again and again
(`core/scheduler.py`: once a minute, and again after one that failed), and that time
passes; `Suspensions!FairSpec` only the former.  Nothing is assumed of people.
`OperationProtocol!FairSpec` assumes that a worker goes on with its request, and
that a wait for the lock ends one way or the other
(`BOOKING_LOCK_TIMEOUT_SECONDS`): the disjunction is fair, not the granting of the
lock.  `Links!FairSpec` is strong fairness of each request's progress: PostgreSQL
queues the waiters for a row, so a request that can go on again and again does.
`Outbox!FairSpec` assumes that drains keep coming, that a worker proceeds
and that time passes; failures and crashes are not fair, and crashes are bounded.

`SuggestionsHold` is an equivalence wherever an offer can be false: what is offered is
accepted except in the named case, and in that case never.  The cases are an hour
beyond the policy's horizon (`PanelHolds`), a staff hold at the door (`DoorHolds`), an
alternative when quota or cap is used up (`AlternativesHold`), and a gap beyond the
staff horizon, whose form refuses the date (`GapsHold`).  All four occur in the runs.
Excepted altogether are an account that the request's own reconciliation suspends
and a ledger over budget: the pages cannot know either.

## 4. Where the code and its documents disagree

Three are checked:

* `stale_room`: a reservation is decided by the room row the view fetched, so a room
  retired between fetch and lock receives a new reservation; `refs.py:9` says every
  mutation decides by the committed row.
* `wedge`: two rows due together and a budget of one are never reconciled, since the
  tick has the budget of a request and aborts; `roomreserveapp.v3.md:186` lets the job
  catch up.  With the shipped budget of 500 this needs 501 rows in one stage.
* `one_active`: a suspension that is over can be given a later end beside one that is
  in force (`sanctions.py:190`); `roomreserveapp.v3.md:158` asks the service to prevent
  several active ones.

The others were met while modelling and are only described:

* Walk-ins.  The hour of a walk-in is that of the lock, whatever hour the page named
  (`walkin.py:65`); `roomreserveapp.v3.md:102` asks for a separate decision at the turn
  of the hour.
* Mail.  `claim_due` does not look at the limit on attempts (`outbox.py:86`), so a row
  whose worker died on its last attempt is tried again; `roomreserveapp.v3.md:265` says
  exhausted after six.  Every row of a batch is revalidated against the time the drain
  began (`notifications.py:228`); the model has this (`known`), but a link may expire
  while its mail is on the way whatever the program does.
* Accounts.  A rejected account is approved by a roster match when it completes its
  registration afterwards, although `identity.py:349` says it stays rejected
  (`DecisionsStand` is about confirmed accounts for this reason).  A completion
  and a listing that overlap may each miss the other and leave a confirmed, listed
  account pending (`docs/decisions.md:471`).  A corrected ID may overlap a completion
  that links the roster row of the old one.  A dry run with address changes refuses
  some files the import accepts, when one entry frees the address another takes
  (`ForecastHolds` is one-sided there).  A verification link that expired or was lost
  cannot be sent again, as `resend_verification` has no caller
  (`roomreserveapp.v3.md:245`).  The instrument category of an account is read from its
  roster row even when the row is no longer active (`docs/decisions.md:519`).
* Rooms.  The seed may overwrite what staff commit while it runs (`StaffWordStands`
  excepts it); no staff operation puts a retired room back; an audience set by staff is
  overwritten by the next seed.
* Sanctions.  A changed end is to be announced again (`sanctions.py:202`), but its notice
  has the same dedupe key as the first (`reconcile.py:337`).  A blank end for an
  automatic suspension violates a constraint and ends in an error page.  A strike's
  window is counted from its deadline, not from when it was recorded (`docs/policy.md:177`).
* Pages.  `availability.py:3` says expired holds may be shown as free; they are shown as
  taken until they are reconciled, which loses an offer and never makes a false one.
  What follows is stated exactly in `SuggestionsHold`, against `suggest.py:5-10`, which
  promises that a suggestion is legal for its viewer.  The panel lists hours up to the
  horizon of the settings and the service refuses those beyond the policy's, which staff
  may shorten (`availability.py:142`, `booking.py:98-100`; `docs/policy.md:121-125` has
  the page name what would still be accepted).  After a refusal because the hour is
  taken every room named instead accepts it (`TakenHourHasOthers`); after one for a
  class those rooms are filtered neither by quota nor by cap, though `suggest.py:92`
  says they would have accepted the hour; after one for adjacency none is ever named.
  A staff hold in its first minutes is shown at the door as ready for check-in
  (`views/public.py:367-383`) and refused as already in use.

## 5. What is proved

TLAPS proves the following for every value of the constants that satisfies the
assumptions of the module (`LedgerAssumption` with `AvailabilityAssumption`, `ProtocolAssumption`,
`OutboxAssumption`, `SuspensionsAssumption`, `AccountsAssumption` with
`RoomSeedAssumption`, `LinksAssumption`): any number of accounts, rooms, hours, rows,
requests, keys, events, workers, days, policies, files, IDs and links.

* `Reservations_proofs`: `TypeCorrect`, `ExclusiveHours` (`RoomHourExclusive`),
  `ClosuresClear` (`ClosureClearsHours`), `SessionsFlagged` (`ClosedSessionsReviewed`).
  Each is inductive together with the ones before it.  What makes them so are facts
  about reconciliation: it never makes a row block that did not (`SettledFrees`), makes
  nobody wait who did not (`SettledWaits`), and begins only sessions of holds that
  waited, hence outside every closure (`SettledSessions`).  Every operation decides on
  the reconciled table, and the four that place a booking check hour and calendar
  there.  That they decide by stale room rows does not matter to it, which is what
  `rooms` shows on an instance.
* `History_proofs`, on one account and along the history.  `Steps` reduces the
  operations to four kinds: insertions, the move, rewritings of statuses and strikes,
  and steps that touch no row.  Every argument below goes through the four kinds.
  * `FinishedStays` (`HistoryIsFinal`), `StrikesMatch` (`StrikeMatchesNoShow`),
    `HoursApart` (`StudentHoursApart`), `ForfeitsStand` (`ForfeitNotReclaimed`).
    `IdsInOrder` (no id is used before the ones below it) is the strengthening that
    keeps an insertion away from finished rows; `NoShowsPast` is the one that keeps a
    staff range, to which no forfeit rule applies, away from the hours forfeited by
    that member of staff, because it must begin in the future.
  * `QuotasHold` (`QuotaKept`) and `CapsHold` (`UpcomingKept`).  A step that inserts
    nothing makes no row count that did not (`NothingCounted`), and an insertion adds at
    most one row that is no hold, decided by what quota and cap leave on the reconciled
    table (`OneInserted`); a set that shrinks (`FewerRows`), or grows by one from below
    a limit (`OneRowMore`), stays within it.  No strengthening is needed but `TypeOK`.
  * `CalendarCleared` (`SuspensionClearsCalendar`) and `SuspendedStayOut`
    (`SuspensionBitesAtOnce`).  Only a student is barred by a suspension: staff may
    place a hold while suspended.  What makes the first true is that staff are never
    suspended by reconciliation in this module, because a hold needs no check-in, so
    they miss none and the ledger gives them no strike: `StaffNeverMiss` is the
    strengthening.  By hand staff may be struck and suspended like anybody
    (`views/staff.py:659-721`).  A suspension by hand is `ApplySuspension`, and the
    theorem covers it; strikes by hand are only in `Suspensions`, so the theorem says
    nothing of a member of staff whom they bring over the threshold in the very
    transaction that places a hold.
  * `HoursKeepPromise`, the refinement `HoursKept` of `RoomHours`.  With
    `RoomHourExclusive` before and after the step a room hour has one holder at most;
    whoever is inside, or was, stays on the row and in the cell (`BusyRow`), and a row
    becomes spent only where its account had it (`SpentRow`).
  * On reconciliation itself: `OnceIsEnough` (a second one in a row changes nothing and
    meets no backlog), `RunsEndBookings` (a run of the scheduler ends whatever is over,
    unless an incident excuses it), `LateIsInTime` (a scheduler that was down ends no
    booking differently; strikes and suspensions are not in it, for a suspension
    begins when it is found), and `WedgeIsForever`: rows due at a stage above its
    budget stay due, so the disagreement of the run `wedge` does not depend on its
    instance.  The third stage is excepted, for its rows move on to the fourth by
    themselves.
* `Availability_proofs`: `OffersHold` (`SuggestionsHold`), for any two horizons.  The
  pages read the stored rows and the operations the reconciled ones; reconciliation only
  takes away, so what was free stays free, what was left of quota and cap is no less, and
  an hour to come is not forfeited (`NoShowsPast`).  What is left to refuse a free hour
  is the horizon, quota and cap (`FreeIsReservable`), and a hold that has begun is in use
  before its check-in is decided (`HoldsBegin`).  There is a lemma for each of the six
  offers.  `TakenHoursHelp` (`TakenHourHasOthers`) is the case in which the docstring of
  `for_slot` holds.
* `Suspensions_proofs`: `TypeCorrect`, `EarnedSanctions` (`SanctionsAreEarned`),
  `NoneStacked` (`NeverStacked`), `GoodStandingBooks` (`BookersInGoodStanding`).
  `Sound`, a well-formed file whose suspensions are earned, is kept by each stage of
  reconciliation and each service; every change either extends a file (`Kept`) or begins
  a suspension (`Begun`).  That strikes are a finite set, so that they can be counted,
  comes from the bounded set of hours and notes.  `TickSettles` and `TickTwice` say that
  one run of the scheduler answers the strikes and announces the ends, and that a second
  one finds nothing to do; they need `Announced`: what is marked as announced has its
  notice.
* `Accounts_proofs`: `TypeCorrect`, `ConfirmsOnce`, `UnseenConfirmed`, `DecisionsHold`,
  `RowsLinked`, `StaffStand`, `ForecastTrue`, `ImportIdempotent` (the properties of the
  run `accounts`).  The invariant says what each operation carries from its reads to its
  writes: a completion holds an account nobody has confirmed (`RequestsInv`), those a
  listing approves are confirmed and wait (`StaffInv`), the rows an import creates do
  not exist (`ImportShape`), a seed nobody overtook agrees with the room (`RoomInv`).
  `DryRunAgrees` and `SecondImportIdle` are about `Roster` alone, for files of any length
  and any roster.  Because `Applied` is a formula of n, neither needs an induction.
* `Links_proofs`: `TypeCorrect`, `RedeemsOnce`, `OneIsLive`, `NewestRedeems`.  Only the
  newest link of a purpose is ever open, and whoever holds the account's row redeems
  the newest, unused; issuing needs that row too, through its foreign key.
* `OperationProtocol_proofs`: `TypeCorrect`, `AtMostOnce`, `RejectionsKeep`,
  `TimeFollows` and the refinement `KeepsPromise`.  The properties speak of what is
  committed; the inductive invariant says what an open transaction knows:
  `Discipline` (whoever is in a transaction holds the lock, and only it is dirty),
  `RecordsMatch` (a recorded answer belongs to a request that took effect with that
  key), `VerdictsMatch` (what is about to be answered agrees with what will be
  committed), `TimesMatch` (the time of the lock holder is no earlier than the
  tables, and no later than the clock).  `LockNeverLeaks`: the control lock is only
  ever held by an open transaction.  `NoEndlessRetries`: `Taken`, which counts the
  attempts of a request first and then where its transaction stands, grows with every
  step of the request and has a bound that depends on `_MAX_TRANSIENT_RETRIES` alone.
* `Outbox_proofs`: `TypeCorrect`, `SentWasMailed` (a row that says SENT was mailed), `NoOtherDuplicates`, `GivenUpLast`.
  `WorkersMatch` ties a worker's position to its batch, `QueuedFirst` says that no
  absent row is claimed, and `OneHand`, the heart of it, that a row without an excuse
  carries a lease while a worker has it, is in one worker's hands, and was not mailed
  before that worker says so.  `CopiesBehind` (a worker's copy counts no more attempts
  than the row) gives `GivenUpLast`.  `TriesRunOut`: a settled row stays settled,
  whoever writes it late, and a worker that takes a row counts an attempt and lets go
  of it settled, unless it dies or fails below the limit.

Only model-checked: the liveness properties (`EveryBookingEnds`, `EveryRequestEnds`,
`EveryEventSettles`, `EveryCallEnds`, `EndsAreNotified`, `StrikesAnswered`), since
fairness and `ENABLED` are beyond the prover.  For five of them the step that makes
progress is proved (`RunsEndBookings`, `TickSettles`, `NoEndlessRetries`, `TriesRunOut`);
that the scheduler or a worker keeps taking it is the fairness TLC assumes.  Every
invariant and every action property that a passing run checks is stated by a theorem.

## 6. What is not modelled

* Descriptive details of a booking, its version counter, audit records (but for the two
  kinds `rooms.py` reads), the wording and payload of mails, languages.
* The cancellation of a weekly series (left from an earlier version) and the edit of
  details: neither reads or writes anything the rules depend on, except that a series
  is a sequence of cancellations.
* Which operation queues which mail, except the notices of suspensions; reminders.
* `resolved_at` of an incident is not read by `_incident_covers`, so incidents only
  accumulate.
* In `Reservations` the room audience, the member list and the timetable are constants,
  and so is the policy; the second clock read of a closure preview is taken at the
  instant of the first.
* Room administrators, the audience and the weekly blocks as staff edit them; the
  declared instrument and the categories derived from it.
* `resend_verification`, `verify_email` and `change_email` of `identity.py`, and
  `prune_operation_requests`, have no caller.
* Pasting several addresses at once is a sequence of `AddMember` under one lock.
* The status board, the lobby screen, the kinds a strip is drawn with, the calendar
  file, statistics and exports; rate limits; rendering and form parsing.
* The missing `BookingControl` row is part of acquiring the lock.  The tick waits for
  the lock without a limit.

## 7. Plan

1. A policy that changes under the ledger: quota, cap and horizon as a variable of
   `BookingLedger`, with a bound relative to the policy of the moment of booking.
2. Audience and access list as state of `BookingLedger`, joined with `Accounts`.
3. Reminders and the mails of each operation, composed with `Outbox`.
4. The promise of one link made to one person (`Links`) as an abstract specification
   that the locked reading of the newest link implements.
