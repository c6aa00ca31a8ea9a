------------------------------ MODULE Suspensions ------------------------------
(***************************************************************************)
(* One student's disciplinary file: the strikes, the suspensions and what  *)
(* they do to the booked hours (core/services/sanctions.py, the strike     *)
(* stages of core/services/reconcile.py, core/services/policy.py).  Every  *)
(* query of that code selects by user, so students do not interact.        *)
(*                                                                         *)
(* Reservations keeps one suspension per student, the latest; here a       *)
(* student has all of them, with their notices, and the policy in force    *)
(* changes.  An operation runs under the control lock after a              *)
(* reconciliation, so it is one step from Reconciled(file).                *)
(***************************************************************************)
EXTENDS Integers, FiniteSets, Sequences

CONSTANTS
  LastDay,   \* BOUND: the clock stops here
  Hours,     \* BOUND: the days with an hour to book
  Notes,     \* BOUND: the violations staff may record
  Ends,      \* the ends staff may give a suspension, 0 for none
  Versions,  \* the policy versions, in the order they are activated
  MaxStaff   \* BOUND: suspensions staff start

\* The values a policy may have.
Policies == [threshold : 1..10, window : 1..365, days : 1..90]

ASSUME SuspensionsAssumption ==
  /\ LastDay \in Nat /\ MaxStaff \in Nat
  /\ Ends \subseteq Nat /\ Hours \subseteq Nat \ {0} /\ IsFiniteSet(Hours)
  /\ Versions # << >> /\ Versions \in Seq(Policies)
  /\ IsFiniteSet(Notes) /\ \A n \in Notes : n \notin Int

VARIABLES
  now,
  version,  \* the number of the active PolicyVersion
  file      \* held, violations, suspensions, notices

vars == <<now, version, file>>

policy == Versions[version]

Days == 0..LastDay
\* Every automatic suspension spends at least one strike.
Records == 1..(MaxStaff + Cardinality(Hours) + Cardinality(Notes))
NoEnd == 0   \* a null ends_at: every real end is after a start, so positive
None == 0    \* a null consumed_by: suspensions are numbered from 1

(***************************************************************************)
(* A booking of day d has its check-in deadline when day d is over.  A     *)
(* no-show is filed under its day, a violation staff recorded under its    *)
(* note.                                                                   *)
(***************************************************************************)
Deadline(d) == d + 1

File(held, violations, suspensions, notices) ==
  [held |-> held, violations |-> violations, suspensions |-> suspensions,
   notices |-> notices]

Violation(at, counts) ==
  [occurred |-> at, expires |-> at + policy.window, counts |-> counts,
   voided |-> FALSE, consumer |-> None]

\* Mistake: marked as notified from the start.
SuspensionAnnounced(end, source, needed, consumed) ==
  [starts |-> now, ends |-> end, source |-> source, lifted |-> FALSE,
   endNotified |-> TRUE, needed |-> needed, consumed |-> consumed]

Suspension(end, source, needed, consumed) ==
  [starts |-> now, ends |-> end, source |-> source, lifted |-> FALSE,
   endNotified |-> FALSE, needed |-> needed, consumed |-> consumed]

\* Mistake: a strike that is spent counts again.
StrikeForAnother(v, t) == ~v.voided /\ v.counts /\ v.occurred <= t /\ t < v.expires

EligibleStrike(v, t) ==
  ~v.voided /\ v.counts /\ v.consumer = None /\ v.occurred <= t /\ t < v.expires

SpentOn(v, i) == [v EXCEPT !.consumer = i]

Active(s, t) == ~s.lifted /\ s.starts <= t /\ (s.ends = NoEnd \/ t < s.ends)

Strikes(f, t) == {k \in DOMAIN f.violations : EligibleStrike(f.violations[k], t)}
InForce(f, t) == {i \in DOMAIN f.suspensions : Active(f.suspensions[i], t)}
Latest(f, t) ==
  {i \in InForce(f, t) : \A j \in InForce(f, t) :
     f.suspensions[j].starts <= f.suspensions[i].starts}

--------------------------------------------------------------------------------
(* The stages of reconcile that touch the file.                              *)

NoShows(f) ==
  LET due == {d \in f.held : Deadline(d) <= now}
  IN  File(f.held \ due,
           [k \in DOMAIN f.violations \cup due |->
              IF k \in DOMAIN f.violations THEN f.violations[k]
              ELSE Violation(Deadline(k), TRUE)],
           f.suspensions, f.notices)

AutomaticSuspension(f) ==
  LET spent == Strikes(f, now)
      me == Len(f.suspensions) + 1
  IN  File({},
           [k \in DOMAIN f.violations |->
              IF k \in spent THEN SpentOn(f.violations[k], me)
              ELSE f.violations[k]],
           Append(f.suspensions,
                  Suspension(now + policy.days, "AUTO", policy.threshold, spent)),
           f.notices \cup {<<"applied", me>>})

\* Mistake: one suspension on top of another.
ThresholdsAlways(f) ==
  IF Cardinality(Strikes(f, now)) >= policy.threshold THEN AutomaticSuspension(f) ELSE f

\* Mistake: one strike too many.
ThresholdsPast(f) ==
  IF InForce(f, now) = {} /\ Cardinality(Strikes(f, now)) > policy.threshold
    THEN AutomaticSuspension(f) ELSE f

Thresholds(f) ==
  IF InForce(f, now) = {} /\ Cardinality(Strikes(f, now)) >= policy.threshold
    THEN AutomaticSuspension(f) ELSE f

Finished(f) ==
  LET over == {i \in DOMAIN f.suspensions :
                 LET s == f.suspensions[i]
                 IN  ~s.lifted /\ s.ends # NoEnd /\ s.ends <= now /\ ~s.endNotified}
  IN  File(f.held, f.violations,
           [i \in DOMAIN f.suspensions |->
              [f.suspensions[i] EXCEPT !.endNotified = @ \/ i \in over]],
           f.notices \cup {<<"ended", i>> : i \in over})

\* Mistake: the strikes are counted before the no-shows are known.
ReconciledInReverse == Finished(NoShows(Thresholds(file)))

Reconciled == Finished(Thresholds(NoShows(file)))

--------------------------------------------------------------------------------
(* The services staff call.                                                  *)

Recorded(f, n, counts) ==
  Thresholds(File(f.held,
                  [k \in DOMAIN f.violations \cup {n} |->
                     IF k = n THEN Violation(now, counts) ELSE f.violations[k]],
                  f.suspensions, f.notices))

\* A consumed strike keeps its consumer: a review opens, nothing is lifted.
Voided(f, k) ==
  LET by == f.violations[k].consumer
      review == by # None /\ ~f.suspensions[by].lifted
  IN  File(f.held, [f.violations EXCEPT ![k].voided = TRUE], f.suspensions,
           f.notices \cup (IF review THEN {<<"review", k>>} ELSE {}))

Adjusted(f, i, end) ==
  File(f.held, f.violations,
       [f.suspensions EXCEPT ![i].ends = end, ![i].endNotified = FALSE], f.notices)

\* The database refuses an automatic suspension without an end; the whole
\* transaction, reconciliation included, is lost then.
Adjustable(f, i, end) ==
  /\ ~f.suspensions[i].lifted
  /\ end # NoEnd => end > f.suspensions[i].starts
  /\ f.suspensions[i].source = "AUTO" => end # NoEnd

ManualSuspension(f, end) ==
  File({}, f.violations, Append(f.suspensions, Suspension(end, "MANUAL", 0, {})),
       f.notices \cup {<<"applied", Len(f.suspensions) + 1>>})

Lifted(f, i) ==
  File(f.held, f.violations, [f.suspensions EXCEPT ![i].lifted = TRUE],
       f.notices \cup {<<"lifted", i>>})

--------------------------------------------------------------------------------
Init ==
  /\ now = 0
  /\ version = 1
  /\ file = File({}, << >>, << >>, {})

Elapse ==
  /\ now < LastDay
  /\ now' = now + 1
  /\ UNCHANGED <<version, file>>

\* The scheduler's pass, and every operation that is refused after it.
Tick ==
  /\ file' = Reconciled
  /\ UNCHANGED <<now, version>>

Book(d) ==
  /\ d > now
  /\ LET f == Reconciled
     IN  /\ d \notin f.held /\ InForce(f, now) = {}
         /\ file' = File(f.held \cup {d}, f.violations, f.suspensions, f.notices)
  /\ UNCHANGED <<now, version>>

CheckIn ==
  /\ LET f == Reconciled
     IN  /\ now \in f.held /\ InForce(f, now) = {}
         /\ file' = File(f.held \ {now}, f.violations, f.suspensions, f.notices)
  /\ UNCHANGED <<now, version>>

Cancel(d) ==
  /\ d > now
  /\ LET f == Reconciled
     IN  /\ d \in f.held
         /\ file' = File(f.held \ {d}, f.violations, f.suspensions, f.notices)
  /\ UNCHANGED <<now, version>>

RecordManual(n, counts) ==
  /\ n \notin DOMAIN Reconciled.violations
  /\ file' = Recorded(Reconciled, n, counts)
  /\ UNCHANGED <<now, version>>

Void(k) ==
  /\ k \in DOMAIN Reconciled.violations
  /\ ~Reconciled.violations[k].voided
  /\ file' = Voided(Reconciled, k)
  /\ UNCHANGED <<now, version>>

Adjust(i, end) ==
  /\ i \in DOMAIN Reconciled.suspensions
  /\ Adjustable(Reconciled, i, end)
  /\ file' = Adjusted(Reconciled, i, end)
  /\ UNCHANGED <<now, version>>

\* A suspension in force is adjusted rather than doubled.
Suspend(end) ==
  /\ LET f == Reconciled
     IN  \/ \E i \in Latest(f, now) :
              Adjustable(f, i, end) /\ file' = Adjusted(f, i, end)
         \/ /\ InForce(f, now) = {}
            /\ end # NoEnd => end > now
            /\ Cardinality({i \in DOMAIN f.suspensions :
                              f.suspensions[i].source = "MANUAL"}) < MaxStaff
            /\ file' = ManualSuspension(f, end)
  /\ UNCHANGED <<now, version>>

Lift(i) ==
  /\ i \in DOMAIN Reconciled.suspensions
  /\ ~Reconciled.suspensions[i].lifted
  /\ file' = Lifted(Reconciled, i)
  /\ UNCHANGED <<now, version>>

\* A version is immutable; the next one rewrites nothing on the file.
CreatePolicyVersion ==
  /\ version < Len(Versions)
  /\ file' = Reconciled
  /\ version' = version + 1
  /\ UNCHANGED now

Next ==
  \/ Elapse \/ Tick \/ CheckIn \/ CreatePolicyVersion
  \/ \E d \in Hours : Book(d) \/ Cancel(d)
  \/ \E n \in Notes, counts \in BOOLEAN : RecordManual(n, counts)
  \/ \E k \in Hours \cup Notes : Void(k)
  \/ \E end \in Ends : Suspend(end)
  \/ \E i \in Records : Lift(i) \/ \E end \in Ends : Adjust(i, end)

Spec == Init /\ [][Next]_vars

\* The scheduler ticks every minute, whatever students and staff do.
FairSpec == Spec /\ WF_vars(Tick)
--------------------------------------------------------------------------------
(* Properties.                                                               *)

ViolationType ==
  [occurred : Nat, expires : Nat, counts : BOOLEAN, voided : BOOLEAN, consumer : Nat]
SuspensionType ==
  [starts : Nat, ends : Nat, source : {"AUTO", "MANUAL"}, lifted : BOOLEAN,
   endNotified : BOOLEAN, needed : Nat, consumed : SUBSET (Hours \cup Notes)]

\* The shape of the file: a consumer is a suspension on the same file, and a
\* suspension ends after it starts, an automatic one always.
FileOK(f) ==
  /\ f.held \subseteq Hours
  /\ DOMAIN f.violations \subseteq Hours \cup Notes
  /\ f.violations \in [DOMAIN f.violations -> ViolationType]
  /\ \A k \in DOMAIN f.violations : f.violations[k].consumer \in 0..Len(f.suspensions)
  /\ f.suspensions \in Seq(SuspensionType)
  /\ \A i \in DOMAIN f.suspensions :
       LET s == f.suspensions[i]
       IN  /\ s.ends # NoEnd => s.starts < s.ends
           /\ s.source = "AUTO" => s.ends # NoEnd

TypeOK == now \in Days /\ version \in DOMAIN Versions /\ FileOK(file)

Spent(f, i) == {k \in DOMAIN f.violations : f.violations[k].consumer = i}

EarnedBy(f, i) ==
  LET s == f.suspensions[i]
  IN  /\ Spent(f, i) = s.consumed
      /\ Cardinality(s.consumed) >= s.needed
      /\ s.source = "AUTO" => s.needed >= 1
      /\ \A k \in Spent(f, i) :
           LET v == f.violations[k]
           IN  v.counts /\ v.occurred <= s.starts /\ s.starts < v.expires

Earned(f) == \A i \in DOMAIN f.suspensions : EarnedBy(f, i)

(***************************************************************************)
(* Every automatic suspension rests on strikes of its own: as many as the  *)
(* policy asked for when it began, each one counting and inside its window *)
(* at that moment, and each still marked as spent on this suspension and   *)
(* no other -- through voids, lifts, adjustments and policy changes        *)
(* (sanctions.py:218 and v3.md section 7).                                 *)
(***************************************************************************)
SanctionsAreEarned == Earned(file)

\* An hour is only ever booked by a student with no suspension in force and
\* fewer strikes than the policy of the moment allows: whatever was left
\* standing when a suspension ended, was lifted or a stricter policy was
\* activated is answered first (reconcile.py:207-225).
BookersInGoodStanding ==
  [][~(file'.held \subseteq file.held) =>
       /\ InForce(file', now) = {}
       /\ Cardinality(Strikes(file', now)) < policy.threshold]_vars

\* While a suspension is in force no second record is started, by the
\* reconciler or by staff (reconcile.py:220-222, sanctions.py:146).
NeverStacked ==
  [][InForce(file, now) # {} => Len(file'.suspensions) = Len(file.suspensions)]_vars

\* With a scheduler that runs, the student hears of every suspension that
\* runs out, unless it is lifted or extended before (reconcile.py:321-345).
Unheard ==
  {i \in DOMAIN file.suspensions :
     /\ ~file.suspensions[i].lifted
     /\ file.suspensions[i].ends \in 1..now
     /\ <<"ended", i>> \notin file.notices}

EndsAreNotified == Unheard # {} ~> Unheard = {}

\* With a scheduler that runs, strikes that reach the threshold are answered
\* by a suspension unless they lapse, are voided or the policy is relaxed
\* (reconcile.py:207-225).
StrikesAnswered ==
  (InForce(file, now) = {} /\ Cardinality(Strikes(file, now)) >= policy.threshold)
    ~> (InForce(file, now) # {} \/ Cardinality(Strikes(file, now)) < policy.threshold)

\* v3.md:158: "Prevent multiple concurrently active suspension records in the
\* service under the common lock".  Refuted: a suspension that is over can be
\* given a later end beside another in force (sanctions.py:190-203).
OneInForce == Cardinality(InForce(file, now)) <= 1
================================================================================
