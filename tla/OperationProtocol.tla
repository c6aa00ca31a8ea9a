-------------------------- MODULE OperationProtocol --------------------------
(***************************************************************************)
(* run_operation of core/services/protocol.py, step by step.  A request    *)
(* submits a form, waits for the BookingControl lock, reconciles, looks    *)
(* for the answer of an earlier request with its key, runs the operation   *)
(* in a savepoint, records its answer and commits.  It may time out on the *)
(* lock, meet a backlog, be rejected by the rules, suffer a serialization  *)
(* failure (and retry) or die with its worker at any step.                 *)
(*                                                                         *)
(* What the operation does to the bookings is Reservations' subject; here  *)
(* it is the request's effect, and reconciliation is the time up to which  *)
(* the tables are settled.  The isolation level is READ COMMITTED, so      *)
(* every read after the lock sees all that earlier holders committed.      *)
(***************************************************************************)
EXTENDS Naturals

CONSTANTS
  Requests,    \* submissions of forms: double clicks and browser retries too
  Keys,        \* idempotency keys of one account and operation
  Payloads,
  NoKey,       \* a request without a key, or without a signed-in account
  None,
  MaxRetries,  \* _MAX_TRANSIENT_RETRIES
  MaxTime      \* BOUND: the clock stops

Forms == [key : Keys \cup {NoKey}, payload : Payloads]
Kinds == {"ok", "replay", "rejected", "mismatch", "busy", "error", "lost"}
Outcomes == [kind : Kinds, of : Requests]

ASSUME ProtocolAssumption ==
  /\ MaxRetries \in Nat /\ MaxTime \in Nat
  /\ NoKey \notin Keys /\ None \notin Requests \cup Forms \cup Outcomes

VARIABLES
  clock,
  lock,      \* who holds the control row, None when free
  form,      \* request -> [key, payload], None before it is submitted
  stage,     \* request -> where its transaction stands
  attempt,   \* request -> number of the attempt of run_operation
  at,        \* request -> ctx.now of its current attempt
  verdict,   \* request -> the outcome its transaction will return
  dirty,     \* the requests whose open transaction has applied the operation
  answer,    \* request -> what its client saw: None, or [kind, of]
  settled,   \* committed: the time the tables are reconciled to
  effects,   \* committed: the requests whose operation was applied
  record     \* committed: key -> the request whose answer is recorded

tables == <<settled, effects, record>>
vars == <<clock, lock, form, stage, attempt, at, verdict, dirty, answer,
          settled, effects, record>>

Stages == {"new", "waiting", "locked", "settled", "ran", "closing", "committed", "over"}
InTransaction == {"locked", "settled", "ran", "closing"}
Answer(kind, q) == [kind |-> kind, of |-> q]

Goto(r, s) == stage' = [stage EXCEPT ![r] = s]
Decide(r, kind, q) == verdict' = [verdict EXCEPT ![r] = Answer(kind, q)]

Init ==
  /\ clock = 0 /\ lock = None
  /\ form = [r \in Requests |-> None]
  /\ stage = [r \in Requests |-> "new"]
  /\ attempt = [r \in Requests |-> 1]
  /\ at = [r \in Requests |-> 0]
  /\ verdict = [r \in Requests |-> None]
  /\ answer = [r \in Requests |-> None]
  /\ dirty = {} /\ settled = 0 /\ effects = {} /\ record = [k \in Keys |-> None]

Submit(r, f) ==
  /\ stage[r] = "new" /\ Goto(r, "waiting")
  /\ form' = [form EXCEPT ![r] = f]
  /\ UNCHANGED <<clock, lock, attempt, at, verdict, dirty, answer, tables>>

(***************************************************************************)
(* One attempt                                                             *)
(***************************************************************************)
AcquireLock(r) ==
  /\ stage[r] = "waiting" /\ lock = None /\ Goto(r, "locked")
  /\ lock' = r
  /\ UNCHANGED <<clock, form, attempt, at, verdict, dirty, answer, tables>>

LockTimeout(r) ==
  /\ stage[r] = "waiting" /\ lock # None /\ Goto(r, "committed")
  /\ Decide(r, "busy", r)
  /\ UNCHANGED <<clock, lock, form, attempt, at, dirty, answer, tables>>

\* Mutant: the clock was read at some time before the lock was granted.
ReconcileEarlier(r) ==
  /\ stage[r] = "locked"
  /\ \E t \in 0..clock : at' = [at EXCEPT ![r] = t]
  /\ \/ Goto(r, "settled") /\ UNCHANGED verdict
     \/ Goto(r, "closing") /\ Decide(r, "busy", r)
  /\ UNCHANGED <<clock, lock, form, attempt, dirty, answer, tables>>
\* The clock is read under the lock, then everything due by it is settled; a
\* backlog is answered BUSY.
Reconcile(r) ==
  /\ stage[r] = "locked"
  /\ at' = [at EXCEPT ![r] = clock]
  /\ \/ Goto(r, "settled") /\ UNCHANGED verdict
     \/ Goto(r, "closing") /\ Decide(r, "busy", r)
  /\ UNCHANGED <<clock, lock, form, attempt, dirty, answer, tables>>

\* Mutant: a prior request is one with the same payload as well.
PriorSamePayload(r) ==
  IF /\ form[r].key # NoKey
     /\ record[form[r].key] # None
     /\ form[record[form[r].key]].payload = form[r].payload
  THEN record[form[r].key] ELSE None
\* The request that first answered this one's key.
Prior(r) == IF form[r].key = NoKey THEN None ELSE record[form[r].key]

\* Mutant: an earlier result is shown whatever was asked this time.
ReplayUnchecked(r) ==
  /\ stage[r] = "settled" /\ Prior(r) # None /\ Goto(r, "closing")
  /\ Decide(r, "replay", Prior(r))
  /\ UNCHANGED <<clock, lock, form, attempt, at, dirty, answer, tables>>
Replay(r) ==
  /\ stage[r] = "settled" /\ Prior(r) # None /\ Goto(r, "closing")
  /\ IF form[Prior(r)].payload = form[r].payload
     THEN Decide(r, "replay", Prior(r)) ELSE Decide(r, "mismatch", r)
  /\ UNCHANGED <<clock, lock, form, attempt, at, dirty, answer, tables>>

\* The operation runs in a savepoint: applied, or rejected and rolled back.
Run(r) ==
  /\ stage[r] = "settled" /\ Prior(r) = None
  /\ \/ Goto(r, "ran") /\ Decide(r, "ok", r) /\ dirty' = dirty \cup {r}
     \/ Goto(r, "closing") /\ Decide(r, "rejected", r) /\ UNCHANGED dirty
  /\ UNCHANGED <<clock, lock, form, attempt, at, answer, tables>>

\* The answer is inserted; the unique key may refuse it, and then the applied
\* operation stays in the transaction.
RecordAnswer(r) ==
  /\ stage[r] = "ran" /\ Goto(r, "closing")
  /\ IF Prior(r) = None
     THEN UNCHANGED verdict
     ELSE Decide(r, IF form[Prior(r)].payload = form[r].payload
                    THEN "replay" ELSE "mismatch", Prior(r))
  /\ UNCHANGED <<clock, lock, form, attempt, at, dirty, answer, tables>>

\* Mutant: a rejection rolls reconciliation back with the operation.
CommitOnlySuccess(r) ==
  /\ stage[r] = "closing" /\ Goto(r, "committed")
  /\ lock' = None
  /\ settled' = IF r \in dirty THEN at[r] ELSE settled
  /\ effects' = effects \cup (dirty \cap {r}) /\ dirty' = dirty \ {r}
  /\ record' = IF verdict[r].kind = "ok" /\ form[r].key # NoKey
               THEN [record EXCEPT ![form[r].key] = r] ELSE record
  /\ UNCHANGED <<clock, form, attempt, at, verdict, answer>>
Commit(r) ==
  /\ stage[r] = "closing" /\ Goto(r, "committed")
  /\ lock' = None
  /\ settled' = IF verdict[r].kind = "busy" THEN settled ELSE at[r]
  /\ effects' = effects \cup (dirty \cap {r}) /\ dirty' = dirty \ {r}
  /\ record' = IF verdict[r].kind = "ok" /\ form[r].key # NoKey
               THEN [record EXCEPT ![form[r].key] = r] ELSE record
  /\ UNCHANGED <<clock, form, attempt, at, verdict, answer>>

\* The variables of run_operation die with the request.
Forget(r) ==
  /\ attempt' = [attempt EXCEPT ![r] = 1] /\ at' = [at EXCEPT ![r] = 0]
  /\ verdict' = [verdict EXCEPT ![r] = None]

Respond(r) ==
  /\ stage[r] = "committed" /\ Goto(r, "over")
  /\ answer' = [answer EXCEPT ![r] = verdict[r]]
  /\ Forget(r)
  /\ UNCHANGED <<clock, lock, form, dirty, tables>>

(***************************************************************************)
(* Failures: all of them roll the open transaction back                    *)
(***************************************************************************)
RollBack(r) == /\ lock' = IF lock = r THEN None ELSE lock
               /\ dirty' = dirty \ {r}

\* Mutant: a transient failure is retried for ever.
RetryForever(r) ==
  /\ stage[r] \in InTransaction /\ RollBack(r) /\ Goto(r, "waiting")
  /\ verdict' = [verdict EXCEPT ![r] = None]
  /\ UNCHANGED <<clock, form, at, attempt, answer, tables>>
\* Mutant: one attempt more than the limit.
RetryOnceMore(r) ==
  /\ stage[r] \in InTransaction /\ RollBack(r)
  /\ \/ /\ attempt[r] <= MaxRetries + 1 /\ Goto(r, "waiting")
        /\ attempt' = [attempt EXCEPT ![r] = @ + 1]
        /\ verdict' = [verdict EXCEPT ![r] = None]
     \/ /\ attempt[r] > MaxRetries + 1 /\ Goto(r, "committed")
        /\ Decide(r, "error", r)
        /\ UNCHANGED attempt
  /\ UNCHANGED <<clock, form, at, answer, tables>>
\* A serialization failure or a deadlock: tried again, a few times.
TransientFailure(r) ==
  /\ stage[r] \in InTransaction /\ RollBack(r)
  /\ \/ /\ attempt[r] <= MaxRetries /\ Goto(r, "waiting")
        /\ attempt' = [attempt EXCEPT ![r] = @ + 1]
        /\ verdict' = [verdict EXCEPT ![r] = None]
     \/ /\ attempt[r] > MaxRetries /\ Goto(r, "committed")
        /\ Decide(r, "error", r)
        /\ UNCHANGED attempt
  /\ UNCHANGED <<clock, form, at, answer, tables>>

\* The worker dies, or the browser never sees the answer.
Crash(r) ==
  /\ stage[r] \notin {"new", "over"} /\ RollBack(r) /\ Goto(r, "over")
  /\ answer' = [answer EXCEPT ![r] = Answer("lost", r)]
  /\ Forget(r)
  /\ UNCHANGED <<clock, form, tables>>

\* The scheduler's tick takes the same lock and reconciles.
Tick ==
  /\ lock = None
  /\ settled' = clock
  /\ UNCHANGED <<clock, lock, form, stage, attempt, at, verdict, dirty, answer, effects, record>>

ClockTick ==
  /\ clock < MaxTime /\ clock' = clock + 1
  /\ UNCHANGED <<lock, form, stage, attempt, at, verdict, dirty, answer, tables>>

Attempt(r) ==
  \/ AcquireLock(r) \/ Reconcile(r) \/ Replay(r) \/ Run(r) \/ RecordAnswer(r)
  \/ Commit(r) \/ Respond(r)

Next ==
  \/ \E r \in Requests :
       \/ \E f \in Forms : Submit(r, f)
       \/ Attempt(r) \/ LockTimeout(r) \/ TransientFailure(r) \/ Crash(r)
  \/ Tick \/ ClockTick

Spec == Init /\ [][Next]_vars
\* A worker goes on with the request it serves, and the lock wait is bounded.
FairSpec == Spec /\ \A r \in Requests : WF_vars(Attempt(r) \/ LockTimeout(r))

(***************************************************************************)
(* Properties                                                              *)
(***************************************************************************)

\* Every row, request and transaction holds values of its kind; no request is
\* attempted more often than run_operation allows.
TypeOK ==
  /\ clock \in 0..MaxTime
  /\ lock \in Requests \cup {None}
  /\ form \in [Requests -> Forms \cup {None}]
  /\ stage \in [Requests -> Stages]
  /\ attempt \in [Requests -> 1..(MaxRetries + 1)]
  /\ at \in [Requests -> 0..MaxTime]
  /\ verdict \in [Requests -> Outcomes \cup {None}]
  /\ dirty \subseteq Requests
  /\ answer \in [Requests -> Outcomes \cup {None}]
  /\ settled \in 0..MaxTime
  /\ effects \subseteq Requests
  /\ record \in [Keys -> Requests \cup {None}]

\* However often a form is submitted, and whatever fails on the way, its
\* operation takes effect at most once (protocol.py:196-244).
AtMostOncePerKey ==
  \A r, q \in effects : form[r].key = form[q].key /\ form[r].key # NoKey => r = q

\* An answer other than BUSY or a failure commits the reconciliation it was
\* decided on: a rejection keeps the no-shows and suspensions that made it
\* right (protocol.py:17-20).
RejectionKeepsReconciliation ==
  \A r \in Requests :
    stage[r] = "committed" /\ verdict[r].kind \notin {"busy", "error"}
    => at[r] <= settled

\* Decisions are committed in the order of the times they were taken at: no
\* operation commits an older view of the tables over a newer one.
TimeFollowsLock == [][settled <= settled']_vars

\* Every submitted request is answered or dies with its worker: bounded lock
\* waits and retries, no waiting for each other.
EveryRequestEnds ==
  \A r \in Requests : stage[r] = "waiting" ~> stage[r] = "over"

Promise == INSTANCE KeyedRequests

\* The protocol keeps the promise of KeyedRequests, step by step: what a
\* client is told of its request agrees with the tables.
OncePerKey == Promise!Spec
=============================================================================
