----------------------- MODULE OperationProtocol_proofs -----------------------
(***************************************************************************)
(* The operation protocol keeps its promise for any number of requests,    *)
(* keys, payloads and retries, whatever fails and whenever.                *)
(*                                                                         *)
(* The argument: only the holder of the control lock has an open           *)
(* transaction, so between its look at the recorded answers and its commit *)
(* nothing is recorded; an operation applied in it therefore meets no      *)
(* earlier effect of its key, and its answer is recorded with it.          *)
(***************************************************************************)
EXTENDS OperationProtocol, TLAPS

USE ProtocolAssumption DEF Forms, Outcomes, Kinds

\* An open transaction holds the lock; a request has a form once submitted,
\* and an answer only at its end.
Discipline ==
  \A r \in Requests :
    /\ stage[r] \in InTransaction => lock = r
    /\ stage[r] = "new" => form[r] = None
    /\ stage[r] # "new" => form[r] \in Forms
    /\ stage[r] # "over" => answer[r] = None
    /\ stage[r] \in {"closing", "committed"} => verdict[r] \in Outcomes

\* The recorded answers are those of the applied keyed requests.
RecordsMatch ==
  /\ \A k \in Keys : record[k] # None => record[k] \in effects /\ form[record[k]].key = k
  /\ \A r \in effects : form[r] \in Forms
  /\ \A r \in effects : form[r].key # NoKey => record[form[r].key] = r
  /\ \A r \in effects : stage[r] \in {"committed", "over"}

\* What an open transaction did, and what its verdict will be.
VerdictsMatch ==
  \A r \in Requests :
    /\ r \in dirty => stage[r] \in {"ran", "closing"} /\ Prior(r) = None
    /\ stage[r] = "ran" => r \in dirty /\ verdict[r] = Answer("ok", r)
    /\ stage[r] = "closing" => (r \in dirty <=> verdict[r].kind = "ok")
    /\ stage[r] \in {"closing", "committed"} /\ verdict[r].kind = "replay" =>
         verdict[r].of \in effects /\ form[verdict[r].of] = form[r]
    /\ stage[r] = "committed" => (r \in effects <=> verdict[r].kind = "ok")

\* No operation is decided by a time before the last committed one.
TimesMatch ==
  /\ settled <= clock
  /\ \A r \in Requests :
       /\ at[r] <= clock
       /\ stage[r] \in {"settled", "ran", "closing"} => settled <= at[r]
       /\ stage[r] = "committed" /\ verdict[r].kind \notin {"busy", "error"} => at[r] <= settled

Inv == TypeOK /\ Discipline /\ RecordsMatch /\ VerdictsMatch /\ TimesMatch

LEMMA InitInv == Init => Inv
  BY SMT DEF Init, Inv, TypeOK, Discipline, RecordsMatch, VerdictsMatch, TimesMatch, Stages, InTransaction

LEMMA NextInv == Inv /\ [Next]_vars => Inv'
<1> SUFFICES ASSUME Inv, [Next]_vars PROVE Inv'
  OBVIOUS
<1> USE DEF Inv, TypeOK, Discipline, RecordsMatch, VerdictsMatch, TimesMatch, Stages,
            InTransaction, Forms, Outcomes, Kinds, Answer, Goto, Decide, Prior, tables
<1>1. ASSUME NEW r \in Requests, NEW f \in Forms, Submit(r, f) PROVE Inv'
  BY <1>1, SMT DEF Submit
<1>2. ASSUME NEW r \in Requests, AcquireLock(r) PROVE Inv'
  BY <1>2, SMT DEF AcquireLock
<1>3. ASSUME NEW r \in Requests, Reconcile(r) PROVE Inv'
  BY <1>3, SMT DEF Reconcile
<1>4. ASSUME NEW r \in Requests, Replay(r) PROVE Inv'
  BY <1>4, SMT DEF Replay
<1>5. ASSUME NEW r \in Requests, Run(r) PROVE Inv'
  BY <1>5, SMT DEF Run
<1>6. ASSUME NEW r \in Requests, RecordAnswer(r) PROVE Inv'
  BY <1>6, SMT DEF RecordAnswer
<1>7. ASSUME NEW r \in Requests, Commit(r) PROVE Inv'
  BY <1>7, SMT DEF Commit
<1>8. ASSUME NEW r \in Requests, Respond(r) PROVE Inv'
  BY <1>8, SMT DEF Respond, Forget
<1>9. ASSUME NEW r \in Requests, LockTimeout(r) PROVE Inv'
  BY <1>9, SMT DEF LockTimeout
<1>10. ASSUME NEW r \in Requests, TransientFailure(r) PROVE Inv'
  <2>1. stage[r] \in InTransaction /\ RollBack(r) /\ UNCHANGED <<clock, form, at, answer, tables>>
    BY <1>10 DEF TransientFailure
  <2>2. CASE /\ attempt[r] <= MaxRetries /\ Goto(r, "waiting")
             /\ attempt' = [attempt EXCEPT ![r] = @ + 1]
             /\ verdict' = [verdict EXCEPT ![r] = None]
    BY <2>1, <2>2, SMT DEF RollBack
  <2>3. CASE Goto(r, "committed") /\ Decide(r, "error", r) /\ UNCHANGED attempt
    BY <2>1, <2>3, SMT DEF RollBack
  <2> QED
    BY <1>10, <2>2, <2>3 DEF TransientFailure
<1>11. ASSUME NEW r \in Requests, Crash(r) PROVE Inv'
  BY <1>11, SMT DEF Crash, RollBack, Forget
<1>12. ASSUME Tick PROVE Inv'
  BY <1>12, SMT DEF Tick
<1>13. ASSUME ClockTick PROVE Inv'
  BY <1>13, SMT DEF ClockTick
<1>14. ASSUME UNCHANGED vars PROVE Inv'
  BY <1>14 DEF vars
<1> QED
  BY <1>1, <1>2, <1>3, <1>4, <1>5, <1>6, <1>7, <1>8, <1>9, <1>10, <1>11, <1>12, <1>13, <1>14
  DEF Next, Attempt

LEMMA SpecInv == Spec => []Inv
  BY InitInv, NextInv, PTL DEF Spec

\* Every row, request and transaction holds values of its kind, and no request
\* is attempted more often than run_operation allows, whatever MaxRetries is.
THEOREM TypeCorrect == Spec => []TypeOK
<1>1. Inv => TypeOK
  BY DEF Inv
<1> QED
  BY <1>1, SpecInv, PTL

\* However often a form is submitted, and whatever fails on the way, its
\* operation takes effect at most once.
THEOREM AtMostOnce == Spec => []AtMostOncePerKey
<1>1. Inv => AtMostOncePerKey
  BY SMT DEF Inv, TypeOK, RecordsMatch, AtMostOncePerKey
<1> QED
  BY <1>1, SpecInv, PTL

\* A clean rejection commits the reconciliation that made it right.
THEOREM RejectionsKeep == Spec => []RejectionKeepsReconciliation
<1>1. Inv => RejectionKeepsReconciliation
  BY DEF Inv, TimesMatch, RejectionKeepsReconciliation
<1> QED
  BY <1>1, SpecInv, PTL

\* Decisions are committed in the order of the times they were taken at.
THEOREM TimeFollows == Spec => TimeFollowsLock
<1>1. Inv /\ [Next]_vars => [settled <= settled']_vars
  <2> SUFFICES ASSUME Inv, Next PROVE settled <= settled'
    BY DEF vars, Inv, TypeOK
  <2> USE DEF Inv, TypeOK, TimesMatch
  <2>1. ASSUME NEW r \in Requests, Commit(r) PROVE settled <= settled'
    BY <2>1, SMT DEF Commit
  <2>2. CASE Tick
    BY <2>2, SMT DEF Tick
  <2>3. ASSUME UNCHANGED settled PROVE settled <= settled'
    BY <2>3, SMT
  <2> QED
    BY <2>1, <2>2, <2>3 DEF Next, Attempt, Submit, AcquireLock, Reconcile, Replay, Run,
      RecordAnswer, Respond, LockTimeout, TransientFailure, Crash, ClockTick, tables
<1> QED
  BY <1>1, SpecInv, PTL DEF Spec, TimeFollowsLock

\* The protocol keeps the promise of KeyedRequests: what a client is told of
\* its request agrees with the tables, and a key takes effect once.
THEOREM KeepsPromise == Spec => OncePerKey
<1>1. Init => Promise!Init
  BY DEF Init, Promise!Init
<1>2. Inv /\ [Next]_vars => [Promise!Next]_<<form, effects, answer>>
  <2> SUFFICES ASSUME Inv, Next PROVE Promise!Next \/ UNCHANGED <<form, effects, answer>>
    BY DEF vars
  <2> USE DEF Inv, TypeOK, Discipline, RecordsMatch, VerdictsMatch, InTransaction, Answer
  <2>1. ASSUME NEW r \in Requests, NEW f \in Forms, Submit(r, f) PROVE Promise!Submit(r, f)
    BY <2>1, SMT DEF Submit, Promise!Submit, tables
  <2>2. ASSUME NEW r \in Requests, Commit(r), r \in dirty PROVE Promise!Apply(r)
    BY <2>2, SMT DEF Commit, Promise!Apply, Prior
  <2>3. ASSUME NEW r \in Requests, Commit(r), r \notin dirty
        PROVE UNCHANGED <<form, effects, answer>>
    BY <2>3, SMT DEF Commit
  <2>4. ASSUME NEW r \in Requests, Respond(r) PROVE Promise!Tell(r)
    <3>1. verdict[r] \in Promise!Answers /\ form[r] # None /\ answer[r] = None
      BY <2>4, SMT DEF Respond, Promise!Answers
    <3>2. Promise!Truthful(r, verdict[r])
      BY <2>4, SMT DEF Respond, Promise!Truthful
    <3> QED
      BY <2>4, <3>1, <3>2 DEF Respond, Promise!Tell, tables
  <2>5. ASSUME NEW r \in Requests, Crash(r) PROVE Promise!Tell(r)
    <3>1. Answer("lost", r) \in Promise!Answers /\ form[r] # None /\ answer[r] = None
      BY <2>5, SMT DEF Crash, Promise!Answers
    <3>2. Promise!Truthful(r, Answer("lost", r))
      BY DEF Promise!Truthful
    <3>3. answer' = [answer EXCEPT ![r] = Answer("lost", r)] /\ UNCHANGED <<form, effects>>
      BY <2>5 DEF Crash, tables
    <3> QED
      BY <3>1, <3>2, <3>3 DEF Promise!Tell
  <2>6. ASSUME UNCHANGED <<form, effects, answer>>
        PROVE Promise!Next \/ UNCHANGED <<form, effects, answer>>
    BY <2>6
  <2> QED
    BY <2>1, <2>2, <2>3, <2>4, <2>5, <2>6 DEF Next, Attempt, AcquireLock, Reconcile, Replay,
      Run, RecordAnswer, LockTimeout, TransientFailure, Tick, ClockTick, tables, Promise!Next
<1> QED
  BY <1>1, <1>2, SpecInv, PTL DEF Spec, OncePerKey, Promise!Spec


\* The lock belongs to an open transaction: no failure leaves it behind.
LockIsHeld == lock # None => lock \in Requests /\ stage[lock] \in InTransaction

LEMMA LockNext == Inv /\ LockIsHeld /\ [Next]_vars => LockIsHeld'
<1> SUFFICES ASSUME Inv, LockIsHeld, [Next]_vars PROVE LockIsHeld'
  OBVIOUS
<1> USE DEF Inv, TypeOK, Discipline, LockIsHeld, InTransaction, Stages, Goto, tables
<1>1. ASSUME NEW r \in Requests, NEW f \in Forms, Submit(r, f) PROVE LockIsHeld'
  BY <1>1, SMT DEF Submit
<1>2. ASSUME NEW r \in Requests, Attempt(r) PROVE LockIsHeld'
  <2>1. CASE AcquireLock(r) \/ Reconcile(r) \/ Replay(r)
    BY <2>1, SMT DEF AcquireLock, Reconcile, Replay
  <2>2. CASE Run(r) \/ RecordAnswer(r) \/ Commit(r) \/ Respond(r)
    BY <2>2, SMT DEF Run, RecordAnswer, Commit, Respond
  <2> QED
    BY <1>2, <2>1, <2>2 DEF Attempt
<1>3. ASSUME NEW r \in Requests, LockTimeout(r) \/ TransientFailure(r) \/ Crash(r)
      PROVE  LockIsHeld'
  BY <1>3, SMT DEF LockTimeout, TransientFailure, Crash, RollBack
<1>4. CASE Tick \/ ClockTick \/ UNCHANGED vars
  BY <1>4, SMT DEF Tick, ClockTick, vars
<1> QED
  BY <1>1, <1>2, <1>3, <1>4 DEF Next

\* Whatever fails, the control lock is never left with a request that has no
\* open transaction, so nobody waits for it for ever (protocol.py:196-244).
THEOREM LockNeverLeaks == Spec => []LockIsHeld
<1>1. Init => LockIsHeld
  BY DEF Init, LockIsHeld
<1> QED
  BY <1>1, LockNext, SpecInv, PTL DEF Spec

\* How far a request has come: its attempts count most, then where its
\* transaction stands.
Taken(r) ==
  CASE stage[r] = "new"       -> 6 * attempt[r]
    [] stage[r] = "waiting"   -> 6 * attempt[r] + 1
    [] stage[r] = "locked"    -> 6 * attempt[r] + 2
    [] stage[r] = "settled"   -> 6 * attempt[r] + 3
    [] stage[r] = "ran"       -> 6 * attempt[r] + 4
    [] stage[r] = "closing"   -> 6 * attempt[r] + 5
    [] stage[r] = "committed" -> 6 * (MaxRetries + 2) + 1
    [] stage[r] = "over"      -> 6 * (MaxRetries + 2) + 2
WithinLimit == \A r \in Requests : Taken(r) \in 0..(6 * (MaxRetries + 2) + 2)

\* A step of anyone leaves a request where it was or takes it further.
Onward == \A r \in Requests : Taken(r)' > Taken(r) \/ UNCHANGED <<stage[r], attempt[r]>>

LEMMA TakenIsBounded == TypeOK => WithinLimit
<1> SUFFICES ASSUME TypeOK, NEW r \in Requests
             PROVE  Taken(r) \in 0..(6 * (MaxRetries + 2) + 2)
  BY DEF WithinLimit
<1>1. /\ MaxRetries \in Nat /\ stage[r] \in Stages
      /\ attempt[r] \in Nat /\ attempt[r] <= MaxRetries + 1
  BY ProtocolAssumption DEF TypeOK
<1>2. QED
  BY <1>1, SMT DEF Taken, Stages

LEMMA OnwardStep == TypeOK /\ [Next]_vars => Onward
<1> SUFFICES ASSUME TypeOK, [Next]_vars, NEW q \in Requests
             PROVE  Taken(q)' > Taken(q) \/ UNCHANGED <<stage[q], attempt[q]>>
  BY DEF Onward
<1> DEFINE Moves == Taken(q)' > Taken(q)
           Stays == UNCHANGED <<stage[q], attempt[q]>>
<1>1. /\ MaxRetries \in Nat /\ stage[q] \in Stages
      /\ attempt[q] \in Nat /\ attempt[q] <= MaxRetries + 1
      /\ stage \in [Requests -> Stages] /\ attempt \in [Requests -> 1..(MaxRetries + 1)]
  BY ProtocolAssumption DEF TypeOK
<1>2. ASSUME NEW f \in Forms, NEW r \in Requests, Submit(r, f) PROVE Moves \/ Stays
  <2>1. CASE r = q
    <3>1. stage[q] = "new" /\ stage'[q] = "waiting" /\ attempt'[q] = attempt[q]
      BY <1>1, <1>2, <2>1 DEF Submit, Goto
    <3>2. QED
      BY <1>1, <3>1, SMT DEF Taken
  <2>2. QED
    BY <1>1, <1>2, <2>1 DEF Submit, Goto
<1>3. ASSUME NEW r \in Requests, AcquireLock(r) \/ Reconcile(r) \/ Replay(r) \/ Run(r) \/ RecordAnswer(r)
      PROVE  Moves \/ Stays
  <2>1. CASE r = q
    <3>1. /\ attempt'[q] = attempt[q]
          /\ <<stage[q], stage'[q]>> \in
               {<<"waiting", "locked">>, <<"locked", "settled">>, <<"locked", "closing">>,
                <<"settled", "closing">>, <<"settled", "ran">>, <<"ran", "closing">>}
      BY <1>1, <1>3, <2>1 DEF AcquireLock, Reconcile, Replay, Run, RecordAnswer, Goto
    <3>2. QED
      BY <1>1, <3>1, SMT DEF Taken
  <2>2. QED
    BY <1>1, <1>3, <2>1 DEF AcquireLock, Reconcile, Replay, Run, RecordAnswer, Goto
<1>4. ASSUME NEW r \in Requests, Commit(r) \/ LockTimeout(r) \/ Respond(r) \/ Crash(r)
      PROVE  Moves \/ Stays
  <2>1. CASE r = q
    <3>1. \/ stage[q] \in {"waiting", "closing"} /\ stage'[q] = "committed"
          \/ stage[q] \notin {"new", "over"} /\ stage'[q] = "over"
      BY <1>1, <1>4, <2>1 DEF Commit, LockTimeout, Respond, Crash, Goto
    <3>2. QED
      BY <1>1, <3>1, SMT DEF Taken, Stages
  <2>2. QED
    BY <1>1, <1>4, <2>1 DEF Commit, LockTimeout, Respond, Crash, Forget, Goto
<1>5. ASSUME NEW r \in Requests, TransientFailure(r) PROVE Moves \/ Stays
  <2>1. CASE r = q
    <3>1. /\ stage[q] \in InTransaction
          /\ \/ stage'[q] = "waiting" /\ attempt'[q] = attempt[q] + 1
             \/ stage'[q] = "committed"
      BY <1>1, <1>5, <2>1 DEF TransientFailure, Goto
    <3>2. QED
      BY <1>1, <3>1, SMT DEF Taken, InTransaction
  <2>2. QED
    BY <1>1, <1>5, <2>1 DEF TransientFailure, Goto
<1>6. CASE Tick \/ ClockTick \/ UNCHANGED vars
  BY <1>6 DEF Tick, ClockTick, vars
<1>7. QED
  BY <1>2, <1>3, <1>4, <1>5, <1>6 DEF Next, Attempt

\* No client is kept in a loop of failures and retries: no step of its own or
\* of another sends a request back, and it has come to its end after a number
\* of steps that _MAX_TRANSIENT_RETRIES bounds (protocol.py:196-244).
THEOREM NoEndlessRetries == Spec => []WithinLimit /\ [][Onward]_vars
<1>1. Spec => []TypeOK
  BY TypeCorrect
<1>2. QED
  BY <1>1, TakenIsBounded, OnwardStep, PTL DEF Spec
=============================================================================
