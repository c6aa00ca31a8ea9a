----------------------------- MODULE Outbox_proofs -----------------------------
(***************************************************************************)
(* What the outbox guarantees for any number of events and workers, any    *)
(* lease, back-off and number of crashes.                                  *)
(*                                                                         *)
(* The argument for duplicates: as long as no lease of an event ended      *)
(* under a worker and no failure of it was ambiguous, its row carries a    *)
(* lease while a worker has it, so one worker has it at most; and once it  *)
(* was mailed, either the row is final or it still carries that lease.     *)
(***************************************************************************)
EXTENDS Outbox, TLAPS

USE OutboxAssumption

\* What a worker deals with is in its batch, and "sent" is not said in vain.
WorkersMatch ==
  \A w \in Workers :
    /\ current[w] = None <=> verdict[w] = "open"
    /\ current[w] # None => current[w] \in batch[w]
    /\ verdict[w] = "sent" => mailed[current[w]] > 0
    /\ \A e \in batch[w] : copy[w][e] > 0

\* A row nobody queued was neither claimed nor mailed.
QueuedFirst ==
  \A e \in Events :
    status[e] = "absent" => mailed[e] = 0 /\ \A w \in Workers : e \notin batch[w]

\* An event without excuse is in one pair of hands, under a lease, and was not
\* mailed before its worker says so.
OneHand ==
  \A e \in Events \ excused :
    /\ mailed[e] <= 1
    /\ mailed[e] > 0 /\ status[e] = "PENDING" => lease[e] # None
    /\ \A w \in Workers : e \in batch[w] =>
         /\ lease[e] # None
         /\ \A v \in Workers : e \in batch[v] => v = w
         /\ ~(current[w] = e /\ verdict[w] = "sent") => mailed[e] = 0

Inv == TypeOK /\ WorkersMatch /\ QueuedFirst /\ OneHand /\ SentMeansMailed

LEMMA InitInv == Init => Inv
  BY SMT DEF Init, Inv, TypeOK, WorkersMatch, QueuedFirst, OneHand, SentMeansMailed, Statuses

LEMMA TypeStep == TypeOK /\ WorkersMatch /\ [Next]_vars => TypeOK'
<1> SUFFICES ASSUME TypeOK, WorkersMatch, [Next]_vars PROVE TypeOK'
  OBVIOUS
<1> DEFINE Goal == TypeOK'
<1> USE DEF TypeOK, Statuses, rowVars, worldVars, workerVars, historyVars
<1>0. \A w \in Workers : verdict[w] # "open" => current[w] \in Events
  BY SMT DEF WorkersMatch
<1>1. ASSUME NEW e \in Events, Enqueue(e) PROVE Goal
  BY <1>1, SMT DEF Enqueue
<1>2. ASSUME NEW e \in Events, Undo(e) \/ Lapse(e) PROVE Goal
  BY <1>2, SMT DEF Undo, Lapse
<1>3. ASSUME NEW w \in Workers, NEW rows \in SUBSET Events, Claim(w, rows) PROVE Goal
  <2>1. \A e \in Events : UpTo(attempts[e] + 1, MaxAttempts + 1) \in 0..(MaxAttempts + 1)
    BY SMT DEF UpTo
  <2>2. attempts' \in [Events -> 0..(MaxAttempts + 1)]
    BY <1>3, <2>1 DEF Claim
  <2>3. lease' \in [Events -> 0..LeaseTime \cup {None}]
    BY <1>3, SMT DEF Claim
  <2>4. copy' \in [Workers -> [Events -> 0..(MaxAttempts + 1)]]
    <3>1. [e \in Events |-> IF e \in rows THEN attempts'[e] ELSE 0]
            \in [Events -> 0..(MaxAttempts + 1)]
      BY <2>2, SMT
    <3> QED
      BY <1>3, <3>1 DEF Claim
  <2> QED
    <3>1. batch' \in [Workers -> SUBSET Events] /\ known' \in [Workers -> SUBSET Events]
          /\ excused' \subseteq Events
      BY <1>3 DEF Claim
    <3>2. age' \in [Workers -> 0..LongestWait]
      BY <1>3, SMT DEF Claim
    <3> QED
      BY <1>3, <2>2, <2>3, <2>4, <3>1, <3>2 DEF Claim
<1>4. ASSUME NEW w \in Workers, NEW e \in Events, Revalidate(w, e) PROVE Goal
  BY <1>4, SMT DEF Revalidate
<1>5. ASSUME NEW w \in Workers, NEW accepted \in BOOLEAN, NEW error \in BOOLEAN,
             Send(w, accepted, error)
      PROVE Goal
  <2>1. current[w] \in Events
    BY <1>0, <1>5 DEF Send
  <2>2. UpTo(mailed[current[w]] + 1, 2) \in 0..2
    <3>1. mailed[current[w]] \in 0..2
      BY <2>1
    <3> QED
      BY <3>1, SMT DEF UpTo
  <2>3. mailed' \in [Events -> 0..2]
    BY <1>5, <2>1, <2>2 DEF Send
  <2>4. excused' \subseteq Events
    BY <1>5, <2>1 DEF Send
  <2>5. verdict' \in [Workers -> {"open", "sending", "sent", "failed", "stale"}]
    BY <1>5 DEF Send
  <2> QED
    BY <1>5, <2>3, <2>4, <2>5 DEF Send
<1>6. ASSUME NEW w \in Workers, NextEvent(w), current[w] \in Events,
             NEW st \in Statuses, NEW delay \in 0..LongestWait, Write(current[w], st, delay)
      PROVE Goal
  <2>1. status' \in [Events -> Statuses] /\ wait' \in [Events -> 0..LongestWait]
        /\ lease' \in [Events -> 0..LeaseTime \cup {None}] /\ UNCHANGED attempts
    BY <1>6 DEF Write
  <2>2. copy' \in [Workers -> [Events -> 0..(MaxAttempts + 1)]]
    <3>1. copy[w] \in [Events -> 0..(MaxAttempts + 1)] /\ 0 \in 0..(MaxAttempts + 1)
      BY SMT
    <3>2. [copy[w] EXCEPT ![current[w]] = 0] \in [Events -> 0..(MaxAttempts + 1)]
      BY <3>1
    <3> QED
      BY <1>6, <3>2 DEF NextEvent
  <2>3. /\ batch' \in [Workers -> SUBSET Events] /\ known' \in [Workers -> SUBSET Events]
        /\ current' \in [Workers -> Events \cup {None}]
        /\ verdict' \in [Workers -> {"open", "sending", "sent", "failed", "stale"}]
    BY <1>6 DEF NextEvent
  <2>4. age' \in [Workers -> 0..LongestWait]
    BY <1>6, SMT DEF NextEvent
  <2> QED
    BY <1>6, <2>1, <2>2, <2>3, <2>4 DEF NextEvent
<1>7. ASSUME NEW w \in Workers, MarkSent(w) \/ MarkStale(w) PROVE Goal
  <2>1. current[w] \in Events /\ wait[current[w]] \in 0..LongestWait
    BY <1>0, <1>7 DEF MarkSent, MarkStale
  <2> QED
    BY <1>6, <1>7, <2>1 DEF MarkSent, MarkStale
<1>8. ASSUME NEW w \in Workers, MarkFailed(w) PROVE Goal
  <2> DEFINE e == current[w]
             n == copy[w][e]
             delay == IF Backoff[n] > age[w] THEN Backoff[n] - age[w] ELSE 0
  <2>1. e \in Events /\ wait[e] \in 0..LongestWait /\ status[e] \in Statuses
    BY <1>0, <1>8 DEF MarkFailed
  <2>2. CASE n >= MaxAttempts
    BY <1>6, <1>8, <2>1, <2>2 DEF MarkFailed
  <2>3. CASE ~(n >= MaxAttempts)
    <3>1. n \in 1..MaxAttempts
      <4>1. n > 0
        BY <1>8, <2>1, SMT DEF MarkFailed, WorkersMatch
      <4>2. n \in 0..(MaxAttempts + 1)
        BY <2>1
      <4> QED
        BY <2>3, <4>1, <4>2, SMT
    <3>2. Backoff[n] \in 0..LongestWait /\ age[w] \in 0..LongestWait
      BY <3>1
    <3>3. delay \in 0..LongestWait
      BY <3>2, SMT
    <3> QED
      BY <1>6, <1>8, <2>1, <2>3, <3>3 DEF MarkFailed
  <2> QED
    BY <2>2, <2>3
<1>9. ASSUME NEW w \in Workers, Crash(w) PROVE Goal
  BY <1>9, SMT DEF Crash
<1>10. ASSUME Elapse PROVE Goal
  BY <1>10, SMT DEF Elapse, UpTo, Down
<1>11. ASSUME UNCHANGED vars PROVE Goal
  BY <1>11, SMT DEF vars
<1> HIDE DEF Goal
<1>12. Goal
  BY <1>1, <1>2, <1>3, <1>4, <1>5, <1>7, <1>8, <1>9, <1>10, <1>11 DEF Next, Work
<1> QED
  BY <1>12 DEF Goal

\* What a worker writes about an event it has dealt with, under conditions
\* that hold whatever it writes.
LEMMA WriteInv ==
  ASSUME Inv, TypeOK', NEW w \in Workers, verdict[w] # "open", NextEvent(w),
         NEW st \in Statuses \ {"absent"}, NEW delay, Write(current[w], st, delay),
         st = "SENT" => mailed[current[w]] > 0,
         st = "PENDING" => verdict[w] = "failed"
  PROVE  (WorkersMatch /\ QueuedFirst /\ OneHand /\ SentMeansMailed)'
<1> DEFINE e == current[w]
<1>1. e \in Events /\ e \in batch[w] /\ e # None
  BY SMT DEF Inv, TypeOK, WorkersMatch
<1>2. /\ batch' = [batch EXCEPT ![w] = @ \ {e}] /\ current' = [current EXCEPT ![w] = None]
      /\ verdict' = [verdict EXCEPT ![w] = "open"] /\ copy' = [copy EXCEPT ![w][e] = 0]
      /\ UNCHANGED <<mailed, excused>>
  BY DEF NextEvent, historyVars
<1>3. status' = [status EXCEPT ![e] = st] /\ lease' = [lease EXCEPT ![e] = None]
  BY DEF Write
<1> USE <1>1, <1>2, <1>3 DEF Inv, TypeOK
<1>4. WorkersMatch'
  <2> SUFFICES ASSUME NEW v \in Workers
               PROVE (/\ current[v] = None <=> verdict[v] = "open"
                      /\ current[v] # None => current[v] \in batch[v]
                      /\ verdict[v] = "sent" => mailed[current[v]] > 0
                      /\ \A x \in batch[v] : copy[v][x] > 0)'
    BY DEF WorkersMatch
  <2>1. CASE v = w
    <3>1. batch'[v] = batch[v] \ {e} /\ current'[v] = None /\ verdict'[v] = "open"
      BY <2>1
    <3>2. \A x \in batch'[v] : copy'[v][x] = copy[v][x]
      BY <2>1, <3>1
    <3> QED
      BY <3>1, <3>2 DEF WorkersMatch
  <2>2. CASE v # w
    <3>1. batch'[v] = batch[v] /\ current'[v] = current[v] /\ verdict'[v] = verdict[v]
          /\ copy'[v] = copy[v]
      BY <2>2
    <3> QED
      BY <3>1 DEF WorkersMatch
  <2> QED
    BY <2>1, <2>2
<1>5. QueuedFirst'
  BY SMT DEF QueuedFirst
<1>6. SentMeansMailed'
  BY SMT DEF SentMeansMailed
<1>7. OneHand'
  <2> SUFFICES ASSUME NEW x \in Events \ excused
               PROVE (/\ mailed[x] <= 1
                      /\ mailed[x] > 0 /\ status[x] = "PENDING" => lease[x] # None
                      /\ \A v \in Workers : x \in batch[v] =>
                           /\ lease[x] # None
                           /\ \A u \in Workers : x \in batch[u] => u = v
                           /\ ~(current[v] = x /\ verdict[v] = "sent") => mailed[x] = 0)'
    BY DEF OneHand
  <2>1. CASE x = e
    <3>1. \A v \in Workers : x \notin batch'[v]
      BY <2>1 DEF OneHand
    <3>2. st = "PENDING" => mailed[x] = 0
      BY <2>1 DEF OneHand
    <3> QED
      BY <2>1, <3>1, <3>2, SMT DEF OneHand
  <2>2. CASE x # e
    <3>1. status'[x] = status[x] /\ lease'[x] = lease[x]
          /\ \A v \in Workers : x \in batch'[v] <=> x \in batch[v]
      BY <2>2
    <3>2. \A v \in Workers : current[v] = x => current'[v] = x /\ verdict'[v] = verdict[v]
      BY <2>2
    <3> QED
      BY <3>1, <3>2 DEF OneHand
  <2> QED
    BY <2>1, <2>2
<1> QED
  BY <1>4, <1>5, <1>6, <1>7

LEMMA NextInv == Inv /\ [Next]_vars => Inv'
<1> SUFFICES ASSUME Inv, [Next]_vars PROVE (WorkersMatch /\ QueuedFirst /\ OneHand /\ SentMeansMailed)'
  BY TypeStep DEF Inv
<1>0. TypeOK'
  BY TypeStep DEF Inv
<1> DEFINE Goal == (WorkersMatch /\ QueuedFirst /\ OneHand /\ SentMeansMailed)'
<1> USE DEF Statuses, rowVars, worldVars, workerVars, historyVars
<1>1. ASSUME NEW e \in Events, Enqueue(e) PROVE Goal
  BY <1>1, SMT DEF Inv, TypeOK, Enqueue, WorkersMatch, QueuedFirst, OneHand, SentMeansMailed
<1>2. ASSUME NEW e \in Events, Undo(e) \/ Lapse(e) PROVE Goal
  BY <1>2, SMT DEF Inv, TypeOK, Undo, Lapse, WorkersMatch, QueuedFirst, OneHand, SentMeansMailed
<1>3. ASSUME NEW w \in Workers, NEW rows \in SUBSET Events, Claim(w, rows) PROVE Goal
  <2>1. /\ batch[w] = {} /\ batch' = [batch EXCEPT ![w] = rows]
        /\ \A e \in rows : status[e] = "PENDING" /\ lease[e] \in {None, 0}
        /\ lease' = [e \in Events |-> IF e \in rows THEN LeaseTime ELSE lease[e]]
        /\ excused' = excused \cup {e \in rows : lease[e] = 0}
        /\ UNCHANGED <<status, current, verdict, mailed>>
    BY <1>3 DEF Inv, TypeOK, Claim, Claimable
  <2>2. copy' = [copy EXCEPT ![w] = [e \in Events |-> IF e \in rows THEN attempts'[e] ELSE 0]]
        /\ \A e \in rows : attempts'[e] > 0
    BY <1>3, SMT DEF Inv, TypeOK, Claim, UpTo
  <2>3. WorkersMatch'
    BY <2>1, <2>2, SMT DEF Inv, TypeOK, WorkersMatch
  <2>4. QueuedFirst' /\ SentMeansMailed'
    BY <2>1, SMT DEF Inv, TypeOK, QueuedFirst, SentMeansMailed
  <2>5. OneHand'
    <3> SUFFICES ASSUME NEW x \in Events, x \notin excused'
                 PROVE (/\ mailed[x] <= 1
                        /\ mailed[x] > 0 /\ status[x] = "PENDING" => lease[x] # None
                        /\ \A v \in Workers : x \in batch[v] =>
                             /\ lease[x] # None
                             /\ \A u \in Workers : x \in batch[u] => u = v
                             /\ ~(current[v] = x /\ verdict[v] = "sent") => mailed[x] = 0)'
      BY DEF OneHand
    <3>0. x \notin excused /\ mailed[x] \in 0..2
      BY <2>1 DEF Inv, TypeOK
    <3>1. CASE x \in rows
      <4>1. lease[x] = None /\ lease'[x] = LeaseTime /\ LeaseTime # None /\ status[x] = "PENDING"
        BY <2>1, <3>1
      <4>2. \A v \in Workers : x \notin batch[v]
        BY <3>0, <4>1 DEF Inv, OneHand
      <4>3. mailed'[x] = 0
        BY <2>1, <3>0, <4>1, SMT DEF Inv, OneHand
      <4>4. \A v \in Workers : x \in batch'[v] => v = w
        BY <2>1, <4>2 DEF Inv, TypeOK
      <4> QED
        BY <4>1, <4>3, <4>4, SMT
    <3>2. CASE x \notin rows
      <4>1. lease'[x] = lease[x] /\ status'[x] = status[x] /\ mailed'[x] = mailed[x]
        BY <2>1, <3>2
      <4>2. \A v \in Workers : (x \in batch'[v] => x \in batch[v])
                                /\ current'[v] = current[v] /\ verdict'[v] = verdict[v]
        BY <2>1, <3>2 DEF Inv, TypeOK
      <4> QED
        BY <3>0, <4>1, <4>2 DEF Inv, OneHand
    <3> QED
      BY <3>1, <3>2
  <2> QED
    BY <2>3, <2>4, <2>5
<1>4. ASSUME NEW w \in Workers, NEW e \in Events, Revalidate(w, e) PROVE Goal
  BY <1>4, SMT DEF Inv, TypeOK, Revalidate, WorkersMatch, QueuedFirst, OneHand, SentMeansMailed
<1>5. ASSUME NEW w \in Workers, NEW accepted \in BOOLEAN, NEW error \in BOOLEAN,
             Send(w, accepted, error)
      PROVE Goal
  <2> DEFINE e == current[w]
  <2>1. e \in Events /\ e \in batch[w] /\ mailed[e] \in 0..2 /\ verdict[w] = "sending"
    BY <1>5, SMT DEF Inv, TypeOK, Send, WorkersMatch
  <2>2. /\ verdict' = [verdict EXCEPT ![w] = IF error THEN "failed" ELSE "sent"]
        /\ UNCHANGED <<status, lease, batch, copy, current>>
        /\ excused' = IF accepted /\ error THEN excused \cup {e} ELSE excused
        /\ accepted \/ error
    BY <1>5 DEF Send
  <2>3. IF accepted THEN mailed' = [mailed EXCEPT ![e] = UpTo(@ + 1, 2)] ELSE mailed' = mailed
    BY <1>5 DEF Send
  <2>4. CASE accepted
    <3>1. mailed'[e] > 0 /\ (mailed[e] = 0 => mailed'[e] = 1)
          /\ \A x \in Events \ {e} : mailed'[x] = mailed[x]
      <4>1. UpTo(mailed[e] + 1, 2) > 0 /\ (mailed[e] = 0 => UpTo(mailed[e] + 1, 2) = 1)
        BY <2>1, SMT DEF UpTo
      <4>2. mailed' = [mailed EXCEPT ![e] = UpTo(mailed[e] + 1, 2)]
        BY <2>3, <2>4
      <4>3. mailed \in [Events -> 0..2]
        BY DEF Inv, TypeOK
      <4>4. mailed'[e] = UpTo(mailed[e] + 1, 2) /\ \A x \in Events \ {e} : mailed'[x] = mailed[x]
        BY <2>1, <4>2, <4>3
      <4> QED
        BY <4>1, <4>4
    <3>2. WorkersMatch'
      <4>1. \A v \in Workers : verdict[v] # "open" => current[v] \in Events
        BY SMT DEF Inv, TypeOK, WorkersMatch
      <4>2. \A v \in Workers : verdict'[v] = "sent" => mailed'[current[v]] > 0
        <5> SUFFICES ASSUME NEW v \in Workers, verdict'[v] = "sent"
                     PROVE mailed'[current[v]] > 0
          OBVIOUS
        <5>1. CASE current[v] = e
          BY <3>1, <5>1
        <5>2. CASE current[v] # e
          <6>1. v # w /\ verdict[v] = "sent"
            BY <2>2, <5>2 DEF Inv, TypeOK
          <6>2. current[v] \in Events /\ mailed[current[v]] > 0
            BY <4>1, <6>1 DEF Inv, WorkersMatch
          <6> QED
            BY <3>1, <5>2, <6>2
        <5> QED
          BY <5>1, <5>2
      <4>3. \A v \in Workers : verdict'[v] = "open" <=> verdict[v] = "open"
        BY <2>1, <2>2 DEF Inv, TypeOK
      <4>4. SUFFICES ASSUME NEW v \in Workers
                     PROVE /\ current'[v] = None <=> verdict'[v] = "open"
                           /\ current'[v] # None => current'[v] \in batch'[v]
                           /\ verdict'[v] = "sent" => mailed'[current'[v]] > 0
                           /\ \A x \in batch'[v] : copy'[v][x] > 0
        BY DEF WorkersMatch
      <4>5. current'[v] = current[v] /\ batch'[v] = batch[v] /\ copy'[v] = copy[v]
        BY <2>2
      <4>6. /\ current[v] = None <=> verdict[v] = "open"
            /\ current[v] # None => current[v] \in batch[v]
            /\ \A x \in batch[v] : copy[v][x] > 0
        BY DEF Inv, WorkersMatch
      <4> QED
        BY <4>2, <4>3, <4>5, <4>6
    <3>3. QueuedFirst' /\ SentMeansMailed'
      <4>1. status[e] # "absent" /\ batch' = batch /\ status' = status
        BY <2>1, <2>2 DEF Inv, QueuedFirst
      <4> QED
        BY <3>1, <4>1 DEF Inv, QueuedFirst, SentMeansMailed
    <3>4. OneHand'
      BY <2>1, <2>2, <2>4, <3>1, SMT DEF Inv, TypeOK, OneHand
    <3> QED
      BY <3>2, <3>3, <3>4
  <2>5. CASE ~accepted
    BY <2>1, <2>2, <2>3, <2>5, SMT DEF Inv, TypeOK, WorkersMatch, QueuedFirst, OneHand, SentMeansMailed
  <2> QED
    BY <2>4, <2>5
<1>6. ASSUME NEW w \in Workers, MarkSent(w) PROVE Goal
  <2>1. verdict[w] # "open" /\ mailed[current[w]] > 0
    BY <1>6 DEF MarkSent, Inv, WorkersMatch
  <2>2. NextEvent(w) /\ Write(current[w], "SENT", wait[current[w]])
    BY <1>6 DEF MarkSent
  <2> QED
    BY <1>0, <2>1, <2>2, WriteInv
<1>7. ASSUME NEW w \in Workers, MarkStale(w) PROVE Goal
  <2>1. verdict[w] # "open" /\ NextEvent(w) /\ Write(current[w], "CANCELLED", wait[current[w]])
    BY <1>7 DEF MarkStale
  <2> QED
    BY <1>0, <2>1, WriteInv
<1>8. ASSUME NEW w \in Workers, MarkFailed(w) PROVE Goal
  <2>1. current[w] \in Events /\ status[current[w]] \in Statuses \ {"absent"}
        /\ (status[current[w]] = "SENT" => mailed[current[w]] > 0)
    BY <1>8, SMT DEF Inv, TypeOK, MarkFailed, WorkersMatch, QueuedFirst, SentMeansMailed
  <2>2. verdict[w] = "failed" /\ NextEvent(w)
    BY <1>8 DEF MarkFailed
  <2>3. CASE copy[w][current[w]] >= MaxAttempts
    <3>1. Write(current[w], "EXHAUSTED", wait[current[w]])
      BY <1>8, <2>3 DEF MarkFailed
    <3> QED
      BY <1>0, <2>2, <3>1, WriteInv
  <2>4. CASE ~(copy[w][current[w]] >= MaxAttempts)
    <3> DEFINE n == copy[w][current[w]]
               delay == IF Backoff[n] > age[w] THEN Backoff[n] - age[w] ELSE 0
    <3>1. Write(current[w], status[current[w]], delay)
      BY <1>8, <2>4 DEF MarkFailed
    <3> HIDE DEF delay
    <3> QED
      BY <1>0, <2>1, <2>2, <3>1, WriteInv
  <2> QED
    BY <2>3, <2>4
<1>9. ASSUME NEW w \in Workers, Crash(w) PROVE Goal
  BY <1>9, SMT DEF Inv, TypeOK, Crash, WorkersMatch, QueuedFirst, OneHand, SentMeansMailed
<1>10. ASSUME Elapse PROVE Goal
  BY <1>10, SMT DEF Inv, TypeOK, Elapse, Down, WorkersMatch, QueuedFirst, OneHand, SentMeansMailed
<1>11. ASSUME UNCHANGED vars PROVE Goal
  BY <1>11, SMT DEF Inv, TypeOK, vars, WorkersMatch, QueuedFirst, OneHand, SentMeansMailed
<1> HIDE DEF Goal
<1>12. Goal
  BY <1>1, <1>2, <1>3, <1>4, <1>5, <1>6, <1>7, <1>8, <1>9, <1>10, <1>11 DEF Next, Work
<1> QED
  BY <1>12 DEF Goal

LEMMA SpecInv == Spec => []Inv
  BY InitInv, NextInv, PTL DEF Spec

\* The rows and the workers' variables hold values of their kind: no copy, wait
\* or lease leaves its range.
THEOREM TypeCorrect == Spec => []TypeOK
<1>1. Inv => TypeOK
  BY DEF Inv
<1> QED
  BY <1>1, SpecInv, PTL

\* A row that says SENT was handed to the mail server, whatever other workers
\* did with the same row meanwhile.
THEOREM SentWasMailed == Spec => []SentMeansMailed
<1>1. Inv => SentMeansMailed
  BY DEF Inv
<1> QED
  BY <1>1, SpecInv, PTL

\* A mail goes out twice only where a lease ended under a worker that died or
\* was slow, or where the mail server took it and reported failure.
THEOREM NoOtherDuplicates == Spec => []DuplicatesExcused
<1>1. Inv => DuplicatesExcused
  <2> SUFFICES ASSUME Inv, NEW e \in Events, mailed[e] > 1, e \notin excused PROVE FALSE
    BY DEF DuplicatesExcused
  <2>1. mailed[e] \in 0..2 /\ mailed[e] <= 1
    BY DEF Inv, TypeOK, OneHand
  <2> QED
    BY <2>1, SMT
<1> QED
  BY <1>1, SpecInv, PTL
\* A worker's copy of a row never counts more attempts than the row does.
CopiesBehind ==
  \A w \in Workers, e \in Events : copy[w][e] <= attempts[e]

LEMMA CountInv == Inv /\ CopiesBehind /\ ExhaustedAfterAllAttempts /\ [Next]_vars
                  => (CopiesBehind /\ ExhaustedAfterAllAttempts)'
<1> DEFINE Goal == (CopiesBehind /\ ExhaustedAfterAllAttempts)'
<1> SUFFICES ASSUME Inv, CopiesBehind, ExhaustedAfterAllAttempts, [Next]_vars PROVE Goal
  OBVIOUS
<1>0. TypeOK /\ TypeOK' /\ WorkersMatch
  BY TypeStep DEF Inv
<1> USE DEF Statuses, rowVars, worldVars, workerVars, historyVars
<1>1. ASSUME NEW e \in Events, Enqueue(e) \/ Undo(e) \/ Lapse(e) PROVE Goal
  <2>1. /\ UNCHANGED <<attempts, copy>>
        /\ \A x \in Events : status'[x] = "EXHAUSTED" => status[x] = "EXHAUSTED"
    BY <1>0, <1>1 DEF TypeOK, Enqueue, Undo, Lapse
  <2> QED
    BY <2>1 DEF CopiesBehind, ExhaustedAfterAllAttempts
<1>2. ASSUME NEW w \in Workers, NEW rows \in SUBSET Events, Claim(w, rows) PROVE Goal
  <2>1. \A e \in Events : attempts[e] \in 0..(MaxAttempts + 1) /\ attempts'[e] \in 0..(MaxAttempts + 1)
    BY <1>0 DEF TypeOK
  <2>2. \A e \in Events : attempts'[e] >= attempts[e]
    BY <1>2, <2>1, SMT DEF Claim, UpTo
  <2>3. copy' = [copy EXCEPT ![w] = [e \in Events |-> IF e \in rows THEN attempts'[e] ELSE 0]]
        /\ status' = status
    BY <1>2 DEF Claim
  <2>4. ASSUME NEW v \in Workers, NEW e \in Events PROVE copy'[v][e] <= attempts'[e]
    <3>1. CASE v = w
      <4>1. copy'[v][e] = IF e \in rows THEN attempts'[e] ELSE 0
        BY <1>0, <2>3, <3>1 DEF TypeOK
      <4> QED
        BY <2>1, <4>1, SMT
    <3>2. CASE v # w
      <4>1. copy'[v][e] = copy[v][e] /\ copy[v][e] \in 0..(MaxAttempts + 1)
        BY <1>0, <2>3, <3>2 DEF TypeOK
      <4>2. copy[v][e] <= attempts[e]
        BY DEF CopiesBehind
      <4> QED
        BY <2>1, <2>2, <4>1, <4>2, SMT
    <3> QED
      BY <3>1, <3>2
  <2>5. ASSUME NEW e \in Events, status'[e] = "EXHAUSTED" PROVE attempts'[e] >= MaxAttempts
    <3>1. attempts[e] >= MaxAttempts
      BY <2>3, <2>5 DEF ExhaustedAfterAllAttempts
    <3> QED
      BY <2>1, <2>2, <3>1, SMT
  <2> QED
    BY <2>4, <2>5 DEF CopiesBehind, ExhaustedAfterAllAttempts
<1>3. ASSUME NEW w \in Workers, NEW e \in Events, Revalidate(w, e) PROVE Goal
  <2>1. UNCHANGED <<status, attempts, copy>>
    BY <1>3 DEF Revalidate
  <2> QED
    BY <2>1 DEF CopiesBehind, ExhaustedAfterAllAttempts
<1>4. ASSUME NEW w \in Workers, NEW accepted \in BOOLEAN, NEW error \in BOOLEAN,
             Send(w, accepted, error)
      PROVE Goal
  <2>1. UNCHANGED <<status, attempts, copy>>
    BY <1>4 DEF Send
  <2> QED
    BY <2>1 DEF CopiesBehind, ExhaustedAfterAllAttempts
<1>5. ASSUME NEW w \in Workers, current[w] \in Events, NextEvent(w), NEW st, NEW delay,
             Write(current[w], st, delay),
             st = "EXHAUSTED" => attempts[current[w]] >= MaxAttempts
      PROVE Goal
  <2>1. copy' = [copy EXCEPT ![w][current[w]] = 0] /\ attempts' = attempts
        /\ status' = [status EXCEPT ![current[w]] = st]
    BY <1>5 DEF NextEvent, Write
  <2>2. ASSUME NEW v \in Workers, NEW e \in Events PROVE copy'[v][e] <= attempts[e]
    <3>1. attempts[e] \in Nat
      BY <1>0, SMT DEF TypeOK
    <3>2. copy'[v][e] = 0 \/ copy'[v][e] = copy[v][e]
      BY <1>0, <1>5, <2>1 DEF TypeOK
    <3> QED
      BY <3>1, <3>2, SMT DEF CopiesBehind
  <2>3. ExhaustedAfterAllAttempts'
    BY <1>0, <1>5, <2>1 DEF TypeOK, ExhaustedAfterAllAttempts
  <2> QED
    BY <2>1, <2>2, <2>3 DEF CopiesBehind
<1>6. ASSUME NEW w \in Workers, MarkSent(w) \/ MarkStale(w) PROVE Goal
  <2>1. current[w] \in Events
    BY <1>0, <1>6 DEF TypeOK, WorkersMatch, MarkSent, MarkStale
  <2> HIDE DEF Goal
  <2> QED
    BY <1>5, <1>6, <2>1 DEF MarkSent, MarkStale
<1>7. ASSUME NEW w \in Workers, MarkFailed(w) PROVE Goal
  <2> DEFINE e == current[w]
  <2>1. e \in Events
    BY <1>0, <1>7 DEF TypeOK, WorkersMatch, MarkFailed
  <2>2. NextEvent(w)
    BY <1>7 DEF MarkFailed
  <2>3. CASE copy[w][e] >= MaxAttempts
    <3>1. copy[w][e] \in 0..(MaxAttempts + 1) /\ attempts[e] \in 0..(MaxAttempts + 1)
      BY <1>0, <2>1 DEF TypeOK
    <3>2. attempts[e] >= MaxAttempts
      BY <2>1, <2>3, <3>1, SMT DEF CopiesBehind
    <3>3. Write(e, "EXHAUSTED", wait[e])
      BY <1>7, <2>3 DEF MarkFailed
    <3> HIDE DEF Goal
    <3> QED
      BY <1>5, <2>1, <2>2, <3>2, <3>3
  <2>4. CASE ~(copy[w][e] >= MaxAttempts)
    <3> DEFINE n == copy[w][e]
               delay == IF Backoff[n] > age[w] THEN Backoff[n] - age[w] ELSE 0
    <3>1. Write(e, status[e], delay)
      BY <1>7, <2>4 DEF MarkFailed
    <3>2. status[e] = "EXHAUSTED" => attempts[e] >= MaxAttempts
      BY <2>1 DEF ExhaustedAfterAllAttempts
    <3> HIDE DEF Goal, delay
    <3> QED
      BY <1>5, <2>1, <2>2, <3>1, <3>2
  <2> QED
    BY <2>3, <2>4
<1>8. ASSUME NEW w \in Workers, Crash(w) PROVE Goal
  BY <1>0, <1>8, SMT DEF TypeOK, Crash, CopiesBehind, ExhaustedAfterAllAttempts
<1>9. ASSUME Elapse \/ UNCHANGED vars PROVE Goal
  <2>1. UNCHANGED <<status, attempts, copy>>
    BY <1>9 DEF Elapse, vars
  <2> QED
    BY <2>1 DEF CopiesBehind, ExhaustedAfterAllAttempts
<1> HIDE DEF Goal
<1> QED
  BY <1>1, <1>2, <1>3, <1>4, <1>6, <1>7, <1>8, <1>9 DEF Next, Work

\* A row is given up only after every attempt the settings allow was made, even
\* when the worker that gives it up holds an old copy of the row.
THEOREM GivenUpLast == Spec => []ExhaustedAfterAllAttempts
<1>1. Init => CopiesBehind /\ ExhaustedAfterAllAttempts
  BY SMT DEF Init, CopiesBehind, ExhaustedAfterAllAttempts
<1> QED
  BY <1>1, SpecInv, CountInv, PTL DEF Spec


\* What a delivery may do to the row: it counts an attempt when a worker takes
\* the row, and the worker that lets go of it settles it, unless it died or
\* wrote down a failure that was not the last.
TriesCount ==
  \A e \in Events :
    /\ status[e] \in Settled => status'[e] \in Settled
    /\ attempts[e] <= attempts'[e]
    /\ \A w \in Workers :
         /\ e \in batch'[w] \ batch[w] =>
              /\ status[e] = "PENDING"
              /\ attempts'[e] > attempts[e] \/ attempts[e] > MaxAttempts
              /\ copy'[w][e] = attempts'[e]
         /\ e \in batch[w] \ batch'[w] =>
              \/ crashes' > crashes
              \/ status'[e] \in Settled
              \/ verdict[w] = "failed" /\ copy[w][e] < MaxAttempts

LEMMA TriesStep == TypeOK /\ WorkersMatch /\ [Next]_vars => TriesCount
<1> SUFFICES ASSUME TypeOK, WorkersMatch, [Next]_vars PROVE TriesCount
  OBVIOUS
<1> DEFINE Goal == TriesCount
<1>t. /\ MaxAttempts \in Int
      /\ \A e \in Events : attempts[e] \in Int /\ attempts[e] <= MaxAttempts + 1
      /\ \A e \in Events, w \in Workers : copy[w][e] \in Int
      /\ \A e \in Events : status[e] \in Statuses
  <2>1. MaxAttempts \in Int
    BY OutboxAssumption
  <2>2. \A e \in Events : attempts[e] \in 0..(MaxAttempts + 1) /\ status[e] \in Statuses
    BY DEF TypeOK
  <2>3. ASSUME NEW e \in Events, NEW w \in Workers PROVE copy[w][e] \in 0..(MaxAttempts + 1)
    BY DEF TypeOK
  <2>4. QED
    BY <2>1, <2>2, <2>3
<1> USE DEF TypeOK, Statuses, Settled, TriesCount, rowVars, worldVars, workerVars, historyVars
<1>0. \A w \in Workers : verdict[w] # "open" => current[w] \in Events
  BY SMT DEF WorkersMatch
<1>1. ASSUME NEW e \in Events, Enqueue(e) \/ Undo(e) \/ Lapse(e) PROVE Goal
  BY <1>1, SMT DEF Enqueue, Undo, Lapse
<1>2. ASSUME NEW w \in Workers, NEW rows \in SUBSET Events, Claim(w, rows) PROVE Goal
  <2>1. ASSUME NEW e \in Events
        PROVE  LET more == UpTo(attempts[e] + 1, MaxAttempts + 1)
               IN  attempts[e] <= more /\ (more > attempts[e] \/ attempts[e] > MaxAttempts)
    BY <1>t, SMT DEF UpTo
  <2>2. /\ UNCHANGED <<status, crashes>> /\ batch[w] = {}
        /\ \A e \in Events : attempts'[e] = IF e \in rows THEN UpTo(attempts[e] + 1, MaxAttempts + 1)
                                            ELSE attempts[e]
        /\ batch' = [batch EXCEPT ![w] = rows]
        /\ \A e \in rows : copy'[w][e] = attempts'[e] /\ status[e] = "PENDING"
    BY <1>2 DEF Claim, Claimable
  <2>3. QED
    BY <2>1, <2>2
<1>3. ASSUME NEW w \in Workers, NEW e \in Events, Revalidate(w, e) PROVE Goal
  BY <1>3, SMT DEF Revalidate
<1>4. ASSUME NEW w \in Workers, NEW accepted \in BOOLEAN, NEW error \in BOOLEAN,
             Send(w, accepted, error) PROVE Goal
  BY <1>4, SMT DEF Send
<1>5. ASSUME NEW w \in Workers, MarkSent(w) \/ MarkStale(w) \/ MarkFailed(w) PROVE Goal
  <2> DEFINE x == current[w]
  <2>1. PICK st \in Statuses :
          /\ status' = [status EXCEPT ![x] = st]
          /\ \/ st \in Settled
             \/ st = status[x] /\ verdict[w] = "failed" /\ copy[w][x] < MaxAttempts
    <3>1. CASE MarkSent(w) \/ MarkStale(w)
      BY <3>1 DEF MarkSent, MarkStale, Write
    <3>2. CASE MarkFailed(w)
      <4>1. x \in Events
        BY <1>0, <3>2 DEF MarkFailed
      <4>2. CASE copy[w][x] >= MaxAttempts
        BY <3>2, <4>2 DEF MarkFailed, Write
      <4>3. CASE ~(copy[w][x] >= MaxAttempts)
        <5>1. status' = [status EXCEPT ![x] = status[x]] /\ verdict[w] = "failed"
          BY <3>2, <4>3 DEF MarkFailed, Write
        <5>2. copy[w][x] < MaxAttempts /\ status[x] \in Statuses
          BY <1>t, <4>1, <4>3
        <5>3. QED
          BY <5>1, <5>2
      <4>4. QED
        BY <4>2, <4>3
    <3>3. QED
      BY <1>5, <3>1, <3>2
  <2>2. /\ batch' = [batch EXCEPT ![w] = @ \ {x}] /\ UNCHANGED <<crashes, attempts>>
        /\ x \in Events
    BY <1>0, <1>5 DEF MarkSent, MarkStale, MarkFailed, Write, NextEvent
  <2>3. ASSUME NEW d \in Events
        PROVE  /\ status[d] \in Settled => status'[d] \in Settled
               /\ attempts[d] <= attempts'[d]
    BY <2>1, <2>2
  <2>4. ASSUME NEW d \in Events, NEW v \in Workers
        PROVE  /\ d \notin batch'[v] \ batch[v]
               /\ d \in batch[v] \ batch'[v] => d = x /\ v = w
    BY <2>2
  <2>5. QED
    BY <2>1, <2>3, <2>4
<1>6. ASSUME NEW w \in Workers, Crash(w) PROVE Goal
  BY <1>6, SMT DEF Crash
<1>7. CASE Elapse \/ UNCHANGED vars
  BY <1>7, SMT DEF Elapse, vars
<1> HIDE DEF TypeOK, TriesCount
<1>8. QED
  BY <1>1, <1>2, <1>3, <1>4, <1>5, <1>6, <1>7 DEF Next, Work

\* No event is tried for ever: a settled row stays settled, every delivery
\* counts an attempt before it begins, and at the limit the worker settles the
\* row, whoever else wrote it meanwhile (outbox.py:78-145).
THEOREM TriesRunOut == Spec => [][TriesCount]_vars
<1>1. Inv /\ [Next]_vars => TriesCount
  BY TriesStep DEF Inv
<1>2. QED
  BY <1>1, SpecInv, PTL DEF Spec
=============================================================================
