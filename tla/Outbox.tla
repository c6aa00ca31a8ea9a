-------------------------------- MODULE Outbox --------------------------------
(***************************************************************************)
(* The notification outbox: core/services/outbox.py and the drain loop of  *)
(* core/services/notifications.py, run by the scheduler's tick and by      *)
(* staff, possibly at the same time.  A worker claims a batch of due rows  *)
(* under a lease, then for each row re-checks that the event still         *)
(* applies, sends the mail and writes what became of it by the copy of the *)
(* row it claimed.  It may die, or outlive its lease, between any two of   *)
(* these steps.                                                            *)
(*                                                                         *)
(* Times are kept relative to the present (minutes until the next attempt, *)
(* until a lease ends, since a batch was claimed), so time never ends.     *)
(***************************************************************************)
EXTENDS Integers, FiniteSets

CONSTANTS
  Events,       \* dedupe keys
  Workers,
  None,         \* no lease
  BatchSize,    \* OUTBOX_BATCH_SIZE
  LeaseTime,    \* OUTBOX_LEASE_SECONDS
  MaxAttempts,  \* OUTBOX_MAX_ATTEMPTS
  Backoff,      \* OUTBOX_BACKOFF_MINUTES, by attempt
  LongestWait,  \* BOUND: at least every back-off
  MaxCrashes    \* BOUND: workers that die

ASSUME OutboxAssumption ==
  /\ BatchSize \in Nat \ {0} /\ LeaseTime \in Nat \ {0} /\ MaxAttempts \in Nat \ {0}
  /\ LongestWait \in Nat /\ MaxCrashes \in Nat
  /\ Backoff \in [1..MaxAttempts -> 0..LongestWait]
  /\ None \notin Nat \cup Events

VARIABLES
  status,    \* event -> "absent" or the status of its row
  wait,      \* event -> minutes until next_attempt_at
  lease,     \* event -> minutes until lease_until (0: expired), None for null
  attempts,  \* event -> attempts of its row, counted up to MaxAttempts + 1
  void,      \* the events whose cause was undone (booking or link changed)
  lapsed,    \* the events whose deadline passed (link expired, hour begun)
  batch,     \* worker -> the events it has claimed and not dealt with
  copy,      \* worker -> event -> attempts when it claimed the row
  known,     \* worker -> the events lapsed at the `now` of its drain
  age,       \* worker -> minutes since that `now`
  current,   \* worker -> the event it deals with, None between two events
  verdict,   \* worker -> what delivery came to: "open", "sending", "sent", ...
  crashes,
  mailed,    \* history: event -> mails accepted, counted up to 2
  excused    \* history: reclaimed after a lease ended, or an ambiguous failure

rowVars == <<status, wait, lease, attempts>>
worldVars == <<void, lapsed>>
workerVars == <<batch, copy, known, age, current, verdict>>
historyVars == <<mailed, excused>>
vars == <<rowVars, worldVars, workerVars, crashes, historyVars>>

Statuses == {"absent", "PENDING", "SENT", "EXHAUSTED", "CANCELLED"}
Settled  == {"SENT", "EXHAUSTED", "CANCELLED"}
UpTo(n, limit) == IF n > limit THEN limit ELSE n
Down(n) == IF n > 0 THEN n - 1 ELSE 0

Init ==
  /\ status = [e \in Events |-> "absent"] /\ wait = [e \in Events |-> 0]
  /\ lease = [e \in Events |-> None] /\ attempts = [e \in Events |-> 0]
  /\ void = {} /\ lapsed = {}
  /\ batch = [w \in Workers |-> {}]
  /\ copy = [w \in Workers |-> [e \in Events |-> 0]]
  /\ known = [w \in Workers |-> {}] /\ age = [w \in Workers |-> 0]
  /\ current = [w \in Workers |-> None] /\ verdict = [w \in Workers |-> "open"]
  /\ crashes = 0
  /\ mailed = [e \in Events |-> 0] /\ excused = {}

(***************************************************************************)
(* The world                                                               *)
(***************************************************************************)
\* Queued in the transaction of the state change; a second call with the same
\* dedupe key finds the row and changes nothing.
Enqueue(e) ==
  /\ status[e] = "absent"
  /\ status' = [status EXCEPT ![e] = "PENDING"]
  /\ UNCHANGED <<wait, lease, attempts, worldVars, workerVars, crashes, historyVars>>

\* What the event announces is undone, or its deadline passes.
Undo(e) ==
  /\ status[e] # "absent" /\ e \notin void
  /\ void' = void \cup {e}
  /\ UNCHANGED <<rowVars, lapsed, workerVars, crashes, historyVars>>
Lapse(e) ==
  /\ status[e] # "absent" /\ e \notin lapsed
  /\ lapsed' = lapsed \cup {e}
  /\ UNCHANGED <<rowVars, void, workerVars, crashes, historyVars>>

Elapse ==
  /\ wait' = [e \in Events |-> Down(wait[e])]
  /\ lease' = [e \in Events |-> IF lease[e] = None THEN None ELSE Down(lease[e])]
  /\ age' = [w \in Workers |-> IF batch[w] = {} THEN age[w] ELSE UpTo(age[w] + 1, LongestWait)]
  /\ UNCHANGED <<status, attempts, worldVars, batch, copy, known, current, verdict,
                 crashes, historyVars>>

(***************************************************************************)
(* A worker                                                                *)
(***************************************************************************)
\* Mutant: the lease of another worker is overlooked.
ClaimableLeased(e) == status[e] = "PENDING" /\ wait[e] = 0
\* Mutant: only rows that carry no lease are claimed.
ClaimableUnleased(e) == status[e] = "PENDING" /\ wait[e] = 0 /\ lease[e] = None
Claimable(e) == status[e] = "PENDING" /\ wait[e] = 0 /\ lease[e] \in {None, 0}

\* claim_due, with the `now` the drain began with.  Rows that share a due
\* time are taken in any order.
Claim(w, rows) ==
  /\ batch[w] = {} /\ rows # {} /\ \A e \in rows : Claimable(e)
  /\ Cardinality(rows) <= BatchSize
  /\ Cardinality(rows) < BatchSize => \A e \in Events : Claimable(e) => e \in rows
  /\ lease' = [e \in Events |-> IF e \in rows THEN LeaseTime ELSE lease[e]]
  /\ attempts' = [e \in Events |-> IF e \in rows THEN UpTo(attempts[e] + 1, MaxAttempts + 1)
                                                ELSE attempts[e]]
  /\ batch' = [batch EXCEPT ![w] = rows]
  /\ copy' = [copy EXCEPT ![w] = [e \in Events |-> IF e \in rows THEN attempts'[e] ELSE 0]]
  /\ known' = [known EXCEPT ![w] = lapsed]
  /\ age' = [age EXCEPT ![w] = 0]
  /\ excused' = excused \cup {e \in rows : lease[e] = 0}
  /\ UNCHANGED <<status, wait, worldVars, current, verdict, crashes, mailed>>

\* deliver reads the cause of the event again, but compares its deadline with
\* the `now` of the drain.
Revalidate(w, e) ==
  /\ current[w] = None /\ e \in batch[w]
  /\ current' = [current EXCEPT ![w] = e]
  /\ verdict' = [verdict EXCEPT ![w] = IF e \in void \cup known[w] THEN "stale" ELSE "sending"]
  /\ UNCHANGED <<rowVars, worldVars, batch, copy, known, age, crashes, historyVars>>

\* The mail server takes the mail, refuses it, or takes it and seems to fail.
Send(w, accepted, error) ==
  LET e == current[w] IN
  /\ verdict[w] = "sending" /\ (accepted \/ error)
  /\ verdict' = [verdict EXCEPT ![w] = IF error THEN "failed" ELSE "sent"]
  /\ mailed' = IF accepted THEN [mailed EXCEPT ![e] = UpTo(@ + 1, 2)] ELSE mailed
  /\ excused' = IF accepted /\ error THEN excused \cup {e} ELSE excused
  /\ UNCHANGED <<rowVars, worldVars, batch, copy, known, age, current, crashes>>

\* The row is written by its key, with no look at who holds its lease.
Write(e, st, delay) ==
  /\ status' = [status EXCEPT ![e] = st]
  /\ wait' = [wait EXCEPT ![e] = delay]
  /\ lease' = [lease EXCEPT ![e] = None]
  /\ UNCHANGED attempts

NextEvent(w) ==
  /\ batch' = [batch EXCEPT ![w] = @ \ {current[w]}]
  /\ current' = [current EXCEPT ![w] = None]
  /\ verdict' = [verdict EXCEPT ![w] = "open"]
  /\ copy' = [copy EXCEPT ![w][current[w]] = 0]
  /\ known' = [known EXCEPT ![w] = @ \ {current[w]}]
  /\ age' = [age EXCEPT ![w] = IF batch[w] = {current[w]} THEN 0 ELSE @]
  /\ UNCHANGED <<worldVars, crashes, historyVars>>

MarkSent(w) ==
  /\ verdict[w] = "sent"
  /\ Write(current[w], "SENT", wait[current[w]])
  /\ NextEvent(w)

MarkStale(w) ==
  /\ verdict[w] = "stale"
  /\ Write(current[w], "CANCELLED", wait[current[w]])
  /\ NextEvent(w)

\* Mutant: the last attempt is given up before it is made.
MarkFailedEarly(w) ==
  LET e == current[w] IN
  /\ verdict[w] = "failed"
  /\ IF copy[w][e] >= MaxAttempts - 1
     THEN Write(e, "EXHAUSTED", wait[e])
     ELSE Write(e, status[e], Backoff[copy[w][e]])
  /\ NextEvent(w)
\* Exhausted by the attempts of the claimed copy; otherwise the next attempt
\* is due a back-off after the `now` of the drain, and the status is kept.
MarkFailed(w) ==
  LET e == current[w]
      n == copy[w][e] IN
  /\ verdict[w] = "failed"
  /\ IF n >= MaxAttempts
     THEN Write(e, "EXHAUSTED", wait[e])
     ELSE Write(e, status[e], IF Backoff[n] > age[w] THEN Backoff[n] - age[w] ELSE 0)
  /\ NextEvent(w)

\* A worker dies between two steps; its leases stay behind.
Crash(w) ==
  /\ batch[w] # {} /\ crashes < MaxCrashes /\ crashes' = crashes + 1
  /\ batch' = [batch EXCEPT ![w] = {}] /\ copy' = [copy EXCEPT ![w] = [e \in Events |-> 0]]
  /\ known' = [known EXCEPT ![w] = {}] /\ age' = [age EXCEPT ![w] = 0]
  /\ current' = [current EXCEPT ![w] = None]
  /\ verdict' = [verdict EXCEPT ![w] = "open"]
  /\ UNCHANGED <<rowVars, worldVars, historyVars>>

Work(w) ==
  \/ \E rows \in SUBSET Events : Claim(w, rows)
  \/ \E e \in Events : Revalidate(w, e)
  \/ \E accepted, error \in BOOLEAN : Send(w, accepted, error)
  \/ MarkSent(w) \/ MarkStale(w) \/ MarkFailed(w)

Next ==
  \/ \E e \in Events : Enqueue(e) \/ Undo(e) \/ Lapse(e)
  \/ \E w \in Workers : Work(w) \/ Crash(w)
  \/ Elapse

Spec == Init /\ [][Next]_vars
\* The scheduler drains every minute, a worker goes on, and time passes.
FairSpec == Spec /\ WF_vars(Elapse) /\ \A w \in Workers : WF_vars(Work(w))

(***************************************************************************)
(* Properties                                                              *)
(***************************************************************************)

\* Every row and every worker's variables hold values of their kind.
TypeOK ==
  /\ status \in [Events -> Statuses] /\ wait \in [Events -> 0..LongestWait]
  /\ lease \in [Events -> 0..LeaseTime \cup {None}]
  /\ attempts \in [Events -> 0..(MaxAttempts + 1)]
  /\ void \subseteq Events /\ lapsed \subseteq Events
  /\ batch \in [Workers -> SUBSET Events]
  /\ copy \in [Workers -> [Events -> 0..(MaxAttempts + 1)]]
  /\ known \in [Workers -> SUBSET Events] /\ age \in [Workers -> 0..LongestWait]
  /\ current \in [Workers -> Events \cup {None}]
  /\ verdict \in [Workers -> {"open", "sending", "sent", "failed", "stale"}]
  /\ crashes \in 0..MaxCrashes
  /\ mailed \in [Events -> 0..2] /\ excused \subseteq Events

\* A row that says SENT was handed to the mail server, whoever wrote it and
\* whatever another worker did with the same row meanwhile.
SentMeansMailed == \A e \in Events : status[e] = "SENT" => mailed[e] > 0

\* A mail goes out twice only for the reasons the program owns up to: a lease
\* ended under a worker that died or was slow, or the mail server took a mail
\* and reported failure (outbox.py:3-7).
DuplicatesExcused == \A e \in Events : mailed[e] > 1 => e \in excused

\* Staff see a mail as given up only when every attempt was made.
ExhaustedAfterAllAttempts ==
  \A e \in Events : status[e] = "EXHAUSTED" => attempts[e] >= MaxAttempts

\* Every queued event is sent, cancelled or given up before the eyes of staff:
\* no lease, back-off or lost worker strands it.
EveryEventSettles ==
  \A e \in Events : status[e] = "PENDING" ~> status[e] \in Settled
=============================================================================
