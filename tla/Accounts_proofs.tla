--------------------------- MODULE Accounts_proofs ---------------------------
(***************************************************************************)
(* Proofs about Accounts and the room it is composed with.                 *)
(*                                                                         *)
(* The inductive invariant says what the operations taken apart carry from *)
(* what they read to what they write: a completion holds an account nobody *)
(* has confirmed, and no two the same; those an entry of the access list   *)
(* admits are confirmed and wait; the rows an import creates do not exist; *)
(* a seed no one has overtaken still agrees with what staff decided.       *)
(***************************************************************************)
EXTENDS Accounts, TLAPS

(***************************************************************************)
(* The roster.  What an import does to any roster, for every file: a dry   *)
(* run forecasts it, and a second import of the same file changes nothing. *)
(* The length of the file is arbitrary: the rows after its first n entries *)
(* are given by a formula and not by recursion, so no induction is needed. *)
(***************************************************************************)

\* The entry of an ID in a file is unique, so its address is the one chosen.
LEMMA ItsEmail ==
  ASSUME NEW file \in Seq(Entries), WellFormed(file), NEW k \in DOMAIN file
  PROVE  EmailFor(file, file[k].id) = file[k].email
<1> DEFINE j == CHOOSE j \in DOMAIN file : file[j].id = file[k].id
<1>1. j \in DOMAIN file /\ file[j].id = file[k].id
  OBVIOUS
<1>2. j = k
  BY <1>1 DEF WellFormed
<1> QED BY <1>1, <1>2 DEF EmailFor

\* A row after the first n entries: the file's, or the one there was.
LEMMA ItsRow ==
  ASSUME NEW rows, NEW file \in Seq(Entries), NEW n \in Nat, NEW i,
         i \in DOMAIN rows \cup IdsOf(file, n)
  PROVE  /\ i \in DOMAIN Applied(rows, file, n)
         /\ i \in IdsOf(file, n) => Applied(rows, file, n)[i].email = EmailFor(file, i)
         /\ i \notin IdsOf(file, n) => Applied(rows, file, n)[i] = rows[i]
BY DEF Applied

LEMMA RowsAfter ==
  ASSUME NEW rows, NEW file, NEW n
  PROVE  DOMAIN Applied(rows, file, n) = DOMAIN rows \cup IdsOf(file, n)
BY DEF Applied

\* An entry's own row is not touched by the entries before it.
LEMMA NotYet ==
  ASSUME NEW file \in Seq(Entries), WellFormed(file), NEW k \in DOMAIN file
  PROVE  file[k].id \notin IdsOf(file, k - 1)
<1> SUFFICES ASSUME file[k].id \in IdsOf(file, k - 1) PROVE FALSE
  OBVIOUS
<1>1. k \in 1..Len(file)
  OBVIOUS
<1>2. PICK j \in 1..(k - 1) : file[k].id = file[j].id
  BY DEF IdsOf
<1>3. j \in DOMAIN file /\ j # k
  BY <1>1, <1>2
<1> QED BY <1>2, <1>3 DEF WellFormed

(***************************************************************************)
(* What a dry run promises is accepted; and, unless addresses may be       *)
(* rewritten, what it refuses is refused (roster.py:193-212).              *)
(***************************************************************************)
THEOREM DryRunAgrees ==
  ASSUME NEW rows, NEW file \in Seq(Entries), WellFormed(file), NEW optIn \in BOOLEAN
  PROVE  /\ Forecast(rows, file, optIn) => Accepted(rows, file, optIn)
         /\ Accepted(rows, file, FALSE) => Forecast(rows, file, FALSE)
<1>0. \A k \in DOMAIN file : k \in 1..Len(file) /\ k - 1 \in Nat /\ file[k] \in Entries
  OBVIOUS
<1>1. ASSUME Forecast(rows, file, optIn), NEW k \in DOMAIN file,
             Conflict(Applied(rows, file, k - 1), file[k], optIn)
      PROVE  FALSE
  <2>1. ~Conflict(rows, file[k], optIn)
    BY <1>1 DEF Forecast
  <2>2. CASE /\ file[k].id \in DOMAIN Applied(rows, file, k - 1)
             /\ Applied(rows, file, k - 1)[file[k].id].email # file[k].email
             /\ ~optIn
    <3>1. file[k].id \notin IdsOf(file, k - 1)
      BY NotYet
    <3>2. file[k].id \in DOMAIN rows
      BY <2>2, <3>1 DEF Applied
    <3>3. Applied(rows, file, k - 1)[file[k].id] = rows[file[k].id]
      BY <3>1, <3>2 DEF Applied
    <3> QED BY <2>1, <2>2, <3>2, <3>3 DEF Conflict
  <2>3. CASE \E i \in DOMAIN Applied(rows, file, k - 1) \ {file[k].id} :
               Applied(rows, file, k - 1)[i].email = file[k].email
    <3>1. PICK i \in DOMAIN Applied(rows, file, k - 1) \ {file[k].id} :
                 Applied(rows, file, k - 1)[i].email = file[k].email
      BY <2>3
    <3>2. i \in DOMAIN rows \cup IdsOf(file, k - 1)
      BY <3>1, RowsAfter
    <3>3. CASE i \notin IdsOf(file, k - 1)
      <4>1. Applied(rows, file, k - 1)[i] = rows[i]
        BY <3>2, <3>3 DEF Applied
      <4>2. i \in DOMAIN rows
        BY <3>2, <3>3
      <4> QED BY <2>1, <3>1, <4>1, <4>2 DEF Conflict
    <3>4. CASE i \in IdsOf(file, k - 1)
      <4>1. PICK j \in 1..(k - 1) : i = file[j].id
        BY <3>4 DEF IdsOf
      <4>2. j \in DOMAIN file /\ j # k
        BY <4>1, <1>0
      <4>3. Applied(rows, file, k - 1)[i].email = EmailFor(file, i)
        BY <3>2, <3>4 DEF Applied
      <4>4. EmailFor(file, file[j].id) = file[j].email
        BY <4>2, ItsEmail
      <4>5. file[j].email = file[k].email
        BY <4>1, <4>3, <4>4, <3>1
      <4> QED BY <4>2, <4>5 DEF WellFormed
    <3> QED BY <3>3, <3>4
  <2> QED BY <1>1, <2>2, <2>3 DEF Conflict
<1>2. ASSUME Accepted(rows, file, FALSE), NEW k \in DOMAIN file,
             Conflict(rows, file[k], FALSE)
      PROVE  FALSE
  <2>1. \A j \in DOMAIN file : ~Conflict(Applied(rows, file, j - 1), file[j], FALSE)
    BY <1>2 DEF Accepted
  <2>2. CASE file[k].id \in DOMAIN rows /\ rows[file[k].id].email # file[k].email
    <3>1. file[k].id \notin IdsOf(file, k - 1)
      BY NotYet
    <3>2. /\ file[k].id \in DOMAIN Applied(rows, file, k - 1)
          /\ Applied(rows, file, k - 1)[file[k].id] = rows[file[k].id]
      BY <2>2, <3>1 DEF Applied
    <3> QED BY <2>1, <2>2, <3>2 DEF Conflict
  <2>3. CASE \E i \in DOMAIN rows \ {file[k].id} : rows[i].email = file[k].email
    <3>1. PICK i \in DOMAIN rows \ {file[k].id} : rows[i].email = file[k].email
      BY <2>3
    <3>2. CASE i \notin IdsOf(file, k - 1)
      <4>1. /\ i \in DOMAIN Applied(rows, file, k - 1)
            /\ Applied(rows, file, k - 1)[i] = rows[i]
        BY <3>1, <3>2 DEF Applied
      <4> QED BY <2>1, <3>1, <4>1 DEF Conflict
    <3>3. CASE i \in IdsOf(file, k - 1)
      <4>1. PICK j \in 1..(k - 1) : i = file[j].id
        BY <3>3 DEF IdsOf
      <4>2. j \in DOMAIN file /\ j # k
        BY <4>1, <1>0
      <4>3. file[j].email # file[k].email
        BY <4>2 DEF WellFormed
      <4>4. file[j].id \notin IdsOf(file, j - 1)
        BY <4>2, NotYet
      <4>5. /\ file[j].id \in DOMAIN Applied(rows, file, j - 1)
            /\ Applied(rows, file, j - 1)[file[j].id] = rows[file[j].id]
        BY <3>1, <4>1, <4>4 DEF Applied
      <4> QED BY <2>1, <3>1, <4>1, <4>2, <4>3, <4>5 DEF Conflict
    <3> QED BY <3>2, <3>3
  <2> QED BY <1>2, <2>2, <2>3 DEF Conflict
<1> QED BY <1>1, <1>2 DEF Accepted, Forecast

(***************************************************************************)
(* A file that was accepted is accepted again, and changes nothing         *)
(* (roster.py:3).                                                          *)
(***************************************************************************)
THEOREM SecondImportIdle ==
  ASSUME NEW rows, NEW file \in Seq(Entries), WellFormed(file), NEW optIn \in BOOLEAN,
         Accepted(rows, file, optIn)
  PROVE  LET after == Applied(rows, file, Len(file))
         IN  /\ Accepted(after, file, FALSE)
             /\ Applied(after, file, Len(file)) = after
<1> DEFINE after == Applied(rows, file, Len(file))
           all == IdsOf(file, Len(file))
<1>0. \A k \in DOMAIN file :
        k \in 1..Len(file) /\ k - 1 \in Nat /\ Len(file) \in Nat /\ file[k] \in Entries
  OBVIOUS
<1>1. \A n \in 0..Len(file) : IdsOf(file, n) \subseteq all
  BY DEF IdsOf
<1>2. \A i \in all : after[i] = [email |-> EmailFor(file, i), active |-> TRUE,
                                 account |-> after[i].account]
  BY DEF Applied
<1>3. \A i \in all : after[i].email = EmailFor(file, i)
  <2> SUFFICES ASSUME NEW i \in all PROVE after[i].email = EmailFor(file, i)
    OBVIOUS
  <2>1. i \in DOMAIN rows \cup all
    OBVIOUS
  <2> QED BY <2>1 DEF Applied
<1>4. DOMAIN after = DOMAIN rows \cup all
  BY RowsAfter
<1>5. ASSUME NEW n \in 0..Len(file) PROVE Applied(after, file, n) = after
  <2>1. DOMAIN after \cup IdsOf(file, n) = DOMAIN after
    BY <1>1, <1>4
  <2>2. \A i \in DOMAIN after : i \in IdsOf(file, n) => i \in all
    BY <1>1
  <2>3. Applied(after, file, n) =
          [i \in DOMAIN after |->
             IF i \notin IdsOf(file, n) THEN after[i]
             ELSE [email |-> EmailFor(file, i), active |-> TRUE,
                   account |-> after[i].account]]
    BY <2>1 DEF Applied
  <2>4. \A i \in DOMAIN after : Applied(after, file, n)[i] = after[i]
    BY <2>2, <2>3, <1>2
  <2>5. after = [i \in DOMAIN after |-> after[i]]
    BY DEF Applied
  <2> QED BY <2>3, <2>4, <2>5
<1>6. ASSUME NEW k \in DOMAIN file, Conflict(after, file[k], FALSE) PROVE FALSE
  <2>1. file[k].id \in all
    BY <1>0 DEF IdsOf
  <2>2. after[file[k].id].email = file[k].email
    <3>1. EmailFor(file, file[k].id) = file[k].email
      BY ItsEmail
    <3> HIDE DEF after, all
    <3>2. after[file[k].id].email = EmailFor(file, file[k].id)
      BY <2>1, <1>3
    <3> QED BY <3>1, <3>2
  <2>3. PICK i \in DOMAIN after \ {file[k].id} : after[i].email = file[k].email
    BY <1>6, <2>2 DEF Conflict
  <2>4. CASE i \in all
    <3>1. PICK j \in 1..Len(file) : i = file[j].id
      BY <2>4 DEF IdsOf
    <3>2. j \in DOMAIN file /\ j # k
      BY <3>1, <2>3
    <3>3. EmailFor(file, file[j].id) = file[j].email
      BY <3>2, ItsEmail
    <3>4. file[j].email = file[k].email
      <4> HIDE DEF after, all
      <4>1. after[i].email = EmailFor(file, i)
        BY <2>4, <1>3
      <4> QED BY <3>1, <3>3, <2>3, <4>1
    <3> QED BY <3>2, <3>4 DEF WellFormed
  <2>5. CASE i \notin all
    <3>1. i \in DOMAIN rows /\ i \notin IdsOf(file, k - 1)
      BY <2>3, <2>5, <1>0, <1>1, <1>4
    <3>2. after[i] = rows[i]
      BY <3>1, <2>5 DEF Applied
    <3>3. /\ i \in DOMAIN Applied(rows, file, k - 1)
          /\ Applied(rows, file, k - 1)[i] = rows[i]
      BY <3>1, <1>0, ItsRow
    <3>4. ~Conflict(Applied(rows, file, k - 1), file[k], optIn)
      BY DEF Accepted
    <3> QED BY <2>3, <3>2, <3>3, <3>4 DEF Conflict
  <2> QED BY <2>4, <2>5
<1>7. Accepted(after, file, FALSE)
  <2> SUFFICES ASSUME NEW k \in DOMAIN file
               PROVE  ~Conflict(Applied(after, file, k - 1), file[k], FALSE)
    BY DEF Accepted
  <2>1. Applied(after, file, k - 1) = after
    BY <1>5, <1>0
  <2> QED BY <1>6, <2>1
<1>8. Applied(after, file, Len(file)) = after
  <2>1. Len(file) \in 0..Len(file)
    OBVIOUS
  <2> HIDE DEF after
  <2> QED BY <1>5, <2>1
<1> QED BY <1>7, <1>8

(***************************************************************************)
(* The accounts                                                            *)
(***************************************************************************)

Completions == [op : {"complete"}, user : Users, verdict : Verdicts \cup {"unread"}]
Corrections == [op : {"correct"}, user : Users, id : Ids]
Listings    == [op : {"list"}, email : Emails, pending : SUBSET Users]

Shape ==
  /\ account \in [Users -> UserRows]
  /\ DOMAIN roster \subseteq Ids
  /\ roster \in [DOMAIN roster -> RosterRows]
  /\ listed \subseteq Emails
  /\ request \in [Requests -> Completions \cup {Idle}]
  /\ staff \in Corrections \cup Listings \cup {Idle}

ImportShape ==
  import # Idle =>
    /\ import.ids \subseteq Ids
    /\ import.op = "import" =>
         /\ import.created \subseteq import.ids
         /\ import.created \cap DOMAIN roster = {}
         /\ import.created \subseteq DOMAIN import.email
         /\ \A i \in DOMAIN import.email : import.email[i] \in Emails

LinksInv ==
  \A u \in Users :
    /\ account[u].link # "used twice"
    /\ account[u].link \in {"open", "expired"} => Registered(u) /\ ~account[u].verified
    /\ ~Registered(u) => ~account[u].verified

RequestsInv ==
  /\ \A q \in Requests :
       request[q] # Idle => account[request[q].user].link \in {"open", "expired"}
  /\ \A q, r \in Requests :
       request[q] # Idle /\ request[r] # Idle /\ request[q].user = request[r].user => q = r

StaffInv ==
  staff # Idle /\ staff.op = "list" =>
    \A u \in staff.pending : account[u].verified /\ account[u].eligibility = "PENDING"

RoomInv ==
  /\ RoomTypeOK
  /\ room.outByStaff => ~room.active
  /\ seed # Idle /\ ~seed.overtaken =>
       /\ seed.restore => ~room.outByStaff
       /\ seed.capacity # "keep" => ~room.profiled

AccountsInv ==
  /\ Shape
  /\ ImportShape
  /\ LinksInv
  /\ RequestsInv
  /\ StaffInv
  /\ UnseenAreConfirmed

--------------------------------------------------------------------------------
(* The room between the settings and the staff.                              *)

LEMMA RoomInvInit == RoomInit => RoomInv
BY RoomSeedAssumption DEF RoomInit, RoomInv, RoomTypeOK, RoomRows, Settings, Idle

LEMMA RoomInvStep ==
  ASSUME RoomInv, Deployment \/ Administration \/ UNCHANGED roomVars
  PROVE  RoomInv'
<1> USE RoomSeedAssumption DEF RoomInv, RoomTypeOK, RoomRows, SeedRuns, Settings, Idle
<1>1. CASE SeedRead
  BY <1>1 DEF SeedRead, HeldOut, ProfileManaged
<1>2. CASE SeedWrite
  BY <1>2 DEF SeedWrite
<1>3. ASSUME NEW c \in Configs, Deploy(c) PROVE RoomInv'
  BY <1>3 DEF Deploy
<1>4. CASE DeactivateRoom
  BY <1>4 DEF DeactivateRoom, Overtaken
<1>5. ASSUME NEW n \in Capacities, UpdateProfile(n) PROVE RoomInv'
  BY <1>5 DEF UpdateProfile, Overtaken
<1>6. CASE UNCHANGED roomVars
  BY <1>6 DEF roomVars
<1> QED BY <1>1, <1>2, <1>3, <1>4, <1>5, <1>6 DEF Deployment, Administration

(***************************************************************************)
(* The seed respects what staff decided before it began.                   *)
(***************************************************************************)
LEMMA SeedStep ==
  ASSUME RoomInv, SeedWrite, ~seed.overtaken
  PROVE  /\ room.outByStaff => ~room'.active
         /\ room.profiled => room'.capacity = room.capacity
BY DEF RoomInv, RoomTypeOK, RoomRows, SeedRuns, SeedWrite

LEMMA RoomSteps == Next => Deployment \/ Administration \/ UNCHANGED roomVars
BY DEF Next

--------------------------------------------------------------------------------
(* What the operations write.                                                *)

LEMMA AutoApproveType ==
  ASSUME NEW a \in UserRows, NEW verdict \in Verdicts
  PROVE  /\ AutoApprove(a, verdict) \in UserRows
         /\ AutoApprove(a, verdict).link = a.link
         /\ AutoApprove(a, verdict).id = a.id
         /\ AutoApprove(a, verdict).verified = a.verified
BY DEF AutoApprove, UserRows, Verdicts, Eligibilities, Reasons

LEMMA NewUserType ==
  ASSUME NEW id \in Ids, NEW email \in Emails, NEW student \in BOOLEAN,
         NEW verified \in BOOLEAN, NEW eligibility \in Eligibilities
  PROVE  NewUser(id, email, student, verified, eligibility) \in UserRows
BY DEF NewUser, UserRows, Reasons, LinkStates

LEMMA VerdictType == ASSUME NEW u PROVE Verdict(u) \in Verdicts
BY DEF Verdict, Verdicts

LEMMA InvInit == Init => AccountsInv
<1> SUFFICES ASSUME Init PROVE AccountsInv
  OBVIOUS
<1>1. NoUser \in UserRows /\ NoUser.link = "none" /\ NoUser.id = Nobody /\ ~NoUser.verified
      /\ NoUser.reason = "none"
  BY DEF NoUser, NewUser, UserRows, Eligibilities, Reasons, LinkStates
<1>2. account \in [Users -> UserRows] /\ \A u \in Users : account[u] = NoUser
  BY <1>1 DEF Init
<1>3. DOMAIN roster = {} /\ roster \in [DOMAIN roster -> RosterRows]
  BY DEF Init
<1>4. Shape
  BY <1>2, <1>3 DEF Init, Shape
<1>5. LinksInv /\ UnseenAreConfirmed
  BY <1>1, <1>2 DEF LinksInv, UnseenAreConfirmed, Registered
<1>6. ImportShape /\ RequestsInv /\ StaffInv
  BY DEF Init, ImportShape, RequestsInv, StaffInv
<1> QED BY <1>4, <1>5, <1>6 DEF AccountsInv

\* What the typing of the account says of one row.
LEMMA ItsAccount ==
  ASSUME Shape, NEW u \in Users
  PROVE  account[u] \in UserRows
BY DEF Shape

--------------------------------------------------------------------------------
(* One lemma per operation.                                                  *)

LEMMA RegisterStep ==
  ASSUME AccountsInv, NEW u \in Users, NEW id \in Ids, NEW email \in Emails,
         NEW student \in BOOLEAN, NEW verified \in BOOLEAN, NEW eligibility \in Eligibilities,
         ~Registered(u),
         account' = [account EXCEPT ![u] = NewUser(id, email, student, verified, eligibility)],
         UNCHANGED <<roster, listed, request, staff, import>>
  PROVE  AccountsInv'
<1> DEFINE row == NewUser(id, email, student, verified, eligibility)
<1>1. row \in UserRows
  BY NewUserType
<1>2. /\ row.link = "none" /\ row.reason = "none" /\ row.id = id
      /\ row.verified = verified /\ row.eligibility = eligibility
  BY DEF NewUser
<1> HIDE DEF row
<1>3. account[u].link \notin {"open", "expired"} /\ ~account[u].verified
  BY DEF AccountsInv, LinksInv
<1>4. /\ account \in [Users -> UserRows] /\ account'[u] = row
      /\ \A v \in Users : v # u => account'[v] = account[v]
  BY DEF AccountsInv, Shape, row
<1>5. Shape'
  BY <1>1 DEF AccountsInv, Shape, row
<1>6. ImportShape' /\ RequestsInv'
  <2>1. ASSUME NEW q \in Requests, request[q] # Idle
        PROVE  account'[request[q].user].link \in {"open", "expired"}
    <3>1. request[q].user \in Users
      BY <2>1 DEF AccountsInv, Shape, Completions
    <3>2. request[q].user # u
      BY <2>1, <1>3 DEF AccountsInv, RequestsInv
    <3> QED BY <2>1, <3>1, <3>2, <1>4 DEF AccountsInv, RequestsInv
  <2> QED BY <2>1 DEF AccountsInv, ImportShape, RequestsInv
<1>7. LinksInv' /\ UnseenAreConfirmed'
  BY <1>2, <1>4, AccountsAssumption
     DEF AccountsInv, LinksInv, UnseenAreConfirmed, Registered
<1>8. StaffInv'
  BY <1>3, <1>4 DEF AccountsInv, StaffInv, Shape, Listings, Corrections, Idle
<1> QED BY <1>5, <1>6, <1>7, <1>8 DEF AccountsInv

LEMMA SendVerificationStep ==
  ASSUME AccountsInv, NEW u \in Users, SendVerification(u) \/ LinkExpires(u)
  PROVE  AccountsInv'
<1>1. PICK state \in {"open", "expired"} : account' = [account EXCEPT ![u].link = state]
  BY DEF SendVerification, LinkExpires
<1>2. /\ UNCHANGED <<roster, listed, request, staff, import>>
      /\ Registered(u) /\ ~account[u].verified
  BY DEF SendVerification, LinkExpires, AccountsInv, LinksInv
<1>3. account[u] \in UserRows /\ state \in LinkStates
  BY ItsAccount, <1>1 DEF AccountsInv, LinkStates
<1>4. [account[u] EXCEPT !.link = state] \in UserRows
  BY <1>3 DEF UserRows
<1>5. account' \in [Users -> UserRows] /\ \A v \in Users \ {u} : account'[v] = account[v]
  BY <1>1, <1>4 DEF AccountsInv, Shape
<1>6. /\ account'[u].link = state /\ account'[u].id = account[u].id
      /\ account'[u].verified = account[u].verified
      /\ account'[u].eligibility = account[u].eligibility
      /\ account'[u].reason = account[u].reason
  BY <1>1, <1>3 DEF AccountsInv, Shape, UserRows
<1>7. Shape' /\ ImportShape'
  BY <1>2, <1>5 DEF AccountsInv, Shape, ImportShape
<1>8. LinksInv' /\ UnseenAreConfirmed'
  BY <1>2, <1>5, <1>6 DEF AccountsInv, LinksInv, UnseenAreConfirmed, Registered
<1>9. RequestsInv'
  <2>1. ASSUME NEW q \in Requests, request[q] # Idle
        PROVE  account'[request[q].user].link \in {"open", "expired"}
    <3>1. request[q].user \in Users
      BY <2>1 DEF AccountsInv, Shape, Completions
    <3> QED BY <2>1, <3>1, <1>5, <1>6 DEF AccountsInv, RequestsInv
  <2> QED BY <2>1, <1>2 DEF AccountsInv, RequestsInv
<1>10. StaffInv'
  BY <1>2, <1>5, <1>6 DEF AccountsInv, StaffInv, Shape, Listings, Corrections, Idle
<1> QED BY <1>7, <1>8, <1>9, <1>10 DEF AccountsInv

LEMMA BeginStep ==
  ASSUME AccountsInv, NEW q \in Requests,
         (\E u \in Users : Begin(q, u)) \/ Consult(q) \/ Abandon(q)
  PROVE  AccountsInv'
<1>1. UNCHANGED <<account, roster, listed, staff, import>>
  BY DEF Begin, Consult, Abandon
<1>2. request' \in [Requests -> Completions \cup {Idle}] /\ RequestsInv'
  <2>1. ASSUME NEW u \in Users, Begin(q, u)
        PROVE  request' \in [Requests -> Completions \cup {Idle}] /\ RequestsInv'
    <3> DEFINE new == [op |-> "complete", user |-> u, verdict |-> "unread"]
    <3>1. new \in Completions /\ new.user = u
      BY DEF Completions
    <3> HIDE DEF new
    <3>2. request' = [request EXCEPT ![q] = new] /\ account[u].link = "open" /\ RowFree(u)
      BY <2>1 DEF Begin, new
    <3>3. request' \in [Requests -> Completions \cup {Idle}]
      BY <3>1, <3>2 DEF AccountsInv, Shape
    <3>4. request'[q] = new /\ \A r \in Requests \ {q} : request'[r] = request[r]
      BY <3>2 DEF AccountsInv, Shape
    <3>5. RequestsInv'
      BY <3>1, <3>2, <3>4, <1>1 DEF AccountsInv, RequestsInv, RowFree
    <3> QED BY <3>3, <3>5
  <2>2. ASSUME Consult(q)
        PROVE  request' \in [Requests -> Completions \cup {Idle}] /\ RequestsInv'
    <3> DEFINE new == [request[q] EXCEPT !.verdict = Verdict(request[q].user)]
    <3>1. request[q] \in Completions
      BY <2>2 DEF Consult, AccountsInv, Shape
    <3>2. new \in Completions /\ new.user = request[q].user /\ request[q] # Idle
      BY <2>2, <3>1, VerdictType DEF Completions, Consult
    <3> HIDE DEF new
    <3>3. request' = [request EXCEPT ![q] = new]
      BY <2>2 DEF Consult, new
    <3>4. request' \in [Requests -> Completions \cup {Idle}]
      BY <3>2, <3>3 DEF AccountsInv, Shape
    <3>5. request'[q] = new /\ \A r \in Requests \ {q} : request'[r] = request[r]
      BY <3>3 DEF AccountsInv, Shape
    <3>6. RequestsInv'
      BY <3>2, <3>5, <1>1 DEF AccountsInv, RequestsInv
    <3> QED BY <3>4, <3>6
  <2>3. ASSUME Abandon(q)
        PROVE  request' \in [Requests -> Completions \cup {Idle}] /\ RequestsInv'
    <3>1. request' = [request EXCEPT ![q] = Idle]
      BY <2>3 DEF Abandon
    <3>2. request' \in [Requests -> Completions \cup {Idle}]
      BY <3>1 DEF AccountsInv, Shape
    <3>3. request'[q] = Idle /\ \A r \in Requests \ {q} : request'[r] = request[r]
      BY <3>1 DEF AccountsInv, Shape
    <3>4. RequestsInv'
      BY <3>3, <1>1 DEF AccountsInv, RequestsInv
    <3> QED BY <3>2, <3>4
  <2> QED BY <2>1, <2>2, <2>3
<1>3. Shape'
  BY <1>1, <1>2 DEF AccountsInv, Shape
<1>4. ImportShape' /\ LinksInv' /\ StaffInv' /\ UnseenAreConfirmed'
  BY <1>1 DEF AccountsInv, ImportShape, LinksInv, StaffInv, UnseenAreConfirmed, Registered
<1> QED BY <1>2, <1>3, <1>4 DEF AccountsInv

\* A completed registration: the link is used, the address confirmed.
LEMMA CommitRow ==
  ASSUME AccountsInv, NEW q \in Requests, Commit(q), NEW u, u = request[q].user
  PROVE  /\ u \in Users /\ account[u].link \in {"open", "expired"}
         /\ account' \in [Users -> UserRows]
         /\ account'[u].id = account[u].id
         /\ account'[u].link = "used" /\ account'[u].verified
         /\ \A v \in Users \ {u} : account'[v] = account[v]
<1> DEFINE base == AutoApprove(account[u], request[q].verdict)
           new == [base EXCEPT !.verified = TRUE, !.link = Redeemed(account[u].link)]
<1>1. request[q] \in Completions /\ request[q].verdict \in Verdicts
  BY DEF Commit, AccountsInv, Shape, Completions
<1>2. u \in Users /\ account[u] \in UserRows
  BY <1>1, ItsAccount DEF Completions, AccountsInv
<1>3. account[u].link \in {"open", "expired"}
  BY DEF Commit, AccountsInv, RequestsInv
<1>4. base \in UserRows /\ base.link = account[u].link /\ base.id = account[u].id
  BY <1>1, <1>2, AutoApproveType
<1>5. account' = [account EXCEPT ![u] = new]
  BY DEF Commit
<1> HIDE DEF base
<1>6. new \in UserRows /\ new.verified /\ new.link = "used" /\ new.id = account[u].id
  BY <1>3, <1>4 DEF UserRows, Redeemed, LinkStates
<1> HIDE DEF new
<1> QED BY <1>2, <1>3, <1>5, <1>6 DEF AccountsInv, Shape

LEMMA LinkedRows ==
  ASSUME Shape, NEW u \in Users, NEW id
  PROVE  /\ DOMAIN Linked(id, u) = DOMAIN roster
         /\ Linked(id, u) \in [DOMAIN roster -> RosterRows]
         /\ \A i \in DOMAIN roster :
              roster[i].account # Nobody => Linked(id, u)[i].account = roster[i].account
<1>1. \A i \in DOMAIN roster :
        roster[i] \in RosterRows /\ [roster[i] EXCEPT !.account = u] \in RosterRows
  BY DEF Shape, RosterRows
<1> QED BY <1>1 DEF Linked

LEMMA CommitStep ==
  ASSUME AccountsInv, NEW q \in Requests, Commit(q)
  PROVE  AccountsInv'
<1> DEFINE u == request[q].user
<1>1. /\ u \in Users /\ account[u].link \in {"open", "expired"}
      /\ account' \in [Users -> UserRows]
      /\ account'[u].id = account[u].id
      /\ account'[u].link = "used" /\ account'[u].verified
      /\ \A v \in Users \ {u} : account'[v] = account[v]
  BY CommitRow
<1>2. /\ request[q] # Idle
      /\ request' = [request EXCEPT ![q] = Idle]
      /\ UNCHANGED <<listed, staff, import>>
  BY DEF Commit
<1>3. /\ request' \in [Requests -> Completions \cup {Idle}]
      /\ request'[q] = Idle /\ \A r \in Requests \ {q} : request'[r] = request[r]
  BY <1>2 DEF AccountsInv, Shape
<1>4. DOMAIN roster' = DOMAIN roster /\ roster' \in [DOMAIN roster -> RosterRows]
  <2>1. CASE roster' = Linked(account[u].id, u)
    <3>1. Shape
      BY DEF AccountsInv
    <3> QED BY <1>1, <2>1, <3>1, LinkedRows
  <2>2. CASE roster' = roster
    BY <2>2 DEF AccountsInv, Shape
  <2> QED BY <2>1, <2>2 DEF Commit
<1>5. account[u].verified = FALSE /\ account[u].id # Nobody
  BY <1>1, ItsAccount DEF AccountsInv, LinksInv, Registered, UserRows
<1> HIDE DEF u
<1>6. Shape' /\ ImportShape'
  BY <1>1, <1>2, <1>3, <1>4 DEF AccountsInv, Shape, ImportShape
<1>7. LinksInv' /\ UnseenAreConfirmed'
  BY <1>1, <1>5 DEF AccountsInv, LinksInv, UnseenAreConfirmed, Registered
<1>8. RequestsInv'
  <2>1. ASSUME NEW r \in Requests, request'[r] # Idle
        PROVE  account'[request'[r].user].link \in {"open", "expired"}
    <3>1. r # q /\ request'[r] = request[r] /\ request[r] # Idle
      BY <2>1, <1>3
    <3>2. request[r].user \in Users
      BY <3>1 DEF AccountsInv, Shape, Completions
    <3>3. request[r].user # u
      BY <3>1, <1>2 DEF AccountsInv, RequestsInv, u
    <3> QED BY <3>1, <3>2, <3>3, <1>1 DEF AccountsInv, RequestsInv
  <2> QED BY <2>1, <1>3 DEF AccountsInv, RequestsInv
<1>9. StaffInv'
  <2>1. ASSUME staff # Idle, staff.op = "list", NEW v \in staff.pending
        PROVE  account'[v].verified /\ account'[v].eligibility = "PENDING"
    <3>1. v \in Users
      BY <2>1 DEF AccountsInv, Shape, Listings, Corrections
    <3>2. account[v].verified /\ account[v].eligibility = "PENDING"
      BY <2>1 DEF AccountsInv, StaffInv
    <3> QED BY <3>1, <3>2, <1>1, <1>5
  <2> QED BY <2>1, <1>2 DEF StaffInv
<1> QED BY <1>6, <1>7, <1>8, <1>9 DEF AccountsInv

LEMMA DecideStep ==
  ASSUME AccountsInv, NEW u \in Users,
         (\E d \in Eligibilities : DecideEligibility(u, d)) \/ DeactivateAccount(u)
  PROVE  AccountsInv'
<1>1. PICK new \in UserRows :
        /\ new.link = account[u].link /\ new.id = account[u].id
        /\ new.verified = account[u].verified
        /\ new.reason \in {account[u].reason, "staff"}
        /\ account' = [account EXCEPT ![u] = new]
  <2>1. account[u] \in UserRows
    BY ItsAccount DEF AccountsInv
  <2>2. ASSUME NEW d \in Eligibilities, DecideEligibility(u, d)
        PROVE  account' = [account EXCEPT
                             ![u] = [account[u] EXCEPT !.eligibility = d, !.reason = "staff"]]
    BY <2>2 DEF DecideEligibility, AccountsInv, Shape
  <2>3. ASSUME DeactivateAccount(u)
        PROVE  account' = [account EXCEPT ![u] = [account[u] EXCEPT !.active = FALSE]]
    BY <2>3 DEF DeactivateAccount
  <2>4. \A d \in Eligibilities :
          [account[u] EXCEPT !.eligibility = d, !.reason = "staff"] \in UserRows
    BY <2>1 DEF UserRows, Reasons
  <2>5. [account[u] EXCEPT !.active = FALSE] \in UserRows
    BY <2>1 DEF UserRows
  <2> QED BY <2>1, <2>2, <2>3, <2>4, <2>5 DEF UserRows
<1>2. UNCHANGED <<roster, listed, request, staff, import>> /\ staff = Idle
  BY DEF DecideEligibility, DeactivateAccount
<1>3. /\ account' \in [Users -> UserRows] /\ account'[u] = new
      /\ \A v \in Users \ {u} : account'[v] = account[v]
  BY <1>1 DEF AccountsInv, Shape
<1>4. Shape' /\ ImportShape' /\ StaffInv'
  BY <1>2, <1>3 DEF AccountsInv, Shape, ImportShape, StaffInv
<1>5. LinksInv' /\ UnseenAreConfirmed'
  BY <1>1, <1>3 DEF AccountsInv, LinksInv, UnseenAreConfirmed, Registered
<1>6. RequestsInv'
  <2>1. ASSUME NEW q \in Requests, request[q] # Idle
        PROVE  account'[request[q].user].link \in {"open", "expired"}
    <3>1. request[q].user \in Users
      BY <2>1 DEF AccountsInv, Shape, Completions
    <3> QED BY <2>1, <3>1, <1>1, <1>3 DEF AccountsInv, RequestsInv
  <2> QED BY <2>1, <1>2 DEF AccountsInv, RequestsInv
<1> QED BY <1>4, <1>5, <1>6 DEF AccountsInv

LEMMA CorrectIdStep ==
  ASSUME AccountsInv,
         (\E u \in Users, id \in Ids : CorrectId(u, id)) \/ (\E e \in Listable : AddMember(e))
  PROVE  AccountsInv'
<1>1. UNCHANGED <<account, roster, listed, request, import>>
  BY DEF CorrectId, AddMember
<1>2. staff' \in Corrections \cup Listings \cup {Idle} /\ StaffInv'
  <2>1. ASSUME NEW u \in Users, NEW id \in Ids, CorrectId(u, id)
        PROVE  staff' \in Corrections /\ StaffInv'
    BY <2>1 DEF CorrectId, Corrections, StaffInv
  <2>2. ASSUME NEW e \in Listable, AddMember(e)
        PROVE  staff' \in Listings /\ StaffInv'
    <3>1. Pending(e) \subseteq Users
      BY DEF Pending
    <3>2. \A u \in Pending(e) : account[u].verified /\ account[u].eligibility = "PENDING"
      BY DEF Pending
    <3>3. /\ staff'.pending \subseteq Pending(e)
          /\ staff' = [op |-> "list", email |-> e, pending |-> staff'.pending]
      BY <2>2 DEF AddMember
    <3>4. staff' \in Listings
      BY <3>1, <3>3, AccountsAssumption DEF Listings
    <3> QED BY <3>2, <3>3, <3>4, <1>1 DEF StaffInv
  <2> QED BY <2>1, <2>2
<1>3. Shape'
  BY <1>1, <1>2 DEF AccountsInv, Shape
<1>4. ImportShape' /\ LinksInv' /\ RequestsInv' /\ UnseenAreConfirmed'
  BY <1>1 DEF AccountsInv, ImportShape, LinksInv, RequestsInv, UnseenAreConfirmed, Registered
<1> QED BY <1>2, <1>3, <1>4 DEF AccountsInv

LEMMA CorrectIdWriteStep ==
  ASSUME AccountsInv, CorrectIdWrite
  PROVE  AccountsInv'
<1> DEFINE u == staff.user
<1>1. u \in Users /\ staff.id \in Ids
  BY DEF CorrectIdWrite, AccountsInv, Shape, Corrections, Listings
<1>2. account[u] \in UserRows
  BY <1>1, ItsAccount DEF AccountsInv
<1>3. [account[u] EXCEPT !.id = staff.id] \in UserRows
  BY <1>1, <1>2 DEF UserRows
<1>4. /\ account' \in [Users -> UserRows]
      /\ \A v \in Users : /\ account'[v].link = account[v].link
                          /\ account'[v].verified = account[v].verified
                          /\ account'[v].eligibility = account[v].eligibility
                          /\ account'[v].reason = account[v].reason
                          /\ Registered(v) => account'[v].id # Nobody
                          /\ account'[v].id = account[v].id \/ v = u
  <2>1. CASE account' = account
    BY <2>1 DEF AccountsInv, Shape, Registered
  <2>2. CASE account' = [account EXCEPT ![u].id = staff.id]
    <3>1. account' \in [Users -> UserRows]
      BY <2>2, <1>3 DEF AccountsInv, Shape
    <3>2. \A v \in Users \ {u} : account'[v] = account[v]
      BY <2>2 DEF AccountsInv, Shape
    <3>3. account'[u] = [account[u] EXCEPT !.id = staff.id]
      BY <2>2, <1>1 DEF AccountsInv, Shape
    <3>4. /\ account'[u].link = account[u].link /\ account'[u].verified = account[u].verified
          /\ account'[u].eligibility = account[u].eligibility
          /\ account'[u].reason = account[u].reason /\ account'[u].id \in Ids
      BY <3>3, <1>1, <1>2 DEF UserRows
    <3> QED BY <3>1, <3>2, <3>4, AccountsAssumption DEF Registered
  <2> QED BY <2>1, <2>2 DEF CorrectIdWrite
<1>5. staff' = Idle /\ UNCHANGED <<roster, listed, request, import>>
  BY DEF CorrectIdWrite
<1>6. ~Registered(u) => ~account[u].verified
  BY <1>1 DEF AccountsInv, LinksInv
<1>7. Shape' /\ ImportShape' /\ StaffInv'
  BY <1>4, <1>5 DEF AccountsInv, Shape, ImportShape, StaffInv
<1>8. LinksInv' /\ UnseenAreConfirmed'
  BY <1>4 DEF AccountsInv, LinksInv, UnseenAreConfirmed, Registered
<1>9. RequestsInv'
  <2>1. ASSUME NEW q \in Requests, request[q] # Idle
        PROVE  account'[request[q].user].link \in {"open", "expired"}
    <3>1. request[q].user \in Users
      BY <2>1 DEF AccountsInv, Shape, Completions
    <3> QED BY <2>1, <3>1, <1>4 DEF AccountsInv, RequestsInv
  <2> QED BY <2>1, <1>5 DEF AccountsInv, RequestsInv
<1> QED BY <1>7, <1>8, <1>9 DEF AccountsInv

\* Those an entry admits were confirmed; the others keep their rows.
LEMMA ListedRows ==
  ASSUME AccountsInv, AddMemberCommit
  PROVE  /\ account' \in [Users -> UserRows]
         /\ \A u \in Users :
              /\ account'[u].link = account[u].link /\ account'[u].id = account[u].id
              /\ account'[u].verified = account[u].verified
              /\ \/ account'[u] = account[u]
                 \/ account[u].verified /\ account[u].eligibility = "PENDING"
<1>1. "room-list" \in Verdicts
  BY DEF Verdicts
<1>2. \A u \in Users : account[u] \in UserRows
  BY ItsAccount DEF AccountsInv
<1>3. \A u \in Users :
        /\ AutoApprove(account[u], "room-list") \in UserRows
        /\ AutoApprove(account[u], "room-list").link = account[u].link
        /\ AutoApprove(account[u], "room-list").id = account[u].id
        /\ AutoApprove(account[u], "room-list").verified = account[u].verified
  BY <1>1, <1>2, AutoApproveType
<1>4. \A u \in Users :
        \/ account'[u] = account[u]
        \/ u \in staff.pending /\ account'[u] = AutoApprove(account[u], "room-list")
  BY DEF AddMemberCommit
<1>5. \A u \in staff.pending : account[u].verified /\ account[u].eligibility = "PENDING"
  BY DEF AddMemberCommit, AccountsInv, StaffInv
<1>6. account' \in [Users -> UserRows]
  BY <1>2, <1>3 DEF AddMemberCommit
<1> QED BY <1>3, <1>4, <1>5, <1>6

LEMMA AddMemberCommitStep ==
  ASSUME AccountsInv, AddMemberCommit
  PROVE  AccountsInv'
<1>1. /\ account' \in [Users -> UserRows]
      /\ \A u \in Users :
           /\ account'[u].link = account[u].link /\ account'[u].id = account[u].id
           /\ account'[u].verified = account[u].verified
           /\ account'[u] = account[u] \/ account[u].verified
  BY ListedRows
<1>2. /\ staff' = Idle /\ UNCHANGED <<roster, request, import>>
      /\ listed' = listed \cup {staff.email} /\ staff.email \in Emails
  BY DEF AddMemberCommit, AccountsInv, Shape, Corrections, Listings
<1>3. Shape' /\ ImportShape' /\ StaffInv'
  BY <1>1, <1>2 DEF AccountsInv, Shape, ImportShape, StaffInv
<1>4. LinksInv' /\ UnseenAreConfirmed'
  BY <1>1 DEF AccountsInv, LinksInv, UnseenAreConfirmed, Registered
<1>5. RequestsInv'
  <2>1. ASSUME NEW q \in Requests, request[q] # Idle
        PROVE  account'[request[q].user].link \in {"open", "expired"}
    <3>1. request[q].user \in Users
      BY <2>1 DEF AccountsInv, Shape, Completions
    <3> QED BY <2>1, <3>1, <1>1 DEF AccountsInv, RequestsInv
  <2> QED BY <2>1, <1>2 DEF AccountsInv, RequestsInv
<1> QED BY <1>3, <1>4, <1>5 DEF AccountsInv

LEMMA RosterStep ==
  ASSUME AccountsInv, UNCHANGED <<account, request, staff>>, listed' \subseteq Emails,
         DOMAIN roster' \subseteq Ids, roster' \in [DOMAIN roster' -> RosterRows],
         ImportShape'
  PROVE  AccountsInv'
<1>1. Shape'
  BY DEF AccountsInv, Shape
<1>2. LinksInv' /\ RequestsInv' /\ StaffInv' /\ UnseenAreConfirmed'
  BY DEF AccountsInv, LinksInv, RequestsInv, StaffInv, UnseenAreConfirmed, Registered
<1> QED BY <1>1, <1>2 DEF AccountsInv

LEMMA RemoveMemberStep ==
  ASSUME AccountsInv, NEW e, RemoveMember(e)
  PROVE  AccountsInv'
<1>1. DOMAIN roster' \subseteq Ids /\ roster' \in [DOMAIN roster' -> RosterRows]
  BY DEF RemoveMember, AccountsInv, Shape
<1>2. ImportShape' /\ listed' \subseteq Emails
  BY DEF RemoveMember, AccountsInv, Shape, ImportShape
<1>3. UNCHANGED <<account, request, staff>>
  BY DEF RemoveMember
<1> QED BY <1>1, <1>2, <1>3, RosterStep

LEMMA CorrectRosterEmailStep ==
  ASSUME AccountsInv, NEW id, NEW email \in Emails, CorrectRosterEmail(id, email)
  PROVE  AccountsInv'
<1>1. id \in DOMAIN roster /\ roster' = [roster EXCEPT ![id].email = email]
  BY DEF CorrectRosterEmail
<1>2. [roster[id] EXCEPT !.email = email] \in RosterRows
  BY <1>1 DEF AccountsInv, Shape, RosterRows
<1>3. DOMAIN roster' = DOMAIN roster /\ roster' \in [DOMAIN roster -> RosterRows]
  BY <1>1, <1>2 DEF AccountsInv, Shape
<1>4. ImportShape' /\ listed' \subseteq Emails /\ UNCHANGED <<account, request, staff>>
  BY <1>3 DEF CorrectRosterEmail, AccountsInv, Shape, ImportShape
<1>5. DOMAIN roster' \subseteq Ids /\ roster' \in [DOMAIN roster' -> RosterRows]
  BY <1>3 DEF AccountsInv, Shape
<1> QED BY <1>4, <1>5, RosterStep

LEMMA ImportReadStep ==
  ASSUME AccountsInv, NEW file \in Files, NEW optIn \in BOOLEAN, ImportRead(file, optIn)
  PROVE  AccountsInv'
<1> DEFINE ids == IdsOf(file, Len(file))
           changed == {j \in ids : j \in DOMAIN roster => roster[j].email # EmailFor(file, j)}
           emails == [i \in changed |-> EmailFor(file, i)]
<1>1. file \in Seq(Entries) /\ WellFormed(file)
  BY AccountsAssumption DEF ImportRead
<1>2. \A k \in DOMAIN file :
        /\ k \in 1..Len(file) /\ file[k].id \in Ids /\ file[k].email \in Emails
  <2>1. \A k \in DOMAIN file : k \in 1..Len(file) /\ file[k] \in Entries
    BY <1>1
  <2> QED BY <2>1 DEF Entries
<1>3. \A i \in ids : i \in Ids /\ EmailFor(file, i) \in Emails
  <2>1. ASSUME NEW i \in ids PROVE i \in Ids /\ EmailFor(file, i) \in Emails
    <3>1. PICK k \in 1..Len(file) : i = file[k].id
      BY <2>1 DEF IdsOf
    <3>2. k \in DOMAIN file
      BY <3>1, <1>1
    <3>3. EmailFor(file, file[k].id) = file[k].email
      BY <3>2, <1>1, ItsEmail
    <3> HIDE DEF ids
    <3> QED BY <3>1, <3>2, <3>3, <1>2
  <2> QED BY <2>1
<1>4. /\ import'.op = "import" /\ import'.ids = ids
      /\ import'.created = ids \ DOMAIN roster /\ import'.email = emails
      /\ UNCHANGED <<account, roster, listed, request, staff>>
  BY DEF ImportRead
<1>5. DOMAIN emails = changed /\ changed \subseteq ids /\ ids \ DOMAIN roster \subseteq changed
  OBVIOUS
<1>6. \A i \in changed : emails[i] \in Emails
  <2> HIDE DEF ids
  <2> QED BY <1>3
<1>7. ImportShape'
  <2> HIDE DEF ids, changed, emails
  <2> QED BY <1>3, <1>4, <1>5, <1>6 DEF ImportShape
<1>8. /\ DOMAIN roster' \subseteq Ids /\ roster' \in [DOMAIN roster' -> RosterRows]
      /\ listed' \subseteq Emails
  BY <1>4 DEF AccountsInv, Shape
<1> HIDE DEF ids, changed, emails
<1> QED BY <1>4, <1>7, <1>8, RosterStep

\* A row an import writes is typed; one that was there keeps its account.
LEMMA WrittenRows ==
  ASSUME Shape, ImportShape, import # Idle, import.op = "import"
  PROVE  /\ DOMAIN Written = DOMAIN roster \cup import.created
         /\ DOMAIN Written \subseteq Ids
         /\ Written \in [DOMAIN Written -> RosterRows]
         /\ \A i \in DOMAIN roster : Written[i].account = roster[i].account
<1>1. DOMAIN Written = DOMAIN roster \cup import.created
  BY DEF Written
<1>2. DOMAIN Written \subseteq Ids
  BY <1>1 DEF Shape, ImportShape
<1>3. ASSUME NEW i \in DOMAIN roster \cup import.created
      PROVE  [email   |-> IF i \in DOMAIN import.email THEN import.email[i]
                          ELSE roster[i].email,
              active  |-> IF i \in import.created \cup import.revived THEN TRUE
                          ELSE roster[i].active,
              account |-> IF i \in import.created THEN Nobody ELSE roster[i].account]
             \in RosterRows
  <2>1. i \in DOMAIN roster => roster[i] \in RosterRows
    BY DEF Shape
  <2>2. i \notin DOMAIN import.email => i \in DOMAIN roster
    BY <1>3 DEF ImportShape
  <2>3. i \notin import.created => i \in DOMAIN roster
    BY <1>3
  <2>4. i \in DOMAIN import.email => import.email[i] \in Emails
    BY DEF ImportShape
  <2> QED BY <2>1, <2>2, <2>3, <2>4 DEF RosterRows
<1>4. Written \in [DOMAIN roster \cup import.created -> RosterRows]
  BY <1>3 DEF Written
<1>5. \A i \in DOMAIN roster : Written[i].account = roster[i].account
  BY DEF Written, ImportShape
<1> QED BY <1>1, <1>2, <1>4, <1>5

LEMMA ImportWriteStep ==
  ASSUME AccountsInv, ImportWrite
  PROVE  AccountsInv'
<1>1. Shape /\ ImportShape /\ import # Idle /\ import.op = "import"
  BY DEF ImportWrite, AccountsInv
<1>2. UNCHANGED <<account, listed, request, staff>>
  BY DEF ImportWrite
<1>3. DOMAIN roster' \subseteq Ids /\ roster' \in [DOMAIN roster' -> RosterRows]
  <2>1. CASE roster' = roster
    BY <2>1, <1>1 DEF Shape
  <2>2. CASE roster' = Written
    BY <2>2, <1>1, WrittenRows
  <2> QED BY <2>1, <2>2 DEF ImportWrite
<1>4. ImportShape'
  BY <1>1 DEF ImportWrite, ImportShape
<1>5. listed' \subseteq Emails
  BY <1>1, <1>2 DEF Shape
<1> QED BY <1>2, <1>3, <1>4, <1>5, RosterStep

LEMMA DeactivateMissingStep ==
  ASSUME AccountsInv, DeactivateMissing \/ ImportEnds
  PROVE  AccountsInv'
<1>1. UNCHANGED <<account, listed, request, staff>> /\ import' = Idle
  BY DEF DeactivateMissing, ImportEnds
<1>2. DOMAIN roster' = DOMAIN roster /\ roster' \in [DOMAIN roster -> RosterRows]
  <2>1. \A i \in DOMAIN roster :
          roster[i] \in RosterRows /\ [roster[i] EXCEPT !.active = FALSE] \in RosterRows
    BY DEF AccountsInv, Shape, RosterRows
  <2>2. CASE DeactivateMissing
    BY <2>1, <2>2 DEF DeactivateMissing
  <2>3. CASE ImportEnds
    BY <2>3 DEF ImportEnds, AccountsInv, Shape
  <2> QED BY <2>2, <2>3
<1>3. DOMAIN roster' \subseteq Ids /\ roster' \in [DOMAIN roster' -> RosterRows]
  BY <1>2 DEF AccountsInv, Shape
<1>4. ImportShape' /\ listed' \subseteq Emails
  BY <1>1 DEF AccountsInv, Shape, ImportShape
<1> QED BY <1>1, <1>3, <1>4, RosterStep

--------------------------------------------------------------------------------
(* The invariant is inductive.                                               *)

LEMMA RegistrationStep == AccountsInv /\ Registration => AccountsInv'
<1> SUFFICES ASSUME AccountsInv, Registration PROVE AccountsInv'
  OBVIOUS
<1>1. ASSUME NEW u \in Users, NEW who \in Typed, Register(u, who.id, who.email)
      PROVE  AccountsInv'
  <2>1. who.id \in Ids /\ who.email \in Emails
    BY AccountsAssumption DEF Entries
  <2>2. "PENDING" \in Eligibilities /\ ~Registered(u)
    BY <1>1 DEF Eligibilities, Register
  <2> QED BY <1>1, <2>1, <2>2, RegisterStep DEF Register
<1>2. ASSUME NEW u \in Users, SendVerification(u) \/ LinkExpires(u) PROVE AccountsInv'
  BY <1>2, SendVerificationStep
<1>3. ASSUME NEW q \in Requests, (\E u \in Users : Begin(q, u)) \/ Consult(q) \/ Abandon(q)
      PROVE  AccountsInv'
  BY <1>3, BeginStep
<1>4. ASSUME NEW q \in Requests, Commit(q) PROVE AccountsInv'
  BY <1>4, CommitStep
<1> QED BY <1>1, <1>2, <1>3, <1>4 DEF Registration

LEMMA DecisionsStep == AccountsInv /\ Decisions => AccountsInv'
<1> SUFFICES ASSUME AccountsInv, Decisions PROVE AccountsInv'
  OBVIOUS
<1>1. ASSUME NEW u \in Users, NEW d \in {"APPROVED", "REJECTED"}, DecideEligibility(u, d)
      PROVE  AccountsInv'
  BY <1>1, DecideStep DEF Eligibilities
<1>2. ASSUME NEW u \in Users, DeactivateAccount(u) PROVE AccountsInv'
  BY <1>2, DecideStep
<1>3. ASSUME NEW u \in Users, NEW id \in Ids, CorrectId(u, id) PROVE AccountsInv'
  BY <1>3, CorrectIdStep
<1>4. ASSUME NEW u \in Users, NEW who \in Typed, NEW student \in BOOLEAN,
             Invite(u, who.id, who.email, student)
      PROVE  AccountsInv'
  <2>1. who.id \in Ids /\ who.email \in Emails
    BY AccountsAssumption DEF Entries
  <2>2. "APPROVED" \in Eligibilities /\ ~Registered(u)
    BY <1>4 DEF Eligibilities, Invite
  <2> QED BY <1>4, <2>1, <2>2, RegisterStep DEF Invite
<1>5. ASSUME NEW e \in Listable, AddMember(e) \/ RemoveMember(e) PROVE AccountsInv'
  BY <1>5, CorrectIdStep, RemoveMemberStep
<1>6. CASE CorrectIdWrite
  BY <1>6, CorrectIdWriteStep
<1>7. CASE AddMemberCommit
  BY <1>7, AddMemberCommitStep
<1>8. ASSUME NEW id \in Ids, NEW email \in Emails, CorrectRosterEmail(id, email)
      PROVE  AccountsInv'
  BY <1>8, CorrectRosterEmailStep
<1> QED BY <1>1, <1>2, <1>3, <1>4, <1>5, <1>6, <1>7, <1>8 DEF Decisions

LEMMA ImportsStep == AccountsInv /\ Imports => AccountsInv'
BY ImportReadStep, ImportWriteStep, DeactivateMissingStep DEF Imports

LEMMA StillStep == AccountsInv /\ UNCHANGED identityVars => AccountsInv'
BY DEF identityVars, AccountsInv, Shape, ImportShape, LinksInv, RequestsInv, StaffInv,
       UnseenAreConfirmed, Registered

LEMMA Inductive == AccountsInv /\ [Next]_vars => AccountsInv'
<1> SUFFICES ASSUME AccountsInv, [Next]_vars PROVE AccountsInv'
  OBVIOUS
<1>1. \/ Registration \/ Decisions \/ Imports
      \/ UNCHANGED identityVars
  BY DEF Next, vars
<1> QED BY <1>1, RegistrationStep, DecisionsStep, ImportsStep, StillStep

LEMMA Always == Spec => []AccountsInv
<1>1. AccountsInv /\ [Next]_vars => AccountsInv'
  BY Inductive
<1> QED BY InvInit, <1>1, PTL DEF Spec

LEMMA RoomAlways == Spec => []RoomInv
<1>1. Init => RoomInv
  BY RoomInvInit DEF Init
<1>2. RoomInv /\ [Next]_vars => RoomInv'
  BY RoomInvStep, RoomSteps DEF vars, roomVars
<1> QED BY <1>1, <1>2, PTL DEF Spec

--------------------------------------------------------------------------------
(* Theorems.                                                                 *)

(***************************************************************************)
(* Every row is of its type, for any accounts, IDs, addresses and files.   *)
(***************************************************************************)
THEOREM TypeCorrect == Spec => []TypeOK
<1>1. AccountsInv /\ RoomInv => TypeOK
  <2> SUFFICES ASSUME AccountsInv, RoomInv PROVE TypeOK
    OBVIOUS
  <2>1. \E known \in SUBSET Ids : roster \in [known -> RosterRows]
    BY DEF AccountsInv, Shape
  <2>2. \A q \in Requests : request[q] = Idle \/
          request[q] \in [op : {"complete"}, user : Users, verdict : Verdicts \cup {"unread"}]
    BY DEF AccountsInv, Shape, Completions
  <2> QED BY <2>1, <2>2 DEF AccountsInv, Shape, RoomInv, TypeOK
<1> QED BY <1>1, Always, RoomAlways, PTL

(***************************************************************************)
(* However many requests follow a link at once, one of them completes the  *)
(* registration (identity.py:486-511).                                     *)
(***************************************************************************)
THEOREM ConfirmsOnce == Spec => []ConfirmedOnce
<1>1. AccountsInv => ConfirmedOnce
  BY DEF AccountsInv, LinksInv, ConfirmedOnce
<1> QED BY <1>1, Always, PTL

(***************************************************************************)
(* The roster and the access list approve confirmed addresses only.        *)
(***************************************************************************)
THEOREM UnseenConfirmed == Spec => []UnseenAreConfirmed
<1>1. AccountsInv => UnseenAreConfirmed
  BY DEF AccountsInv
<1> QED BY <1>1, Always, PTL

\* Only staff change what was decided about a confirmed account.
LEMMA DecisionStep ==
  ASSUME AccountsInv, Next, NEW u \in Users,
         account[u].verified, account[u].eligibility # "PENDING"
  PROVE  account'[u].eligibility = account[u].eligibility \/ StaffDecide
<1>1. Registered(u) /\ account \in [Users -> UserRows]
  BY DEF AccountsInv, LinksInv, Shape
<1>2. ASSUME NEW v \in Users, NEW row, account' = [account EXCEPT ![v] = row], v # u
      PROVE  account'[u].eligibility = account[u].eligibility
  BY <1>1, <1>2
<1>3. ASSUME NEW v \in Users,
             \/ \E who \in Typed : Register(v, who.id, who.email)
             \/ \E who \in Typed, s \in BOOLEAN : Invite(v, who.id, who.email, s)
      PROVE  account'[u].eligibility = account[u].eligibility
  BY <1>1, <1>2, <1>3 DEF Register, Invite
<1>4. ASSUME NEW v \in Users, SendVerification(v) \/ LinkExpires(v) \/ DeactivateAccount(v)
      PROVE  account'[u].eligibility = account[u].eligibility
  <2>1. account[u] \in UserRows
    BY ItsAccount DEF AccountsInv
  <2>2. \/ \E state : account' = [account EXCEPT ![v].link = state]
        \/ account' = [account EXCEPT ![v].active = FALSE]
    BY <1>4 DEF SendVerification, LinkExpires, DeactivateAccount
  <2> QED BY <1>1, <2>1, <2>2 DEF UserRows
<1>5. ASSUME NEW q \in Requests, Commit(q)
      PROVE  account'[u].eligibility = account[u].eligibility
  <2>1. /\ account[request[q].user].link \in {"open", "expired"}
        /\ request[q].user \in Users
        /\ \A v \in Users \ {request[q].user} : account'[v] = account[v]
    BY <1>5, CommitRow
  <2>2. request[q].user # u
    BY <2>1 DEF AccountsInv, LinksInv
  <2> QED BY <2>1, <2>2
<1>6. ASSUME CorrectIdWrite
      PROVE  account'[u].eligibility = account[u].eligibility
  <2>1. account[u] \in UserRows
    BY ItsAccount DEF AccountsInv
  <2>2. account' = account \/ account' = [account EXCEPT ![staff.user].id = staff.id]
    BY <1>6 DEF CorrectIdWrite
  <2> QED BY <1>1, <2>1, <2>2 DEF UserRows
<1>7. ASSUME AddMemberCommit
      PROVE  account'[u].eligibility = account[u].eligibility
  BY <1>7, ListedRows
<1>8. ASSUME NEW v \in Users, NEW d \in {"APPROVED", "REJECTED"}, DecideEligibility(v, d)
      PROVE  StaffDecide
  BY <1>8 DEF StaffDecide, Eligibilities
<1>9. ASSUME UNCHANGED account
      PROVE  account'[u].eligibility = account[u].eligibility
  BY <1>9
<1>10. ASSUME Registration
       PROVE  account'[u].eligibility = account[u].eligibility
  BY <1>3, <1>4, <1>5, <1>9, <1>10 DEF Registration, Begin, Consult, Abandon
<1>11. ASSUME Decisions
       PROVE  account'[u].eligibility = account[u].eligibility \/ StaffDecide
  BY <1>3, <1>4, <1>6, <1>7, <1>8, <1>9, <1>11
     DEF Decisions, CorrectId, AddMember, RemoveMember, CorrectRosterEmail
<1>12. ASSUME Imports PROVE UNCHANGED account
  BY <1>12 DEF Imports, ImportRead, ImportWrite, DeactivateMissing, ImportEnds
<1> QED BY <1>9, <1>10, <1>11, <1>12 DEF Next, identityVars

(***************************************************************************)
(* What staff decided about a confirmed account stands until they decide   *)
(* again.                                                                  *)
(***************************************************************************)
THEOREM DecisionsHold == Spec => DecisionsStand
<1>1. AccountsInv /\ [Next]_vars =>
        [\A u \in Users :
           account[u].verified /\ account[u].eligibility # "PENDING"
             => account'[u].eligibility = account[u].eligibility \/ StaffDecide]_vars
  BY DecisionStep
<1> QED BY <1>1, Always, PTL DEF Spec, DecisionsStand

\* A step keeps every row, and the account a row is linked to.
LEMMA LinkedStep ==
  ASSUME AccountsInv, Next, NEW i \in DOMAIN roster
  PROVE  /\ i \in DOMAIN roster'
         /\ roster[i].account # Nobody => roster'[i].account = roster[i].account
<1>0. Shape /\ roster[i] \in RosterRows
  BY DEF AccountsInv, Shape
<1>1. ASSUME UNCHANGED roster
      PROVE  i \in DOMAIN roster' /\ roster'[i].account = roster[i].account
  BY <1>1
<1>2. ASSUME NEW q \in Requests, Commit(q)
      PROVE  /\ i \in DOMAIN roster'
             /\ roster[i].account # Nobody => roster'[i].account = roster[i].account
  <2>1. request[q].user \in Users
    BY <1>2, CommitRow
  <2>2. \/ UNCHANGED roster
        \/ roster' = Linked(account[request[q].user].id, request[q].user)
    BY <1>2 DEF Commit
  <2> QED BY <1>0, <1>1, <2>1, <2>2, LinkedRows
<1>3. ASSUME NEW id, NEW email, CorrectRosterEmail(id, email)
      PROVE  i \in DOMAIN roster' /\ roster'[i].account = roster[i].account
  BY <1>0, <1>3 DEF CorrectRosterEmail, RosterRows, Shape
<1>4. ASSUME ImportWrite
      PROVE  i \in DOMAIN roster' /\ roster'[i].account = roster[i].account
  <2>1. ImportShape /\ import # Idle /\ import.op = "import"
    BY <1>4 DEF AccountsInv, ImportWrite
  <2>2. UNCHANGED roster \/ roster' = Written
    BY <1>4 DEF ImportWrite
  <2> QED BY <1>0, <1>1, <2>1, <2>2, WrittenRows
<1>5. ASSUME DeactivateMissing
      PROVE  i \in DOMAIN roster' /\ roster'[i].account = roster[i].account
  BY <1>0, <1>5 DEF DeactivateMissing, RosterRows
<1>6. \/ UNCHANGED roster
      \/ \E q \in Requests : Commit(q)
      \/ \E id \in Ids, email \in Emails : CorrectRosterEmail(id, email)
      \/ ImportWrite \/ DeactivateMissing
  <2>1. Registration => UNCHANGED roster \/ \E q \in Requests : Commit(q)
    BY DEF Registration, Register, SendVerification, LinkExpires, Begin, Consult, Abandon
  <2>2. Decisions => \/ UNCHANGED roster
                     \/ \E id \in Ids, email \in Emails : CorrectRosterEmail(id, email)
    BY DEF Decisions, DecideEligibility, DeactivateAccount, CorrectId, Invite, CorrectIdWrite,
           AddMember, RemoveMember, AddMemberCommit
  <2>3. Imports => UNCHANGED roster \/ ImportWrite \/ DeactivateMissing
    BY DEF Imports, ImportRead, ImportEnds
  <2> QED BY <2>1, <2>2, <2>3 DEF Next, identityVars
<1> QED BY <1>1, <1>2, <1>3, <1>4, <1>5, <1>6

(***************************************************************************)
(* A row of the roster is never taken from the account linked to it, and   *)
(* never disappears (roster.py:258-305, identity.py:335-338).              *)
(***************************************************************************)
THEOREM RowsLinked == Spec => RowsStayLinked
<1>1. AccountsInv /\ [Next]_vars =>
        [\A i \in DOMAIN roster :
           /\ i \in DOMAIN roster'
           /\ roster[i].account # Nobody => roster'[i].account = roster[i].account]_vars
  BY LinkedStep
<1> QED BY <1>1, Always, PTL DEF Spec, RowsStayLinked

(***************************************************************************)
(* For any settings and values of a profile: no deployment undoes what     *)
(* staff decided about the room before it (rooms.py:122-150, 201-236).     *)
(***************************************************************************)
THEOREM StaffStand == Spec => StaffWordStands
<1>1. RoomInv /\ [Next]_vars =>
        [SeedWrite /\ ~seed.overtaken =>
           /\ room.outByStaff => ~room'.active
           /\ room.profiled => room'.capacity = room.capacity]_roomVars
  BY SeedStep
<1> QED BY <1>1, RoomAlways, PTL DEF Spec, StaffWordStands

(***************************************************************************)
(* A dry run forecasts the import, whatever the roster has become          *)
(* (roster.py:193-212).                                                    *)
(***************************************************************************)
THEOREM ForecastTrue == Spec => []ForecastHolds
<1>1. ForecastHolds
  BY DryRunAgrees, AccountsAssumption DEF ForecastHolds
<1> QED BY <1>1, PTL

(***************************************************************************)
(* A file imported a second time changes nothing (roster.py:3).            *)
(***************************************************************************)
THEOREM ImportIdempotent == Spec => []ImportsIdempotent
<1>1. ASSUME NEW file \in Uploads, NEW optIn \in BOOLEAN, WellFormed(file),
             Accepted(roster, file, optIn)
      PROVE  LET after == Applied(roster, file, Len(file))
             IN  Accepted(after, file, FALSE) /\ Applied(after, file, Len(file)) = after
  <2>1. file \in Seq(Entries)
    BY AccountsAssumption
  <2> QED BY <1>1, <2>1, SecondImportIdle
<1>2. ImportsIdempotent
  BY <1>1 DEF ImportsIdempotent
<1> QED BY <1>2, PTL
================================================================================
