------------------------------- MODULE Accounts -------------------------------
(***************************************************************************)
(* Who may sign in and who is approved: registration, links, the roster    *)
(* and the access list (core/services/identity.py, roster.py,              *)
(* room_access.py, rooms.py).                                              *)
(*                                                                         *)
(* Staff decisions run one at a time, under the control lock.  Completing  *)
(* a registration locks the account's row only, and a roster import or a   *)
(* seed locks neither: these three are taken apart into what they read and *)
(* what they write, under READ COMMITTED.  Everything else is one step.    *)
(* The access list is that of the room of RoomSeed.                        *)
(***************************************************************************)
EXTENDS Roster, RoomSeed, FiniteSets

CONSTANTS
  Users,          \* the accounts, once created
  Institutional,  \* the addresses of the institution's domain
  Requests,       \* BOUND: registrations completed at the same time
  Files,          \* BOUND: the files that may be imported
  Uploads,        \* the files the properties of an import range over
  Typed,          \* BOUND: the IDs and addresses typed at registration
  Listable        \* BOUND: the addresses staff may put on the list

ASSUME AccountsAssumption ==
  /\ Institutional \subseteq Emails /\ Listable \subseteq Emails
  /\ Typed \subseteq Entries /\ Files \subseteq Seq(Entries) /\ Uploads \subseteq Seq(Entries)
  /\ Nobody \notin Users \cup Ids \cup Emails

VARIABLES
  account,   \* the User row of each account, with its verification link
  roster,    \* the rows, by institutional ID
  listed,    \* the addresses on the room's access list
  request,   \* the completions of a registration in progress
  staff,     \* the operation that holds the control lock, or Idle
  import     \* the import in progress, or Idle

identityVars == <<account, roster, listed, request, staff, import>>
vars == <<identityVars, roomVars>>

(***************************************************************************)
(* The one verification link an account is sent; Links has the others.     *)
(***************************************************************************)
LinkStates == {"none", "open", "expired", "used", "used twice"}

Eligibilities == {"PENDING", "APPROVED", "REJECTED"}
Reasons == {"none", "roster", "room-list", "staff"}

UserRows ==
  [id : Ids \cup {Nobody}, email : Emails \cup {Nobody}, student : BOOLEAN,
   active : BOOLEAN, verified : BOOLEAN, eligibility : Eligibilities,
   reason : Reasons, link : LinkStates]

NewUser(id, email, student, verified, eligibility) ==
  [id |-> id, email |-> email, student |-> student, active |-> TRUE,
   verified |-> verified, eligibility |-> eligibility, reason |-> "none",
   link |-> "none"]

NoUser == NewUser(Nobody, Nobody, TRUE, FALSE, "PENDING")

Registered(u) == account[u].id # Nobody

RosterRows == [email : Emails, active : BOOLEAN, account : Users \cup {Nobody}]

Verdicts == {"none", "roster", "room-list"}

--------------------------------------------------------------------------------
(* What the roster and the access list say.                                  *)

Matched(id, email) ==
  id \in DOMAIN roster /\ roster[id].active /\ roster[id].email = email

RosterClaimsId(id) == id \in DOMAIN roster /\ roster[id].active

RoomListVouchesFor(email) == room.active /\ room.members /\ email \in listed

RegistrationAllowed(id, email) ==
  \/ email \in Institutional
  \/ Matched(id, email)
  \/ RoomListVouchesFor(email) /\ ~RosterClaimsId(id)

Verdict(u) ==
  LET a == account[u]
  IN  IF Matched(a.id, a.email) THEN "roster"
      ELSE IF /\ a.eligibility = "PENDING"
              /\ RoomListVouchesFor(a.email) /\ ~RosterClaimsId(a.id) THEN "room-list"
      ELSE "none"

AutoApprove(a, verdict) ==
  IF verdict = "none" THEN a
  ELSE [a EXCEPT !.eligibility = "APPROVED", !.reason = verdict]

\* No transaction holds the account's row.
RowFree(u) == \A q \in Requests : request[q] # Idle => request[q].user # u

IdFree(id) == \A v \in Users : account[v].id # id
EmailFree(email) == \A v \in Users : account[v].email # email

--------------------------------------------------------------------------------
(* Registration and links.                                                   *)

\* start_registration, the first of its three transactions.
Register(u, id, email) ==
  /\ ~Registered(u)
  /\ IdFree(id) /\ EmailFree(email)
  /\ RegistrationAllowed(id, email)
  /\ account' = [account EXCEPT ![u] = NewUser(id, email, TRUE, FALSE, "PENDING")]
  /\ UNCHANGED <<roster, listed, request, staff, import>>

\* The other two: the link and its mail, unless the process died.
SendVerification(u) ==
  /\ Registered(u) /\ ~account[u].verified
  /\ account[u].link = "none"
  /\ account' = [account EXCEPT ![u].link = "open"]
  /\ UNCHANGED <<roster, listed, request, staff, import>>

\* An invited account is approved, its address confirmed by whoever invites.
Invite(u, id, email, student) ==
  /\ staff = Idle
  /\ ~Registered(u)
  /\ IdFree(id) /\ EmailFree(email)
  /\ account' = [account EXCEPT ![u] = NewUser(id, email, student, TRUE, "APPROVED")]
  /\ UNCHANGED <<roster, listed, request, staff, import>>

LinkExpires(u) ==
  /\ account[u].link = "open"
  /\ account' = [account EXCEPT ![u].link = "expired"]
  /\ UNCHANGED <<roster, listed, request, staff, import>>

--------------------------------------------------------------------------------
(* complete_registration: the rows are locked, the roster and the list are   *)
(* read, and the account is written.                                         *)

\* Mistake: the row is read without a lock.
BeginUnlocked(q, u) ==
  /\ request[q] = Idle
  /\ account[u].link = "open"
  /\ request' = [request EXCEPT ![q] = [op |-> "complete", user |-> u, verdict |-> "unread"]]
  /\ UNCHANGED <<account, roster, listed, staff, import>>

Begin(q, u) ==
  /\ request[q] = Idle
  /\ RowFree(u)
  /\ account[u].link = "open"
  /\ request' = [request EXCEPT ![q] = [op |-> "complete", user |-> u, verdict |-> "unread"]]
  /\ UNCHANGED <<account, roster, listed, staff, import>>

Consult(q) ==
  /\ request[q] # Idle /\ request[q].verdict = "unread"
  /\ request' = [request EXCEPT ![q].verdict = Verdict(request[q].user)]
  /\ UNCHANGED <<account, roster, listed, staff, import>>

Redeemed(state) == IF state = "used" THEN "used twice" ELSE "used"

\* A row that has no account yet is linked; nothing else of it is written.
Linked(id, u) ==
  [i \in DOMAIN roster |->
     IF i = id /\ roster[i].account = Nobody THEN [roster[i] EXCEPT !.account = u]
     ELSE roster[i]]

Commit(q) ==
  LET u == request[q].user
      verdict == request[q].verdict
      decided == AutoApprove(account[u], verdict)
  IN  /\ request[q] # Idle /\ verdict # "unread"
      /\ account' = [account EXCEPT
           ![u] = [decided EXCEPT !.verified = TRUE, !.link = Redeemed(account[u].link)]]
      /\ roster' = IF verdict = "roster" THEN Linked(account[u].id, u) ELSE roster
      /\ request' = [request EXCEPT ![q] = Idle]
      /\ UNCHANGED <<listed, staff, import>>

\* The transaction is rolled back.
Abandon(q) ==
  /\ request[q] # Idle
  /\ request' = [request EXCEPT ![q] = Idle]
  /\ UNCHANGED <<account, roster, listed, staff, import>>

--------------------------------------------------------------------------------
(* Staff operations, under the control lock.                                 *)

DecideEligibility(u, decision) ==
  /\ staff = Idle
  /\ Registered(u) /\ RowFree(u)
  /\ account' = [account EXCEPT ![u].eligibility = decision, ![u].reason = "staff"]
  /\ UNCHANGED <<roster, listed, request, staff, import>>

DeactivateAccount(u) ==
  /\ staff = Idle
  /\ Registered(u) /\ RowFree(u)
  /\ account' = [account EXCEPT ![u].active = FALSE]
  /\ UNCHANGED <<roster, listed, request, staff, import>>

Correctable(u, id) ==
  /\ account[u].student
  /\ \A i \in DOMAIN roster : roster[i].account # u
  /\ ~(RosterClaimsId(id) /\ roster[id].email # account[u].email)
  /\ IdFree(id)

\* correct_institutional_id checks first and then waits for the account's row.
CorrectId(u, id) ==
  /\ staff = Idle
  /\ Registered(u) /\ Correctable(u, id)
  /\ staff' = [op |-> "correct", user |-> u, id |-> id]
  /\ UNCHANGED <<account, roster, listed, request, import>>

\* The ID may have been taken meanwhile: the unique constraint refuses it.
CorrectIdWrite ==
  /\ staff # Idle /\ staff.op = "correct"
  /\ RowFree(staff.user)
  /\ account' = IF IdFree(staff.id) THEN [account EXCEPT ![staff.user].id = staff.id]
                ELSE account
  /\ staff' = Idle
  /\ UNCHANGED <<roster, listed, request, import>>

\* Mistake: an address nobody confirmed is enough.
PendingUnconfirmed(email) ==
  {u \in Users : Registered(u) /\ account[u].email = email /\ account[u].active
                 /\ account[u].eligibility = "PENDING"}

\* Mistake: those staff turned down are taken in with the others.
PendingOrRejected(email) ==
  {u \in Users : /\ Registered(u) /\ account[u].email = email /\ account[u].active
                 /\ account[u].verified /\ account[u].eligibility # "APPROVED"}

Pending(email) ==
  {u \in Users : /\ Registered(u) /\ account[u].email = email /\ account[u].active
                 /\ account[u].verified /\ account[u].eligibility = "PENDING"}

\* add_members inserts the entry and looks for accounts that wait for it...
AddMember(email) ==
  /\ staff = Idle
  /\ room.members /\ email \notin listed
  /\ staff' = [op |-> "list", email |-> email,
               pending |-> IF room.active THEN Pending(email) ELSE {}]
  /\ UNCHANGED <<account, roster, listed, request, import>>

\* ...and others see the entry when both are committed.
AddMemberCommit ==
  /\ staff # Idle /\ staff.op = "list"
  /\ \A u \in staff.pending : RowFree(u)
  /\ listed' = listed \cup {staff.email}
  /\ account' = [u \in Users |->
       IF u \in staff.pending /\ room.active /\ room.members
            /\ ~RosterClaimsId(account[u].id)
         THEN AutoApprove(account[u], "room-list") ELSE account[u]]
  /\ staff' = Idle
  /\ UNCHANGED <<roster, request, import>>

RemoveMember(email) ==
  /\ staff = Idle
  /\ email \in listed
  /\ listed' = listed \ {email}
  /\ UNCHANGED <<account, roster, request, staff, import>>

CorrectRosterEmail(id, email) ==
  /\ staff = Idle
  /\ id \in DOMAIN roster
  /\ \A i \in DOMAIN roster \ {id} : roster[i].email # email
  /\ roster' = [roster EXCEPT ![id].email = email]
  /\ UNCHANGED <<account, listed, request, staff, import>>

--------------------------------------------------------------------------------
(* Imports, under no lock: what the file asks for is found out row by row,   *)
(* and only the columns that differ are written.                             *)

ImportRead(file, optIn) ==
  /\ import = Idle
  /\ WellFormed(file) /\ Accepted(roster, file, optIn)
  /\ import' =
       [op |-> "import",
        ids |-> IdsOf(file, Len(file)),
        created |-> IdsOf(file, Len(file)) \ DOMAIN roster,
        revived |-> {i \in IdsOf(file, Len(file)) \cap DOMAIN roster : ~roster[i].active},
        email |-> [i \in {j \in IdsOf(file, Len(file)) :
                            j \in DOMAIN roster => roster[j].email # EmailFor(file, j)} |->
                     EmailFor(file, i)]]
  /\ UNCHANGED <<account, roster, listed, request, staff>>

\* Mistake: the rows the file names are saved whole, as they were read.
WrittenWhole ==
  [i \in DOMAIN roster \cup import.created |->
     [email   |-> IF i \in DOMAIN import.email THEN import.email[i] ELSE roster[i].email,
      active  |-> i \in import.ids \/ roster[i].active,
      account |-> IF i \in import.ids THEN Nobody ELSE roster[i].account]]

Written ==
  [i \in DOMAIN roster \cup import.created |->
     [email   |-> IF i \in DOMAIN import.email THEN import.email[i] ELSE roster[i].email,
      active  |-> IF i \in import.created \cup import.revived THEN TRUE
                  ELSE roster[i].active,
      account |-> IF i \in import.created THEN Nobody ELSE roster[i].account]]

\* All or nothing: an address taken meanwhile breaks a unique constraint.
ImportWrite ==
  /\ import # Idle /\ import.op = "import"
  /\ IF \A i, j \in DOMAIN Written : Written[i].email = Written[j].email => i = j
       THEN /\ roster' = Written
            /\ import' = [op |-> "imported", ids |-> import.ids]
       ELSE /\ import' = Idle
            /\ UNCHANGED roster
  /\ UNCHANGED <<account, listed, request, staff>>

\* The command asked for a full refresh may retire what the file leaves out.
DeactivateMissing ==
  /\ import # Idle /\ import.op = "imported"
  /\ roster' = [i \in DOMAIN roster |->
       IF i \in import.ids THEN roster[i] ELSE [roster[i] EXCEPT !.active = FALSE]]
  /\ import' = Idle
  /\ UNCHANGED <<account, listed, request, staff>>

ImportEnds ==
  /\ import # Idle
  /\ import' = Idle
  /\ UNCHANGED <<account, roster, listed, request, staff>>

--------------------------------------------------------------------------------

Init ==
  /\ RoomInit
  /\ account = [u \in Users |-> NoUser]
  /\ roster \in [{} -> RosterRows]   \* empty
  /\ listed = {}
  /\ request = [q \in Requests |-> Idle]
  /\ staff = Idle
  /\ import = Idle

Registration ==
  \/ \E u \in Users :
       \/ \E who \in Typed : Register(u, who.id, who.email)
       \/ SendVerification(u)
       \/ LinkExpires(u)
  \/ \E q \in Requests :
       \/ \E u \in Users : Begin(q, u)
       \/ Consult(q) \/ Commit(q) \/ Abandon(q)

Decisions ==
  \/ \E u \in Users :
       \/ \E d \in {"APPROVED", "REJECTED"} : DecideEligibility(u, d)
       \/ DeactivateAccount(u)
       \/ \E id \in Ids : CorrectId(u, id)
       \/ \E who \in Typed, student \in BOOLEAN : Invite(u, who.id, who.email, student)
  \/ CorrectIdWrite
  \/ \E e \in Listable : AddMember(e) \/ RemoveMember(e)
  \/ AddMemberCommit
  \/ \E id \in Ids, email \in Emails : CorrectRosterEmail(id, email)

Imports ==
  \/ \E file \in Files, optIn \in BOOLEAN : ImportRead(file, optIn)
  \/ ImportWrite
  \/ DeactivateMissing
  \/ ImportEnds

Next ==
  \/ (Registration \/ Decisions \/ Imports) /\ UNCHANGED roomVars
  \/ Deployment /\ UNCHANGED identityVars
  \/ staff = Idle /\ Administration /\ UNCHANGED identityVars

Spec == Init /\ [][Next]_vars

--------------------------------------------------------------------------------

TypeOK ==
  /\ RoomTypeOK
  /\ account \in [Users -> UserRows]
  /\ \E known \in SUBSET Ids : roster \in [known -> RosterRows]
  /\ listed \subseteq Emails
  /\ \A q \in Requests : request[q] = Idle \/
       request[q] \in [op : {"complete"}, user : Users, verdict : Verdicts \cup {"unread"}]

(***************************************************************************)
(* A verification link completes a registration once, however many times   *)
(* it is followed at the same moment (identity.py:486-511).                *)
(***************************************************************************)
ConfirmedOnce == \A u \in Users : account[u].link # "used twice"

(***************************************************************************)
(* Nobody is approved without a person looking unless the address was      *)
(* confirmed by its link first (identity.py:319-370).                      *)
(***************************************************************************)
UnseenAreConfirmed ==
  \A u \in Users : account[u].reason \in {"roster", "room-list"} => account[u].verified

(***************************************************************************)
(* What staff decided about a confirmed account stands until staff decide  *)
(* again: no list, import or late request overrides it.                    *)
(***************************************************************************)
StaffDecide == \E u \in Users, d \in Eligibilities : DecideEligibility(u, d)

DecisionsStand ==
  [][\A u \in Users :
       account[u].verified /\ account[u].eligibility # "PENDING"
         => account'[u].eligibility = account[u].eligibility \/ StaffDecide]_vars

(***************************************************************************)
(* A roster row is never taken from the account linked to it, and never    *)
(* disappears: no import, correction or completion writes back an old copy *)
(* of it (roster.py:258-305, identity.py:335-338).                         *)
(***************************************************************************)
RowsStayLinked ==
  [][\A i \in DOMAIN roster :
       /\ i \in DOMAIN roster'
       /\ roster[i].account # Nobody => roster'[i].account = roster[i].account]_vars

(***************************************************************************)
(* A dry run answers as the import would: it never promises what is then   *)
(* refused and, unless addresses may be rewritten, never refuses what      *)
(* would be accepted (roster.py:193-212).                                  *)
(***************************************************************************)
ForecastHolds ==
  \A file \in Uploads : WellFormed(file) =>
    /\ Forecast(roster, file, FALSE) <=> Accepted(roster, file, FALSE)
    /\ Forecast(roster, file, TRUE) => Accepted(roster, file, TRUE)

(***************************************************************************)
(* Importing a file that was accepted again is accepted and changes        *)
(* nothing (roster.py:3).                                                  *)
(***************************************************************************)
ImportsIdempotent ==
  \A file \in Uploads, optIn \in BOOLEAN :
    WellFormed(file) /\ Accepted(roster, file, optIn) =>
      LET after == Applied(roster, file, Len(file))
      IN  Accepted(after, file, FALSE) /\ Applied(after, file, Len(file)) = after

================================================================================
