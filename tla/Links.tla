-------------------------------- MODULE Links --------------------------------
(***************************************************************************)
(* The single-use links that set the password of one account: activation   *)
(* links (staff invite, the owner hands one over) and reset links          *)
(* (core/services/identity.py).  Issuing a link supersedes the earlier     *)
(* ones of its purpose; redeeming it sets the password.  None of this is   *)
(* under the control lock: what holds it together are row locks and a      *)
(* unique constraint on (user, purpose, generation).                       *)
(***************************************************************************)
EXTENDS Integers, Sequences

CONSTANTS
  Processes,  \* BOUND: the requests served at the same time
  MaxLinks    \* BOUND: links issued for a purpose

ASSUME LinksAssumption == MaxLinks \in Nat \ {0}

VARIABLES
  links,    \* for each purpose its Invitation rows, by generation
  process   \* what each request has read and locked

vars == <<links, process>>

Purposes == {"activation", "reset"}

Invitations == [revoked : BOOLEAN, expired : BOOLEAN, uses : Nat]

NewLink == [revoked |-> FALSE, expired |-> FALSE, uses |-> 0]

Idle == [op |-> "idle"]

\* A request that issues a link knows the newest generation it saw (0: none),
\* one that redeems a link the generation it was given.
Calls == [op : {"issue", "redeem"}, purpose : Purposes, gen : 0..MaxLinks,
          locked : {"nothing", "row", "account"}]

Call(op, purpose, gen) ==
  [op |-> op, purpose |-> purpose, gen |-> gen, locked |-> "nothing"]

--------------------------------------------------------------------------------

Live(link) == ~link.revoked /\ ~link.expired /\ link.uses = 0

Current(purpose, gen) == gen = Len(links[purpose])

Redeemable(purpose, gen) ==
  /\ gen \in DOMAIN links[purpose]
  /\ Current(purpose, gen)
  /\ Live(links[purpose][gen])

\* The rows p has locked: a link's row first, then the account's.
Locked(p) ==
  IF process[p] # Idle /\ process[p].locked # "nothing"
    THEN {<<process[p].purpose, process[p].gen>>} ELSE {}

RowFree(p, purpose, gen) == \A q \in Processes \ {p} : <<purpose, gen>> \notin Locked(q)

AccountFree(p) ==
  \A q \in Processes \ {p} : process[q] # Idle => process[q].locked # "account"

Lock(p, what) == process' = [process EXCEPT ![p].locked = what]

At(p, op, locked) ==
  process[p] # Idle /\ process[p].op = op /\ process[p].locked = locked

End(p) == process' = [process EXCEPT ![p] = Idle]

--------------------------------------------------------------------------------
(* create_invitation.                                                        *)

\* SELECT ... FOR UPDATE: what it sees is older than what it waits for.
Newest(p, purpose) ==
  /\ process[p] = Idle
  /\ Len(links[purpose]) < MaxLinks
  /\ process' = [process EXCEPT ![p] = Call("issue", purpose, Len(links[purpose]))]
  /\ UNCHANGED links

StartPasswordReset(p) == Newest(p, "reset")
InviteAccount(p) == Newest(p, "activation")
IssuePasswordLink(p) == Newest(p, "activation")

LockNewest(p) ==
  /\ At(p, "issue", "nothing")
  /\ RowFree(p, process[p].purpose, process[p].gen)
  /\ Lock(p, "row")
  /\ UNCHANGED links

\* Mistake: the earlier links stay as they are.
AppendedOnly(purpose) == Append(links[purpose], NewLink)

\* The links nobody used are revoked, and a new generation is inserted.
Superseded(purpose) ==
  Append([g \in DOMAIN links[purpose] |->
            IF links[purpose][g].uses = 0 THEN [links[purpose][g] EXCEPT !.revoked = TRUE]
            ELSE links[purpose][g]],
         NewLink)

\* The new row refers to the account's, which must be free.
Insert(p) ==
  LET purpose == process[p].purpose
  IN  /\ At(p, "issue", "row")
      /\ Current(purpose, process[p].gen) /\ AccountFree(p)
      /\ links' = [links EXCEPT ![purpose] = Superseded(purpose)]
      /\ End(p)

\* Mistake: the generation that is taken is tried again.
TakenAgain(p) ==
  /\ At(p, "issue", "row")
  /\ ~Current(process[p].purpose, process[p].gen)
  /\ UNCHANGED vars

\* Another request inserted that generation meanwhile: once the links it would
\* revoke are free, the unique constraint rolls everything back.
Taken(p) ==
  LET purpose == process[p].purpose
  IN  /\ At(p, "issue", "row")
      /\ ~Current(purpose, process[p].gen)
      /\ \A g \in DOMAIN links[purpose] :
           Live(links[purpose][g]) => RowFree(p, purpose, g)
      /\ End(p)
      /\ UNCHANGED links

--------------------------------------------------------------------------------
(* set_initial_password.                                                     *)

\* The view checks the link before it asks for any lock.
Follow(p, purpose, gen) ==
  /\ process[p] = Idle
  /\ Redeemable(purpose, gen)
  /\ process' = [process EXCEPT ![p] = Call("redeem", purpose, gen)]
  /\ UNCHANGED links

LockLink(p) ==
  /\ At(p, "redeem", "nothing")
  /\ RowFree(p, process[p].purpose, process[p].gen)
  /\ Lock(p, "row")
  /\ UNCHANGED links

\* Mistake: the check of the view is trusted.
RecheckTrusting(p) ==
  /\ At(p, "redeem", "row")
  /\ AccountFree(p)
  /\ Lock(p, "account")
  /\ UNCHANGED links

\* The service checks the link again once both rows are locked.
Recheck(p) ==
  /\ At(p, "redeem", "row")
  /\ AccountFree(p)
  /\ IF Redeemable(process[p].purpose, process[p].gen) THEN Lock(p, "account") ELSE End(p)
  /\ UNCHANGED links

SetPassword(p) ==
  /\ At(p, "redeem", "account")
  /\ links' = [links EXCEPT ![process[p].purpose][process[p].gen].uses = @ + 1]
  /\ End(p)

--------------------------------------------------------------------------------

\* The process dies, or the password is refused: the transaction is rolled back.
Fail(p) ==
  /\ process[p] # Idle
  /\ End(p)
  /\ UNCHANGED links

Expire(purpose, gen) ==
  /\ gen \in DOMAIN links[purpose] /\ Live(links[purpose][gen])
  /\ links' = [links EXCEPT ![purpose][gen].expired = TRUE]
  /\ UNCHANGED process

Init ==
  /\ links = [purpose \in Purposes |-> << >>]
  /\ process = [p \in Processes |-> Idle]

Progress(p) ==
  LockNewest(p) \/ Insert(p) \/ Taken(p) \/ LockLink(p) \/ Recheck(p) \/ SetPassword(p)

Next ==
  \/ \E p \in Processes :
       \/ StartPasswordReset(p) \/ InviteAccount(p) \/ IssuePasswordLink(p)
       \/ \E purpose \in Purposes, gen \in 1..MaxLinks : Follow(p, purpose, gen)
       \/ LockNewest(p) \/ Insert(p) \/ Taken(p)
       \/ LockLink(p) \/ Recheck(p) \/ SetPassword(p)
       \/ Fail(p)
  \/ \E purpose \in Purposes, gen \in 1..MaxLinks : Expire(purpose, gen)

Spec == Init /\ [][Next]_vars

(***************************************************************************)
(* A request that is served goes on when it can, and waiters for a row get *)
(* it in the order they asked (PostgreSQL queues them).                    *)
(***************************************************************************)
FairSpec == Spec /\ \A p \in Processes : SF_vars(Progress(p))

--------------------------------------------------------------------------------

TypeOK ==
  /\ links \in [Purposes -> Seq(Invitations)]
  /\ \A purpose \in Purposes : Len(links[purpose]) <= MaxLinks
  /\ process \in [Processes -> Calls \cup {Idle}]

(***************************************************************************)
(* Two requests that follow one link at the same moment set one password   *)
(* (the docstring of set_initial_password, identity.py:462-467).           *)
(***************************************************************************)
RedeemedOnce ==
  \A purpose \in Purposes : \A g \in DOMAIN links[purpose] : links[purpose][g].uses <= 1

(***************************************************************************)
(* Sending a link again takes the earlier one back: of a purpose, at most  *)
(* one link is open, however many were asked for at once                   *)
(* (identity.py:106-126).                                                  *)
(***************************************************************************)
OneLiveLink ==
  \A purpose \in Purposes : \A g, h \in DOMAIN links[purpose] :
    Live(links[purpose][g]) /\ Live(links[purpose][h]) => g = h

(***************************************************************************)
(* A superseded link sets no password, not even one that was found good    *)
(* before the newer one was issued (identity.py:150-174).                  *)
(***************************************************************************)
OnlyNewestRedeemed ==
  [][\A purpose \in Purposes : \A g \in DOMAIN links[purpose] :
       links'[purpose][g].uses > links[purpose][g].uses => Current(purpose, g)]_vars

(***************************************************************************)
(* Every request ends: no two wait for each other's rows (the lock order   *)
(* of identity.py:115-131 and 468-483).                                    *)
(***************************************************************************)
EveryCallEnds == \A p \in Processes : process[p] # Idle ~> process[p] = Idle
================================================================================
