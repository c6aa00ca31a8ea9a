----------------------------- MODULE Links_proofs -----------------------------
(***************************************************************************)
(* Proofs about Links.  Only the newest link of a purpose can be open, and *)
(* the request that holds the account's row redeems the newest, unused:    *)
(* both are kept because issuing a link needs that row as well.            *)
(***************************************************************************)
EXTENDS Links, TLAPS

Typed ==
  /\ links \in [Purposes -> Seq(Invitations)]
  /\ \A purpose \in Purposes : Len(links[purpose]) <= MaxLinks
  /\ process \in [Processes -> Calls \cup {Idle}]

Inv ==
  /\ Typed
  /\ \A p \in Processes :
       process[p] # Idle /\ process[p].op = "issue" =>
         process[p].gen < MaxLinks /\ process[p].locked # "account"
  /\ \A p \in Processes : process[p] # Idle /\ process[p].locked = "account" =>
       /\ process[p].gen = Len(links[process[p].purpose])
       /\ process[p].gen > 0
       /\ links[process[p].purpose][process[p].gen].uses = 0
  /\ \A p, q \in Processes :
       /\ process[p] # Idle /\ process[p].locked = "account"
       /\ process[q] # Idle /\ process[q].locked = "account"
       => p = q
  /\ \A purpose \in Purposes : \A g \in 1..Len(links[purpose]) :
       /\ g # Len(links[purpose]) => ~Live(links[purpose][g])
       /\ links[purpose][g].uses <= 1

LEMMA InvInit == Init => Inv
<1> SUFFICES ASSUME Init PROVE Inv
  OBVIOUS
<1>1. \A purpose \in Purposes : links[purpose] = << >>
  BY DEF Init
<1>2. << >> \in Seq(Invitations) /\ Len(<< >>) = 0
  OBVIOUS
<1>3. Typed
  BY <1>1, <1>2, LinksAssumption DEF Init, Typed
<1> QED BY <1>1, <1>2, <1>3 DEF Init, Inv

--------------------------------------------------------------------------------
(* Requests that only move.                                                  *)

LEMMA MoveStep ==
  ASSUME Inv, UNCHANGED links, NEW p \in Processes, NEW call \in Calls \cup {Idle},
         process' = [process EXCEPT ![p] = call],
         call # Idle /\ call.op = "issue" => call.gen < MaxLinks /\ call.locked # "account",
         call # Idle /\ call.locked = "account" =>
           /\ call.gen = Len(links[call.purpose]) /\ call.gen > 0
           /\ links[call.purpose][call.gen].uses = 0
           /\ AccountFree(p)
  PROVE  Inv'
<1>1. /\ process' \in [Processes -> Calls \cup {Idle}] /\ process'[p] = call
      /\ \A q \in Processes \ {p} : process'[q] = process[q]
  BY DEF Inv, Typed
<1>2. Typed'
  BY <1>1 DEF Inv, Typed
<1>3. \A q \in Processes :
        process'[q] # Idle /\ process'[q].op = "issue" =>
          process'[q].gen < MaxLinks /\ process'[q].locked # "account"
  BY <1>1 DEF Inv
<1>4. \A q \in Processes : process'[q] # Idle /\ process'[q].locked = "account" =>
        /\ process'[q].gen = Len(links[process'[q].purpose])
        /\ process'[q].gen > 0
        /\ links[process'[q].purpose][process'[q].gen].uses = 0
  BY <1>1 DEF Inv
<1>5. \A q, r \in Processes :
        /\ process'[q] # Idle /\ process'[q].locked = "account"
        /\ process'[r] # Idle /\ process'[r].locked = "account"
        => q = r
  BY <1>1 DEF Inv, AccountFree
<1> QED BY <1>2, <1>3, <1>4, <1>5 DEF Inv

LEMMA EndStep ==
  ASSUME Inv, UNCHANGED links, NEW p \in Processes, End(p)
  PROVE  Inv'
BY MoveStep DEF End

LEMMA NewestStep ==
  ASSUME Inv, NEW p \in Processes, NEW purpose \in Purposes, Newest(p, purpose)
  PROVE  Inv'
<1> DEFINE call == Call("issue", purpose, Len(links[purpose]))
<1>1. Len(links[purpose]) \in Nat /\ Len(links[purpose]) < MaxLinks
  BY DEF Inv, Typed, Newest
<1>2. call \in Calls /\ call.gen < MaxLinks /\ call.locked = "nothing"
  BY <1>1, LinksAssumption DEF Call, Calls
<1>3. process' = [process EXCEPT ![p] = call] /\ UNCHANGED links
  BY DEF Newest
<1> HIDE DEF call
<1> QED BY <1>2, <1>3, MoveStep

LEMMA FollowStep ==
  ASSUME Inv, NEW p \in Processes, NEW purpose \in Purposes, NEW gen \in 1..MaxLinks,
         Follow(p, purpose, gen)
  PROVE  Inv'
<1> DEFINE call == Call("redeem", purpose, gen)
<1>1. call \in Calls /\ call.op = "redeem" /\ call.locked = "nothing"
  BY LinksAssumption DEF Call, Calls
<1>2. process' = [process EXCEPT ![p] = call] /\ UNCHANGED links
  BY DEF Follow
<1> HIDE DEF call
<1> QED BY <1>1, <1>2, MoveStep

LEMMA LockStep ==
  ASSUME Inv, UNCHANGED links, NEW p \in Processes, NEW what \in {"row", "account"},
         process[p] # Idle, Lock(p, what),
         what = "account" =>
           /\ process[p].op = "redeem" /\ AccountFree(p)
           /\ Redeemable(process[p].purpose, process[p].gen)
  PROVE  Inv'
<1> DEFINE call == [process[p] EXCEPT !.locked = what]
<1>1. process[p] \in Calls
  BY DEF Inv, Typed
<1>2. /\ call \in Calls /\ call.op = process[p].op /\ call.purpose = process[p].purpose
      /\ call.gen = process[p].gen /\ call.locked = what
  BY <1>1 DEF Calls
<1>3. process' = [process EXCEPT ![p] = call]
  BY DEF Lock
<1> HIDE DEF call
<1>4. call.op = "issue" => call.gen < MaxLinks /\ call.locked # "account"
  BY <1>2 DEF Inv
<1>5. call.locked = "account" =>
        /\ call.gen = Len(links[call.purpose]) /\ call.gen > 0
        /\ links[call.purpose][call.gen].uses = 0 /\ AccountFree(p)
  <2>1. process[p].purpose \in Purposes /\ links[process[p].purpose] \in Seq(Invitations)
    BY <1>1 DEF Calls, Inv, Typed
  <2> QED BY <1>2, <2>1 DEF Redeemable, Current, Live
<1> QED BY <1>2, <1>3, <1>4, <1>5, MoveStep

--------------------------------------------------------------------------------
(* Requests that write.                                                      *)

\* What superseding leaves: the new link, and none open before it.
LEMMA SupersededLinks ==
  ASSUME Inv, NEW purpose \in Purposes
  PROVE  /\ Superseded(purpose) \in Seq(Invitations)
         /\ Len(Superseded(purpose)) = Len(links[purpose]) + 1
         /\ \A g \in 1..Len(links[purpose]) :
              /\ ~Live(Superseded(purpose)[g])
              /\ Superseded(purpose)[g].uses = links[purpose][g].uses
         /\ Superseded(purpose)[Len(links[purpose]) + 1] = NewLink
<1> DEFINE s == links[purpose]
           revoked == [g \in DOMAIN s |->
                         IF s[g].uses = 0 THEN [s[g] EXCEPT !.revoked = TRUE] ELSE s[g]]
<1>1. s \in Seq(Invitations)
  BY DEF Inv, Typed
<1>2. \A g \in DOMAIN s : s[g] \in Invitations /\ g \in 1..Len(s)
  BY <1>1
<1>3. \A g \in DOMAIN s :
        /\ revoked[g] \in Invitations /\ revoked[g].uses = s[g].uses
        /\ ~Live(revoked[g])
  BY <1>2 DEF Invitations, Live
<1>4. revoked \in Seq(Invitations) /\ Len(revoked) = Len(s) /\ DOMAIN s = 1..Len(s)
  <2>1. DOMAIN s = 1..Len(s) /\ Len(s) \in Nat
    BY <1>1
  <2>2. revoked \in [1..Len(s) -> Invitations]
    BY <1>3, <2>1
  <2> QED BY <2>1, <2>2
<1>5. NewLink \in Invitations
  BY DEF NewLink, Invitations
<1>6. Superseded(purpose) = Append(revoked, NewLink)
  BY DEF Superseded
<1> HIDE DEF revoked
<1> QED BY <1>1, <1>3, <1>4, <1>5, <1>6

LEMMA InsertStep ==
  ASSUME Inv, NEW p \in Processes, Insert(p)
  PROVE  Inv'
<1> DEFINE purpose == process[p].purpose
           s == Superseded(purpose)
<1>1. /\ process[p] # Idle /\ process[p].op = "issue" /\ process[p].locked = "row"
      /\ AccountFree(p) /\ process[p].gen = Len(links[purpose])
      /\ links' = [links EXCEPT ![purpose] = s]
      /\ process' = [process EXCEPT ![p] = Idle]
  BY DEF Insert, At, Current, End
<1>2. purpose \in Purposes /\ process[p].gen < MaxLinks /\ process[p].gen \in Nat
  BY <1>1, LinksAssumption DEF Inv, Typed, Calls
<1>3. /\ s \in Seq(Invitations) /\ Len(s) = Len(links[purpose]) + 1
      /\ \A g \in 1..Len(links[purpose]) :
           ~Live(s[g]) /\ s[g].uses = links[purpose][g].uses
      /\ s[Len(links[purpose]) + 1] = NewLink
  BY <1>2, SupersededLinks
<1> HIDE DEF s
<1>4. /\ links'[purpose] = s /\ \A r \in Purposes \ {purpose} : links'[r] = links[r]
      /\ links' \in [Purposes -> Seq(Invitations)]
  BY <1>1, <1>2, <1>3 DEF Inv, Typed
<1>5. /\ process' \in [Processes -> Calls \cup {Idle}] /\ process'[p] = Idle
      /\ \A q \in Processes \ {p} : process'[q] = process[q]
  BY <1>1 DEF Inv, Typed
<1> HIDE DEF purpose
<1>6. Typed'
  BY <1>1, <1>2, <1>3, <1>4, <1>5, LinksAssumption DEF Inv, Typed
<1>7. \A q \in Processes : ~(process'[q] # Idle /\ process'[q].locked = "account")
  BY <1>1, <1>5 DEF AccountFree
<1>8. \A q \in Processes : process'[q] # Idle /\ process'[q].op = "issue" =>
        process'[q].gen < MaxLinks /\ process'[q].locked # "account"
  BY <1>5, <1>7 DEF Inv
<1>9. ASSUME NEW r \in Purposes, NEW g \in 1..Len(links'[r])
      PROVE  /\ g # Len(links'[r]) => ~Live(links'[r][g])
             /\ links'[r][g].uses <= 1
  <2>1. CASE r # purpose
    BY <2>1, <1>4 DEF Inv
  <2>2. CASE r = purpose /\ g = Len(s)
    BY <2>2, <1>3, <1>4 DEF NewLink
  <2>3. CASE r = purpose /\ g # Len(s)
    <3>1. g \in 1..Len(links[purpose])
      BY <2>3, <1>1, <1>2, <1>3, <1>4
    <3> QED BY <2>3, <3>1, <1>2, <1>3, <1>4 DEF Inv
  <2> QED BY <2>1, <2>2, <2>3
<1> QED BY <1>6, <1>7, <1>8, <1>9 DEF Inv

\* A link that is used or runs out is no longer open; the others are untouched.
LEMMA ClosedLink ==
  ASSUME Inv, NEW purpose \in Purposes, NEW gen \in 1..Len(links[purpose]),
         NEW new \in Invitations, ~Live(new), new.uses <= 1,
         links' = [links EXCEPT ![purpose][gen] = new]
  PROVE  /\ links' \in [Purposes -> Seq(Invitations)]
         /\ \A r \in Purposes : Len(links'[r]) = Len(links[r])
         /\ \A r \in Purposes : \A g \in 1..Len(links[r]) :
              IF r = purpose /\ g = gen THEN links'[r][g] = new
              ELSE links'[r][g] = links[r][g]
         /\ \A r \in Purposes : \A g \in 1..Len(links'[r]) :
              /\ g # Len(links'[r]) => ~Live(links'[r][g])
              /\ links'[r][g].uses <= 1
<1>1. links[purpose] \in Seq(Invitations)
  BY DEF Inv, Typed
<1> DEFINE s == [links[purpose] EXCEPT ![gen] = new]
<1>2. /\ s \in Seq(Invitations) /\ Len(s) = Len(links[purpose])
      /\ s[gen] = new /\ \A g \in 1..Len(links[purpose]) : g # gen => s[g] = links[purpose][g]
  BY <1>1
<1>3. links' = [links EXCEPT ![purpose] = s]
  OBVIOUS
<1> HIDE DEF s
<1>4. /\ links'[purpose] = s /\ \A r \in Purposes \ {purpose} : links'[r] = links[r]
      /\ links' \in [Purposes -> Seq(Invitations)]
  BY <1>2, <1>3 DEF Inv, Typed
<1>5. \A r \in Purposes : Len(links'[r]) = Len(links[r])
  BY <1>2, <1>4
<1>6. \A r \in Purposes : \A g \in 1..Len(links[r]) :
        IF r = purpose /\ g = gen THEN links'[r][g] = new ELSE links'[r][g] = links[r][g]
  BY <1>2, <1>4
<1>7. \A r \in Purposes : \A g \in 1..Len(links'[r]) :
        /\ g # Len(links'[r]) => ~Live(links'[r][g])
        /\ links'[r][g].uses <= 1
  BY <1>5, <1>6 DEF Inv
<1> QED BY <1>4, <1>5, <1>6, <1>7

\* The request that holds the account's row redeems the newest link, unused.
LEMMA Redeeming ==
  ASSUME Inv, NEW p \in Processes, SetPassword(p)
  PROVE  \E purpose \in Purposes : \E gen \in 1..Len(links[purpose]), new \in Invitations :
           /\ gen = Len(links[purpose])
           /\ links' = [links EXCEPT ![purpose][gen] = new]
           /\ ~Live(new) /\ new.uses <= 1
<1> DEFINE purpose == process[p].purpose
           gen == process[p].gen
           new == [links[purpose][gen] EXCEPT !.uses = 1]
<1>1. process[p] \in Calls /\ process[p] # Idle /\ process[p].locked = "account"
  BY DEF SetPassword, At, Inv, Typed
<1>2. purpose \in Purposes /\ links[purpose] \in Seq(Invitations)
  BY <1>1 DEF Calls, Inv, Typed
<1>3. gen = Len(links[purpose]) /\ gen > 0 /\ links[purpose][gen].uses = 0
  BY <1>1 DEF Inv
<1>4. links' = [links EXCEPT ![purpose][gen].uses = links[purpose][gen].uses + 1]
  BY DEF SetPassword
<1> HIDE DEF purpose, gen
<1>5. gen \in 1..Len(links[purpose]) /\ links[purpose][gen] \in Invitations
  BY <1>2, <1>3
<1>6. links' = [links EXCEPT ![purpose][gen] = new]
  BY <1>3, <1>4
<1>7. new \in Invitations /\ ~Live(new) /\ new.uses <= 1
  BY <1>5 DEF Invitations, Live
<1> HIDE DEF new
<1> QED BY <1>2, <1>3, <1>5, <1>6, <1>7

LEMMA SetPasswordStep ==
  ASSUME Inv, NEW p \in Processes, SetPassword(p)
  PROVE  Inv'
<1>1. PICK purpose \in Purposes : \E gen \in 1..Len(links[purpose]), new \in Invitations :
        /\ links' = [links EXCEPT ![purpose][gen] = new]
        /\ ~Live(new) /\ new.uses <= 1
  BY Redeeming
<1>2. /\ process[p] # Idle /\ process[p].locked = "account"
      /\ process' = [process EXCEPT ![p] = Idle]
  BY DEF SetPassword, At, End
<1>3. /\ process' \in [Processes -> Calls \cup {Idle}] /\ process'[p] = Idle
      /\ \A q \in Processes \ {p} : process'[q] = process[q]
  BY <1>2 DEF Inv, Typed
<1>4. \A q \in Processes : ~(process'[q] # Idle /\ process'[q].locked = "account")
  BY <1>2, <1>3 DEF Inv
<1>5. /\ links' \in [Purposes -> Seq(Invitations)]
      /\ \A r \in Purposes : Len(links'[r]) = Len(links[r])
      /\ \A r \in Purposes : \A g \in 1..Len(links'[r]) :
           /\ g # Len(links'[r]) => ~Live(links'[r][g])
           /\ links'[r][g].uses <= 1
  BY <1>1, ClosedLink
<1>6. Typed'
  BY <1>3, <1>5 DEF Inv, Typed
<1>7. \A q \in Processes : process'[q] # Idle /\ process'[q].op = "issue" =>
        process'[q].gen < MaxLinks /\ process'[q].locked # "account"
  BY <1>3, <1>4 DEF Inv
<1> QED BY <1>4, <1>5, <1>6, <1>7 DEF Inv

LEMMA ExpireStep ==
  ASSUME Inv, NEW purpose \in Purposes, NEW gen \in 1..MaxLinks, Expire(purpose, gen)
  PROVE  Inv'
<1> DEFINE new == [links[purpose][gen] EXCEPT !.expired = TRUE]
<1>1. links[purpose] \in Seq(Invitations) /\ gen \in DOMAIN links[purpose]
  BY DEF Expire, Inv, Typed
<1>2. gen \in 1..Len(links[purpose]) /\ links[purpose][gen] \in Invitations
  BY <1>1
<1>3. links[purpose][gen].uses <= 1
  BY <1>2 DEF Inv
<1>4. /\ new \in Invitations /\ ~Live(new) /\ new.uses <= 1
      /\ new.uses = links[purpose][gen].uses
  BY <1>2, <1>3 DEF Invitations, Live
<1>5. links' = [links EXCEPT ![purpose][gen] = new] /\ process' = process
  BY DEF Expire
<1> HIDE DEF new
<1>6. /\ links' \in [Purposes -> Seq(Invitations)]
      /\ \A r \in Purposes : Len(links'[r]) = Len(links[r])
      /\ \A r \in Purposes : \A g \in 1..Len(links[r]) :
           IF r = purpose /\ g = gen THEN links'[r][g] = new
           ELSE links'[r][g] = links[r][g]
      /\ \A r \in Purposes : \A g \in 1..Len(links'[r]) :
           /\ g # Len(links'[r]) => ~Live(links'[r][g])
           /\ links'[r][g].uses <= 1
  BY <1>2, <1>4, <1>5, ClosedLink
<1>7. \A q \in Processes : process'[q] # Idle /\ process'[q].locked = "account" =>
        /\ process'[q].gen = Len(links'[process'[q].purpose])
        /\ process'[q].gen > 0
        /\ links'[process'[q].purpose][process'[q].gen].uses = 0
  <2> SUFFICES ASSUME NEW q \in Processes, process[q] # Idle, process[q].locked = "account"
               PROVE  /\ process[q].gen = Len(links'[process[q].purpose])
                      /\ process[q].gen > 0
                      /\ links'[process[q].purpose][process[q].gen].uses = 0
    BY <1>5
  <2> DEFINE r == process[q].purpose
             g == process[q].gen
  <2>1. r \in Purposes /\ g = Len(links[r]) /\ g > 0 /\ links[r][g].uses = 0
    BY DEF Inv, Typed, Calls
  <2>2. links[r] \in Seq(Invitations)
    BY <2>1 DEF Inv, Typed
  <2>3. g \in 1..Len(links[r])
    BY <2>1, <2>2
  <2>4. links'[r][g].uses = links[r][g].uses
    <3> HIDE DEF r, g
    <3> QED BY <2>1, <2>3, <1>4, <1>6
  <2> QED BY <2>1, <2>4, <1>6
<1>8. Typed'
  BY <1>5, <1>6 DEF Inv, Typed
<1> QED BY <1>5, <1>6, <1>7, <1>8 DEF Inv

LEMMA Inductive == Inv /\ [Next]_vars => Inv'
<1> SUFFICES ASSUME Inv, [Next]_vars PROVE Inv'
  OBVIOUS
<1>1. ASSUME NEW p \in Processes,
             StartPasswordReset(p) \/ InviteAccount(p) \/ IssuePasswordLink(p)
      PROVE  Inv'
  BY <1>1, NewestStep DEF StartPasswordReset, InviteAccount, IssuePasswordLink, Purposes
<1>2. ASSUME NEW p \in Processes, NEW purpose \in Purposes, NEW gen \in 1..MaxLinks,
             Follow(p, purpose, gen)
      PROVE  Inv'
  BY <1>2, FollowStep
<1>3. ASSUME NEW p \in Processes, LockNewest(p) \/ LockLink(p) PROVE Inv'
  BY <1>3, LockStep DEF LockNewest, LockLink, At
<1>4. ASSUME NEW p \in Processes, Insert(p) PROVE Inv'
  BY <1>4, InsertStep
<1>5. ASSUME NEW p \in Processes, Taken(p) \/ Fail(p) PROVE Inv'
  BY <1>5, EndStep DEF Taken, Fail
<1>6. ASSUME NEW p \in Processes, Recheck(p) PROVE Inv'
  BY <1>6, LockStep, EndStep DEF Recheck, At
<1>7. ASSUME NEW p \in Processes, SetPassword(p) PROVE Inv'
  BY <1>7, SetPasswordStep
<1>8. ASSUME NEW purpose \in Purposes, NEW gen \in 1..MaxLinks, Expire(purpose, gen)
      PROVE  Inv'
  BY <1>8, ExpireStep
<1>9. CASE UNCHANGED vars
  BY <1>9 DEF vars, Inv, Typed
<1> QED BY <1>1, <1>2, <1>3, <1>4, <1>5, <1>6, <1>7, <1>8, <1>9 DEF Next

LEMMA Always == Spec => []Inv
BY InvInit, Inductive, PTL DEF Spec

--------------------------------------------------------------------------------
(* Theorems.                                                                 *)

(***************************************************************************)
(* Every row and request is of its type, for any number of requests.       *)
(***************************************************************************)
THEOREM TypeCorrect == Spec => []TypeOK
<1>1. Inv => TypeOK
  BY DEF Inv, Typed, TypeOK
<1> QED BY <1>1, Always, PTL

(***************************************************************************)
(* A link sets one password however many requests follow it at once        *)
(* (identity.py:461-483).                                                  *)
(***************************************************************************)
THEOREM RedeemsOnce == Spec => []RedeemedOnce
<1>1. Inv => RedeemedOnce
  <2> SUFFICES ASSUME Inv, NEW purpose \in Purposes, NEW g \in DOMAIN links[purpose]
               PROVE  links[purpose][g].uses <= 1
    BY DEF RedeemedOnce
  <2>1. g \in 1..Len(links[purpose])
    BY DEF Inv, Typed
  <2> QED BY <2>1 DEF Inv
<1> QED BY <1>1, Always, PTL

(***************************************************************************)
(* Of a purpose, one link is open at most, however many were asked for at  *)
(* once (identity.py:106-138).                                             *)
(***************************************************************************)
THEOREM OneIsLive == Spec => []OneLiveLink
<1>1. Inv => OneLiveLink
  <2> SUFFICES ASSUME Inv, NEW purpose \in Purposes,
                      NEW g \in DOMAIN links[purpose], NEW h \in DOMAIN links[purpose],
                      Live(links[purpose][g]), Live(links[purpose][h])
               PROVE  g = h
    BY DEF OneLiveLink
  <2>1. g \in 1..Len(links[purpose]) /\ h \in 1..Len(links[purpose])
    BY DEF Inv, Typed
  <2> QED BY <2>1 DEF Inv
<1> QED BY <1>1, Always, PTL

\* Only a request that sets a password uses a link, and that link is the newest.
LEMMA UseStep ==
  ASSUME Inv, Next, NEW purpose \in Purposes, NEW g \in DOMAIN links[purpose],
         links'[purpose][g].uses > links[purpose][g].uses
  PROVE  Current(purpose, g)
<1>1. links[purpose] \in Seq(Invitations) /\ g \in 1..Len(links[purpose])
  BY DEF Inv, Typed
<1>2. links[purpose][g].uses \in Nat
  <2>1. links[purpose][g] \in Invitations
    BY <1>1
  <2> QED BY <2>1 DEF Invitations
<1>3. links'[purpose][g].uses # links[purpose][g].uses
  BY <1>2
<1>4. ASSUME NEW p \in Processes, Insert(p) PROVE FALSE
  <2>1. process[p].purpose \in Purposes
    BY <1>4 DEF Insert, At, Inv, Typed, Calls
  <2>2. links' = [links EXCEPT ![process[p].purpose] = Superseded(process[p].purpose)]
    BY <1>4 DEF Insert
  <2>3. \A h \in 1..Len(links[process[p].purpose]) :
          Superseded(process[p].purpose)[h].uses = links[process[p].purpose][h].uses
    BY <2>1, SupersededLinks
  <2> QED BY <1>1, <1>3, <2>1, <2>2, <2>3 DEF Inv, Typed
<1>5. ASSUME NEW p \in Processes, SetPassword(p) PROVE Current(purpose, g)
  <2>1. PICK r \in Purposes : \E h \in 1..Len(links[r]), new \in Invitations :
          /\ h = Len(links[r])
          /\ links' = [links EXCEPT ![r][h] = new]
          /\ ~Live(new) /\ new.uses <= 1
    BY <1>5, Redeeming
  <2>2. PICK h \in 1..Len(links[r]), new \in Invitations :
          /\ h = Len(links[r])
          /\ links' = [links EXCEPT ![r][h] = new]
          /\ ~Live(new) /\ new.uses <= 1
    BY <2>1
  <2>3. IF purpose = r /\ g = h THEN links'[purpose][g] = new
        ELSE links'[purpose][g] = links[purpose][g]
    BY <1>1, <2>2, ClosedLink
  <2>4. purpose = r /\ g = h
    BY <1>1, <1>3, <2>3
  <2> QED BY <2>4, <2>2 DEF Current
<1>6. ASSUME NEW r \in Purposes, NEW k \in 1..MaxLinks, Expire(r, k) PROVE FALSE
  <2> DEFINE new == [links[r][k] EXCEPT !.expired = TRUE]
  <2>1. links[r] \in Seq(Invitations) /\ k \in 1..Len(links[r])
    BY <1>6 DEF Expire, Inv, Typed
  <2>2. links[r][k] \in Invitations /\ links[r][k].uses <= 1
    BY <2>1 DEF Inv
  <2>3. /\ new \in Invitations /\ ~Live(new) /\ new.uses <= 1
        /\ new.uses = links[r][k].uses
    BY <2>2 DEF Invitations, Live
  <2>4. links' = [links EXCEPT ![r][k] = new]
    BY <1>6 DEF Expire
  <2> HIDE DEF new
  <2>5. IF purpose = r /\ g = k THEN links'[purpose][g] = new
        ELSE links'[purpose][g] = links[purpose][g]
    BY <1>1, <2>1, <2>3, <2>4, ClosedLink
  <2> QED BY <1>1, <1>3, <2>3, <2>5
<1>7. \/ UNCHANGED links
      \/ \E p \in Processes : Insert(p) \/ SetPassword(p)
      \/ \E r \in Purposes, k \in 1..MaxLinks : Expire(r, k)
  BY DEF Next, StartPasswordReset, InviteAccount, IssuePasswordLink, Newest, Follow,
         LockNewest, Taken, LockLink, Recheck, Fail
<1> QED BY <1>3, <1>4, <1>5, <1>6, <1>7

(***************************************************************************)
(* A superseded link sets no password, whatever was found about it before  *)
(* (identity.py:150-174, 468-483).                                         *)
(***************************************************************************)
THEOREM NewestRedeems == Spec => OnlyNewestRedeemed
<1>1. Inv /\ [Next]_vars =>
        [\A purpose \in Purposes : \A g \in DOMAIN links[purpose] :
           links'[purpose][g].uses > links[purpose][g].uses => Current(purpose, g)]_vars
  BY UseStep
<1> QED BY <1>1, Always, PTL DEF Spec, OnlyNewestRedeemed
================================================================================
