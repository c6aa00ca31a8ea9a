------------------------------- MODULE RoomHours -------------------------------
(***************************************************************************)
(* What the booking service promises about each hour of each room: it is   *)
(* free, held for somebody who has not come yet, busy, or spent.  Holds    *)
(* may be dropped and pass to others; from the moment somebody is inside,  *)
(* the hour belongs to that account and is never sold a second time.       *)
(*                                                                         *)
(* One transaction may move many hours (a reconciliation, a closure), so a *)
(* step moves any set of them, each along the life of an hour.             *)
(***************************************************************************)
CONSTANTS Cells,   \* the room hours
          Users    \* the accounts that may hold them

VARIABLE hour      \* cell -> its state and the account it is with

Free  == [state |-> "free"]
HourStates == {Free} \cup [state : {"held", "busy", "spent"}, holder : Users]

\* Whether one transaction may take an hour from state h to state g.
MayBecome(h, g) ==
  \/ h.state = "free" /\ g.state # "spent"
  \/ h.state = "held" /\ (g.state = "spent" => g.holder = h.holder)
  \/ h.state = "busy" /\ g.state \in {"busy", "spent"} /\ g.holder = h.holder
  \/ h.state = "spent" /\ g = h

Init == hour = [c \in Cells |-> Free]

Transaction ==
  /\ hour' \in [Cells -> HourStates]
  /\ \A c \in Cells : MayBecome(hour[c], hour'[c])

Spec == Init /\ [][Transaction]_hour
=============================================================================
