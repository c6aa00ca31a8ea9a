---------------------------- MODULE MCReservations ----------------------------
(***************************************************************************)
(* Instances of Reservations and Availability for TLC: the sets the        *)
(* configurations assign to the constants; the runs' properties come from  *)
(* the two modules.                                                        *)
(***************************************************************************)
EXTENDS Availability, TLC

Plain    == [active |-> TRUE, display |-> FALSE, approval |-> FALSE, members |-> FALSE]
Approval == [Plain EXCEPT !.approval = TRUE]
Members  == [Plain EXCEPT !.members = TRUE]
Display  == [Plain EXCEPT !.display = TRUE]

PlainOnly     == {Plain}
PlainMembers  == {Plain, Members}
ApprovalDisplay == {Approval, Display}

Everyone == Users \X Rooms

NoClasses  == {}
OneClass   == {<<CHOOSE r \in Rooms : TRUE, 1>>} \* hour 1 in one of the rooms
NoScopes   == {}
WholeFirst == {{<<r, 1>> : r \in Rooms}}          \* every room, hour 1
NoHours    == {{}}                                \* an override that closes the date
NoOverride == {}
Never      == {}
TwoEnds    == {3, MaxTime + 1}                    \* soon, and past the end of time

\* Sound for safety: no operation tells one request from another.
AlikeRequests == Permutations(Sessions)
=============================================================================
