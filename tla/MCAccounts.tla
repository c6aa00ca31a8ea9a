------------------------------ MODULE MCAccounts ------------------------------
(***************************************************************************)
(* Instances of Accounts for TLC.                                          *)
(***************************************************************************)
EXTENDS Accounts, TLC

MembersOnly == [listed |-> TRUE, members |-> TRUE, capacity |-> "small"]
Dropped     == [MembersOnly EXCEPT !.listed = FALSE]

TwoConfigs == {MembersOnly, Dropped}

Entry(i, e) == [id |-> i, email |-> e]

\* The student of the roster, and the same address with another ID.
TwoIds == {Entry(i, "e1") : i \in Ids}

\* The roster is about the first ID, with either address.
TwoFiles == {<<Entry("i1", e)>> : e \in Emails}

\* Every file of one entry or two.
SmallFiles == {<<a>> : a \in Entries} \cup {<<a, b>> : a \in Entries, b \in Entries}

Alike == Permutations(Requests)
================================================================================
