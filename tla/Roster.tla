-------------------------------- MODULE Roster --------------------------------
(***************************************************************************)
(* The department roster and its imports (core/services/roster.py): a row  *)
(* per institutional ID with the address approved for it, whether it is    *)
(* active and the account linked to it.  IDs and addresses are unique.     *)
(*                                                                         *)
(* A file is a sequence of entries.  The code applies them one by one and  *)
(* checks each against what the ones before it left; the IDs of a file are *)
(* distinct, so the rows after its first n entries need no recursion.      *)
(***************************************************************************)
EXTENDS Integers, Sequences

CONSTANTS
  Ids, Emails,
  Nobody   \* the account of a row that is not linked

Entries == [id : Ids, email : Emails]

\* Mistake: the addresses of a file are not compared.
DistinctIds(file) == \A j, k \in DOMAIN file : file[j].id = file[k].id => j = k

\* A file that names an ID or an address twice is refused before anything is read.
WellFormed(file) ==
  \A j, k \in DOMAIN file :
    file[j].id = file[k].id \/ file[j].email = file[k].email => j = k

\* Mistake: an entry that is already on the roster is a conflict.
ConflictKnown(rows, entry, optIn) ==
  \/ entry.id \in DOMAIN rows /\ ~optIn
  \/ \E i \in DOMAIN rows \ {entry.id} : rows[i].email = entry.email

Conflict(rows, entry, optIn) ==
  \/ entry.id \in DOMAIN rows /\ rows[entry.id].email # entry.email /\ ~optIn
  \/ \E i \in DOMAIN rows \ {entry.id} : rows[i].email = entry.email

IdsOf(file, n) == {file[k].id : k \in 1..n}
EmailFor(file, i) == file[CHOOSE k \in DOMAIN file : file[k].id = i].email

\* The rows once the first n entries of the file are applied.
Applied(rows, file, n) ==
  [i \in DOMAIN rows \cup IdsOf(file, n) |->
     IF i \notin IdsOf(file, n) THEN rows[i]
     ELSE [email |-> EmailFor(file, i), active |-> TRUE,
           account |-> IF i \in DOMAIN rows THEN rows[i].account ELSE Nobody]]

Accepted(rows, file, optIn) ==
  \A k \in DOMAIN file : ~Conflict(Applied(rows, file, k - 1), file[k], optIn)

\* What a dry run says: every entry against the rows as they are.
Forecast(rows, file, optIn) == \A k \in DOMAIN file : ~Conflict(rows, file[k], optIn)
================================================================================
