------------------------------- MODULE MCOutbox -------------------------------
(***************************************************************************)
(* Instances of Outbox for TLC.                                            *)
(***************************************************************************)
EXTENDS Outbox

ShortBackoff == [n \in 1..MaxAttempts |-> IF n < LongestWait THEN n ELSE LongestWait]
=============================================================================
