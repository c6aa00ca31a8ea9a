----------------------------- MODULE MCSuspensions -----------------------------
(***************************************************************************)
(* Instances of Suspensions for TLC.                                       *)
(***************************************************************************)
EXTENDS Suspensions

\* One version that suspends at two strikes, one stricter with a longer window.
TwoVersions == <<[threshold |-> 2, window |-> 2, days |-> 1],
                  [threshold |-> 1, window |-> 3, days |-> 2]>>
================================================================================
