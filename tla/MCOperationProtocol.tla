-------------------------- MODULE MCOperationProtocol --------------------------
(***************************************************************************)
(* Instances of OperationProtocol for TLC.  Requests are interchangeable,  *)
(* and so are payloads; symmetry is used where no liveness is checked.     *)
(***************************************************************************)
EXTENDS OperationProtocol, TLC

Alike == Permutations(Requests) \cup Permutations(Payloads)
=============================================================================
