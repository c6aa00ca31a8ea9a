---------------------------- MODULE KeyedRequests ----------------------------
(***************************************************************************)
(* What a form with an idempotency key may rely on: of all requests with   *)
(* one key at most one takes effect, a request is told it succeeded only   *)
(* if it did, is shown an earlier result only if an identical request had  *)
(* it, and is refused only if it changed nothing.                          *)
(***************************************************************************)
CONSTANTS Requests, Forms, NoKey, None

Answers ==
  [kind : {"ok", "replay", "rejected", "mismatch", "busy", "error", "lost"}, of : Requests]

VARIABLES form,     \* request -> [key, payload], None before it is submitted
          effects,  \* the requests that changed the tables
          answer    \* request -> None, or what its client saw

Init ==
  /\ form = [r \in Requests |-> None]
  /\ effects = {}
  /\ answer = [r \in Requests |-> None]

Submit(r, f) ==
  /\ form[r] = None
  /\ form' = [form EXCEPT ![r] = f]
  /\ UNCHANGED <<effects, answer>>

Apply(r) ==
  /\ form[r] # None /\ answer[r] = None /\ r \notin effects
  /\ \A q \in effects : form[q].key = form[r].key => form[r].key = NoKey
  /\ effects' = effects \cup {r}
  /\ UNCHANGED <<form, answer>>

Truthful(r, a) ==
  CASE a.kind = "lost"   -> TRUE
    [] a.kind = "ok"     -> r \in effects
    [] a.kind = "replay" -> a.of \in effects /\ form[a.of] = form[r] /\ r \notin effects
    [] OTHER             -> r \notin effects

Tell(r) ==
  /\ form[r] # None /\ answer[r] = None
  /\ \E a \in Answers : Truthful(r, a) /\ answer' = [answer EXCEPT ![r] = a]
  /\ UNCHANGED <<form, effects>>

Next == \E r \in Requests : (\E f \in Forms : Submit(r, f)) \/ Apply(r) \/ Tell(r)

Spec == Init /\ [][Next]_<<form, effects, answer>>
=============================================================================
