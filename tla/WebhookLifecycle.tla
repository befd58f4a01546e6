-------------------------- MODULE WebhookLifecycle --------------------------
(***************************************************************************)
(* What the webhook queue promises for one Stripe event, whatever the      *)
(* number of workers: a stored event stays pending through a bounded       *)
(* number of failed attempts, none of which has an effect, and then is     *)
(* either handled, with its effect applied at most once, or dead-lettered  *)
(* without effect.  StripeWebhooks is checked to implement it.             *)
(***************************************************************************)
EXTENDS Naturals

CONSTANTS
  Events,
  MaxAttempts   \* the caller assumes at least 2

VARIABLES
  phase,     \* [Events -> {"absent", "pending", "done", "dead"}]
  failures,  \* [Events -> 0 .. MaxAttempts], attempts that failed
  effects    \* [Events -> Nat], how often the event changed business rows

vars == <<phase, failures, effects>>

Init ==
  /\ phase = [e \in Events |-> "absent"]
  /\ failures = [e \in Events |-> 0]
  /\ effects = [e \in Events |-> 0]

\* InsertStripeWebhookEvent; a redelivered event changes nothing.
Store(e) ==
  /\ phase[e] = "absent"
  /\ phase' = [phase EXCEPT ![e] = "pending"]
  /\ UNCHANGED <<failures, effects>>

\* A successful attempt: the effect and processed_at in one transaction.
Finish(e) ==
  /\ phase[e] = "pending"
  /\ phase' = [phase EXCEPT ![e] = "done"]
  /\ effects' \in {effects, [effects EXCEPT ![e] = @ + 1]}
  /\ UNCHANGED failures

\* A failed attempt: retried, or dead-lettered when it was the last one.
Fail(e) ==
  /\ phase[e] = "pending"
  /\ failures' = [failures EXCEPT ![e] = @ + 1]
  /\ phase' = [phase EXCEPT ![e] = IF failures'[e] < MaxAttempts THEN "pending" ELSE "dead"]
  /\ UNCHANGED effects

Next == \E e \in Events : Store(e) \/ Finish(e) \/ Fail(e)

\* A pending event is attempted until it leaves the queue.
Fairness == \A e \in Events : WF_vars(Finish(e) \/ Fail(e))

Spec == Init /\ [][Next]_vars /\ Fairness
=============================================================================
