-------------------------- MODULE MCStripeWebhooks --------------------------
(***************************************************************************)
(* Instances of StripeWebhooks for TLC.  The events are those of one       *)
(* invoice of two minor units, chosen per configuration.                   *)
(***************************************************************************)
EXTENDS StripeWebhooks, TLC

CONSTANTS i1, l1, l2, p1, p2, r1, r2, usd, jpy, declined

MCLinkOf == [i \in {i1} |-> l1]
MCCurrencyOf == [i \in {i1} |-> usd]

\* Workers are alike, and so are requests; the money rows name neither.
Alike == Permutations(Workers) \cup Permutations(Requests)

Blank(id, type) ==
  [id |-> id, type |-> type, status |-> "succeeded", meta |-> None, link |-> None,
   intent |-> None, currency |-> usd, amount |-> 0, refund |-> None, code |-> None]

\* The customer pays the link; the session carries link and metadata.
Session(id, intent) ==
  [Blank(id, "checkout.session.completed") EXCEPT !.status = "payment", !.meta = i1,
     !.link = l1, !.intent = intent, !.amount = 2]

Refund(id, type, refund, intent, amount) ==
  [Blank(id, type) EXCEPT !.refund = refund, !.intent = intent, !.amount = amount]

\* One charge and two partial refunds that complete it.
PartialRefunds ==
  { Session(1, p1),
    Refund(2, "refund.created", r1, p1, 1),
    Refund(3, "refund.updated", r2, p1, 1) }

\* One charge refunded in full, the refund reported twice.
FullRefund ==
  { Session(1, p1),
    Refund(2, "refund.created", r1, p1, 2),
    Refund(3, "refund.updated", r1, p1, 2) }

\* The link is paid after a first try failed, and a session of the same account
\* carries a link this system did not make.
QueueEvents ==
  { Session(1, p1),
    [Session(2, p2) EXCEPT !.meta = None, !.link = l2],
    [Blank(3, "payment_intent.payment_failed") EXCEPT !.intent = p1, !.code = declined] }

\* One charge reported by a session and by its intent, refunded in full between.
TwoReports ==
  { Session(1, p1),
    [Blank(2, "payment_intent.succeeded") EXCEPT !.meta = i1, !.intent = p1, !.amount = 2],
    Refund(3, "refund.created", r1, p1, 2) }
=============================================================================
