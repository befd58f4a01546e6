-------------------------- MODULE MCPaymentLedger --------------------------
(***************************************************************************)
(* Instance of PaymentLedger for TLC: two invoices and the Stripe events   *)
(* of two charges of the first, with partial, repeated and full refunds.   *)
(***************************************************************************)
EXTENDS PaymentLedger

CONSTANTS i1, i2, l1, l2, p1, p2, p3, r1, r2, r3, usd, jpy, declined

MCLinkOf == [i \in {i1, i2} |-> IF i = i1 THEN l1 ELSE l2]
MCCurrencyOf == [i \in {i1, i2} |-> usd]

Blank(id, type) ==
  [id |-> id, type |-> type, status |-> "succeeded", meta |-> None, link |-> None,
   intent |-> None, currency |-> usd, amount |-> 0, refund |-> None, code |-> None]

\* The customer pays the link of an invoice; the session carries its metadata.
Session(id, i, intent, amount) ==
  [Blank(id, "checkout.session.completed") EXCEPT !.status = "payment", !.meta = i,
     !.link = MCLinkOf[i], !.intent = intent, !.amount = amount]

Refund(id, type, refund, intent, amount) ==
  [Blank(id, type) EXCEPT !.refund = refund, !.intent = intent, !.amount = amount]

MCEvents ==
  { Session(1, i1, p1, 3),
    Session(2, i1, p2, 3),
    [Session(3, i2, p3, 3) EXCEPT !.meta = None],
    [Blank(4, "payment_intent.succeeded") EXCEPT !.meta = i1, !.intent = p1, !.amount = 3],
    Refund(5, "refund.created", r1, p1, 1),
    Refund(6, "refund.updated", r1, p1, 1),
    Refund(7, "refund.created", r2, p1, 2),
    Refund(8, "refund.created", r3, p1, 3),
    Refund(9, "refund.updated", r3, p3, 3),
    Refund(13, "refund.created", r2, p3, 0),
    [Refund(10, "refund.created", r2, p1, 2) EXCEPT !.currency = jpy],
    [Session(11, i2, p2, 3) EXCEPT !.link = l1],
    [Blank(12, "payment_intent.payment_failed") EXCEPT !.intent = p1, !.code = declined] }
=============================================================================
