---------------------------- MODULE MCStripeSync ----------------------------
(* Instances of StripeSync for TLC. *)
EXTENDS StripeSync, TLC

CONSTANTS o1, o2, pro

MCCatalogue == ("price_pro" :> pro)

MCCustomerOf == (o1 :> "c1") @@ (o2 :> "c2")

Event(kind, o, c, s, price, t) ==
    [kind |-> kind, org |-> o, cust |-> c, sub |-> s, price |-> price,
     plan |-> pro, created |-> t]

\* A subscription of o1 that starts and is cancelled, an event of it whose
\* metadata was edited to name o2 and whose price is not in the catalogue, an
\* invoice of it, and an invoice of a customer nobody knows.
MCEvents ==
    { Event("subscription", o1, "c1", "s1", "price_pro", 1),
      Event("subscription", o2, "c1", "s1", "price_new", 2),
      Event("deleted", o1, "c1", "s1", "price_pro", 3),
      Event("invoice", o1, "c1", "s1", None, 2),
      Event("invoice", None, "c3", "s3", None, 1) }

=============================================================================
