------------------------------ MODULE Checkout ------------------------------
(***************************************************************************)
(* POST /billing/checkout and /billing/portal: reading the plan and its    *)
(* price, making sure that the organization has one Stripe customer, and   *)
(* opening a session; then what becomes of a session, with the console     *)
(* changing the catalogue and assigning plans around them.                 *)
(*                                                                         *)
(* Stripe is external.  It creates one customer for one idempotency key,   *)
(* as long as it remembers the key.  An event is applied as one step:      *)
(* retries, the watermark and races of deliveries are StripeSync's.  What  *)
(* the watermark does not keep apart is here: an event of a subscription   *)
(* that has ended, of the second of its end or later, is applied like any  *)
(* other.  Customers and subscriptions are numbered, 0 being NULL.         *)
(***************************************************************************)
EXTENDS PlanCatalogue

CONSTANTS
    Carts,           \* requests that can be in progress
    FreePlan,        \* the plan named "free"
    OnSale,          \* prices the console has put on sale, of plans that cost money
    MaxCustomers,    \* bound: customers of an organization
    MaxSessions,     \* bound: sessions open at one time
    MaxPaid          \* bound: subscriptions that are started

ASSUME CheckoutAssumption ==
    /\ FreePlan \in Plans /\ OnSale \subseteq Prices
    /\ MaxCustomers \in Nat /\ MaxSessions \in Nat /\ MaxPaid \in Nat

VARIABLES
    customer,   \* org_subscriptions.stripe_customer_id
    linked,     \* org_subscriptions.stripe_subscription_id
    cart,       \* a request between two steps
    known,      \* Stripe: the customer an organization's idempotency key stands for
    created,    \* Stripe: customers created for an organization
    sessions,   \* Stripe: checkout sessions a human may still complete
    paying,     \* Stripe: subscriptions that are alive
    ended,      \* Stripe: subscriptions that are not any more
    sold,       \* subscriptions started so far
    lapsed,     \* history: organizations whose key lapsed with no customer recorded
    doubled,    \* history: organizations that started a second subscription beside one
    unnamed,    \* history: organizations whose payment named no plan of the catalogue
    relinked    \* history: organizations last written by an event of an ended subscription

stripeVars == <<known, created, sessions, paying, ended, sold>>
shopHistory == <<lapsed, doubled, unnamed, relinked>>
shopVars == <<customer, linked, cart, stripeVars, shopHistory>>

EmptyCart == [op |-> "idle"]

\* The catalogue once the console has filled it.
InitShop ==
    /\ plan = [p \in Plans |-> [live |-> TRUE, limits |-> SeedLimits, public |-> TRUE]]
    /\ \E p \in Plans \ {FreePlan} :
          price = [x \in Prices |-> IF x \in OnSale THEN [plan |-> p, active |-> TRUE]
                                    ELSE [plan |-> NoPlan, active |-> FALSE]]
    /\ sub = [o \in Orgs |-> NoPlan] /\ custom = [o \in Orgs |-> NoLimits]
    /\ edit = [s \in Staff |-> NoEdit] /\ edits = 0 /\ raced = FALSE

InitCheckout ==
    /\ customer = [o \in Orgs |-> 0] /\ linked = [o \in Orgs |-> 0]
    /\ cart = [r \in Carts |-> EmptyCart]
    /\ known = [o \in Orgs |-> 0] /\ created = [o \in Orgs |-> 0]
    /\ sessions = {} /\ paying = {} /\ ended = {} /\ sold = 0
    /\ lapsed = {} /\ doubled = {} /\ unnamed = {} /\ relinked = {}

HasRow(o) == sub[o] # NoPlan
Recorded(o) == HasRow(o) /\ customer[o] # 0

Put(r, c) == cart' = [cart EXCEPT ![r] = c]
To(r, op, c) == Put(r, [cart[r] EXCEPT !.op = op, !.cust = c])

-----------------------------------------------------------------------------
(* The requests *)

\* resolvePurchasablePlan; NOT_FOUND otherwise.
StartCheckout(r, o, p) ==
    /\ cart[r] = EmptyCart /\ p \in ListPublicPlans
    /\ Put(r, [op |-> "price", org |-> o, plan |-> p, price |-> NoPlan, cust |-> 0])
    /\ UNCHANGED <<customer, linked, stripeVars, shopHistory, catVars>>

\* PLAN_NOT_PURCHASABLE otherwise.  Which of several prices is the newest is left open.
GetActivePlanPrice(r, x) ==
    /\ cart[r].op = "price"
    /\ price[x].plan = cart[r].plan /\ price[x].active
    /\ Put(r, [cart[r] EXCEPT !.op = "ref", !.price = x])
    /\ UNCHANGED <<customer, linked, stripeVars, shopHistory, catVars>>

Portal(r, o) ==
    /\ cart[r] = EmptyCart
    /\ Put(r, [op |-> "ref", org |-> o, plan |-> NoPlan, price |-> NoPlan, cust |-> 0])
    /\ UNCHANGED <<customer, linked, stripeVars, shopHistory, catVars>>

\* The beginning of ensureCustomer.
GetOrgBillingRef(r) ==
    /\ cart[r].op = "ref"
    /\ LET o == cart[r].org
       IN IF Recorded(o) THEN To(r, "session", customer[o]) ELSE To(r, "create", 0)
    /\ UNCHANGED <<customer, linked, stripeVars, shopHistory, catVars>>

\* Mutant: a key of its own for every attempt.
freshIdempotencyKey(o) == created[o] + 1

\* customerIdempotencyKey: the same for every attempt of an organization.
customerIdempotencyKey(o) == IF known[o] # 0 THEN known[o] ELSE created[o] + 1

CreateCustomer(r) ==
    /\ cart[r].op = "create"
    /\ LET o == cart[r].org  c == customerIdempotencyKey(o) IN
       /\ c <= MaxCustomers
       /\ known' = [known EXCEPT ![o] = c]
       /\ created' = [created EXCEPT ![o] = IF c > @ THEN c ELSE @]
       /\ To(r, "claim", c)
    /\ UNCHANGED <<customer, linked, sessions, paying, ended, sold, shopHistory, catVars>>

\* It needs a row that has none.
ClaimOrgStripeCustomer(r) ==
    /\ cart[r].op = "claim"
    /\ LET o == cart[r].org  c == cart[r].cust IN
       IF HasRow(o) /\ customer[o] = 0
       THEN customer' = [customer EXCEPT ![o] = c] /\ To(r, "session", c)
       ELSE UNCHANGED customer /\ To(r, "reread", c)
    /\ UNCHANGED <<linked, stripeVars, shopHistory, catVars>>

\* A recorded customer wins over the one just created.
Reread(r) ==
    /\ cart[r].op = "reread"
    /\ LET o == cart[r].org
       IN To(r, "session", IF Recorded(o) THEN customer[o] ELSE cart[r].cust)
    /\ UNCHANGED <<customer, linked, stripeVars, shopHistory, catVars>>

\* CreateCheckoutSession; a portal session leaves no trace here.
OpenSession(r) ==
    /\ cart[r].op = "session" /\ Cardinality(sessions) < MaxSessions
    /\ sessions' = IF cart[r].plan = NoPlan THEN sessions
                   ELSE sessions \cup {[org |-> cart[r].org, cust |-> cart[r].cust,
                                        plan |-> cart[r].plan, price |-> cart[r].price]}
    /\ Put(r, EmptyCart)
    /\ UNCHANGED <<customer, linked, known, created, paying, ended, sold, shopHistory, catVars>>

\* A statement or a call to Stripe fails, or the process dies.
GiveUp(r) ==
    /\ cart[r] # EmptyCart /\ Put(r, EmptyCart)
    /\ UNCHANGED <<customer, linked, stripeVars, shopHistory, catVars>>

-----------------------------------------------------------------------------
(* Stripe, and the webhook that follows it *)

\* GetPlanByStripePriceID, inactive prices too, and else the plan in the metadata.
PlanOf(s) == IF price[s.price].plan # NoPlan THEN price[s.price].plan
             ELSE IF plan[s.plan].live THEN s.plan ELSE NoPlan

\* What a later event of a subscription resolves to: an invoice no plan,
\* checkout.session.completed the one in the metadata, and
\* customer.subscription.updated that of the price the portal has put it on.
Resolved(q) ==
    {NoPlan} \cup {p \in Plans : plan[p].live /\ (p = q.plan \/ \E x \in Prices : price[x].plan = p)}

\* applyEvent: AssignPlanTx and UpdateOrgStripeSubscription, if there is a row
\* or a plan to make one with.  A deletion clears the subscription, n = 0; any
\* other event writes its own.
Reconcile(o, p, c, n) ==
    IF p = NoPlan /\ ~HasRow(o) THEN UNCHANGED <<sub, customer, linked>>
    ELSE /\ sub' = IF p = NoPlan THEN sub ELSE [sub EXCEPT ![o] = p]
         /\ customer' = [customer EXCEPT ![o] = c]
         /\ linked' = [linked EXCEPT ![o] = n]

\* The session is completed: customer.subscription.created.
Pay(s) ==
    /\ s \in sessions /\ sold < MaxPaid
    /\ sold' = sold + 1
    /\ sessions' = sessions \ {s}
    /\ paying' = paying \cup {[id |-> sold + 1, org |-> s.org, cust |-> s.cust, plan |-> s.plan]}
    /\ Reconcile(s.org, PlanOf(s), s.cust, sold + 1)
    /\ doubled' = IF \E q \in paying : q.org = s.org THEN doubled \cup {s.org} ELSE doubled
    /\ unnamed' = IF PlanOf(s) = NoPlan THEN unnamed \cup {s.org} ELSE unnamed
    /\ relinked' = relinked \ {s.org}
    /\ UNCHANGED <<cart, known, created, ended, lapsed, plan, price, custom, edit, edits, raced>>

\* A renewal, a failed payment, a switch in the portal: invoice.paid,
\* invoice.payment_failed, checkout.session.completed, customer.subscription.updated.
Refresh(q) ==
    /\ q \in paying
    /\ \E p \in Resolved(q) : Reconcile(q.org, p, q.cust, q.id)
    /\ relinked' = relinked \ {q.org}
    /\ UNCHANGED <<cart, stripeVars, lapsed, doubled, unnamed, plan, price, custom, edit, edits, raced>>

\* In the portal or the dashboard: customer.subscription.deleted.  Whichever
\* subscription it is, the organization is found by its customer.
Cancel(q) ==
    /\ q \in paying
    /\ paying' = paying \ {q} /\ ended' = ended \cup {q}
    /\ Reconcile(q.org, IF plan[FreePlan].live THEN FreePlan ELSE NoPlan, q.cust, 0)
    /\ relinked' = relinked \ {q.org}
    /\ UNCHANGED <<cart, known, created, sessions, sold, lapsed, doubled, unnamed,
                   plan, price, custom, edit, edits, raced>>

\* An event of a subscription that has ended: one of the second of its
\* deletion, which the watermark lets through after it, or the payment of a
\* last invoice.  With no row and no plan it changes nothing.
Straggle(q) ==
    /\ q \in ended
    /\ \E p \in Resolved(q) : (HasRow(q.org) \/ p # NoPlan) /\ Reconcile(q.org, p, q.cust, q.id)
    /\ relinked' = relinked \cup {q.org}
    /\ UNCHANGED <<cart, stripeVars, lapsed, doubled, unnamed, plan, price, custom, edit, edits, raced>>

SessionExpires(s) ==
    /\ s \in sessions /\ sessions' = sessions \ {s}
    /\ UNCHANGED <<customer, linked, cart, known, created, paying, ended, sold, shopHistory, catVars>>

\* Stripe forgets a key after a day.
KeyLapses(o) ==
    /\ known[o] # 0
    /\ known' = [known EXCEPT ![o] = 0]
    /\ lapsed' = IF Recorded(o) THEN lapsed ELSE lapsed \cup {o}
    /\ UNCHANGED <<customer, linked, cart, created, sessions, paying, ended, sold,
                   doubled, unnamed, relinked, catVars>>

\* The requests of the console that matter to a checkout.
ConsoleAround ==
    \/ \E o \in Orgs, p \in Plans : AssignPlan(o, p)
    \/ \E p \in Plans : UpdatePlan(p, [plan[p] EXCEPT !.public = FALSE])
    \/ \E s \in Staff, x \in Prices : SetPlanPriceActive(s, x, FALSE)
    \/ \E s \in Staff, p \in Plans : DeletePlan(s, p)
    \/ \E s \in Staff : CountRemaining(s) \/ AdminSetPlanPriceActive(s) \/ AdminDeletePlan(s)

NextShop ==
    \/ \E r \in Carts, o \in Orgs : Portal(r, o) \/ \E p \in Plans : StartCheckout(r, o, p)
    \/ \E r \in Carts, x \in Prices : GetActivePlanPrice(r, x)
    \/ \E r \in Carts : \/ GetOrgBillingRef(r) \/ CreateCustomer(r) \/ ClaimOrgStripeCustomer(r)
                        \/ Reread(r) \/ OpenSession(r) \/ GiveUp(r)
    \/ \E s \in sessions : Pay(s) \/ SessionExpires(s)
    \/ \E q \in paying : Refresh(q) \/ Cancel(q)
    \/ \E q \in ended : Straggle(q)
    \/ \E o \in Orgs : KeyLapses(o)

-----------------------------------------------------------------------------
(* Properties *)

\* Customers of an organization that its row, a session or a subscription uses.
CustomersInUse(o) ==
    ({customer[o]} \ {0}) \cup {s.cust : s \in {t \in sessions : t.org = o}}
                          \cup {q.cust : q \in {t \in paying : t.org = o}}

\* Stripe and the database agree.  Whatever requests, assignments, payments,
\* renewals and cancellations overlap, an organization has one customer in use,
\* unless Stripe forgot the key while there was no row to record it in; and
\* stripe_subscription_id is NULL just when it is not paying, and else names
\* what it pays for, unless it bought a second subscription beside the first,
\* or one whose plan was deleted under the session, or the event last applied
\* to its row was one of a subscription that had ended (ensureCustomer,
\* Checkout, updateParams).
BillingAgrees ==
    \A o \in Orgs :
        /\ ~HasRow(o) => customer[o] = 0 /\ linked[o] = 0
        /\ o \notin lapsed => Cardinality(CustomersInUse(o)) <= 1
        /\ o \notin doubled \cup unnamed \cup relinked =>
              {q.id : q \in {t \in paying : t.org = o}} = {linked[o]} \ {0}

=============================================================================
