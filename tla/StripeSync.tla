----------------------------- MODULE StripeSync -----------------------------
(***************************************************************************)
(* Reconciliation of Stripe webhooks onto org_subscriptions.  A delivery   *)
(* is one READ COMMITTED transaction: it claims the event id, finds the    *)
(* organization, takes the row FOR UPDATE and compares the watermark, and  *)
(* writes the plan and the Stripe linkage.  Deliveries of several events,  *)
(* and of one event several times, are in flight at once, in any order,    *)
(* beside the superadmin's plan assignment and the claim of a customer id  *)
(* at checkout.                                                            *)
(*                                                                         *)
(* What a transaction writes is seen by others when it commits, so its     *)
(* writes are one step with the commit.  Events are verified and of a      *)
(* handled type.  Not modelled: status, current_period_end and             *)
(* cancel_at_period_end, which follow the watermark like the linkage and   *)
(* decide nothing, custom_limits, which no step here touches, and the      *)
(* audit record written after the commit.                                  *)
(***************************************************************************)
EXTENDS Naturals, FiniteSets

CONSTANTS
    Orgs, Workers,
    Events,         \* records [kind, org, cust, sub, price, plan, created]
    Plans, Free,    \* plans of the catalogue; the plan named "free"
    Catalogue,      \* plan_prices: Stripe price -> plan
    CustomerOf,     \* the customer Stripe creates for an organization
    None

Kinds == {"checkout", "subscription", "deleted", "invoice"}

ASSUME BillingAssumption ==
    /\ None \notin Orgs \cup Workers \cup Plans \cup DOMAIN Catalogue
    /\ \A e \in Events : /\ e.kind \in Kinds
                         /\ e.org \in Orgs \cup {None}
                         /\ e.created \in Nat \ {0}
    /\ \A p \in DOMAIN Catalogue : Catalogue[p] \in Plans

VARIABLES
    has,        \* organizations with an org_subscriptions row
    plan,       \* plan_id
    cust, sub,  \* stripe_customer_id and stripe_subscription_id
    at,         \* stripe_event_at, 0 for NULL
    claimed,    \* stripe_events
    lock,       \* the transaction that holds the lock of a row
    st,         \* the next statement of a transaction
    ev, org,    \* its event, and the organization it resolved
    saw,        \* "row" or "none": whether the check found a row
    appliedTo,  \* history: the row an event was applied to
    raced,      \* history: rows written by a transaction that saw none
    manual      \* history: rows whose plan the console set last

rowVars == <<has, plan, cust, sub, at>>
txVars == <<st, ev, org, saw>>
history == <<appliedTo, raced, manual>>
vars == <<rowVars, claimed, lock, txVars, history>>

Cancelled(e) == e.kind = "deleted"

\* The Price is on the subscription object alone.
PriceID(e) == IF e.kind \in {"subscription", "deleted"} THEN e.price ELSE None

\* An invoice has a frozen copy of the metadata; its plan is not read.
PlanID(e) == IF e.kind = "invoice" THEN None ELSE e.plan

resolvePlan(e) ==
    IF Cancelled(e) THEN IF Free \in Plans THEN Free ELSE None
    ELSE IF PriceID(e) \in DOMAIN Catalogue THEN Catalogue[PriceID(e)]
    ELSE IF PlanID(e) \in Plans THEN PlanID(e) ELSE None

FindOrgByStripeSubscriptionID(e) == {o \in has : e.sub # None /\ sub[o] = e.sub}

FindOrgByStripeCustomerID(e) == {o \in has : e.cust # None /\ cust[o] = e.cust}

\* The organization of an event, as a set of at most one.
resolveOrganization(e) ==
    IF FindOrgByStripeSubscriptionID(e) # {} THEN FindOrgByStripeSubscriptionID(e)
    ELSE IF FindOrgByStripeCustomerID(e) # {} THEN FindOrgByStripeCustomerID(e)
    ELSE {e.org} \ {None}

Init ==
    /\ has = {}
    /\ plan = [o \in Orgs |-> None]
    /\ cust = [o \in Orgs |-> None]
    /\ sub = [o \in Orgs |-> None]
    /\ at = [o \in Orgs |-> 0]
    /\ claimed = {}
    /\ lock = [o \in Orgs |-> None]
    /\ st = [w \in Workers |-> "idle"]
    /\ ev = [w \in Workers |-> None]
    /\ org = [w \in Workers |-> None]
    /\ saw = [w \in Workers |-> "none"]
    /\ appliedTo = [e \in Events |-> None]
    /\ raced = {}
    /\ manual = {}

-----------------------------------------------------------------------------
(* The transaction of one delivery *)

\* The end of a transaction, committed or not: its locks go.
End(w) ==
    /\ st' = [st EXCEPT ![w] = "idle"]
    /\ ev' = [ev EXCEPT ![w] = None]
    /\ org' = [org EXCEPT ![w] = None]
    /\ saw' = [saw EXCEPT ![w] = "none"]
    /\ lock' = [o \in Orgs |-> IF lock[o] = w THEN None ELSE lock[o]]

\* A delivery of an event, the first or any later one.
HandleWebhook(w, e) ==
    /\ st[w] = "idle"
    /\ st' = [st EXCEPT ![w] = "claim"]
    /\ ev' = [ev EXCEPT ![w] = e]
    /\ UNCHANGED <<rowVars, claimed, lock, org, saw, history>>

\* Mutant: a conflict on the id is not looked at.
ClaimIgnoresReplay(w) ==
    /\ st[w] = "claim"
    /\ st' = [st EXCEPT ![w] = "resolve"]
    /\ UNCHANGED <<rowVars, claimed, lock, ev, org, saw, history>>

\* The insert waits for a transaction in progress that has the same id, and
\* finds a conflict if that one commits.
ClaimStripeEvent(w) ==
    /\ st[w] = "claim"
    /\ \A v \in Workers \ {w} : ev[v] = ev[w] => st[v] \in {"idle", "claim"}
    /\ \/ /\ ev[w] \in claimed
          /\ End(w)
       \/ /\ ev[w] \notin claimed
          /\ st' = [st EXCEPT ![w] = "resolve"]
          /\ UNCHANGED <<ev, org, saw, lock>>
    /\ UNCHANGED <<rowVars, claimed, history>>

\* (nil, nil) of applyEvent: commit the claim and nothing else.
Drop(w) ==
    /\ claimed' = claimed \cup {ev[w]}
    /\ End(w)
    /\ UNCHANGED <<rowVars, history>>

Resolve(w) ==
    /\ st[w] = "resolve"
    /\ \E o \in resolveOrganization(ev[w]) :
        /\ org' = [org EXCEPT ![w] = o]
        /\ st' = [st EXCEPT ![w] = "check"]
    /\ UNCHANGED <<rowVars, claimed, lock, ev, saw, history>>

\* No tenant: logged and dropped.
Unmapped(w) ==
    /\ st[w] = "resolve"
    /\ resolveOrganization(ev[w]) = {}
    /\ Drop(w)

\* Mutant: a plain SELECT in place of FOR UPDATE.
CheckUnlocked(w) ==
    /\ st[w] = "check"
    /\ org[w] \in has
    /\ ev[w].created >= at[org[w]]
    /\ st' = [st EXCEPT ![w] = "apply"]
    /\ saw' = [saw EXCEPT ![w] = "row"]
    /\ UNCHANGED <<rowVars, claimed, lock, ev, org, history>>

\* GetOrgBillingSyncForUpdate finds the row, waits for its lock and keeps it.
Check(w) ==
    /\ st[w] = "check"
    /\ org[w] \in has /\ lock[org[w]] = None
    /\ ev[w].created >= at[org[w]]
    /\ lock' = [lock EXCEPT ![org[w]] = w]
    /\ st' = [st EXCEPT ![w] = "apply"]
    /\ saw' = [saw EXCEPT ![w] = "row"]
    /\ UNCHANGED <<rowVars, claimed, ev, org, history>>

\* Strictly older than what is stored.
Stale(w) ==
    /\ st[w] = "check"
    /\ org[w] \in has /\ lock[org[w]] = None
    /\ ev[w].created < at[org[w]]
    /\ Drop(w)

\* pgx.ErrNoRows: there is nothing to lock.
CheckNoRow(w) ==
    /\ st[w] = "check"
    /\ org[w] \notin has
    /\ st' = [st EXCEPT ![w] = "apply"]
    /\ UNCHANGED <<rowVars, claimed, lock, ev, org, saw, history>>

\* No plan to create a row with, and none was there at the check.
NothingToUpdate(w) ==
    /\ st[w] = "apply"
    /\ saw[w] = "none" /\ resolvePlan(ev[w]) = None
    /\ Drop(w)

NewCust(e, o) == IF e.cust # None THEN e.cust ELSE cust[o]

NewSub(e, o) ==
    IF Cancelled(e) THEN None ELSE IF e.sub # None THEN e.sub ELSE sub[o]

\* Mutant: no index.
NoIndex(c, s, o) == TRUE

\* The partial unique indexes on the two linkage columns.
Unique(c, s, o) ==
    \A p \in has \ {o} : /\ c # None => cust[p] # c
                         /\ s # None => sub[p] # s

\* AssignPlanTx and UpdateOrgStripeSubscription, and the commit.  The upsert
\* waits for the lock of a row that appeared since the check.
Apply(w) ==
    LET e == ev[w]
        o == org[w]
        p == resolvePlan(e)
    IN  /\ st[w] = "apply"
        /\ saw[w] = "row" \/ p # None
        /\ lock[o] \in {None, w}
        /\ Unique(NewCust(e, o), NewSub(e, o), o)
        /\ has' = has \cup {o}
        /\ plan' = IF p = None THEN plan ELSE [plan EXCEPT ![o] = p]
        /\ cust' = [cust EXCEPT ![o] = NewCust(e, o)]
        /\ sub' = [sub EXCEPT ![o] = NewSub(e, o)]
        /\ at' = [at EXCEPT ![o] = e.created]
        /\ claimed' = claimed \cup {e}
        /\ appliedTo' = [appliedTo EXCEPT ![e] = o]
        /\ raced' = IF saw[w] = "none" /\ o \in has THEN raced \cup {o} ELSE raced
        /\ manual' = IF p = None THEN manual ELSE manual \ {o}
        /\ End(w)

\* A statement or the commit fails, a unique index refuses the write, or the
\* process dies: everything is undone, and Stripe is not answered with 2xx.
Rollback(w) ==
    /\ st[w] # "idle"
    /\ End(w)
    /\ UNCHANGED <<rowVars, claimed, history>>

-----------------------------------------------------------------------------
(* The other writers of the row *)

\* POST /admin/organizations/:orgId/plan.
AssignPlan(o, p) ==
    /\ lock[o] = None
    /\ has' = has \cup {o}
    /\ plan' = [plan EXCEPT ![o] = p]
    /\ manual' = manual \cup {o}
    /\ UNCHANGED <<cust, sub, at, claimed, lock, txVars, appliedTo, raced>>

\* The end of ensureCustomer: the claim is conditional, whatever was read
\* before it.
ClaimOrgStripeCustomer(o) ==
    /\ o \in has /\ lock[o] = None
    /\ cust[o] = None
    /\ Unique(CustomerOf[o], None, o)
    /\ cust' = [cust EXCEPT ![o] = CustomerOf[o]]
    /\ UNCHANGED <<has, plan, sub, at, claimed, lock, txVars, history>>

Next ==
    \/ \E w \in Workers :
        \/ \E e \in Events : HandleWebhook(w, e)
        \/ ClaimStripeEvent(w)
        \/ Resolve(w)
        \/ Unmapped(w)
        \/ Check(w)
        \/ Stale(w)
        \/ CheckNoRow(w)
        \/ NothingToUpdate(w)
        \/ Apply(w)
        \/ Rollback(w)
    \/ \E o \in Orgs : \E p \in Plans : AssignPlan(o, p)
    \/ \E o \in Orgs : ClaimOrgStripeCustomer(o)

Spec == Init /\ [][Next]_vars

-----------------------------------------------------------------------------
(* Properties *)

TypeOK ==
    /\ has \subseteq Orgs
    /\ plan \in [Orgs -> Plans \cup {None}]
    /\ DOMAIN cust = Orgs /\ DOMAIN sub = Orgs
    /\ at \in [Orgs -> Nat]
    /\ claimed \subseteq Events
    /\ lock \in [Orgs -> Workers \cup {None}]
    /\ st \in [Workers -> {"idle", "claim", "resolve", "check", "apply"}]
    /\ ev \in [Workers -> Events \cup {None}]
    /\ org \in [Workers -> Orgs \cup {None}]
    /\ saw \in [Workers -> {"row", "none"}]
    /\ appliedTo \in [Events -> Orgs \cup {None}]
    /\ raced \subseteq Orgs /\ manual \subseteq Orgs
    /\ \A w \in Workers :
        /\ st[w] # "idle" => ev[w] \in Events
        /\ st[w] \in {"check", "apply"} => org[w] \in Orgs

\* A transaction that compared the watermark of a row holds its lock until
\* it writes, and the event is still not older than the row.
LockOK ==
    /\ \A w \in Workers : st[w] = "apply" /\ saw[w] = "row" =>
        /\ org[w] \in has
        /\ lock[org[w]] = w
        /\ ev[w].created >= at[org[w]]
    /\ \A w \in Workers : saw[w] = "row" => st[w] = "apply"
    /\ \A o \in Orgs : lock[o] # None => st[lock[o]] = "apply" /\ org[lock[o]] = o

\* stripe_event_at is the time of the newest event applied to the row, for
\* every row that no transaction wrote which had found no row to lock:
\* replays, reordering, rollbacks and the console do not make an older event
\* undo a newer one.
NewestWinsUnlessRaced ==
    \A e \in Events :
        appliedTo[e] # None /\ appliedTo[e] \notin raced =>
            e.created <= at[appliedTo[e]]

\* An organization without a row has had no event.
NoRowNoEvent ==
    \A e \in Events : appliedTo[e] # None => appliedTo[e] \in has

\* An event is applied and claimed in one transaction: no retry of an event
\* that is done, and no event marked done by a delivery that failed.
AppliedIsClaimed == \A e \in Events : appliedTo[e] # None => e \in claimed

\* The event of a transaction past its claim is not done yet, and no other
\* transaction is past the claim of the same event.
ClaimOK ==
    \A w \in Workers : st[w] \in {"resolve", "check", "apply"} =>
        /\ ev[w] \notin claimed
        /\ \A v \in Workers \ {w} : ev[v] = ev[w] => st[v] \in {"idle", "claim"}

\* The inductive invariant behind NewestWinsUnlessRaced and EffectOnce.
IndInv ==
    TypeOK /\ LockOK /\ ClaimOK /\ NewestWinsUnlessRaced /\ NoRowNoEvent
    /\ AppliedIsClaimed

\* What an organization is entitled to is what its newest event with a plan
\* says, unless the console set it later: an invoice, a replay or a late
\* event never moves it back.
EntitlementFollowsBilling ==
    \A o \in has \ (raced \cup manual) :
        \E e \in Events :
            /\ appliedTo[e] = o /\ resolvePlan(e) = plan[o]
            /\ \A f \in Events :
                appliedTo[f] = o /\ resolvePlan(f) # None => f.created <= e.created

\* A delivery changes a row only in the transaction that claims its event: a
\* replay, at once or much later, does not undo what the console or another
\* event did since.
EffectOnce ==
    [][\A o \in Orgs :
        (plan'[o] # plan[o] /\ o \notin manual') \/ at'[o] # at[o] \/ sub'[o] # sub[o]
        => \E e \in Events \ claimed : e \in claimed' /\ appliedTo'[e] = o]_vars

\* An event that carries the identifiers recorded for one tenant is never
\* applied to another, whatever its metadata says and whatever was recorded
\* between its lookup and its write.  A cancellation writes no subscription
\* id, so what keeps it from another tenant's row is its customer.
TenantIsolation ==
    [][\A e \in Events : appliedTo[e] = None /\ appliedTo'[e] # None =>
            \A o \in has \ {appliedTo'[e]} :
                /\ e.cust # None => cust[o] # e.cust
                /\ e.sub # None /\ ~Cancelled(e) => sub[o] # e.sub]_vars

=============================================================================
