--------------------------- MODULE PlanCatalogue ---------------------------
(***************************************************************************)
(* The plans, their Stripe prices and the organizations' subscriptions: the *)
(* console's requests that create, change and retire them, and what tenants *)
(* and checkout read.                                                       *)
(*                                                                          *)
(* A request that reads and then writes is modelled statement by statement, *)
(* the others as their one write.  A price belongs to a group, its currency *)
(* and interval.  Limits are a function from keys to numbers, -1 being      *)
(* unlimited; the custom limits of an organization overlay its plan's.      *)
(***************************************************************************)
EXTENDS Integers, FiniteSets

CONSTANTS
    Orgs, Plans, Prices, Groups, GroupOf(_),
    Seeded, SeedLimits,       \* plans cmd/seed puts there
    LimitKeys, LimitValues,   \* limits staff may set
    Staff,                    \* console requests that can be in progress
    MaxEdits                  \* bound: console requests

ASSUME CatalogueAssumption ==
    /\ \A x \in Prices : GroupOf(x) \in Groups
    /\ "max_members" \in LimitKeys
    /\ Seeded \subseteq Plans /\ "none" \notin Plans /\ SeedLimits \in [LimitKeys -> Int]
    /\ LimitValues \subseteq Int /\ MaxEdits \in Nat

VARIABLES
    plan,     \* plans: exists, limits, is_public
    price,    \* plan_prices: plan and active; without a plan it is no row
    sub,      \* org_subscriptions.plan_id
    custom,   \* org_subscriptions.custom_limits
    edit,     \* a console request between two statements
    edits,    \* requests so far
    raced     \* history: two requests on one plan overlapped

catVars == <<plan, price, sub, custom, edit, edits, raced>>

NoPlan == "none"
NoEdit == [op |-> "idle"]
Unlimited == -1

NoLimits == [k \in {} |-> 0]

PartialLimits == UNION {[K -> LimitValues] : K \in SUBSET LimitKeys}

GonePlan == [live |-> FALSE, limits |-> NoLimits, public |-> FALSE]

UpsertPlan(p) ==
    IF p \in Seeded THEN [live |-> TRUE, limits |-> SeedLimits, public |-> TRUE] ELSE GonePlan

InitCatalogue ==
    /\ plan = [p \in Plans |-> UpsertPlan(p)]
    /\ price = [x \in Prices |-> [plan |-> NoPlan, active |-> FALSE]]
    /\ sub = [o \in Orgs |-> NoPlan] /\ custom = [o \in Orgs |-> NoLimits]
    /\ edit = [s \in Staff |-> NoEdit] /\ edits = 0 /\ raced = FALSE

-----------------------------------------------------------------------------
(* What tenants and checkout read *)

ListPublicPlans == {p \in Plans : plan[p].live /\ plan[p].public}

\* GetActivePlanPrice finds a row, so checkout can sell the plan.
Purchasable(p, g) == \E x \in Prices : price[x].plan = p /\ price[x].active /\ GroupOf(x) = g

Overlay(over, limits) ==
    [k \in DOMAIN over \cup DOMAIN limits |-> IF k \in DOMAIN over THEN over[k] ELSE limits[k]]

\* GetOrgSubscriptionWithPlan, the custom limits over the plan's; no
\* subscription means no limits.
EffectiveLimits(o) ==
    IF sub[o] = NoPlan THEN NoLimits ELSE Overlay(custom[o], plan[sub[o]].limits)

\* Mutant: a count that has reached the limit passes.
EnforceLimitLate(o, k, count) ==
    LET l == EffectiveLimits(o)
    IN  k \in DOMAIN l => l[k] = Unlimited \/ count <= l[k]

EnforceLimit(o, k, count) ==
    LET l == EffectiveLimits(o)
    IN  k \in DOMAIN l => l[k] = Unlimited \/ count < l[k]

-----------------------------------------------------------------------------
(* The console's plan routes *)

Edit == edits < MaxEdits /\ edits' = edits + 1

\* requiredPlanLimitKeys: all of them, and whole numbers.
validatePlanLimits(l) == DOMAIN l = LimitKeys

\* The body of a create or a full update; absent is_public means public.
PlanBody == {[live |-> TRUE, limits |-> l, public |-> b] :
                l \in {f \in PartialLimits : validatePlanLimits(f)}, b \in BOOLEAN}

Pending(p) == {s \in Staff : edit[s] # NoEdit /\ edit[s].plan = p}

\* Under an id no request knows yet.
CreatePlan(p, body) ==
    /\ Edit /\ ~plan[p].live /\ Pending(p) = {}
    /\ plan' = [plan EXCEPT ![p] = body]
    /\ UNCHANGED <<price, sub, custom, edit, raced>>

UpdatePlan(p, body) ==
    /\ Edit /\ plan[p].live
    /\ plan' = [plan EXCEPT ![p] = body]
    /\ raced' = (raced \/ (body.public /\ Pending(p) # {}))
    /\ UNCHANGED <<price, sub, custom, edit>>

\* A Stripe price is recorded once and belongs to its plan from then on.
CreatePlanPrice(x, p, active) ==
    /\ Edit /\ plan[p].live /\ price[x].plan = NoPlan
    /\ price' = [price EXCEPT ![x] = [plan |-> p, active |-> active]]
    /\ UNCHANGED <<plan, sub, custom, edit, raced>>

\* AdminGetPlanByID and AdminGetPlanPrice.
SetPlanPriceActive(s, x, active) ==
    /\ Edit /\ edit[s] = NoEdit /\ price[x].plan # NoPlan
    /\ LET p == price[x].plan
           check == ~active /\ price[x].active /\ plan[p].public
       IN /\ edit' = [edit EXCEPT ![s] = [op |-> IF check THEN "count" ELSE "price",
                                          plan |-> p, price |-> x, active |-> active]]
          /\ raced' = (raced \/ Pending(p) # {})
    /\ UNCHANGED <<plan, price, sub, custom>>

\* Mutant: the active prices of every currency and interval are counted.
AdminCountActivePlanPricesForAny(x) ==
    Cardinality({y \in Prices : price[y].plan = price[x].plan /\ price[y].active})

AdminCountActivePlanPricesFor(x) ==
    Cardinality({y \in Prices : /\ price[y].plan = price[x].plan /\ price[y].active
                                /\ GroupOf(y) = GroupOf(x)})

\* PLAN_PRICE_LAST_ACTIVE, or on to the write.
CountRemaining(s) ==
    /\ edit[s].op = "count"
    /\ edit' = [edit EXCEPT ![s] = IF AdminCountActivePlanPricesFor(edit[s].price) <= 1
                                   THEN NoEdit ELSE [@ EXCEPT !.op = "price"]]
    /\ UNCHANGED <<plan, price, sub, custom, edits, raced>>

AdminSetPlanPriceActive(s) ==
    /\ edit[s].op = "price"
    /\ price' = IF price[edit[s].price].plan = edit[s].plan
                THEN [price EXCEPT ![edit[s].price].active = edit[s].active] ELSE price
    /\ edit' = [edit EXCEPT ![s] = NoEdit]
    /\ UNCHANGED <<plan, sub, custom, edits, raced>>

AdminCountSubscriptionsByPlan(p) == Cardinality({o \in Orgs : sub[o] = p})

\* The plan exists and is not in use.
DeletePlan(s, p) ==
    /\ Edit /\ edit[s] = NoEdit /\ plan[p].live
    /\ AdminCountSubscriptionsByPlan(p) = 0
    /\ edit' = [edit EXCEPT ![s] = [op |-> "delete", plan |-> p]]
    /\ UNCHANGED <<plan, price, sub, custom, raced>>

\* The foreign key of org_subscriptions, which refuses the delete.
Referenced(p) == \E o \in Orgs : sub[o] = p

\* The prices go with the plan.
AdminDeletePlan(s) ==
    /\ edit[s].op = "delete"
    /\ LET p == edit[s].plan IN
       IF Referenced(p) THEN UNCHANGED <<plan, price>>
       ELSE /\ plan' = [plan EXCEPT ![p] = GonePlan]
            /\ price' = [x \in Prices |-> IF price[x].plan = p
                                          THEN [plan |-> NoPlan, active |-> FALSE]
                                          ELSE price[x]]
    /\ edit' = [edit EXCEPT ![s] = NoEdit]
    /\ UNCHANGED <<sub, custom, edits, raced>>

\* UpsertOrgSubscription leaves the custom limits alone; a plan that does
\* not exist is refused by the foreign key.
AssignPlan(o, p) ==
    /\ Edit /\ plan[p].live
    /\ sub' = [sub EXCEPT ![o] = p]
    /\ UNCHANGED <<plan, price, custom, edit, raced>>

\* An update of the subscription's row, which must exist.
SetOrgLimits(o, l) ==
    /\ Edit /\ sub[o] # NoPlan
    /\ custom' = [custom EXCEPT ![o] = l]
    /\ UNCHANGED <<plan, price, sub, edit, raced>>

NextCatalogue ==
    \/ \E p \in Plans, b \in PlanBody : CreatePlan(p, b) \/ UpdatePlan(p, b)
    \/ \E x \in Prices, p \in Plans, a \in BOOLEAN : CreatePlanPrice(x, p, a)
    \/ \E s \in Staff, x \in Prices, a \in BOOLEAN : SetPlanPriceActive(s, x, a)
    \/ \E s \in Staff : CountRemaining(s) \/ AdminSetPlanPriceActive(s) \/ AdminDeletePlan(s)
    \/ \E s \in Staff, p \in Plans : DeletePlan(s, p)
    \/ \E o \in Orgs, p \in Plans : AssignPlan(o, p)
    \/ \E o \in Orgs, l \in PartialLimits : SetOrgLimits(o, l)

-----------------------------------------------------------------------------
(* Properties *)

\* The variables have their types, and every subscription has a plan that
\* exists, whatever deletions and assignments overlap (DeletePlan).
CatalogueInv ==
    /\ \A p \in Plans : plan[p].live => validatePlanLimits(plan[p].limits)
    /\ \A x \in Prices : price[x].plan = NoPlan \/ plan[price[x].plan].live
    /\ \A o \in Orgs : IF sub[o] = NoPlan THEN custom[o] = NoLimits ELSE plan[sub[o]].live

\* Deactivating a price never leaves a public plan on offer that nobody can
\* buy: a group that had an active price keeps one while the plan stays
\* public, unless two requests on the plan overlapped (SetPlanPriceActive).
StaysPurchasable ==
    [][\A p \in ListPublicPlans \cap ListPublicPlans', g \in Groups :
          Purchasable(p, g) => Purchasable(p, g)' \/ raced]_catVars

=============================================================================
