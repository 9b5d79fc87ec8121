--------------------------- MODULE StripeSyncProofs ---------------------------
(***************************************************************************)
(* Proofs about StripeSync, for any organizations, events, plans and       *)
(* number of deliveries in flight.  LockOK carries the comparison of the   *)
(* watermark from the check to the write, and ClaimOK carries the claim of *)
(* the event to the commit.                                                *)
(***************************************************************************)
EXTENDS StripeSync, TLAPS

LEMMA PlanFact == \A e \in Events : resolvePlan(e) \in Plans \cup {None}
BY BillingAssumption DEF resolvePlan

LEMMA InitIndInv == Init => IndInv
BY BillingAssumption
   DEF Init, IndInv, TypeOK, LockOK, ClaimOK, NewestWinsUnlessRaced,
       NoRowNoEvent, AppliedIsClaimed

\* The steps of a transaction that end it and leave every row as it was.
Closing(w) ==
    Drop(w) \/ (End(w) /\ UNCHANGED <<rowVars, claimed, history>>)

LEMMA ClosingSteps ==
    ASSUME NEW w \in Workers
    PROVE  Unmapped(w) \/ Stale(w) \/ NothingToUpdate(w) \/ Rollback(w)
           => Closing(w) /\ st[w] # "idle"
BY DEF Unmapped, Stale, NothingToUpdate, Rollback, Closing

\* A claim either ends the transaction or takes it one statement on.
LEMMA ClaimCases ==
    ASSUME NEW w \in Workers, ClaimStripeEvent(w)
    PROVE  \/ Closing(w) /\ st[w] # "idle"
           \/ /\ ev[w] \notin claimed /\ st[w] = "claim"
              /\ \A v \in Workers \ {w} : ev[v] = ev[w] => st[v] \in {"idle", "claim"}
              /\ st' = [st EXCEPT ![w] = "resolve"]
              /\ UNCHANGED <<rowVars, claimed, lock, ev, org, saw, history>>
BY DEF ClaimStripeEvent, Closing

LEMMA TypeStep == IndInv /\ [Next]_vars => TypeOK'
<1> SUFFICES ASSUME IndInv, [Next]_vars PROVE TypeOK'
  OBVIOUS
<1>0. TypeOK
  BY DEF IndInv
<1> USE DEF TypeOK
<1>1. ASSUME NEW w \in Workers, NEW e \in Events, HandleWebhook(w, e) PROVE TypeOK'
  BY <1>1, <1>0 DEF HandleWebhook, rowVars, history
<1>2. ASSUME NEW w \in Workers, Closing(w), st[w] # "idle" PROVE TypeOK'
  BY <1>2, <1>0 DEF Closing, Drop, End, rowVars, history
<1>3. ASSUME NEW w \in Workers, ClaimStripeEvent(w) PROVE TypeOK'
  <2>1. CASE Closing(w) /\ st[w] # "idle"
    BY <2>1, <1>2
  <2>2. CASE ~(Closing(w) /\ st[w] # "idle")
    BY <2>2, <1>3, <1>0, ClaimCases DEF rowVars, history
  <2> QED BY <2>1, <2>2
<1>4. ASSUME NEW w \in Workers, Resolve(w) PROVE TypeOK'
  <2>1. resolveOrganization(ev[w]) \subseteq Orgs
    BY <1>4, <1>0, BillingAssumption
       DEF Resolve, resolveOrganization, FindOrgByStripeSubscriptionID,
           FindOrgByStripeCustomerID
  <2> QED BY <2>1, <1>4, <1>0 DEF Resolve, rowVars, history
<1>5. ASSUME NEW w \in Workers, Check(w) PROVE TypeOK'
  BY <1>5, <1>0 DEF Check, rowVars, history
<1>6. ASSUME NEW w \in Workers, CheckNoRow(w) PROVE TypeOK'
  BY <1>6, <1>0 DEF CheckNoRow, rowVars, history
<1>7. ASSUME NEW w \in Workers, Apply(w) PROVE TypeOK'
  <2>1. ev[w] \in Events /\ org[w] \in Orgs /\ ev[w].created \in Nat
        /\ resolvePlan(ev[w]) \in Plans \cup {None}
    BY <1>7, <1>0, PlanFact, BillingAssumption DEF Apply
  <2>2. /\ has' \subseteq Orgs /\ claimed' \subseteq Events
        /\ raced' \subseteq Orgs /\ manual' \subseteq Orgs
    BY <2>1, <1>7, <1>0 DEF Apply
  <2>3. /\ plan' \in [Orgs -> Plans \cup {None}] /\ at' \in [Orgs -> Nat]
        /\ appliedTo' \in [Events -> Orgs \cup {None}]
    BY <2>1, <1>7, <1>0 DEF Apply
  <2>4. End(w) /\ DOMAIN cust' = Orgs /\ DOMAIN sub' = Orgs
    BY <1>7, <1>0 DEF Apply
  <2> QED BY <2>2, <2>3, <2>4, <1>0 DEF End
<1>8. ASSUME NEW o \in Orgs, NEW p \in Plans, AssignPlan(o, p) PROVE TypeOK'
  BY <1>8, <1>0 DEF AssignPlan, txVars
<1>9. ASSUME NEW o \in Orgs, ClaimOrgStripeCustomer(o) PROVE TypeOK'
  BY <1>9, <1>0 DEF ClaimOrgStripeCustomer, txVars, history
<1>10. CASE UNCHANGED vars
  BY <1>10, <1>0 DEF vars, rowVars, txVars, history
<1> QED BY <1>1, <1>2, <1>3, <1>4, <1>5, <1>6, <1>7, <1>8, <1>9, <1>10,
           ClosingSteps DEF Next

\* The lock of a row stands between the check of a transaction and its write.
LEMMA LockStep == IndInv /\ [Next]_vars => LockOK'
<1> SUFFICES ASSUME IndInv, [Next]_vars PROVE LockOK'
  OBVIOUS
<1>0. TypeOK /\ LockOK
  BY DEF IndInv
<1> USE DEF TypeOK, LockOK
<1>1. ASSUME NEW w \in Workers, NEW e \in Events, HandleWebhook(w, e) PROVE LockOK'
  BY <1>1, <1>0, BillingAssumption DEF HandleWebhook, rowVars
\* A transaction ends, having changed no row but one it has the lock of, or
\* one that nobody has.
<1>2. ASSUME NEW w \in Workers, End(w), has \subseteq has',
             \A o \in Orgs : lock[o] \notin {None, w} => at'[o] = at[o]
      PROVE  LockOK'
  <2>1. /\ \A v \in Workers \ {w} : /\ st'[v] = st[v] /\ ev'[v] = ev[v]
                                    /\ org'[v] = org[v] /\ saw'[v] = saw[v]
        /\ st'[w] = "idle" /\ saw'[w] = "none"
        /\ \A o \in Orgs : lock'[o] = IF lock[o] = w THEN None ELSE lock[o]
    BY <1>2, <1>0 DEF End
  <2>2. ASSUME NEW v \in Workers, st'[v] = "apply", saw'[v] = "row"
        PROVE  org'[v] \in has' /\ lock'[org'[v]] = v /\ ev'[v].created >= at'[org'[v]]
    <3>1. v # w /\ st[v] = "apply" /\ saw[v] = "row" /\ org'[v] = org[v] /\ ev'[v] = ev[v]
      BY <2>1, <2>2
    <3>2. org[v] \in has /\ org[v] \in Orgs /\ lock[org[v]] = v
          /\ ev[v].created >= at[org[v]]
      BY <3>1, <1>0
    <3>3. lock[org[v]] \notin {None, w}
      BY <3>1, <3>2, BillingAssumption
    <3> QED BY <3>1, <3>2, <3>3, <2>1, <1>2
  <2>3. ASSUME NEW v \in Workers, saw'[v] = "row" PROVE st'[v] = "apply"
    BY <2>3, <2>1, <1>0
  <2>4. ASSUME NEW o \in Orgs, lock'[o] # None
        PROVE  st'[lock'[o]] = "apply" /\ org'[lock'[o]] = o
    BY <2>4, <2>1, <1>0
  <2> QED BY <2>2, <2>3, <2>4
<1>3. ASSUME NEW w \in Workers, Closing(w) PROVE LockOK'
  BY <1>3, <1>2 DEF Closing, Drop, rowVars
<1>4. ASSUME NEW w \in Workers, ClaimStripeEvent(w) PROVE LockOK'
  <2>1. CASE Closing(w)
    BY <2>1, <1>3
  <2>2. CASE ~Closing(w)
    BY <2>2, <1>4, <1>0, BillingAssumption, ClaimCases DEF rowVars
  <2> QED BY <2>1, <2>2
<1>5. ASSUME NEW w \in Workers, Resolve(w) PROVE LockOK'
  <2>1. /\ \A v \in Workers \ {w} : st'[v] = st[v] /\ org'[v] = org[v]
        /\ st[w] = "resolve" /\ st'[w] = "check"
        /\ UNCHANGED <<has, at, lock, ev, saw>>
    BY <1>5, <1>0 DEF Resolve, rowVars
  <2>2. saw[w] # "row" /\ \A o \in Orgs : lock[o] # w
    BY <2>1, <1>0, BillingAssumption
  <2> QED BY <2>1, <2>2, <1>0
<1>6. ASSUME NEW w \in Workers, Check(w) PROVE LockOK'
  <2>1. /\ \A v \in Workers \ {w} : st'[v] = st[v] /\ saw'[v] = saw[v]
        /\ st[w] = "check" /\ st'[w] = "apply" /\ saw'[w] = "row"
        /\ UNCHANGED <<has, at, org, ev>>
        /\ org[w] \in has /\ org[w] \in Orgs /\ lock[org[w]] = None
        /\ ev[w].created >= at[org[w]]
        /\ lock'[org[w]] = w
        /\ \A o \in Orgs \ {org[w]} : lock'[o] = lock[o]
    BY <1>6, <1>0 DEF Check, rowVars
  <2>2. ASSUME NEW v \in Workers, st'[v] = "apply", saw'[v] = "row"
        PROVE  org'[v] \in has' /\ lock'[org'[v]] = v /\ ev'[v].created >= at'[org'[v]]
    BY <2>1, <2>2, <1>0, BillingAssumption
  <2>3. ASSUME NEW v \in Workers, saw'[v] = "row" PROVE st'[v] = "apply"
    BY <2>3, <2>1, <1>0
  <2>4. ASSUME NEW o \in Orgs, lock'[o] # None
        PROVE  st'[lock'[o]] = "apply" /\ org'[lock'[o]] = o
    BY <2>4, <2>1, <1>0
  <2> QED BY <2>2, <2>3, <2>4
<1>7. ASSUME NEW w \in Workers, CheckNoRow(w) PROVE LockOK'
  <2>1. /\ \A v \in Workers \ {w} : st'[v] = st[v]
        /\ st[w] = "check" /\ st'[w] = "apply"
        /\ UNCHANGED <<has, at, org, ev, lock, saw>>
    BY <1>7, <1>0 DEF CheckNoRow, rowVars
  <2>2. saw[w] # "row" /\ \A o \in Orgs : lock[o] # w
    BY <2>1, <1>0, BillingAssumption
  <2> QED BY <2>1, <2>2, <1>0
<1>8. ASSUME NEW w \in Workers, Apply(w) PROVE LockOK'
  <2>1. /\ End(w) /\ has \subseteq has' /\ lock[org[w]] \in {None, w}
        /\ \A o \in Orgs \ {org[w]} : at'[o] = at[o]
    BY <1>8, <1>0 DEF Apply
  <2> QED BY <2>1, <1>2
<1>9. ASSUME NEW o \in Orgs, NEW p \in Plans, AssignPlan(o, p) PROVE LockOK'
  BY <1>9, <1>0 DEF AssignPlan, txVars
<1>10. ASSUME NEW o \in Orgs, ClaimOrgStripeCustomer(o) PROVE LockOK'
  BY <1>10, <1>0 DEF ClaimOrgStripeCustomer, txVars
<1>11. CASE UNCHANGED vars
  BY <1>11, <1>0 DEF vars, rowVars, txVars
<1> QED BY <1>1, <1>3, <1>4, <1>5, <1>6, <1>7, <1>8, <1>9, <1>10, <1>11,
           ClosingSteps DEF Next

LEMMA ClaimStep == IndInv /\ [Next]_vars => ClaimOK'
<1> SUFFICES ASSUME IndInv, [Next]_vars PROVE ClaimOK'
  OBVIOUS
<1>0. TypeOK /\ ClaimOK
  BY DEF IndInv
<1> USE DEF ClaimOK
<1>1. ASSUME NEW w \in Workers, NEW e \in Events, HandleWebhook(w, e) PROVE ClaimOK'
  BY <1>1, <1>0 DEF HandleWebhook, TypeOK
\* A transaction ends and at most its own event is claimed: past its claim,
\* no other transaction has that event.
<1>2. ASSUME NEW w \in Workers, End(w),
             claimed' = claimed \/ (/\ claimed' = claimed \cup {ev[w]}
                                    /\ st[w] \in {"resolve", "check", "apply"})
      PROVE  ClaimOK'
  <2>1. /\ \A v \in Workers \ {w} : st'[v] = st[v] /\ ev'[v] = ev[v]
        /\ st'[w] = "idle"
    BY <1>2, <1>0 DEF End, TypeOK
  <2>2. ASSUME NEW v \in Workers, st'[v] \in {"resolve", "check", "apply"}
        PROVE  ev'[v] \notin claimed'
    BY <2>1, <2>2, <1>2, <1>0
  <2>3. ASSUME NEW v \in Workers, st'[v] \in {"resolve", "check", "apply"},
               NEW u \in Workers \ {v}, ev'[u] = ev'[v]
        PROVE  st'[u] \in {"idle", "claim"}
    BY <2>1, <2>3, <1>0
  <2> QED BY <2>2, <2>3
<1>3. ASSUME NEW w \in Workers, ClaimStripeEvent(w) PROVE ClaimOK'
  <2>1. CASE End(w) /\ claimed' = claimed
    BY <2>1, <1>2
  <2>2. CASE ~(End(w) /\ claimed' = claimed)
    BY <2>2, <1>3, <1>0 DEF ClaimStripeEvent, TypeOK
  <2> QED BY <2>1, <2>2
<1>4. ASSUME NEW w \in Workers,
             Unmapped(w) \/ Stale(w) \/ NothingToUpdate(w) \/ Rollback(w) \/ Apply(w)
      PROVE  ClaimOK'
  BY <1>4, <1>2 DEF Unmapped, Stale, NothingToUpdate, Rollback, Apply, Drop
<1>5. ASSUME NEW w \in Workers, Resolve(w) \/ Check(w) \/ CheckNoRow(w)
      PROVE  ClaimOK'
  <2>1. /\ \A v \in Workers \ {w} : st'[v] = st[v]
        /\ st[w] \in {"resolve", "check"} /\ st'[w] \in {"check", "apply"}
        /\ UNCHANGED <<ev, claimed>>
    BY <1>5, <1>0 DEF Resolve, Check, CheckNoRow, TypeOK
  <2> QED BY <2>1, <1>0
<1>6. ASSUME NEW o \in Orgs,
             (\E p \in Plans : AssignPlan(o, p)) \/ ClaimOrgStripeCustomer(o)
      PROVE  ClaimOK'
  BY <1>6, <1>0 DEF AssignPlan, ClaimOrgStripeCustomer, txVars
<1>7. CASE UNCHANGED vars
  BY <1>7, <1>0 DEF vars, txVars
<1> QED BY <1>1, <1>3, <1>4, <1>5, <1>6, <1>7 DEF Next

\* The history of the applied events against the rows.
LEMMA RowStep ==
    IndInv /\ [Next]_vars =>
        NewestWinsUnlessRaced' /\ NoRowNoEvent' /\ AppliedIsClaimed'
<1> DEFINE Goal == NewestWinsUnlessRaced /\ NoRowNoEvent /\ AppliedIsClaimed
<1> SUFFICES ASSUME IndInv, [Next]_vars PROVE Goal'
  OBVIOUS
<1>0. TypeOK /\ LockOK /\ Goal
  BY DEF IndInv
<1> USE DEF NewestWinsUnlessRaced, NoRowNoEvent, AppliedIsClaimed
\* A step that is not Apply leaves watermarks and history, and loses nothing.
<1>a. ASSUME UNCHANGED <<at, appliedTo, raced>>, has \subseteq has',
             claimed \subseteq claimed'
      PROVE  Goal'
  BY <1>a, <1>0
<1>1. ASSUME NEW w \in Workers, NEW e \in Events, HandleWebhook(w, e) PROVE Goal'
  BY <1>1, <1>a DEF HandleWebhook, rowVars, history
<1>2. ASSUME NEW w \in Workers,
             \/ ClaimStripeEvent(w) \/ Resolve(w) \/ Check(w) \/ CheckNoRow(w)
             \/ Unmapped(w) \/ Stale(w) \/ NothingToUpdate(w) \/ Rollback(w)
      PROVE  Goal'
  <2>1. UNCHANGED <<rowVars, history>> /\ claimed \subseteq claimed'
    BY <1>2 DEF ClaimStripeEvent, Resolve, Check, CheckNoRow, Unmapped, Stale,
                NothingToUpdate, Rollback, Drop
  <2> QED BY <2>1, <1>a DEF rowVars, history
<1>3. ASSUME NEW w \in Workers, Apply(w) PROVE Goal'
  <2> DEFINE e == ev[w]
             o == org[w]
  <2>1. /\ e \in Events /\ o \in Orgs /\ e.created \in Nat
        /\ has' = has \cup {o} /\ claimed' = claimed \cup {e}
        /\ at' = [at EXCEPT ![o] = e.created]
        /\ appliedTo' = [appliedTo EXCEPT ![e] = o]
        /\ raced' = IF saw[w] = "none" /\ o \in has THEN raced \cup {o} ELSE raced
        /\ st[w] = "apply"
    BY <1>3, <1>0, BillingAssumption DEF Apply, TypeOK
  <2>2. /\ at'[o] = e.created /\ appliedTo'[e] = o
        /\ \A p \in Orgs \ {o} : at'[p] = at[p]
        /\ \A f \in Events \ {e} : appliedTo'[f] = appliedTo[f]
    BY <2>1, <1>0 DEF TypeOK
  <2>3. CASE saw[w] = "row"
    <3>1. e.created >= at[o] /\ at[o] \in Nat
      BY <2>3, <2>1, <1>0 DEF LockOK, TypeOK
    <3>2. ASSUME NEW f \in Events, appliedTo'[f] # None, appliedTo'[f] \notin raced'
          PROVE  f.created <= at'[appliedTo'[f]]
      <4>0. f.created \in Nat
        BY BillingAssumption
      <4>1. CASE f = e
        BY <4>1, <2>2, <2>1
      <4>2. CASE f # e /\ appliedTo[f] = o
        BY <4>0, <4>2, <3>1, <3>2, <2>1, <2>2, <2>3, <1>0
      <4>3. CASE f # e /\ appliedTo[f] # o
        BY <4>3, <3>2, <2>1, <2>2, <2>3, <1>0 DEF TypeOK
      <4> QED BY <4>1, <4>2, <4>3
    <3>3. NoRowNoEvent' /\ AppliedIsClaimed'
      BY <2>1, <2>2, <1>0
    <3> QED BY <3>2, <3>3
  <2>4. CASE saw[w] = "none"
    <3>1. ASSUME NEW f \in Events, appliedTo'[f] # None, appliedTo'[f] \notin raced'
          PROVE  f.created <= at'[appliedTo'[f]]
      <4>1. CASE f = e
        BY <4>1, <2>2, <2>1
      <4>2. CASE f # e
        <5>1. appliedTo[f] # None /\ appliedTo[f] \in has
          BY <4>2, <3>1, <2>2, <1>0
        <5>2. appliedTo[f] # o
          BY <5>1, <4>2, <3>1, <2>1, <2>2, <2>4
        <5> QED BY <5>1, <5>2, <4>2, <3>1, <2>1, <2>2, <1>0 DEF TypeOK
      <4> QED BY <4>1, <4>2
    <3>2. NoRowNoEvent' /\ AppliedIsClaimed'
      BY <2>1, <2>2, <1>0
    <3> QED BY <3>1, <3>2
  <2> QED BY <2>3, <2>4, <1>0 DEF TypeOK
<1>4. ASSUME NEW p \in Orgs, NEW q \in Plans, AssignPlan(p, q) PROVE Goal'
  BY <1>4, <1>a DEF AssignPlan
<1>5. ASSUME NEW p \in Orgs, ClaimOrgStripeCustomer(p) PROVE Goal'
  BY <1>5, <1>a DEF ClaimOrgStripeCustomer, history
<1>6. CASE UNCHANGED vars
  BY <1>6, <1>a DEF vars, rowVars, history
<1> QED BY <1>1, <1>2, <1>3, <1>4, <1>5, <1>6 DEF Next

\* Invariance of the inductive invariant.
THEOREM Invariance == Spec => []IndInv
<1>1. IndInv /\ [Next]_vars => IndInv'
  BY TypeStep, LockStep, ClaimStep, RowStep DEF IndInv
<1> QED BY InitIndInv, <1>1, PTL DEF Spec

\* Where the row was there to be locked, an older event never undoes a newer
\* one, in whatever order and however often Stripe delivers them.
THEOREM NoRegression == Spec => []NewestWinsUnlessRaced
<1>1. IndInv => NewestWinsUnlessRaced
  BY DEF IndInv
<1> QED BY Invariance, <1>1, PTL

\* Every effect of a delivery is in the transaction that claims its event, so
\* a redelivery has none.
THEOREM ExactlyOnce == Spec => EffectOnce
<1> DEFINE Once ==
        \A o \in Orgs :
        (plan'[o] # plan[o] /\ o \notin manual') \/ at'[o] # at[o] \/ sub'[o] # sub[o]
        => \E e \in Events \ claimed : e \in claimed' /\ appliedTo'[e] = o
<1>1. IndInv /\ [Next]_vars => [Once]_vars
  <2> SUFFICES ASSUME IndInv, Next PROVE Once
    OBVIOUS
  <2>0. TypeOK /\ ClaimOK
    BY DEF IndInv
  <2>1. CASE UNCHANGED <<plan, at, sub>>
    BY <2>1
  <2>2. ASSUME NEW p \in Orgs, NEW q \in Plans, AssignPlan(p, q) PROVE Once
    BY <2>2, <2>0 DEF AssignPlan, TypeOK
  <2>3. ASSUME NEW w \in Workers, Apply(w) PROVE Once
    <3>1. /\ ev[w] \in Events /\ ev[w] \notin claimed /\ org[w] \in Orgs
          /\ ev[w] \in claimed' /\ appliedTo'[ev[w]] = org[w]
      BY <2>3, <2>0 DEF Apply, ClaimOK, TypeOK
    <3>2. \A o \in Orgs \ {org[w]} :
            plan'[o] = plan[o] /\ at'[o] = at[o] /\ sub'[o] = sub[o]
      BY <2>3, <2>0, <3>1 DEF Apply, TypeOK
    <3> QED BY <3>1, <3>2
  <2>4. ASSUME NEW w \in Workers,
               \/ \E e \in Events : HandleWebhook(w, e)
               \/ ClaimStripeEvent(w) \/ Resolve(w) \/ Check(w) \/ CheckNoRow(w)
               \/ Unmapped(w) \/ Stale(w) \/ NothingToUpdate(w) \/ Rollback(w)
        PROVE  UNCHANGED <<plan, at, sub>>
    BY <2>4 DEF HandleWebhook, ClaimStripeEvent, Resolve, Check, CheckNoRow,
                Unmapped, Stale, NothingToUpdate, Rollback, Drop, rowVars
  <2>5. ASSUME NEW p \in Orgs, ClaimOrgStripeCustomer(p)
        PROVE  UNCHANGED <<plan, at, sub>>
    BY <2>5 DEF ClaimOrgStripeCustomer
  <2> QED BY <2>1, <2>2, <2>3, <2>4, <2>5 DEF Next
<1> QED BY Invariance, <1>1, PTL DEF Spec, EffectOnce

\* A write by an event with a plan: the event is the newest applied to the
\* row, because the row was locked at the comparison, or is the first one.
LEMMA EntitlementStep ==
    IndInv /\ EntitlementFollowsBilling /\ [Next]_vars => EntitlementFollowsBilling'
<1> SUFFICES ASSUME IndInv, EntitlementFollowsBilling, [Next]_vars
             PROVE  EntitlementFollowsBilling'
  OBVIOUS
<1>0. TypeOK /\ LockOK /\ ClaimOK /\ NewestWinsUnlessRaced /\ NoRowNoEvent /\ AppliedIsClaimed
  BY DEF IndInv
\* What a witness of the property is.
<1> DEFINE Witness(A, e, o, p) ==
              /\ A[e] = o /\ resolvePlan(e) = p
              /\ \A f \in Events : A[f] = o /\ resolvePlan(f) # None => f.created <= e.created
<1>a. \A o \in has \ (raced \cup manual) : \E e \in Events : Witness(appliedTo, e, o, plan[o])
  BY DEF EntitlementFollowsBilling
<1>b. (\A o \in has' \ (raced' \cup manual') : \E e \in Events : Witness(appliedTo', e, o, plan'[o]))
      => EntitlementFollowsBilling'
  BY DEF EntitlementFollowsBilling
<1>1. CASE UNCHANGED <<has, plan, appliedTo, raced, manual>>
  BY <1>1, <1>a, <1>b
<1>2. ASSUME NEW p \in Orgs, NEW q \in Plans, AssignPlan(p, q)
      PROVE  EntitlementFollowsBilling'
  <2>1. ASSUME NEW o \in has' \ (raced' \cup manual')
        PROVE  \E e \in Events : Witness(appliedTo', e, o, plan'[o])
    <3>1. o # p /\ o \in has \ (raced \cup manual) /\ plan'[o] = plan[o] /\ appliedTo' = appliedTo
      BY <1>2, <1>0 DEF AssignPlan, TypeOK
    <3> QED BY <3>1, <1>a
  <2> QED BY <2>1, <1>b
<1>3. ASSUME NEW w \in Workers, Apply(w) PROVE EntitlementFollowsBilling'
  <2> DEFINE e == ev[w]
             o == org[w]
             p == resolvePlan(e)
  <2>1. /\ e \in Events /\ o \in Orgs /\ e.created \in Nat
        /\ has' = has \cup {o} /\ appliedTo[e] = None
        /\ saw[w] = "row" \/ p # None
        /\ raced' = IF saw[w] = "none" /\ o \in has THEN raced \cup {o} ELSE raced
        /\ manual' = IF p = None THEN manual ELSE manual \ {o}
    BY <1>3, <1>0, BillingAssumption DEF Apply, TypeOK, ClaimOK, AppliedIsClaimed
  <2>2. /\ appliedTo'[e] = o /\ \A f \in Events \ {e} : appliedTo'[f] = appliedTo[f]
        /\ \A x \in Orgs \ {o} : plan'[x] = plan[x]
        /\ plan'[o] = IF p = None THEN plan[o] ELSE p
    BY <1>3, <2>1, <1>0 DEF Apply, TypeOK
  <2>3. ASSUME NEW x \in has' \ (raced' \cup manual'), x # o \/ p = None
        PROVE  \E d \in Events : Witness(appliedTo', d, x, plan'[x])
    <3>0. x \in Orgs BY <2>1, <2>3, <1>0 DEF TypeOK
    <3>1. x \in has \ (raced \cup manual) /\ plan'[x] = plan[x]
      BY <2>1, <2>2, <2>3, <3>0, <1>0 DEF LockOK
    <3>2. PICK d \in Events : Witness(appliedTo, d, x, plan[x])
      BY <3>1, <1>a
    <3>3. x # None BY <3>0, BillingAssumption
    <3>4. d # e BY <2>1, <3>2, <3>3
    <3>5. ASSUME NEW f \in Events, appliedTo'[f] = x, resolvePlan(f) # None
          PROVE  f.created <= d.created
      BY <2>2, <2>3, <3>2, <3>5
    <3> QED BY <2>2, <3>1, <3>2, <3>4, <3>5
  <2>4. ASSUME p # None, o \notin raced', NEW f \in Events, appliedTo'[f] = o
        PROVE  f.created <= e.created
    <3>0. f.created \in Nat BY BillingAssumption
    <3>1. CASE f = e BY <3>0, <3>1
    <3>2. CASE f # e /\ saw[w] = "row"
      <4>1. appliedTo[f] = o /\ o # None /\ o \notin raced
        BY <2>1, <2>2, <2>4, <3>2, BillingAssumption
      <4>2. f.created <= at[o] BY <4>1, <1>0 DEF NewestWinsUnlessRaced
      <4>3. at[o] <= e.created /\ at[o] \in Nat
        BY <1>3, <2>1, <3>2, <1>0 DEF LockOK, Apply, TypeOK
      <4> QED BY <3>0, <2>1, <4>2, <4>3
    <3>3. CASE f # e /\ saw[w] # "row"
      <4>1. appliedTo[f] = o /\ o \in has
        BY <2>1, <2>2, <2>4, <3>3, BillingAssumption, <1>0 DEF NoRowNoEvent
      <4>2. saw[w] = "none" BY <3>3, <1>0 DEF TypeOK
      <4> QED BY <4>1, <4>2, <2>1, <2>4
    <3> QED BY <3>1, <3>2, <3>3
  <2>5. ASSUME p # None, o \notin raced'
        PROVE  \E d \in Events : Witness(appliedTo', d, o, plan'[o])
    BY <2>1, <2>2, <2>4, <2>5
  <2>6. ASSUME NEW x \in has' \ (raced' \cup manual')
        PROVE  \E d \in Events : Witness(appliedTo', d, x, plan'[x])
    BY <2>3, <2>5, <2>6
  <2> QED BY <2>6, <1>b
<1>4. ASSUME NEW w \in Workers,
             \/ \E e \in Events : HandleWebhook(w, e)
             \/ ClaimStripeEvent(w) \/ Resolve(w) \/ Check(w) \/ CheckNoRow(w)
             \/ Unmapped(w) \/ Stale(w) \/ NothingToUpdate(w) \/ Rollback(w)
      PROVE  UNCHANGED <<has, plan, appliedTo, raced, manual>>
  BY <1>4 DEF HandleWebhook, ClaimStripeEvent, Resolve, Check, CheckNoRow,
              Unmapped, Stale, NothingToUpdate, Rollback, Drop, rowVars, history
<1>5. ASSUME NEW p \in Orgs, ClaimOrgStripeCustomer(p)
      PROVE  UNCHANGED <<has, plan, appliedTo, raced, manual>>
  BY <1>5 DEF ClaimOrgStripeCustomer, history
<1>6. CASE UNCHANGED vars
  BY <1>6, <1>1 DEF vars, rowVars, history
<1> QED BY <1>1, <1>2, <1>3, <1>4, <1>5, <1>6 DEF Next

\* What an organization is entitled to is what its newest event with a plan
\* says, unless the console set it later (applyEvent, resolvePlan,
\* AssignPlanTx).
THEOREM Entitlement == Spec => []EntitlementFollowsBilling
<1>1. Init => EntitlementFollowsBilling
  BY DEF Init, EntitlementFollowsBilling
<1> QED BY Invariance, EntitlementStep, <1>1, PTL DEF Spec

\* Whatever metadata, lookups and interleavings decided, the write lands on no
\* row but the one that owns the event's customer and subscription, if any
\* does: for every set of events, organizations and workers.
THEOREM Isolation == Spec => TenantIsolation
<1> DEFINE Isolated ==
        \A e \in Events : appliedTo[e] = None /\ appliedTo'[e] # None =>
            \A o \in has \ {appliedTo'[e]} :
                /\ e.cust # None => cust[o] # e.cust
                /\ e.sub # None /\ ~Cancelled(e) => sub[o] # e.sub
<1>1. IndInv /\ [Next]_vars => [Isolated]_vars
  <2> SUFFICES ASSUME IndInv, Next, NEW e \in Events, appliedTo[e] = None, appliedTo'[e] # None,
                      NEW o \in has \ {appliedTo'[e]}
               PROVE  /\ e.cust # None => cust[o] # e.cust
                      /\ e.sub # None /\ ~Cancelled(e) => sub[o] # e.sub
    OBVIOUS
  <2>1. PICK w \in Workers : Apply(w)
    BY DEF Next, HandleWebhook, ClaimStripeEvent, Resolve, Unmapped, Check, Stale, CheckNoRow,
           NothingToUpdate, Rollback, AssignPlan, ClaimOrgStripeCustomer, Drop, history
  <2>2. e = ev[w] /\ appliedTo'[e] = org[w]
    BY <2>1 DEF Apply, IndInv, TypeOK
  <2>3. Unique(NewCust(e, org[w]), NewSub(e, org[w]), org[w])
    BY <2>1, <2>2 DEF Apply
  <2>4. o \in has \ {org[w]}
    BY <2>2
  <2> QED BY <2>3, <2>4 DEF Unique, NewCust, NewSub
<1> QED BY <1>1, Invariance, PTL DEF Spec, TenantIsolation

=============================================================================
