----------------------------- MODULE MCTenancy -----------------------------
(* The tenants' requests, the console's plan routes, its staff routes, its   *)
(* lists and checkout touch different state, but for the plans: a behaviour  *)
(* is about one of the five.                                                 *)
EXTENDS Tenancy, StaffConsole, ConsoleReads, Checkout, TLC

VARIABLE focus

MCGroupOf(x) == IF x = "x3" THEN "g2" ELSE "g1"
MCRoleOrg(r) == IF r = "r2" THEN "o2" ELSE "o1"
MCLimitValues == {2, Unlimited}

\* Bound: impersonation tokens alive and runs of cmd/grantadmin, together.
MaxOutside == 1

vars == <<catVars, tenVars, staffVars, readVars, shopVars, focus>>

\* Two rows a list, which differ in every field it filters by.
MCRows(l) ==
    CASE l = "organizations" -> {[texts |-> {"a"}], [texts |-> {"a", "b"}]}
      [] l = "users" -> {[texts |-> {"a"}, role |-> Nil, banned |-> "true"],
                         [texts |-> {"a"}, role |-> "support", banned |-> "false"]}
      [] l = "connectors" -> {[texts |-> {"a"}, org |-> "o1", type |-> "t", status |-> "error"],
                              [texts |-> {"a"}, org |-> "o1", type |-> "s", status |-> "active"]}
      [] l = "mcpkeys" -> {[texts |-> {"a"}, org |-> "o1", user |-> "u1"],
                           [texts |-> {"b"}, org |-> "o1", user |-> "u2"]}
      [] l = "auditlogs" -> {[org |-> "o1", user |-> "u1", action |-> "x", at |-> 1],
                             [org |-> "o1", user |-> "u2", action |-> "y", at |-> 2]}
      [] l = "stats" -> {[id |-> 1], [id |-> 2]}

MCAsked(l) ==
    CASE l = "organizations" -> {[search |-> s] : s \in {Nil, "b"}}
      [] l = "users" -> {[search |-> Nil, role |-> "none", banned |-> Nil],
                         [search |-> Nil, role |-> "none", banned |-> "false"]}
      [] l = "connectors" -> {[org |-> Nil, type |-> t, status |-> Nil, search |-> "a"] :
                                 t \in {Nil, EmptyText, "t"}}
      [] l = "mcpkeys" -> {[org |-> "o1", user |-> u, search |-> Nil] : u \in {Nil, "u1"}}
      [] l = "auditlogs" -> {[org |-> Nil, user |-> Nil, patterns |-> {"x"}, from |-> fr, to |-> 0] :
                                fr \in {0, 2}}
      [] l = "stats" -> {<<>>}

MCSeedLimits == [k \in LimitKeys |-> 1]

MCInit ==
    /\ InitTenancy /\ InitStaff /\ InitReads /\ InitCheckout
    /\ focus \in {"members", "catalogue", "staff", "reads", "checkout"}
    /\ IF focus = "checkout" THEN InitShop ELSE InitCatalogue
    /\ focus # "reads" => list = "stats"

MCNext ==
    /\ \/ /\ focus = "members" /\ NextTenancy /\ UNCHANGED <<staffVars, readVars, shopVars>>
       \/ /\ focus = "catalogue" /\ NextCatalogue
          /\ UNCHANGED <<tenVars, staffVars, readVars, shopVars>>
       \/ /\ focus = "staff" /\ NextStaff /\ Cardinality(minted') + grants' <= MaxOutside
          /\ UNCHANGED <<catVars, tenVars, readVars, shopVars>>
       \/ /\ focus = "reads" /\ NextReads /\ UNCHANGED <<catVars, tenVars, staffVars, shopVars>>
       \/ /\ focus = "checkout"
          /\ \/ NextShop
             \/ ConsoleAround /\ edits' <= MaxConsole /\ UNCHANGED shopVars
          /\ UNCHANGED <<tenVars, staffVars, readVars>>
    /\ UNCHANGED focus

\* People and requests are interchangeable; the parts draw them from the same sets.
MCSymmetry == Permutations(Users) \cup Permutations(Requests)

\* Bound: once two subscriptions were started, one checkout is in progress at a time.
FewCarts == sold = 2 => Cardinality({r \in Carts : cart[r] # EmptyCart}) <= 1

MCSpec == MCInit /\ [][MCNext]_vars

=============================================================================
