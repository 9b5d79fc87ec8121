---------------------------- MODULE MCConnectors ----------------------------
(* One organization with room for one connector.  A behaviour is about the  *)
(* requests beside a single sweep, or about sweeps that overlap beside one  *)
(* request and start with two connectors: focus says which.                 *)
EXTENDS Connectors

VARIABLE focus

\* Bound: changes beside overlapping sweeps.
MaxOverlapChanges == 1

MCOrgOf(c) == "o1"
MCConfigs == {{"f1"}}
\* A new name, status or configuration, or the last two together.
MCPatches == {[name |-> "n2"], [status |-> "active"], [status |-> "error"],
              [config |-> {"f1"}], [status |-> "active", config |-> {"f1"}]}

\* Two connectors that exist, one at least with a checker; no id is left.
TwoConnectors ==
    /\ \E t \in Types :
          row = [c \in Conns |->
                    IF c = "c3" THEN Absent
                    ELSE [type |-> IF c = "c1" THEN "google_sheets" ELSE t,
                          config |-> {"f1"}, status |-> "active"]]
    /\ drawn = Conns /\ stamped = <<>>
    /\ pend = [r \in Requests |-> Idle]
    /\ sweep = [s \in Sweeps |-> Asleep] /\ changes = 0
    /\ told = {} /\ dup = FALSE /\ clobbered = FALSE

MCInit ==
    \/ focus = "requests" /\ InitConnectors
    \/ focus = "sweeps" /\ TwoConnectors

\* Ids mean nothing: they are drawn in order.
MCNext ==
    /\ UNCHANGED focus
    /\ NextConnectors
    /\ focus = "requests" =>
          /\ sweep'["s2"] = Asleep
          /\ drawn' \in {{}, {"c1"}, {"c1", "c2"}, Conns}
    /\ focus = "sweeps" => pend'["r2"] = Idle /\ changes' <= MaxOverlapChanges

MCSpec == MCInit /\ [][MCNext]_<<connVars, focus>> /\ Fairness

=============================================================================
