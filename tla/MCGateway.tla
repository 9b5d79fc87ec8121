----------------------------- MODULE MCGateway -----------------------------
(* One key of organization o1, which has connector c1; c2 belongs to o2.    *)
(* A behaviour is about the calls, or about one of the things the tools do  *)
(* with a sheet, which share no state with each other: focus says which.    *)
EXTENDS McpGateway, SheetTools

VARIABLE focus

MCOrgOf(c) == IF c = "c1" THEN "o1" ELSE "o2"
MCKeyUser(k) == "u1"
MCKeyOrg(k) == "o1"
MCConfigs == {{"f1"}, {}}
MCPatches == [config : MCConfigs]
MCScopes == {NoScopes, {<<"drive", "read">>}}
MCGrants == {{}, {<<"drive", "*">>}}

\* Both connectors start with an allowlist, the other organization's would
\* serve a call, and an owner, who needs no grant, has none.
MCInitCalls ==
    /\ Init
    /\ \A c \in Conns : row[c].config = {"f1"}
    /\ row["c2"].type = "google_sheets"
    /\ \A k \in Keys : member[k] = "owner" => grant[k] = {}

MCFilters ==
    {{}, {[op |-> "eq", value |-> 1]}, {[op |-> "neq", value |-> 1]},
     {[op |-> "gte", value |-> 0]}, {[op |-> "in", values |-> {0, 1}]},
     {[op |-> "gt", value |-> 0], [op |-> "lte", value |-> 1]},
     {[op |-> "lt", value |-> 1], [op |-> "contains", value |-> 0]}}

\* The variant changes, then the secret.
MCCredentials ==
    <<[variant |-> "oauth", id |-> 1, secret |-> 1],
      [variant |-> "service_account", id |-> 1, secret |-> 1],
      [variant |-> "service_account", id |-> 1, secret |-> 2]>>

\* Away from the calls the tables stay as one of their initial states.
MCInit ==
    /\ MCInitCalls /\ InitSheets
    /\ focus \in {"calls", "scan", "range", "tokens"}
    /\ focus # "scan" => sheet = <<>>
    /\ focus # "calls" => /\ \A k \in Keys : member[k] = "owner"
                          /\ row["c1"].type = "google_sheets"

MCNext ==
    /\ UNCHANGED focus
    /\ \/ focus = "calls" /\ Next /\ UNCHANGED sheetVars
       \/ focus = "scan" /\ ScanStep /\ UNCHANGED vars
       \/ focus = "range" /\ readRange /\ UNCHANGED vars
       \/ focus = "tokens" /\ TokenStep /\ UNCHANGED vars

MCSpec == MCInit /\ [][MCNext]_<<vars, sheetVars, focus>>

=============================================================================
