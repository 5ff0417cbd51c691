---------------------------- MODULE CatalogPromise ----------------------------
(***************************************************************************)
(* What the fixed model catalogue promises (server/docs/api.md, line 86): a *)
(* start cleans the tables of everything the deployed version does not      *)
(* list, as if in one step; one that is cut short can be completed to the   *)
(* same result; and whatever administrators do, the service runs on clean   *)
(* tables.                                                                  *)
(***************************************************************************)
CONSTANTS
  Models,    \* every model id any version has listed
  Keys,      \* the ids of API keys
  Any,       \* the model id "*" of a policy for all models
  Catalogs   \* biz.CodexModelIDs of the versions that may be deployed

VARIABLES
  mode,      \* "down", "starting" or "serving"
  catalog,   \* the catalogue of the version that runs or ran last
  rows,      \* the model table: each model "on", "off" or "absent"
  allowed,   \* the allowed_models of each key, {} for no restriction
  policies   \* the rows of the policy table, by key and model

vars == <<mode, catalog, rows, allowed, policies>>

CleanRows(t, c) ==
  [m \in Models |-> IF m \notin c THEN "absent"
                    ELSE IF t[m] = "absent" THEN "on" ELSE t[m]]
CleanAllowed(t, c) == [k \in Keys |-> t[k] \cap c]
CleanPolicies(t, c) == {p \in t : p[2] \in c \cup {Any}}

Clean ==
  /\ rows = CleanRows(rows, catalog)
  /\ allowed = CleanAllowed(allowed, catalog)
  /\ policies = CleanPolicies(policies, catalog)

Init == mode = "down"

Deploy(c) ==
  /\ mode = "down"
  /\ mode' = "starting"
  /\ catalog' = c
  /\ rows' = CleanRows(rows, c)
  /\ allowed' = CleanAllowed(allowed, c)
  /\ policies' = CleanPolicies(policies, c)

Complete ==
  /\ mode = "starting"
  /\ mode' = "serving"
  /\ UNCHANGED <<catalog, rows, allowed, policies>>

(* What is left behind still cleans to the same tables. *)
Interrupt ==
  /\ mode = "starting"
  /\ mode' = "down"
  /\ catalog' = catalog
  /\ rows = CleanRows(rows', catalog)
  /\ allowed = CleanAllowed(allowed', catalog)
  /\ policies = CleanPolicies(policies', catalog)

Halt ==
  /\ mode = "serving"
  /\ mode' = "down"
  /\ UNCHANGED <<catalog, rows, allowed, policies>>

Administer ==
  /\ mode = "serving"
  /\ UNCHANGED <<mode, catalog>>
  /\ Clean'

Next == (\E c \in Catalogs : Deploy(c)) \/ Complete \/ Interrupt \/ Halt \/ Administer

Spec == Init /\ [][Next]_vars
=============================================================================
