----------------------------- MODULE ModelCatalog -----------------------------
(***************************************************************************)
(* Keys, models and policies: the tables an administrator edits over        *)
(* JSON-RPC, the startup that cleans them of models the deployed version    *)
(* does not list (EnsureDefaultModels, one statement after the other and    *)
(* without a transaction), and the requests that read them one query at a   *)
(* time: authenticate, ValidateModelAccess, GetPolicyForKeyModel.           *)
(***************************************************************************)
EXTENDS FiniteSets

CONSTANTS
  Models,    \* every model id any version has listed
  Keys,      \* the ids of API keys, none used twice
  Requests,  \* the handler goroutines; each serves requests one by one
  Catalogs,  \* biz.CodexModelIDs of the versions that may be deployed
  Any,       \* the model id "*" of a policy for all models
  NoModel,   \* the model of a request whose body names none
  NoKey      \* the key of a handler without a request

ASSUME CatalogAssumption ==
  /\ Catalogs \subseteq SUBSET Models
  /\ Any \notin Models
  /\ NoModel \notin Models \cup {Any}
  /\ NoKey \notin Keys

VARIABLES
  phase,     \* where the process is: down, in a loop of its startup, serving
  catalog,   \* the catalogue of the version that runs or ran last
  todo,      \* the models the loop of the startup has before it
  victim,    \* the model DeleteModel is about to delete, as a set
  keysTodo,  \* the keys the inner loop of the startup has before it
  rows,      \* gateway_models: enabled ("on"), disabled ("off") or no row
  allowed,   \* gateway_api_keys.allowed_models, {} for no restriction
  keyState,  \* gateway_api_keys: the row and its disabled column
  policies,  \* gateway_policies, as pairs of key and model
  deletes,   \* the deletions of keys between their two statements
  pc,        \* where each handler is in ServeHTTP and handleProxy
  key,       \* the key it authenticated with
  asked,     \* the model its body names
  may,       \* allowed_models of its copy of the key
  steady     \* history: applicable policies there ever since its lookup began

startup == <<phase, catalog, todo, victim, keysTodo>>
tables == <<rows, allowed, keyState, policies, deletes>>
request == <<pc, key, asked, may>>
vars == <<startup, tables, request, steady>>

Rows == Keys \X (Models \cup {Any})

TypeOK ==
  /\ phase \in {"down", "seed", "prune", "keys", "serving"}
  /\ catalog \in SUBSET Models
  /\ todo \in SUBSET Models
  /\ victim \in SUBSET Models
  /\ keysTodo \in SUBSET Keys
  /\ rows \in [Models -> {"absent", "on", "off"}]
  /\ allowed \in [Keys -> SUBSET Models]
  /\ keyState \in [Keys -> {"unborn", "enabled", "disabled", "deleted"}]
  /\ policies \in SUBSET Rows
  /\ deletes \in SUBSET (SUBSET Keys)
  /\ pc \in [Requests -> {"idle", "authenticated", "permitted", "lookedUp",
                          "limited", "unlimited"}]
  /\ key \in [Requests -> Keys \cup {NoKey}]
  /\ asked \in [Requests -> Models \cup {NoModel}]
  /\ may \in [Requests -> SUBSET Models]
  /\ steady \in [Requests -> SUBSET Rows]

Live(k) == keyState[k] \in {"enabled", "disabled"}

(* The tables may come from a version that did not check what it stored. *)
Init ==
  /\ phase = "down"
  /\ catalog \in Catalogs
  /\ todo = {} /\ victim = {} /\ keysTodo = {}
  /\ rows \in [Models -> {"absent", "on", "off"}]
  /\ keyState \in [Keys -> {"unborn", "enabled"}]
  /\ allowed \in [Keys -> SUBSET Models]
  /\ \A k \in Keys : ~Live(k) => allowed[k] = {}
  /\ policies \in SUBSET Rows
  /\ deletes = {}
  /\ pc = [r \in Requests |-> "idle"]
  /\ key = [r \in Requests |-> NoKey]
  /\ asked = [r \in Requests |-> NoModel]
  /\ may = [r \in Requests |-> {}]
  /\ steady = [r \in Requests |-> {}]

(***************************************************************************)
(* The startup: NewData calls EnsureDefaultModels before anything serves.   *)
(***************************************************************************)

Start(c) ==
  /\ phase = "down"
  /\ phase' = "seed"
  /\ catalog' = c
  /\ todo' = c
  /\ UNCHANGED <<victim, keysTodo, tables, request, steady>>

(* A listed model without a row gets one, enabled. *)
SeedModel(m) ==
  /\ phase = "seed"
  /\ m \in todo
  /\ todo' = todo \ {m}
  /\ rows' = [rows EXCEPT ![m] = IF @ = "absent" THEN "on" ELSE @]
  /\ UNCHANGED <<phase, catalog, victim, keysTodo, allowed, keyState, policies,
                 deletes, request, steady>>

(* pruneGatewayModels reads the table once for its loop. *)
ListModels ==
  /\ phase = "seed"
  /\ todo = {}
  /\ phase' = "prune"
  /\ todo' = {m \in Models \ catalog : rows[m] # "absent"}
  /\ UNCHANGED <<catalog, victim, keysTodo, tables, request, steady>>

(* DeleteModel: the policies of the model, then a loop over the keys that list
   it, then the row.  Prices are left out. *)
DeletePoliciesOf(m) ==
  /\ phase = "prune"
  /\ victim = {}
  /\ m \in todo
  /\ victim' = {m}
  /\ policies' = {p \in policies : p[2] # m}
  /\ keysTodo' = {k \in Keys : Live(k) /\ m \in allowed[k]}
  /\ UNCHANGED <<phase, catalog, todo, rows, allowed, keyState, deletes,
                 request, steady>>

(* A mistake a change to the clean-up could make: the whole list is cleared. *)
ClearList(k) ==
  /\ phase = "prune"
  /\ k \in keysTodo
  /\ keysTodo' = keysTodo \ {k}
  /\ allowed' = [allowed EXCEPT ![k] = {}]
  /\ UNCHANGED <<phase, catalog, todo, victim, rows, keyState, policies, deletes,
                 request, steady>>

UnlistModel(k) ==
  /\ phase = "prune"
  /\ k \in keysTodo
  /\ keysTodo' = keysTodo \ {k}
  /\ allowed' = [allowed EXCEPT ![k] = @ \ victim]
  /\ UNCHANGED <<phase, catalog, todo, victim, rows, keyState, policies, deletes,
                 request, steady>>

DeleteRow ==
  /\ phase = "prune"
  /\ victim # {}
  /\ keysTodo = {}
  /\ victim' = {}
  /\ todo' = todo \ victim
  /\ rows' = [m \in Models |-> IF m \in victim THEN "absent" ELSE rows[m]]
  /\ UNCHANGED <<phase, catalog, keysTodo, allowed, keyState, policies, deletes,
                 request, steady>>

(* The rest of pruneGatewayModels: policies and keys that name models which
   have no row, then the start is over and the process serves. *)
SweepPolicies ==
  /\ phase = "prune"
  /\ victim = {}
  /\ todo = {}
  /\ phase' = "keys"
  /\ policies' = {p \in policies : p[2] \in catalog \cup {Any}}
  /\ keysTodo' = {k \in Keys : Live(k) /\ ~(allowed[k] \subseteq catalog)}
  /\ UNCHANGED <<catalog, todo, victim, rows, allowed, keyState, deletes,
                 request, steady>>

SweepKey(k) ==
  /\ phase = "keys"
  /\ k \in keysTodo
  /\ keysTodo' = keysTodo \ {k}
  /\ allowed' = [allowed EXCEPT ![k] = @ \cap catalog]
  /\ UNCHANGED <<phase, catalog, todo, victim, rows, keyState, policies, deletes,
                 request, steady>>

Serve ==
  /\ phase = "keys"
  /\ keysTodo = {}
  /\ phase' = "serving"
  /\ UNCHANGED <<catalog, todo, victim, keysTodo, tables, request, steady>>

(* The process dies, or a statement of the startup fails and NewData returns
   its error: every statement executed so far stays. *)
Crash ==
  /\ phase # "down"
  /\ phase' = "down"
  /\ todo' = {} /\ victim' = {} /\ keysTodo' = {}
  /\ deletes' = {}
  /\ pc' = [r \in Requests |-> "idle"]
  /\ key' = [r \in Requests |-> NoKey]
  /\ asked' = [r \in Requests |-> NoModel]
  /\ may' = [r \in Requests |-> {}]
  /\ steady' = [r \in Requests |-> {}]
  /\ UNCHANGED <<catalog, rows, allowed, keyState, policies>>

Startup ==
  \/ \E m \in Models : SeedModel(m) \/ DeletePoliciesOf(m)
  \/ ListModels
  \/ \E k \in Keys : UnlistModel(k) \/ SweepKey(k)
  \/ DeleteRow \/ SweepPolicies \/ Serve

(***************************************************************************)
(* The administrator's calls.  Lists and policies are checked against the   *)
(* running catalogue (normalizeAllowedCodexModels, UpsertPolicy).           *)
(***************************************************************************)

CreateKey(k, A) ==
  /\ keyState[k] = "unborn"
  /\ keyState' = [keyState EXCEPT ![k] = "enabled"]
  /\ allowed' = [allowed EXCEPT ![k] = A]
  /\ UNCHANGED <<startup, rows, policies, deletes, request, steady>>

(* One statement writes the list and the disabled column of the form. *)
UpdateKey(k, A, s) ==
  /\ Live(k)
  /\ keyState' = [keyState EXCEPT ![k] = s]
  /\ allowed' = [allowed EXCEPT ![k] = A]
  /\ UNCHANGED <<startup, rows, policies, deletes, request, steady>>

(* SetAPIKeyDisabled, DisableAllAPIKeys and EnableAllAPIKeys. *)
SetDisabled(K, s) ==
  /\ keyState' = [k \in Keys |-> IF k \in K /\ Live(k) THEN s ELSE keyState[k]]
  /\ UNCHANGED <<startup, rows, allowed, policies, deletes, request, steady>>

SetModelEnabled(m, s) ==
  /\ rows[m] # "absent"
  /\ rows' = [rows EXCEPT ![m] = s]
  /\ UNCHANGED <<startup, allowed, keyState, policies, deletes, request, steady>>

(* A mistake a change could make: a policy without a model is stored. *)
UpsertBlank(k, m) ==
  /\ policies' = policies \cup {<<k, NoModel>>}
  /\ UNCHANGED <<startup, rows, allowed, keyState, deletes, request, steady>>

(* The key need not exist.  Of two calls for one row the unique index lets one
   create it. *)
UpsertPolicy(k, m) ==
  /\ policies' = policies \cup {<<k, m>>}
  /\ UNCHANGED <<startup, rows, allowed, keyState, deletes, request, steady>>

(* What is no longer there was not there throughout a lookup. *)
RemovePolicies(P) ==
  /\ policies' = policies \ P
  /\ steady' = [r \in Requests |-> steady[r] \ P]

DeletePolicy(p) ==
  /\ RemovePolicies({p})
  /\ UNCHANGED <<startup, rows, allowed, keyState, deletes, request>>

(* DeleteAPIKey and DeleteAPIKeys: the policies, and in a second statement the
   keys; it may fail. *)
DeleteKeyPolicies(K) ==
  /\ K \notin deletes
  /\ RemovePolicies({p \in policies : p[1] \in K})
  /\ deletes' = deletes \cup {K}
  /\ UNCHANGED <<startup, rows, allowed, keyState, request>>

DeleteKeys(K) ==
  /\ K \in deletes
  /\ deletes' = deletes \ {K}
  /\ keyState' = [k \in Keys |-> IF k \in K /\ Live(k) THEN "deleted" ELSE keyState[k]]
  /\ allowed' = [k \in Keys |-> IF k \in K THEN {} ELSE allowed[k]]
  /\ UNCHANGED <<startup, rows, policies, request, steady>>

DeleteKeysFails(K) ==
  /\ K \in deletes
  /\ deletes' = deletes \ {K}
  /\ UNCHANGED <<startup, rows, allowed, keyState, policies, request, steady>>

Batches == SUBSET Keys \ {{}}

Admin ==
  /\ phase = "serving"
  /\ \/ \E k \in Keys, A \in SUBSET catalog :
          CreateKey(k, A) \/ \E s \in {"enabled", "disabled"} : UpdateKey(k, A, s)
     \/ \E K \in Batches, s \in {"enabled", "disabled"} : SetDisabled(K, s)
     \/ \E m \in Models, s \in {"on", "off"} : SetModelEnabled(m, s)
     \/ \E k \in Keys, m \in catalog \cup {Any} : UpsertPolicy(k, m)
     \/ \E p \in policies : DeletePolicy(p)
     \/ \E K \in Batches :
          DeleteKeyPolicies(K) \/ DeleteKeys(K) \/ DeleteKeysFails(K)

(***************************************************************************)
(* The requests.                                                           *)
(***************************************************************************)

Goto(r, from, to) ==
  /\ pc[r] = from
  /\ pc' = [pc EXCEPT ![r] = to]

(* Mistakes a change could make: the disabled column is not looked at, the
   policy for all models counts only for requests without a model. *)
AuthenticateAny(r, k, m) ==
  /\ Goto(r, "idle", "authenticated")
  /\ Live(k)
  /\ key' = [key EXCEPT ![r] = k]
  /\ asked' = [asked EXCEPT ![r] = m]
  /\ may' = [may EXCEPT ![r] = allowed[k]]
  /\ UNCHANGED <<startup, tables, steady>>

LookupNothingMore(r) ==
  /\ Goto(r, "lookedUp",
          IF asked[r] = NoModel /\ <<key[r], Any>> \in policies
            THEN "limited" ELSE "unlimited")
  /\ UNCHANGED <<startup, tables, key, asked, may, steady>>

(* GetAPIKeyByHash and the Disabled check: the handler keeps the row it read. *)
Authenticate(r, k, m) ==
  /\ Goto(r, "idle", "authenticated")
  /\ keyState[k] = "enabled"
  /\ key' = [key EXCEPT ![r] = k]
  /\ asked' = [asked EXCEPT ![r] = m]
  /\ may' = [may EXCEPT ![r] = allowed[k]]
  /\ UNCHANGED <<startup, tables, steady>>

(* A model without a row counts as enabled, a body without a model passes. *)
ModelAccess(r) ==
  \/ asked[r] = NoModel
  \/ /\ asked[r] \in catalog
     /\ rows[asked[r]] # "off"
     /\ may[r] = {} \/ asked[r] \in may[r]

Validate(r) ==
  /\ Goto(r, "authenticated", "permitted")
  /\ ModelAccess(r)
  /\ UNCHANGED <<startup, tables, key, asked, may, steady>>

(* GetPolicyForKeyModel: the policy of the model, if it names one... *)
LookupOwn(r) ==
  /\ Goto(r, "permitted",
          IF <<key[r], asked[r]>> \in policies THEN "limited" ELSE "lookedUp")
  /\ steady' = [steady EXCEPT ![r] =
                  {<<key[r], asked[r]>>, <<key[r], Any>>} \cap policies]
  /\ UNCHANGED <<startup, tables, key, asked, may>>

(* ...and in a second query the policy for all models. *)
LookupAny(r) ==
  /\ Goto(r, "lookedUp",
          IF <<key[r], Any>> \in policies THEN "limited" ELSE "unlimited")
  /\ UNCHANGED <<startup, tables, key, asked, may, steady>>

(* Answered, by the upstream or with an error: a body that cannot be used, no
   access, a full quota or window, a query that failed. *)
Answer(r) ==
  /\ pc[r] # "idle"
  /\ pc' = [pc EXCEPT ![r] = "idle"]
  /\ key' = [key EXCEPT ![r] = NoKey]
  /\ asked' = [asked EXCEPT ![r] = NoModel]
  /\ may' = [may EXCEPT ![r] = {}]
  /\ steady' = [steady EXCEPT ![r] = {}]
  /\ UNCHANGED <<startup, tables>>

Serving(r) == Validate(r) \/ LookupOwn(r) \/ LookupAny(r) \/ Answer(r)

Handler(r) ==
  /\ phase = "serving"
  /\ \/ \E k \in Keys, m \in Models \cup {NoModel} : Authenticate(r, k, m)
     \/ Serving(r)

Next ==
  \/ \E c \in Catalogs : Start(c)
  \/ Startup
  \/ Crash
  \/ Admin
  \/ \E r \in Requests : Handler(r)

Spec == Init /\ [][Next]_vars

(* Statements return, and so do handlers. *)
Fairness == \A r \in Requests : WF_vars(Answer(r))

FairSpec == Spec /\ Fairness

(***************************************************************************)
(* Properties.                                                             *)
(***************************************************************************)

(* While the process serves, no row, restriction or policy names a model off
   the running catalogue and every listed model has a row, whatever the tables
   looked like before, however often a start was cut short, and whatever
   administrators did (EnsureDefaultModels, pruneGatewayModels). *)
CleanWhileServing ==
  phase = "serving" =>
    /\ \A m \in Models : rows[m] = "absent" <=> m \notin catalog
    /\ \A k \in Keys : allowed[k] \subseteq catalog
    /\ \A p \in policies : p[2] \in catalog \cup {Any}

(* A request runs without limits only if no policy that applies to it was there
   during the whole lookup: the two queries of GetPolicyForKeyModel may miss a
   limit that is moved from one row to the other, never one that stays. *)
SteadyLimitSeen == \A r \in Requests : pc[r] = "unlimited" => steady[r] = {}

(* Once a key is disabled or deleted for good, its requests come to an end and
   none follows, though those under way go on with their copy of the key. *)
DisabledKeyFallsSilent ==
  \A k \in Keys :
    <>[](keyState[k] # "enabled") => <>[](\A r \in Requests : key[r] # k)

(* api.md says that a start deletes what models off the catalogue left in
   allowed_models; a key that was restricted should then stay restricted. *)
RestrictionSurvivesStart ==
  [][phase # "serving" => \A k \in Keys : allowed[k] # {} => allowed'[k] # {}]_vars

-------------------------------------------------------------------------------
(* The refinement: a start cleans at once, its statements change nothing more. *)

Starting == phase \in {"seed", "prune", "keys"}

modeBar == IF Starting THEN "starting" ELSE phase
rowsBar == IF Starting THEN [m \in Models |-> IF m \notin catalog THEN "absent"
                                            ELSE IF rows[m] = "absent" THEN "on" ELSE rows[m]]
           ELSE rows
allowedBar == IF Starting THEN [k \in Keys |-> allowed[k] \cap catalog] ELSE allowed
policiesBar == IF Starting THEN {p \in policies : p[2] \in catalog \cup {Any}}
               ELSE policies

Promise == INSTANCE CatalogPromise
  WITH mode <- modeBar, rows <- rowsBar, allowed <- allowedBar, policies <- policiesBar

PromiseSpec == Promise!Spec
=============================================================================
