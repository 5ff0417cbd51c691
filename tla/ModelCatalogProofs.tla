-------------------------- MODULE ModelCatalogProofs --------------------------
(***************************************************************************)
(* Proofs about ModelCatalog, for every set of models, keys, requests and   *)
(* catalogues: type correctness, clean tables while the process serves, the *)
(* lookup that misses no steady limit, and that the startup, statement by   *)
(* statement, implements the promise of one clean step.                     *)
(***************************************************************************)
EXTENDS ModelCatalog, TLAPS

(* How far the startup has got, told from the tables. *)
IdleInv ==
  phase # "serving" => \A r \in Requests : pc[r] = "idle" /\ steady[r] = {}

SeedInv ==
  phase = "seed" =>
    /\ todo \subseteq catalog
    /\ \A m \in catalog \ todo : rows[m] # "absent"

PruneInv ==
  /\ phase \in {"down", "seed"} => victim = {}
  /\ phase = "prune" =>
       /\ todo \cap catalog = {}
       /\ victim \subseteq todo
       /\ \A m \in catalog : rows[m] # "absent"
       /\ \A m \in Models \ catalog : rows[m] # "absent" => m \in todo

SweptInv ==
  phase \in {"keys", "serving"} =>
    /\ \A m \in Models : rows[m] = "absent" <=> m \notin catalog
    /\ \A p \in policies : p[2] \in catalog \cup {Any}

(* Keys that do not exist have an empty list, and are not swept. *)
RestrictionInv ==
  /\ \A k \in Keys : ~Live(k) => allowed[k] = {}
  /\ phase = "keys" => \A k \in Keys : k \in keysTodo \/ allowed[k] \subseteq catalog
  /\ phase = "serving" => \A k \in Keys : allowed[k] \subseteq catalog

StartInv == IdleInv /\ SeedInv /\ PruneInv /\ SweptInv /\ RestrictionInv

(* What the history of a handler may hold when. *)
LookupInv ==
  \A r \in Requests :
    /\ steady[r] \subseteq policies
    /\ pc[r] \in {"idle", "authenticated", "permitted", "unlimited"} => steady[r] = {}
    /\ pc[r] = "lookedUp" => steady[r] \subseteq {<<key[r], Any>>}

IInv == TypeOK /\ StartInv /\ LookupInv

-------------------------------------------------------------------------------
LEMMA InitIInv == Init => IInv
  <1> SUFFICES ASSUME Init PROVE IInv
    OBVIOUS
  <1>1. TypeOK
    BY CatalogAssumption DEF Init, TypeOK
  <1>2. StartInv
    BY DEF Init, StartInv, IdleInv, SeedInv, PruneInv, SweptInv, RestrictionInv
  <1>3. LookupInv
    BY DEF Init, LookupInv
  <1>4. QED BY <1>1, <1>2, <1>3 DEF IInv

-------------------------------------------------------------------------------
(* Types. *)

LEMMA TypeStartup ==
  ASSUME TypeOK, (\E c \in Catalogs : Start(c)) \/ Startup \/ Crash
  PROVE  TypeOK'
  <1> USE DEF TypeOK, startup, tables, request
  <1>1. ASSUME NEW c \in Catalogs, Start(c) PROVE TypeOK'
    BY <1>1, CatalogAssumption DEF Start
  <1>2. ASSUME NEW m \in Models, SeedModel(m) PROVE TypeOK'
    BY <1>2 DEF SeedModel
  <1>3. CASE ListModels
    BY <1>3 DEF ListModels
  <1>4. ASSUME NEW m \in Models, DeletePoliciesOf(m) PROVE TypeOK'
    BY <1>4 DEF DeletePoliciesOf
  <1>5. ASSUME NEW k \in Keys, UnlistModel(k) \/ SweepKey(k) PROVE TypeOK'
    BY <1>5 DEF UnlistModel, SweepKey
  <1>6. CASE DeleteRow
    BY <1>6 DEF DeleteRow
  <1>7. CASE SweepPolicies \/ Serve
    BY <1>7 DEF SweepPolicies, Serve
  <1>8. CASE Crash
    BY <1>8 DEF Crash
  <1>9. QED BY <1>1, <1>2, <1>3, <1>4, <1>5, <1>6, <1>7, <1>8 DEF Startup

LEMMA TypeAdmin ==
  ASSUME TypeOK, Admin
  PROVE  TypeOK'
  <1> USE DEF TypeOK, startup, tables, request, Rows
  <1>1. ASSUME NEW k \in Keys, NEW A \in SUBSET catalog, CreateKey(k, A)
        PROVE  TypeOK'
    BY <1>1 DEF CreateKey
  <1>2. ASSUME NEW k \in Keys, NEW A \in SUBSET catalog,
               NEW s \in {"enabled", "disabled"}, UpdateKey(k, A, s)
        PROVE  TypeOK'
    BY <1>2 DEF UpdateKey
  <1>3. ASSUME NEW K \in Batches, NEW s \in {"enabled", "disabled"}, SetDisabled(K, s)
        PROVE  TypeOK'
    BY <1>3 DEF SetDisabled
  <1>4. ASSUME NEW m \in Models, NEW s \in {"on", "off"}, SetModelEnabled(m, s)
        PROVE  TypeOK'
    BY <1>4 DEF SetModelEnabled
  <1>5. ASSUME NEW k \in Keys, NEW m \in catalog \cup {Any}, UpsertPolicy(k, m)
        PROVE  TypeOK'
    BY <1>5 DEF UpsertPolicy
  <1>6. ASSUME NEW p \in policies, DeletePolicy(p) PROVE TypeOK'
    BY <1>6 DEF DeletePolicy, RemovePolicies
  <1>7. ASSUME NEW K \in Batches, DeleteKeyPolicies(K) PROVE TypeOK'
    BY <1>7 DEF DeleteKeyPolicies, RemovePolicies, Batches
  <1>8. ASSUME NEW K \in Batches, DeleteKeys(K) \/ DeleteKeysFails(K) PROVE TypeOK'
    BY <1>8 DEF DeleteKeys, DeleteKeysFails
  <1>9. QED BY <1>1, <1>2, <1>3, <1>4, <1>5, <1>6, <1>7, <1>8 DEF Admin

LEMMA TypeHandler ==
  ASSUME TypeOK, NEW r \in Requests, Handler(r)
  PROVE  TypeOK'
  <1> USE DEF TypeOK, startup, tables, request, Goto
  <1>1. ASSUME NEW k \in Keys, NEW m \in Models \cup {NoModel}, Authenticate(r, k, m)
        PROVE  TypeOK'
    BY <1>1 DEF Authenticate
  <1>2. CASE Validate(r)
    BY <1>2 DEF Validate
  <1>3. CASE LookupOwn(r) \/ LookupAny(r)
    BY <1>3 DEF LookupOwn, LookupAny
  <1>4. CASE Answer(r)
    BY <1>4 DEF Answer
  <1>5. QED BY <1>1, <1>2, <1>3, <1>4 DEF Handler, Serving

LEMMA TypeStep ==
  ASSUME TypeOK, [Next]_vars
  PROVE  TypeOK'
  <1>1. CASE UNCHANGED vars
    BY <1>1 DEF vars, startup, tables, request, TypeOK
  <1>2. QED BY <1>1, TypeStartup, TypeAdmin, TypeHandler DEF Next

-------------------------------------------------------------------------------
(* The startup brings the tables, however they come, to a clean state, ... *)

LEMMA StartStartup ==
  ASSUME TypeOK, StartInv, (\E c \in Catalogs : Start(c)) \/ Startup \/ Crash
  PROVE  StartInv'
  <1> USE DEF TypeOK, startup, tables, request, StartInv, IdleInv, SeedInv, PruneInv,
              SweptInv, RestrictionInv, Live
  <1>1. ASSUME NEW c \in Catalogs, Start(c) PROVE StartInv'
    BY <1>1 DEF Start
  <1>2. ASSUME NEW m \in Models, SeedModel(m) PROVE StartInv'
    BY <1>2 DEF SeedModel
  <1>3. CASE ListModels
    BY <1>3 DEF ListModels
  <1>4. ASSUME NEW m \in Models, DeletePoliciesOf(m) PROVE StartInv'
    BY <1>4 DEF DeletePoliciesOf
  <1>5. ASSUME NEW k \in Keys, UnlistModel(k) PROVE StartInv'
    BY <1>5 DEF UnlistModel
  <1>6. CASE DeleteRow
    BY <1>6 DEF DeleteRow
  <1>7. CASE SweepPolicies
    BY <1>7 DEF SweepPolicies
  <1>8. ASSUME NEW k \in Keys, SweepKey(k) PROVE StartInv'
    BY <1>8 DEF SweepKey
  <1>9. CASE Serve
    BY <1>9 DEF Serve
  <1>10. CASE Crash
    BY <1>10 DEF Crash
  <1>11. QED
    BY <1>1, <1>2, <1>3, <1>4, <1>5, <1>6, <1>7, <1>8, <1>9, <1>10 DEF Startup

(* ... and administrators keep them clean. *)
LEMMA StartAdmin ==
  ASSUME TypeOK, StartInv, Admin
  PROVE  StartInv'
  <1> USE DEF TypeOK, startup, tables, request, StartInv, IdleInv, SeedInv, PruneInv,
              SweptInv, RestrictionInv, Live
  <1>1. phase = "serving"
    BY DEF Admin
  <1>2. ASSUME NEW k \in Keys, NEW A \in SUBSET catalog, CreateKey(k, A)
        PROVE  StartInv'
    BY <1>1, <1>2 DEF CreateKey
  <1>3. ASSUME NEW k \in Keys, NEW A \in SUBSET catalog,
               NEW s \in {"enabled", "disabled"}, UpdateKey(k, A, s)
        PROVE  StartInv'
    BY <1>1, <1>3 DEF UpdateKey
  <1>4. ASSUME NEW K \in Batches, NEW s \in {"enabled", "disabled"}, SetDisabled(K, s)
        PROVE  StartInv'
    BY <1>1, <1>4 DEF SetDisabled
  <1>5. ASSUME NEW m \in Models, NEW s \in {"on", "off"}, SetModelEnabled(m, s)
        PROVE  StartInv'
    BY <1>1, <1>5 DEF SetModelEnabled
  <1>6. ASSUME NEW k \in Keys, NEW m \in catalog \cup {Any}, UpsertPolicy(k, m)
        PROVE  StartInv'
    BY <1>1, <1>6 DEF UpsertPolicy
  <1>7. ASSUME NEW p \in policies, DeletePolicy(p) PROVE StartInv'
    BY <1>1, <1>7 DEF DeletePolicy, RemovePolicies
  <1>8. ASSUME NEW K \in Batches, DeleteKeyPolicies(K) PROVE StartInv'
    BY <1>1, <1>8 DEF DeleteKeyPolicies, RemovePolicies
  <1>9. ASSUME NEW K \in Batches, DeleteKeys(K) PROVE StartInv'
    BY <1>1, <1>9 DEF DeleteKeys
  <1>10. ASSUME NEW K \in Batches, DeleteKeysFails(K) PROVE StartInv'
    BY <1>1, <1>10 DEF DeleteKeysFails
  <1>11. QED
    BY <1>2, <1>3, <1>4, <1>5, <1>6, <1>7, <1>8, <1>9, <1>10 DEF Admin

(* A handler only reads. *)
LEMMA HandlerReads ==
  ASSUME NEW r \in Requests, Handler(r)
  PROVE  phase = "serving" /\ UNCHANGED <<startup, tables>>
  BY DEF Handler, Serving, Authenticate, Validate, LookupOwn, LookupAny, Answer

LEMMA StartStep ==
  ASSUME TypeOK, StartInv, [Next]_vars
  PROVE  StartInv'
  <1> USE DEF startup, tables, StartInv, IdleInv, SeedInv, PruneInv, SweptInv,
              RestrictionInv, Live
  <1>1. CASE UNCHANGED vars
    BY <1>1 DEF vars, request
  <1>2. ASSUME NEW r \in Requests, Handler(r) PROVE StartInv'
    BY <1>2, HandlerReads
  <1>3. QED BY <1>1, <1>2, StartStartup, StartAdmin DEF Next

-------------------------------------------------------------------------------
(* The history of a lookup: a removal takes a policy out of both. *)

LEMMA LookupQuiet ==
  ASSUME LookupInv, UNCHANGED <<request, steady>>, policies \subseteq policies'
  PROVE  LookupInv'
  BY DEF LookupInv, request

LEMMA LookupRemoval ==
  ASSUME TypeOK, LookupInv, NEW P, RemovePolicies(P), UNCHANGED request
  PROVE  LookupInv'
  BY DEF TypeOK, LookupInv, RemovePolicies, request

(* No lookup is under way while the process starts. *)
LEMMA LookupStartup ==
  ASSUME TypeOK, IdleInv, LookupInv, (\E c \in Catalogs : Start(c)) \/ Startup \/ Crash
  PROVE  LookupInv'
  <1>1. CASE Crash
    BY <1>1 DEF Crash, LookupInv
  <1>2. CASE (\E c \in Catalogs : Start(c)) \/ Startup
    <2>1. phase # "serving" /\ UNCHANGED <<request, steady>>
      BY <1>2 DEF Startup, Start, SeedModel, ListModels, DeletePoliciesOf, UnlistModel,
                  SweepKey, DeleteRow, SweepPolicies, Serve, request
    <2>2. \A r \in Requests : pc'[r] = "idle" /\ steady'[r] = {}
      BY <2>1 DEF IdleInv, request
    <2>3. QED BY <2>2 DEF LookupInv
  <1>3. QED BY <1>1, <1>2

LEMMA LookupAdmin ==
  ASSUME TypeOK, LookupInv, Admin
  PROVE  LookupInv'
  <1>1. ASSUME UNCHANGED <<policies, request, steady>> PROVE LookupInv'
    BY <1>1, LookupQuiet
  <1>2. ASSUME NEW k \in Keys, NEW m \in catalog \cup {Any}, UpsertPolicy(k, m)
        PROVE  LookupInv'
    BY <1>2, LookupQuiet DEF UpsertPolicy
  <1>3. ASSUME NEW p \in policies, DeletePolicy(p) PROVE LookupInv'
    BY <1>3, LookupRemoval DEF DeletePolicy
  <1>4. ASSUME NEW K \in Batches, DeleteKeyPolicies(K) PROVE LookupInv'
    BY <1>4, LookupRemoval DEF DeleteKeyPolicies
  <1>5. QED
    BY <1>1, <1>2, <1>3, <1>4
    DEF Admin, CreateKey, UpdateKey, SetDisabled, SetModelEnabled, DeleteKeys,
        DeleteKeysFails

(* The first query notes what is there; what it finds ends the lookup. *)
LEMMA LookupHandler ==
  ASSUME TypeOK, LookupInv, NEW r \in Requests, Handler(r)
  PROVE  LookupInv'
  <1> USE DEF TypeOK, LookupInv, Goto
  <1>1. policies' = policies
    BY HandlerReads DEF tables
  <1>2. ASSUME NEW k \in Keys, NEW m \in Models \cup {NoModel}, Authenticate(r, k, m)
        PROVE  LookupInv'
    BY <1>1, <1>2 DEF Authenticate
  <1>3. CASE Validate(r)
    BY <1>1, <1>3 DEF Validate
  <1>4. CASE LookupOwn(r)
    BY <1>1, <1>4 DEF LookupOwn
  <1>5. CASE LookupAny(r)
    BY <1>1, <1>5 DEF LookupAny
  <1>6. CASE Answer(r)
    BY <1>1, <1>6 DEF Answer
  <1>7. QED BY <1>2, <1>3, <1>4, <1>5, <1>6 DEF Handler, Serving

LEMMA LookupStep ==
  ASSUME TypeOK, StartInv, LookupInv, [Next]_vars
  PROVE  LookupInv'
  <1>1. CASE UNCHANGED vars
    BY <1>1, LookupQuiet DEF vars, tables
  <1>2. QED BY <1>1, LookupStartup, LookupAdmin, LookupHandler DEF Next, StartInv

-------------------------------------------------------------------------------
LEMMA NextIInv == IInv /\ [Next]_vars => IInv'
  BY TypeStep, StartStep, LookupStep DEF IInv

THEOREM Inductive == Spec => []IInv
  BY InitIInv, NextIInv, PTL DEF Spec

(* The tables and the handlers keep their types: no row and no list ever names
   something that is not a model. *)
THEOREM TypeCorrect == Spec => []TypeOK
  <1>1. IInv => TypeOK
    BY DEF IInv
  <1>2. QED BY <1>1, Inductive, PTL

(* Whatever the tables held and wherever earlier starts died, the process
   serves on clean tables only (EnsureDefaultModels, pruneGatewayModels). *)
THEOREM CleanTables == Spec => []CleanWhileServing
  <1>1. IInv => CleanWhileServing
    BY DEF IInv, StartInv, SweptInv, RestrictionInv, CleanWhileServing
  <1>2. QED BY <1>1, Inductive, PTL

(* The two queries of GetPolicyForKeyModel never miss a policy that applies and
   stays while they run. *)
THEOREM SteadyLimitsAreSeen == Spec => []SteadyLimitSeen
  <1>1. IInv => SteadyLimitSeen
    BY DEF IInv, LookupInv, SteadyLimitSeen
  <1>2. QED BY <1>1, Inductive, PTL

-------------------------------------------------------------------------------
(* Refinement: on the cleaned tables no statement of the startup shows. *)

LEMMA PromiseInit == Init => Promise!Init
  BY DEF Init, Promise!Init, modeBar, Starting

(* The bars while the process starts, and while it does not. *)
LEMMA BarsStarting ==
  ASSUME phase \in {"seed", "prune", "keys"}
  PROVE  /\ modeBar = "starting"
         /\ rowsBar = Promise!CleanRows(rows, catalog)
         /\ allowedBar = Promise!CleanAllowed(allowed, catalog)
         /\ policiesBar = Promise!CleanPolicies(policies, catalog)
  BY DEF Starting, modeBar, rowsBar, allowedBar, policiesBar, Promise!CleanRows,
         Promise!CleanAllowed, Promise!CleanPolicies

LEMMA BarsRunning ==
  ASSUME phase \notin {"seed", "prune", "keys"}
  PROVE  /\ modeBar = phase
         /\ rowsBar = rows
         /\ allowedBar = allowed
         /\ policiesBar = policies
  BY DEF Starting, modeBar, rowsBar, allowedBar, policiesBar

(* Tables that are clean are what cleaning makes of them. *)
LEMMA CleanIsFixed ==
  ASSUME TypeOK,
         \A m \in Models : rows[m] = "absent" <=> m \notin catalog,
         \A k \in Keys : allowed[k] \subseteq catalog,
         \A p \in policies : p[2] \in catalog \cup {Any}
  PROVE  /\ rows = Promise!CleanRows(rows, catalog)
         /\ allowed = Promise!CleanAllowed(allowed, catalog)
         /\ policies = Promise!CleanPolicies(policies, catalog)
  BY DEF TypeOK, Promise!CleanRows, Promise!CleanAllowed, Promise!CleanPolicies

LEMMA PromiseStart ==
  ASSUME IInv, NEW c \in Catalogs, Start(c)
  PROVE  Promise!Next
  <1>1. phase = "down" /\ phase' = "seed" /\ catalog' = c
    BY DEF Start
  <1>2. UNCHANGED <<rows, allowed, policies>>
    BY DEF Start, tables
  <1>3. Promise!Deploy(c)
    BY <1>1, <1>2
    DEF Promise!Deploy, Starting, modeBar, rowsBar, allowedBar, policiesBar,
        Promise!CleanRows, Promise!CleanAllowed, Promise!CleanPolicies
  <1>4. QED BY <1>3 DEF Promise!Next

(* Every statement of the startup leaves the cleaned tables as they are. *)
LEMMA PromiseStartup ==
  ASSUME IInv, Startup, ~Serve
  PROVE  UNCHANGED Promise!vars
  <1> USE CatalogAssumption DEF IInv, TypeOK, StartInv, SeedInv, PruneInv, SweptInv,
          RestrictionInv, startup, tables
  <1>1. /\ phase \in {"seed", "prune", "keys"}
        /\ phase' \in {"seed", "prune", "keys"}
        /\ catalog' = catalog
    BY DEF Startup, SeedModel, ListModels, DeletePoliciesOf, UnlistModel, SweepKey,
           DeleteRow, SweepPolicies
  <1>2. ASSUME NEW m \in Models
        PROVE  IF m \notin catalog THEN TRUE
               ELSE (IF rows[m] = "absent" THEN "on" ELSE rows[m]) =
                    (IF rows'[m] = "absent" THEN "on" ELSE rows'[m])
    BY DEF Startup, SeedModel, ListModels, DeletePoliciesOf, UnlistModel, SweepKey,
           DeleteRow, SweepPolicies
  <1>3. rowsBar' = rowsBar
    BY <1>1, <1>2 DEF rowsBar, Starting
  <1>4. ASSUME NEW k \in Keys
        PROVE  allowed'[k] \cap catalog = allowed[k] \cap catalog
    BY DEF Startup, SeedModel, ListModels, DeletePoliciesOf, UnlistModel, SweepKey,
           DeleteRow, SweepPolicies
  <1>5. allowedBar' = allowedBar
    BY <1>1, <1>4 DEF allowedBar, Starting
  <1>6. {p \in policies' : p[2] \in catalog \cup {Any}} =
        {p \in policies : p[2] \in catalog \cup {Any}}
    BY DEF Startup, SeedModel, ListModels, DeletePoliciesOf, UnlistModel, SweepKey,
           DeleteRow, SweepPolicies
  <1>7. policiesBar' = policiesBar
    BY <1>1, <1>6 DEF policiesBar, Starting
  <1>8. modeBar' = modeBar
    BY <1>1 DEF modeBar, Starting
  <1>9. QED BY <1>1, <1>3, <1>5, <1>7, <1>8 DEF Promise!vars

LEMMA PromiseServe ==
  ASSUME IInv, Serve
  PROVE  Promise!Next
  <1>1. phase = "keys" /\ phase' = "serving" /\ UNCHANGED <<catalog, rows, allowed, policies>>
    BY DEF Serve, tables
  <1>2. /\ \A m \in Models : rows[m] = "absent" <=> m \notin catalog
        /\ \A k \in Keys : allowed[k] \subseteq catalog
        /\ \A p \in policies : p[2] \in catalog \cup {Any}
    BY <1>1 DEF Serve, IInv, StartInv, SweptInv, RestrictionInv
  <1>3. /\ rowsBar = rows
        /\ allowedBar = allowed
        /\ policiesBar = policies
        /\ modeBar = "starting"
    BY <1>1, <1>2, BarsStarting, CleanIsFixed DEF IInv
  <1>4. /\ rowsBar' = rows
        /\ allowedBar' = allowed
        /\ policiesBar' = policies
        /\ modeBar' = "serving"
    BY <1>1 DEF Starting, modeBar, rowsBar, allowedBar, policiesBar
  <1>5. Promise!Complete
    BY <1>1, <1>3, <1>4 DEF Promise!Complete
  <1>6. QED BY <1>5 DEF Promise!Next

(* A start that dies leaves tables that clean to the same. *)
LEMMA PromiseCrash ==
  ASSUME IInv, Crash
  PROVE  Promise!Next
  <1>1. phase' = "down" /\ UNCHANGED <<catalog, rows, allowed, policies>>
    BY DEF Crash
  <1>2. /\ rowsBar' = rows
        /\ allowedBar' = allowed
        /\ policiesBar' = policies
        /\ modeBar' = "down"
    BY <1>1 DEF Starting, modeBar, rowsBar, allowedBar, policiesBar
  <1>3. CASE phase \in {"seed", "prune", "keys"}
    <2>1. Promise!Interrupt
      BY <1>1, <1>2, <1>3, BarsStarting DEF Promise!Interrupt
    <2>2. QED BY <2>1 DEF Promise!Next
  <1>4. CASE phase \notin {"seed", "prune", "keys"}
    <2>1. phase = "serving"
      BY <1>4 DEF Crash, IInv, TypeOK
    <2>2. Promise!Halt
      BY <1>1, <1>2, <2>1, BarsRunning DEF Promise!Halt
    <2>3. QED BY <2>2 DEF Promise!Next
  <1>5. QED BY <1>3, <1>4

LEMMA PromiseAdmin ==
  ASSUME IInv, IInv', Admin
  PROVE  Promise!Next
  <1>1. phase = "serving" /\ UNCHANGED startup
    BY DEF Admin, CreateKey, UpdateKey, SetDisabled, SetModelEnabled, UpsertPolicy,
           DeletePolicy, DeleteKeyPolicies, DeleteKeys, DeleteKeysFails
  <1>2. phase' = "serving" /\ catalog' = catalog
    BY <1>1 DEF startup
  <1>3. /\ rowsBar' = rows'
        /\ allowedBar' = allowed'
        /\ policiesBar' = policies'
        /\ modeBar' = "serving"
        /\ modeBar = "serving"
    BY <1>1, <1>2 DEF Starting, modeBar, rowsBar, allowedBar, policiesBar
  <1>4. /\ \A m \in Models : rows'[m] = "absent" <=> m \notin catalog'
        /\ \A k \in Keys : allowed'[k] \subseteq catalog'
        /\ \A p \in policies' : p[2] \in catalog' \cup {Any}
    BY <1>2 DEF IInv, StartInv, SweptInv, RestrictionInv
  <1>5. Promise!Clean'
    BY <1>2, <1>3, <1>4
    DEF IInv, TypeOK, Promise!Clean, Promise!CleanRows, Promise!CleanAllowed,
        Promise!CleanPolicies
  <1>6. Promise!Administer
    BY <1>2, <1>3, <1>5 DEF Promise!Administer
  <1>7. QED BY <1>6 DEF Promise!Next

LEMMA PromiseStep == IInv /\ IInv' /\ [Next]_vars => [Promise!Next]_(Promise!vars)
  <1> SUFFICES ASSUME IInv, IInv', [Next]_vars
               PROVE  [Promise!Next]_(Promise!vars)
    OBVIOUS
  <1>1. ASSUME UNCHANGED <<startup, tables>> PROVE UNCHANGED Promise!vars
    BY <1>1 DEF startup, tables, Promise!vars, Starting, modeBar, rowsBar, allowedBar,
                policiesBar
  <1>2. CASE UNCHANGED vars
    BY <1>1, <1>2 DEF vars
  <1>3. ASSUME NEW r \in Requests, Handler(r) PROVE UNCHANGED Promise!vars
    BY <1>1, <1>3, HandlerReads
  <1>4. QED
    BY <1>2, <1>3, PromiseStart, PromiseStartup, PromiseServe, PromiseCrash, PromiseAdmin
    DEF Next

(* However its statements, failures, restarts and administrators interleave, the
   service cleans as the catalogue promises: as if in one step, to the same
   result however often it is cut short, and clean as long as it serves. *)
THEOREM CatalogImplementsPromise == Spec => PromiseSpec
  BY PromiseInit, PromiseStep, Inductive, PTL DEF Spec, PromiseSpec, Promise!Spec
=============================================================================
