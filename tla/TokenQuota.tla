------------------------------ MODULE TokenQuota ------------------------------
(***************************************************************************)
(* The key-level token quota of the gateway: CheckAPIKeyTokenQuota sums the *)
(* usage a key has logged in the current day, then in the current week, and *)
(* refuses when a limited dimension has reached its limit; the usage of the *)
(* request itself is logged only when its answer is complete.  The check    *)
(* and the log are far apart, so requests of one key overtake each other;   *)
(* and the check only counts logs created before its own time stamp.        *)
(***************************************************************************)
EXTENDS Integers, FiniteSets

CONSTANTS
  Keys,       \* the API keys
  Requests,   \* the handler goroutines; each serves requests one by one
  KeyOf,      \* the key the requests of a handler authenticate with
  Dims,       \* token dimensions: "total", input, output, billable input
  Quota,      \* per key: daily, weekly limits, 0 for none, and legacyTotal
  Costs,      \* the token vectors an upstream call may report
  MaxCost,    \* no vector reports more than this in any dimension
  Calendar,   \* the day and the week each instant of the clock falls in
  MaxTime     \* bound of the clock

Windows == {"daily", "weekly"}
Times == 0 .. MaxTime

ASSUME QuotaAssumption ==
  /\ IsFiniteSet(Requests)
  /\ KeyOf \in [Requests -> Keys]
  /\ "total" \in Dims
  /\ Quota \in [Keys -> [daily : [Dims -> Nat], weekly : [Dims -> Nat],
                         legacyTotal : Nat]]
  /\ Costs \subseteq [Dims -> Nat]
  /\ MaxCost \in Nat
  /\ \A c \in Costs : \A d \in Dims : c[d] <= MaxCost
  /\ MaxTime \in Nat
  /\ Calendar \in [Windows -> [Times -> Nat]]

ASSUME CalendarAssumption ==
  \A w \in Windows : \A s, t \in Times :
    s <= t => Calendar[w][s] <= Calendar[w][t]

VARIABLES
  now,   \* the clock
  pc,    \* where each handler is
  at,    \* the time.Now() of the check, later the CreatedAt of the usage log
  cost,  \* the tokens the handler's answered call has yet to log
  used,  \* the usage logs: tokens a key logged, per window, per period
  older, \* the answers a handler's check finds older than its time stamp
  missed, \* tokens logged since with a CreatedAt not before that stamp
  late   \* history: the key was out of quota when the request came

order == <<older, missed>>
vars == <<now, pc, at, cost, used, order, late>>

(* daily, weekly: about to run that query; admitted: past both; answered: the
   client has its response, the usage log is not written. *)
Places == {"idle", "daily", "weekly", "admitted", "answered"}

Periods == UNION {{Calendar[w][t] : t \in Times} : w \in Windows}
NoCost == [d \in Dims |-> 0]
NothingMissed == [w \in Windows |-> NoCost]

TypeOK ==
  /\ now \in Times
  /\ pc \in [Requests -> Places]
  /\ at \in [Requests -> Times]
  /\ cost \in [Requests -> Costs \cup {NoCost}]
  /\ used \in [Windows -> [Keys -> [Periods -> [Dims -> Nat]]]]
  /\ older \in [Requests -> SUBSET Requests]
  /\ missed \in [Requests -> [Windows -> [Dims -> Nat]]]
  /\ late \in [Requests -> BOOLEAN]

Init ==
  /\ now = 0
  /\ pc = [r \in Requests |-> "idle"]
  /\ at = [r \in Requests |-> 0]
  /\ cost = [r \in Requests |-> NoCost]
  /\ used = [w \in Windows |-> [k \in Keys |-> [p \in Periods |-> NoCost]]]
  /\ older = [r \in Requests |-> {}]
  /\ missed = [r \in Requests |-> NothingMissed]
  /\ late = [r \in Requests |-> FALSE]

Goto(r, from, to) ==
  /\ pc[r] = from
  /\ pc' = [pc EXCEPT ![r] = to]

(***************************************************************************)
(* The quota.                                                              *)
(***************************************************************************)

(* effectiveAPIKeyWeeklyTokens: keys from before daily and weekly quotas keep
   their total quota as a weekly one. *)
EffectiveWeeklyTokens(q) ==
  IF q.weekly["total"] > 0 THEN q.weekly["total"]
  ELSE IF q.daily["total"] = 0 THEN q.legacyTotal
  ELSE 0

Limit(k, w) ==
  IF w = "daily" THEN Quota[k].daily
  ELSE [Quota[k].weekly EXCEPT !["total"] = EffectiveWeeklyTokens(Quota[k])]

(* A mistake: the dimensions other than the total are not looked at. *)
ExceededTotalOnly(limit, summary) ==
  limit["total"] > 0 /\ summary["total"] >= limit["total"]

(* gatewayAPIKeyTokenQuotaLimits.exceeded. *)
Exceeded(limit, summary) == \E d \in Dims : limit[d] > 0 /\ summary[d] >= limit[d]

(* SummarizeUsage from the start of the window to the time stamp of the check:
   created_at < EndTime leaves out what was answered after the stamp. *)
Summary(r, w) ==
  [d \in Dims |-> used[w][KeyOf[r]][Calendar[w][at[r]]][d] - missed[r][w][d]]

OutOfQuota(r, w) == Exceeded(Limit(KeyOf[r], w), Summary(r, w))

(* All that is logged for the window of instant t. *)
Exhausted(k, w, t) == Exceeded(Limit(k, w), used[w][k][Calendar[w][t]])

(***************************************************************************)
(* The handlers.                                                           *)
(***************************************************************************)

(* The check of a handler is over: nothing is compared with its stamp. *)
EndCheck(r) ==
  /\ older' = [older EXCEPT ![r] = {}]
  /\ missed' = [missed EXCEPT ![r] = NothingMissed]

(* The local variables of a request that is over before its answer. *)
Forget(r) ==
  /\ at' = [at EXCEPT ![r] = 0]
  /\ late' = [late EXCEPT ![r] = FALSE]

Answered == {q \in Requests : pc[q] = "answered"}

(* handleProxy calls CheckAPIKeyTokenQuota with the current time; the answers
   already stamped are older, those to come are not. *)
Begin(r) ==
  /\ Goto(r, "idle", "daily")
  /\ at' = [at EXCEPT ![r] = now]
  /\ older' = [older EXCEPT ![r] = Answered]
  /\ late' = [late EXCEPT ![r] = \E w \in Windows : Exhausted(KeyOf[r], w, now)]
  /\ UNCHANGED <<now, cost, used, missed>>

PassDaily(r) ==
  /\ ~OutOfQuota(r, "daily")
  /\ Goto(r, "daily", "weekly")
  /\ UNCHANGED <<now, at, cost, used, order, late>>

(* A mistake: the weekly check looks at the daily window again. *)
PassWeeklyByDay(r) ==
  /\ ~OutOfQuota(r, "daily")
  /\ Goto(r, "weekly", "admitted")
  /\ EndCheck(r)
  /\ UNCHANGED <<now, at, cost, used, late>>

PassWeekly(r) ==
  /\ ~OutOfQuota(r, "weekly")
  /\ Goto(r, "weekly", "admitted")
  /\ EndCheck(r)
  /\ UNCHANGED <<now, at, cost, used, late>>

(* A window is exhausted: 429.  The usage log of the refusal has no tokens. *)
RefuseQuota(r) ==
  /\ \E w \in Windows : pc[r] = w /\ OutOfQuota(r, w)
  /\ pc' = [pc EXCEPT ![r] = "idle"]
  /\ Forget(r)
  /\ EndCheck(r)
  /\ UNCHANGED <<now, cost, used>>

(* The query fails (429), or a later stage refuses the request or its upstream
   call fails: the usage log of every such path has no tokens. *)
EndWithoutTokens(r) ==
  /\ pc[r] \in {"daily", "weekly", "admitted"}
  /\ pc' = [pc EXCEPT ![r] = "idle"]
  /\ Forget(r)
  /\ EndCheck(r)
  /\ UNCHANGED <<now, cost, used>>

(* The response is written, then CreatedAt is stamped. *)
Answer(r, c) ==
  /\ Goto(r, "admitted", "answered")
  /\ at' = [at EXCEPT ![r] = now]
  /\ cost' = [cost EXCEPT ![r] = c]
  /\ UNCHANGED <<now, used, order, late>>

(* The next answer of this handler will be younger than every current check. *)
EndLog(r) ==
  /\ Goto(r, "answered", "idle")
  /\ Forget(r)
  /\ cost' = [cost EXCEPT ![r] = NoCost]
  /\ older' = [q \in Requests |-> older[q] \ {r}]
  /\ UNCHANGED now

(* The check of handler q, stamped before the answer of r, overlooks its log. *)
Overlooks(q, r, w) ==
  /\ pc[q] \in Windows
  /\ KeyOf[q] = KeyOf[r]
  /\ r \notin older[q]
  /\ Calendar[w][at[q]] = Calendar[w][at[r]]

Miss(r) ==
  missed' = [q \in Requests |-> [w \in Windows |-> [d \in Dims |->
    missed[q][w][d] + IF Overlooks(q, r, w) THEN cost[r][d] ELSE 0]]]

(* A mistake: the usage of an answer is deducted. *)
RecordRefund(r) ==
  /\ EndLog(r)
  /\ Miss(r)
  /\ used' = [w \in Windows |->
       [used[w] EXCEPT ![KeyOf[r]][Calendar[w][at[r]]] =
          [d \in Dims |-> @[d] - cost[r][d]]]]

(* recordUsage inserts the log: it counts for the periods of CreatedAt. *)
RecordUsage(r) ==
  /\ EndLog(r)
  /\ Miss(r)
  /\ used' = [w \in Windows |->
       [used[w] EXCEPT ![KeyOf[r]][Calendar[w][at[r]]] =
          [d \in Dims |-> @[d] + cost[r][d]]]]

(* The insert fails or takes longer than gatewayUsageWriteTimeout: it is only
   logged as an error, the tokens are not counted anywhere. *)
LoseUsage(r) ==
  /\ EndLog(r)
  /\ UNCHANGED <<used, missed>>

Tick ==
  /\ now < MaxTime
  /\ now' = now + 1
  /\ UNCHANGED <<pc, at, cost, used, order, late>>

Handler(r) ==
  \/ Begin(r) \/ PassDaily(r) \/ PassWeekly(r) \/ RefuseQuota(r)
  \/ EndWithoutTokens(r) \/ (\E c \in Costs : Answer(r, c))
  \/ RecordUsage(r) \/ LoseUsage(r)

Next == Tick \/ \E r \in Requests : Handler(r)

Spec == Init /\ [][Next]_vars

(***************************************************************************)
(* Properties.                                                             *)
(***************************************************************************)

Handlers(k) == {r \in Requests : KeyOf[r] = k}

(* In no day and no week does the logged usage of a key exceed a limit by more
   than what its concurrent requests can report: each handler that passed the
   check before the limit was reached adds one answer, and then it is over. *)
BoundedOverrun ==
  \A w \in Windows : \A k \in Keys : \A t \in Times : \A d \in Dims :
    Limit(k, w)[d] > 0 =>
      used[w][k][Calendar[w][t]][d]
        <= Limit(k, w)[d] - 1 + MaxCost * Cardinality(Handlers(k))

(* Once a key has logged its quota for the day or the week, every request that
   comes in that period is refused, although the day and the week are queried
   one after the other while other requests log their usage and midnight may
   pass: no request that came late is ever let through. *)
ExhaustedKeyRefused ==
  \A r \in Requests : late[r] => pc[r] \notin {"admitted", "answered"}
=============================================================================
