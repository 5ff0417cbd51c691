--------------------------- MODULE TokenQuotaProofs ---------------------------
(***************************************************************************)
(* Proofs about TokenQuota: type correctness, the bound on how far a quota *)
(* can be overrun, and that a request which comes late is refused.         *)
(***************************************************************************)
EXTENDS TokenQuota, FiniteSetTheorems, TLAPS

-------------------------------------------------------------------------------
(* Types. *)

LEMMA LimitType ==
  ASSUME NEW k \in Keys, NEW w \in Windows
  PROVE Limit(k, w) \in [Dims -> Nat]
  BY QuotaAssumption DEF Limit, EffectiveWeeklyTokens

LEMMA CostType ==
  ASSUME NEW c \in Costs \cup {NoCost}, NEW d \in Dims
  PROVE c \in [Dims -> Nat] /\ c[d] \in Nat /\ c[d] <= MaxCost
  BY QuotaAssumption DEF NoCost

LEMMA PeriodType ==
  ASSUME NEW w \in Windows, NEW t \in Times
  PROVE Calendar[w][t] \in Periods /\ Calendar[w][t] \in Nat
  BY QuotaAssumption DEF Periods

LEMMA InitTypeOK == Init => TypeOK
  BY QuotaAssumption DEF Init, TypeOK, Places, NoCost, NothingMissed, Times

LEMMA RecordType ==
  ASSUME TypeOK, NEW r \in Requests, RecordUsage(r)
  PROVE used' \in [Windows -> [Keys -> [Periods -> [Dims -> Nat]]]]
  <1> DEFINE k == KeyOf[r]
             new(w) == [d \in Dims |-> used[w][k][Calendar[w][at[r]]][d] + cost[r][d]]
  <1>1. k \in Keys /\ at[r] \in Times
    BY QuotaAssumption DEF TypeOK
  <1>2. ASSUME NEW w \in Windows
        PROVE [used[w] EXCEPT ![k][Calendar[w][at[r]]] = new(w)]
                \in [Keys -> [Periods -> [Dims -> Nat]]]
    <2> DEFINE p == Calendar[w][at[r]]
    <2>1. p \in Periods
      BY <1>1, PeriodType
    <2>2. used[w] \in [Keys -> [Periods -> [Dims -> Nat]]]
      BY DEF TypeOK
    <2>3. cost[r] \in [Dims -> Nat]
      <3>1. cost[r] \in Costs \cup {NoCost}
        BY DEF TypeOK
      <3>2. QED BY <3>1, QuotaAssumption DEF NoCost
    <2>4. \A d \in Dims : used[w][k][p][d] + cost[r][d] \in Nat
      BY <1>1, <2>1, <2>2, <2>3
    <2>5. new(w) \in [Dims -> Nat]
      BY <2>4
    <2> HIDE DEF new, p
    <2>6. [used[w] EXCEPT ![k][p] = new(w)] \in [Keys -> [Periods -> [Dims -> Nat]]]
      BY <1>1, <2>1, <2>2, <2>5
    <2>7. QED BY <2>6 DEF p
  <1>3. used' = [w \in Windows |-> [used[w] EXCEPT ![k][Calendar[w][at[r]]] = new(w)]]
    BY DEF RecordUsage
  <1>4. QED BY <1>2, <1>3

LEMMA MissType ==
  ASSUME TypeOK, NEW r \in Requests, Miss(r)
  PROVE missed' \in [Requests -> [Windows -> [Dims -> Nat]]]
  <1> DEFINE new(q, w, d) ==
        missed[q][w][d] + IF Overlooks(q, r, w) THEN cost[r][d] ELSE 0
  <1>1. ASSUME NEW q \in Requests, NEW w \in Windows, NEW d \in Dims
        PROVE new(q, w, d) \in Nat
    <2>1. missed[q][w][d] \in Nat
      BY DEF TypeOK
    <2>2. cost[r][d] \in Nat
      BY CostType DEF TypeOK
    <2>3. QED BY <2>1, <2>2
  <1>2. missed' = [q \in Requests |-> [w \in Windows |-> [d \in Dims |-> new(q, w, d)]]]
    BY DEF Miss
  <1> HIDE DEF new
  <1>3. QED BY <1>1, <1>2

LEMMA NextTypeOK == TypeOK /\ [Next]_vars => TypeOK'
  <1> SUFFICES ASSUME TypeOK, [Next]_vars PROVE TypeOK'
    OBVIOUS
  <1> USE DEF TypeOK, Places, Goto, Forget, EndCheck
  <1>0. 0 \in Times /\ NothingMissed \in [Windows -> [Dims -> Nat]]
    BY QuotaAssumption DEF Times, NothingMissed, NoCost
  <1>1. CASE Tick BY <1>1, QuotaAssumption DEF Tick, Times, order
  <1>2. ASSUME NEW r \in Requests, Handler(r) PROVE TypeOK'
    <2>1. CASE Begin(r) BY <2>1 DEF Begin, Answered
    <2>2. CASE PassDaily(r) BY <2>2 DEF PassDaily, order
    <2>3. CASE PassWeekly(r) BY <1>0, <2>3 DEF PassWeekly
    <2>4. CASE RefuseQuota(r) BY <1>0, <2>4 DEF RefuseQuota
    <2>5. CASE EndWithoutTokens(r) BY <1>0, <2>5 DEF EndWithoutTokens
    <2>6. ASSUME NEW c \in Costs, Answer(r, c) PROVE TypeOK'
      BY <2>6 DEF Answer, order
    <2>7. CASE RecordUsage(r)
      BY <1>0, <2>7, RecordType, MissType DEF RecordUsage, EndLog
    <2>8. CASE LoseUsage(r) BY <1>0, <2>8 DEF LoseUsage, EndLog
    <2>9. QED
      BY <1>2, <2>1, <2>2, <2>3, <2>4, <2>5, <2>6, <2>7, <2>8 DEF Handler
  <1>3. CASE UNCHANGED vars BY <1>3 DEF vars, order
  <1>4. QED BY <1>1, <1>2, <1>3 DEF Next

(* In every behaviour of the quota every variable has its type. *)
THEOREM TypeCorrect == Spec => []TypeOK
  BY InitTypeOK, NextTypeOK, PTL DEF Spec

-------------------------------------------------------------------------------
(* What a check sees. *)

Room(w, k, t, d) == used[w][k][Calendar[w][t]][d] < Limit(k, w)[d]

(* The check of handler q, stamped with t, finds room in one dimension. *)
SeesRoom(q, w, t, d) ==
  used[w][KeyOf[q]][Calendar[w][t]][d] - missed[q][w][d] < Limit(KeyOf[q], w)[d]

(* What a log adds to a period, and what it hides from a check. *)
LEMMA RecordEffect ==
  ASSUME TypeOK, NEW r \in Requests, RecordUsage(r), NEW w \in Windows,
         NEW k \in Keys, NEW t \in Times, NEW d \in Dims, NEW q \in Requests
  PROVE /\ used[w][k][Calendar[w][t]][d] \in Nat
        /\ used'[w][k][Calendar[w][t]][d] \in Nat
        /\ missed[q][w][d] \in Nat /\ missed'[q][w][d] \in Nat
        /\ cost[r][d] \in Nat /\ cost[r][d] <= MaxCost
        /\ Limit(k, w)[d] \in Nat /\ Limit(k, w)' = Limit(k, w)
        /\ IF k = KeyOf[r] /\ Calendar[w][t] = Calendar[w][at[r]]
           THEN used'[w][k][Calendar[w][t]][d] = used[w][k][Calendar[w][t]][d] + cost[r][d]
           ELSE used'[w][k][Calendar[w][t]][d] = used[w][k][Calendar[w][t]][d]
        /\ IF Overlooks(q, r, w)
           THEN missed'[q][w][d] = missed[q][w][d] + cost[r][d]
           ELSE missed'[q][w][d] = missed[q][w][d]
  <1> DEFINE p == Calendar[w][t]
  <1>1. p \in Periods /\ KeyOf[r] \in Keys /\ Calendar[w][at[r]] \in Periods
    BY PeriodType, QuotaAssumption DEF TypeOK
  <1>2. used[w][k][p][d] \in Nat /\ missed[q][w][d] \in Nat
    BY <1>1 DEF TypeOK
  <1>3. cost[r][d] \in Nat /\ cost[r][d] <= MaxCost
    BY CostType DEF TypeOK
  <1>4. Limit(k, w)[d] \in Nat /\ Limit(k, w)' = Limit(k, w)
    BY LimitType DEF Limit, EffectiveWeeklyTokens
  <1>5. IF k = KeyOf[r] /\ p = Calendar[w][at[r]]
        THEN used'[w][k][p][d] = used[w][k][p][d] + cost[r][d]
        ELSE used'[w][k][p][d] = used[w][k][p][d]
    <2>1. used[w] \in [Keys -> [Periods -> [Dims -> Nat]]]
      BY DEF TypeOK
    <2>2. used'[w] = [used[w] EXCEPT ![KeyOf[r]][Calendar[w][at[r]]] =
                        [e \in Dims |-> @[e] + cost[r][e]]]
      BY DEF RecordUsage
    <2>3. used'[w][k] = IF k = KeyOf[r]
                        THEN [used[w][k] EXCEPT ![Calendar[w][at[r]]] =
                                [e \in Dims |-> @[e] + cost[r][e]]]
                        ELSE used[w][k]
      BY <1>1, <2>1, <2>2, Zenon
    <2>4. used[w][k] \in [Periods -> [Dims -> Nat]]
      BY <2>1
    <2>5. used'[w][k][p] = IF k = KeyOf[r] /\ p = Calendar[w][at[r]]
                           THEN [e \in Dims |-> used[w][k][p][e] + cost[r][e]]
                           ELSE used[w][k][p]
      <3>1. CASE k = KeyOf[r]
        <4>1. PICK row : row = used[w][k]
          OBVIOUS
        <4>2. used'[w][k] = [row EXCEPT ![Calendar[w][at[r]]] =
                               [e \in Dims |-> @[e] + cost[r][e]]]
          BY <2>3, <3>1, <4>1
        <4>3. p \in DOMAIN row
          BY <1>1, <2>4, <4>1
        <4>4. QED BY <3>1, <4>1, <4>2, <4>3
      <3>2. CASE k # KeyOf[r]
        BY <2>3, <3>2
      <3>3. QED BY <3>1, <3>2
    <2>6. QED BY <2>5
  <1>6. IF Overlooks(q, r, w)
        THEN missed'[q][w][d] = missed[q][w][d] + cost[r][d]
        ELSE missed'[q][w][d] = missed[q][w][d]
    BY <1>2, <1>3 DEF RecordUsage, Miss
  <1>7. QED BY <1>2, <1>3, <1>4, <1>5, <1>6

(* While a check runs, what it sees never shrinks. *)
LEMMA SeenGrows ==
  ASSUME TypeOK, NEW r \in Requests, RecordUsage(r), NEW q \in Requests,
         NEW w \in Windows, NEW d \in Dims, NEW t \in Times, t = at[q],
         SeesRoom(q, w, t, d)'
  PROVE SeesRoom(q, w, t, d)
  <1> DEFINE k == KeyOf[q]
             p == Calendar[w][t]
             u == used[w][k][p][d]
             m == missed[q][w][d]
             l == Limit(k, w)[d]
             c == cost[r][d]
  <1>1. k \in Keys
    BY QuotaAssumption
  <1>2. u \in Nat /\ u' \in Nat /\ m \in Nat /\ m' \in Nat /\ l \in Nat /\ l' = l
        /\ c \in Nat
        /\ (IF k = KeyOf[r] /\ p = Calendar[w][at[r]] THEN u' = u + c ELSE u' = u)
        /\ (IF Overlooks(q, r, w) THEN m' = m + c ELSE m' = m)
    <2>1. /\ u \in Nat /\ m \in Nat /\ l \in Nat /\ l' = l /\ c \in Nat
          /\ (IF k = KeyOf[r] /\ p = Calendar[w][at[r]] THEN u' = u + c ELSE u' = u)
          /\ (IF Overlooks(q, r, w) THEN m' = m + c ELSE m' = m)
      <3>1. /\ u \in Nat /\ m \in Nat /\ c \in Nat
        BY <1>1, RecordEffect
      <3>2. l \in Nat /\ l' = l
        BY <1>1, RecordEffect
      <3>3. IF k = KeyOf[r] /\ p = Calendar[w][at[r]] THEN u' = u + c ELSE u' = u
        BY <1>1, RecordEffect
      <3>4. IF Overlooks(q, r, w) THEN m' = m + c ELSE m' = m
        BY <1>1, RecordEffect
      <3>5. QED BY <3>1, <3>2, <3>3, <3>4
    <2> HIDE DEF u, m, l, c, k, p
    <2>2. QED BY <2>1
  <1>3. Overlooks(q, r, w) => k = KeyOf[r] /\ p = Calendar[w][at[r]]
    BY DEF Overlooks
  <1>4. u' - m' < l
    BY <1>2 DEF SeesRoom
  <1>5. u - m < l
    <2> HIDE DEF u, m, l, c, k, p
    <2>1. QED BY <1>2, <1>3, <1>4
  <1>6. QED BY <1>5 DEF SeesRoom

LEMMA OutOfQuotaMeans ==
  ASSUME TypeOK, NEW q \in Requests, NEW w \in Windows, NEW t \in Times, t = at[q]
  PROVE OutOfQuota(q, w) <=>
          \E d \in Dims : Limit(KeyOf[q], w)[d] > 0 /\ ~SeesRoom(q, w, t, d)
  <1>1. ASSUME NEW d \in Dims
        PROVE /\ used[w][KeyOf[q]][Calendar[w][t]][d] - missed[q][w][d] \in Int
              /\ Limit(KeyOf[q], w)[d] \in Nat
    <2>1. KeyOf[q] \in Keys /\ Calendar[w][t] \in Periods
      BY PeriodType, QuotaAssumption
    <2>2. QED BY <2>1, LimitType DEF TypeOK
  <1>2. QED BY <1>1 DEF OutOfQuota, Exceeded, Summary, SeesRoom

-------------------------------------------------------------------------------
(* A request that comes late is refused. *)

(* A late request is still before the query of a window that is exhausted in
   the request's own period. *)
LateInv ==
  \A r \in Requests : late[r] =>
    \/ pc[r] = "daily" /\ \E w \in Windows : OutOfQuota(r, w)
    \/ pc[r] = "weekly" /\ OutOfQuota(r, "weekly")

(* A check that is out of quota stays so when other requests log usage. *)
LEMMA StaysOutOfQuota ==
  ASSUME TypeOK, TypeOK', NEW r \in Requests, RecordUsage(r), NEW q \in Requests,
         at'[q] = at[q], NEW w \in Windows, OutOfQuota(q, w)
  PROVE OutOfQuota(q, w)'
  <1>1. PICK t \in Times : t = at[q]
    BY DEF TypeOK
  <1>2. PICK d \in Dims : Limit(KeyOf[q], w)[d] > 0 /\ ~SeesRoom(q, w, t, d)
    BY <1>1, OutOfQuotaMeans
  <1>3. ~SeesRoom(q, w, t, d)'
    BY <1>1, <1>2, SeenGrows
  <1>4. Limit(KeyOf[q], w)' = Limit(KeyOf[q], w)
    BY DEF Limit, EffectiveWeeklyTokens
  <1>5. OutOfQuota(q, w)' <=>
          (\E e \in Dims : Limit(KeyOf[q], w)[e] > 0 /\ ~SeesRoom(q, w, t, e))'
    <2>1. KeyOf[q] \in Keys /\ Calendar[w][t] \in Periods
      BY PeriodType, QuotaAssumption
    <2>2. ASSUME NEW e \in Dims
          PROVE /\ (used[w][KeyOf[q]][Calendar[w][t]][e] - missed[q][w][e])' \in Int
                /\ Limit(KeyOf[q], w)[e]' \in Nat
      BY <1>4, <2>1, LimitType DEF TypeOK
    <2>3. at'[q] = t
      BY <1>1
    <2>4. ASSUME NEW e \in Dims
          PROVE /\ Limit(KeyOf[q], w)[e]' > 0
                /\ Summary(q, w)'[e] >= Limit(KeyOf[q], w)[e]'
                <=> Limit(KeyOf[q], w)[e]' > 0 /\ ~SeesRoom(q, w, t, e)'
      BY <2>2, <2>3 DEF Summary, SeesRoom
    <2>5. QED BY <2>4 DEF OutOfQuota, Exceeded
  <1>6. QED BY <1>2, <1>3, <1>4, <1>5

(* A step that leaves the logs and a check alone leaves its result alone. *)
LEMMA CheckFrame ==
  ASSUME NEW q \in Requests, at'[q] = at[q], missed'[q] = missed[q], used' = used,
         NEW w \in Windows
  PROVE OutOfQuota(q, w)' <=> OutOfQuota(q, w)
  BY DEF OutOfQuota, Exceeded, Summary, Limit, EffectiveWeeklyTokens

(* The check of a request that comes has overlooked nothing. *)
LEMMA LateBegins ==
  ASSUME TypeOK, NEW r \in Requests, missed[r] = NothingMissed, Begin(r),
         NEW w \in Windows, Exhausted(KeyOf[r], w, now)
  PROVE OutOfQuota(r, w)'
  <1>1. /\ at'[r] = now /\ used' = used /\ missed'[r] = NothingMissed
        /\ KeyOf[r] \in Keys /\ now \in Times /\ Calendar[w][now] \in Periods
    BY QuotaAssumption, PeriodType DEF Begin, TypeOK
  <1>2. PICK d \in Dims : /\ Limit(KeyOf[r], w)[d] > 0
                          /\ used[w][KeyOf[r]][Calendar[w][now]][d] >= Limit(KeyOf[r], w)[d]
    BY DEF Exhausted, Exceeded
  <1>3. used[w][KeyOf[r]][Calendar[w][now]][d] \in Nat
    BY <1>1 DEF TypeOK
  <1>4. Summary(r, w)'[d] = used[w][KeyOf[r]][Calendar[w][now]][d]
    BY <1>1, <1>3 DEF Summary, NothingMissed, NoCost
  <1>5. Limit(KeyOf[r], w)' = Limit(KeyOf[r], w)
    BY DEF Limit, EffectiveWeeklyTokens
  <1>6. QED BY <1>2, <1>4, <1>5 DEF OutOfQuota, Exceeded

(* Outside a check nothing is compared with its stamp. *)
CheckInv == \A r \in Requests : pc[r] \notin Windows => missed[r] = NothingMissed

LEMMA CheckStep == TypeOK /\ CheckInv /\ [Next]_vars => CheckInv'
  <1> SUFFICES ASSUME TypeOK, CheckInv, [Next]_vars,
                      NEW q \in Requests, pc'[q] \notin Windows
               PROVE missed'[q] = NothingMissed
    BY DEF CheckInv
  <1> USE DEF TypeOK, Windows, Goto
  <1>1. ASSUME pc'[q] = pc[q], missed'[q] = missed[q] PROVE missed'[q] = NothingMissed
    BY <1>1 DEF CheckInv
  <1>2. ASSUME NEW r \in Requests, Handler(r) PROVE missed'[q] = NothingMissed
    <2>1. CASE Begin(r) \/ PassDaily(r)
      BY <1>1, <2>1 DEF Begin, PassDaily, order
    <2>2. CASE PassWeekly(r) \/ RefuseQuota(r) \/ EndWithoutTokens(r)
      BY <1>1, <2>2 DEF PassWeekly, RefuseQuota, EndWithoutTokens, EndCheck
    <2>3. CASE LoseUsage(r) \/ \E c \in Costs : Answer(r, c)
      BY <2>3 DEF LoseUsage, EndLog, Answer, order, CheckInv
    <2>4. CASE RecordUsage(r)
      <3>1. pc[q] \notin Windows
        BY <2>4 DEF RecordUsage, EndLog
      <3>2. \A w \in Windows : ~Overlooks(q, r, w)
        BY <3>1 DEF Overlooks
      <3>3. missed[q] = NothingMissed
        BY <3>1 DEF CheckInv
      <3>4. missed'[q] = [w \in Windows |-> [d \in Dims |-> missed[q][w][d] + 0]]
        BY <2>4, <3>2 DEF RecordUsage, Miss
      <3>5. missed'[q] = [w \in Windows |-> [d \in Dims |-> 0]]
        BY <3>3, <3>4 DEF NothingMissed, NoCost
      <3>6. QED BY <3>5 DEF NothingMissed, NoCost
    <2>5. QED BY <1>2, <2>1, <2>2, <2>3, <2>4 DEF Handler
  <1>3. CASE Tick BY <1>1, <1>3 DEF Tick, order
  <1>4. CASE UNCHANGED vars BY <1>1, <1>4 DEF vars, order
  <1>5. QED BY <1>2, <1>3, <1>4 DEF Next

LEMMA LateStep == TypeOK /\ TypeOK' /\ CheckInv /\ LateInv /\ [Next]_vars => LateInv'
  <1> SUFFICES ASSUME TypeOK, TypeOK', CheckInv, LateInv, [Next]_vars,
                      NEW q \in Requests, late'[q]
               PROVE \/ pc'[q] = "daily" /\ \E w \in Windows : OutOfQuota(q, w)'
                     \/ pc'[q] = "weekly" /\ OutOfQuota(q, "weekly")'
    BY DEF LateInv
  <1> DEFINE Goal == \/ pc'[q] = "daily" /\ \E w \in Windows : OutOfQuota(q, w)'
                     \/ pc'[q] = "weekly" /\ OutOfQuota(q, "weekly")'
  <1>0. "weekly" \in Windows
    BY DEF Windows
  <1>1. ASSUME pc'[q] = pc[q], at'[q] = at[q], late'[q] = late[q],
               missed'[q] = missed[q], used' = used
        PROVE Goal
    BY <1>0, <1>1, CheckFrame DEF LateInv
  <1>2. ASSUME NEW r \in Requests, Handler(r) PROVE Goal
    <2>1. CASE RecordUsage(r)
      <3>1. q # r /\ pc'[q] = pc[q] /\ at'[q] = at[q] /\ late[q]
        BY <2>1 DEF RecordUsage, EndLog, Goto, Forget, TypeOK
      <3>2. QED BY <1>0, <2>1, <3>1, StaysOutOfQuota DEF LateInv
    <2>2. CASE q # r /\ ~RecordUsage(r)
      <3> USE DEF Goto, Forget, EndCheck, order, TypeOK
      <3>1. CASE Begin(r) \/ PassDaily(r) \/ PassWeekly(r)
        BY <1>1, <2>2, <3>1 DEF Begin, PassDaily, PassWeekly
      <3>2. CASE RefuseQuota(r) \/ EndWithoutTokens(r)
        BY <1>1, <2>2, <3>2 DEF RefuseQuota, EndWithoutTokens
      <3>3. CASE LoseUsage(r) \/ \E c \in Costs : Answer(r, c)
        BY <1>1, <2>2, <3>3 DEF LoseUsage, EndLog, Answer
      <3>4. QED BY <1>2, <2>2, <3>1, <3>2, <3>3 DEF Handler
    <2>3. CASE q = r /\ Begin(r)
      <3>1. missed[r] = NothingMissed
        BY <2>3 DEF Begin, Goto, CheckInv, Windows
      <3>2. pc'[r] = "daily" /\ \E w \in Windows : Exhausted(KeyOf[r], w, now)
        BY <2>3 DEF Begin, Goto, TypeOK
      <3>3. QED BY <2>3, <3>1, <3>2, LateBegins
    <2>4. CASE q = r /\ PassDaily(r)
      <3>1. /\ at' = at /\ used' = used /\ late' = late /\ missed' = missed
            /\ pc[r] = "daily" /\ pc'[r] = "weekly" /\ ~OutOfQuota(r, "daily")
        BY <2>4 DEF PassDaily, Goto, order, TypeOK
      <3>2. OutOfQuota(r, "weekly")
        BY <2>4, <3>1 DEF LateInv, Windows
      <3>3. QED BY <1>0, <2>4, <3>1, <3>2, CheckFrame
    <2>5. CASE q = r /\ (PassWeekly(r) \/ \E c \in Costs : Answer(r, c))
      BY <2>5 DEF PassWeekly, Answer, Goto, LateInv
    <2>6. CASE q = r /\ (RefuseQuota(r) \/ EndWithoutTokens(r) \/ LoseUsage(r))
      BY <2>6 DEF RefuseQuota, EndWithoutTokens, LoseUsage, EndLog, Forget, TypeOK
    <2>7. QED BY <1>2, <2>1, <2>2, <2>3, <2>4, <2>5, <2>6 DEF Handler
  <1>3. CASE Tick BY <1>1, <1>3 DEF Tick, order
  <1>4. CASE UNCHANGED vars BY <1>1, <1>4 DEF vars, order
  <1>5. QED BY <1>2, <1>3, <1>4 DEF Next

(* For every quota, calendar and number of handlers: a request that comes when
   a window of its key is exhausted never gets past both checks. *)
THEOREM LateRequestsRefused == Spec => []ExhaustedKeyRefused
  <1>1. Init => LateInv /\ CheckInv
    BY DEF Init, LateInv, CheckInv
  <1>2. LateInv => ExhaustedKeyRefused
    BY DEF LateInv, ExhaustedKeyRefused
  <1>3. QED BY <1>1, <1>2, CheckStep, LateStep, TypeCorrect, PTL DEF Spec

-------------------------------------------------------------------------------
(* The overrun is bounded. *)

Before(w) == IF w = "daily" THEN {"daily"} ELSE {"daily", "weekly"}
Past(w) == IF w = "daily" THEN {"weekly", "admitted"} ELSE {"admitted"}

(* The handlers whose request may still add tokens to period p although the
   dimension has no room: answered in p, or, for the current period, past the
   check, about to check an older period because the clock moved on, or about
   to overlook what was logged since its stamp. *)
Exposed(w, k, p, d) ==
  {r \in Handlers(k) :
     \/ pc[r] = "answered" /\ Calendar[w][at[r]] = p
     \/ /\ p = Calendar[w][now]
        /\ \/ pc[r] \in Past(w)
           \/ /\ pc[r] \in Before(w)
              /\ Calendar[w][at[r]] = p => SeesRoom(r, w, at[r], d)}

Ceiling(w, k, d) == Limit(k, w)[d] - 1 + MaxCost * Cardinality(Handlers(k))

OverrunAt(w, k, t, d) ==
  LET p == Calendar[w][t] IN
  /\ p <= Calendar[w][now] =>
       used[w][k][p][d] + MaxCost * Cardinality(Exposed(w, k, p, d)) <= Ceiling(w, k, d)
  /\ p > Calendar[w][now] => used[w][k][p][d] = 0

(* What makes BoundedOverrun inductive: the tokens logged and those the exposed
   handlers can still add stay below the ceiling together. *)
OverrunInv ==
  \A w \in Windows : \A k \in Keys : \A t \in Times : \A d \in Dims :
    Limit(k, w)[d] > 0 => OverrunAt(w, k, t, d)

LEMMA HandlersFinite ==
  ASSUME NEW k \in Keys
  PROVE IsFiniteSet(Handlers(k)) /\ Cardinality(Handlers(k)) \in Nat
  BY QuotaAssumption, FS_Subset, FS_CardinalityType DEF Handlers

LEMMA TimesOrder ==
  ASSUME NEW a \in Nat, NEW m \in Nat, NEW n \in Nat, m <= n
  PROVE a * m <= a * n /\ a * m \in Nat /\ a * n \in Nat
  <1>1. PICK x \in Nat : n = m + x
    <2>1. n - m \in Nat /\ n = m + (n - m)
      OBVIOUS
    <2>2. QED BY <2>1
  <1>2. a * n = a * m + a * x /\ a * x \in Nat /\ a * m \in Nat
    BY <1>1
  <1>3. QED BY <1>2

(* Subsets of a key's handlers can add no more than larger subsets. *)
LEMMA LoadOrder ==
  ASSUME NEW k \in Keys, NEW S, NEW T \in SUBSET Handlers(k), S \subseteq T
  PROVE /\ IsFiniteSet(S) /\ IsFiniteSet(T)
        /\ Cardinality(S) \in Nat /\ Cardinality(T) \in Nat
        /\ MaxCost * Cardinality(S) \in Nat
        /\ MaxCost * Cardinality(T) \in Nat
        /\ MaxCost * Cardinality(S) <= MaxCost * Cardinality(T)
  <1>1. IsFiniteSet(T) /\ Cardinality(T) \in Nat
    BY HandlersFinite, FS_Subset, FS_CardinalityType
  <1>2. IsFiniteSet(S) /\ Cardinality(S) \in Nat /\ Cardinality(S) <= Cardinality(T)
    BY <1>1, FS_Subset, FS_CardinalityType
  <1>3. QED BY <1>1, <1>2, TimesOrder, QuotaAssumption

(* While the dimension has room even all handlers of the key fit. *)
LEMMA OverrunRoom ==
  ASSUME TypeOK, NEW w \in Windows, NEW k \in Keys, NEW t \in Times, NEW d \in Dims,
         Room(w, k, t, d), Calendar[w][t] <= Calendar[w][now]
  PROVE OverrunAt(w, k, t, d)
  <1> DEFINE p == Calendar[w][t]
             S == Exposed(w, k, p, d)
  <1>1. S \in SUBSET Handlers(k)
    BY DEF Exposed
  <1>2. /\ MaxCost * Cardinality(S) \in Nat
        /\ MaxCost * Cardinality(Handlers(k)) \in Nat
        /\ MaxCost * Cardinality(S) <= MaxCost * Cardinality(Handlers(k))
    BY <1>1, LoadOrder
  <1>3. used[w][k][p][d] \in Nat /\ Limit(k, w)[d] \in Nat
    BY PeriodType, LimitType DEF TypeOK
  <1>4. now \in Times /\ Calendar[w][now] \in Nat /\ p \in Nat
    BY PeriodType DEF TypeOK
  <1> HIDE DEF S
  <1>5. QED BY <1>2, <1>3, <1>4 DEF OverrunAt, Ceiling, Room, S

LEMMA OverrunInit == Init => OverrunInv
  <1> SUFFICES ASSUME Init, NEW w \in Windows, NEW k \in Keys, NEW t \in Times,
                      NEW d \in Dims, Limit(k, w)[d] > 0
               PROVE OverrunAt(w, k, t, d)
    BY DEF OverrunInv
  <1>1. used[w][k][Calendar[w][t]][d] = 0
    BY PeriodType DEF Init, NoCost
  <1>2. CASE Calendar[w][t] <= Calendar[w][now]
    BY <1>1, <1>2, OverrunRoom, InitTypeOK, LimitType DEF Room
  <1>3. CASE ~(Calendar[w][t] <= Calendar[w][now])
    BY <1>1, <1>3 DEF OverrunAt
  <1>4. QED BY <1>2, <1>3

(* A step that logs nothing is harmless when the dimension has room, or when it
   exposes no further handler. *)
LEMMA OverrunFrame ==
  ASSUME TypeOK, TypeOK', NEW w \in Windows, NEW k \in Keys, NEW t \in Times,
         NEW d \in Dims, OverrunAt(w, k, t, d), UNCHANGED <<used, now>>,
         \/ Room(w, k, t, d)
         \/ Exposed(w, k, Calendar[w][t], d)' \subseteq Exposed(w, k, Calendar[w][t], d)
  PROVE OverrunAt(w, k, t, d)'
  <1> DEFINE p == Calendar[w][t]
             S == Exposed(w, k, p, d)
  <1>0. now \in Times /\ Calendar[w][now] \in Nat /\ p \in Nat
    BY PeriodType DEF TypeOK
  <1>1. S \in SUBSET Handlers(k) /\ S' \in SUBSET Handlers(k)
    BY DEF Exposed, Handlers
  <1>2. /\ MaxCost * Cardinality(S) \in Nat /\ MaxCost * Cardinality(S') \in Nat
        /\ MaxCost * Cardinality(Handlers(k)) \in Nat
        /\ MaxCost * Cardinality(S') <= MaxCost * Cardinality(Handlers(k))
    BY <1>1, LoadOrder
  <1>3. Limit(k, w)[d] \in Nat /\ used[w][k][p][d] \in Nat
    BY LimitType, PeriodType DEF TypeOK
  <1>4. Ceiling(w, k, d)' = Ceiling(w, k, d) /\ Ceiling(w, k, d) \in Int
        /\ Ceiling(w, k, d) = Limit(k, w)[d] - 1 + MaxCost * Cardinality(Handlers(k))
    BY <1>2, <1>3 DEF Ceiling, Handlers, Limit, EffectiveWeeklyTokens
  <1>5. CASE S' \subseteq S
    <2>1. MaxCost * Cardinality(S') <= MaxCost * Cardinality(S)
      BY <1>1, <1>5, LoadOrder
    <2> HIDE DEF S
    <2>2. QED BY <1>2, <1>3, <1>4, <2>1 DEF OverrunAt, S
  <1>6. CASE Room(w, k, t, d)
    <2>1. used[w][k][p][d] + MaxCost * Cardinality(S') <= Ceiling(w, k, d)
      <3> HIDE DEF S
      <3>1. QED BY <1>2, <1>3, <1>4, <1>6 DEF Room
    <2> HIDE DEF S
    <2>2. QED BY <1>0, <1>4, <2>1 DEF OverrunAt, S
  <1>7. QED BY <1>5, <1>6

(* A log hides from no check what it did not add, so it exposes nobody. *)
LEMMA RecordExposes ==
  ASSUME TypeOK, NEW w \in Windows, NEW k \in Keys, NEW t \in Times, NEW d \in Dims,
         NEW r \in Requests, RecordUsage(r)
  PROVE /\ Exposed(w, k, Calendar[w][t], d)' \subseteq Exposed(w, k, Calendar[w][t], d)
        /\ r \notin Exposed(w, k, Calendar[w][t], d)'
  <1>1. /\ pc'[r] = "idle" /\ now' = now /\ pc[r] = "answered"
        /\ \A q \in Requests \ {r} : pc'[q] = pc[q] /\ at'[q] = at[q]
    BY DEF RecordUsage, EndLog, Goto, Forget, TypeOK
  <1>2. r \notin Exposed(w, k, Calendar[w][t], d)'
    BY <1>1 DEF Exposed, Past, Before
  <1>3. ASSUME NEW q \in Requests, q # r, SeesRoom(q, w, at[q], d)'
        PROVE SeesRoom(q, w, at[q], d)
    <2>1. PICK a \in Times : a = at[q] /\ at'[q] = a
      BY <1>1, <1>3 DEF TypeOK
    <2>2. SeesRoom(q, w, a, d)'
      BY <1>3, <2>1 DEF SeesRoom, Limit, EffectiveWeeklyTokens
    <2>3. SeesRoom(q, w, a, d)
      BY <2>1, <2>2, SeenGrows
    <2>4. QED BY <2>1, <2>3
  <1>4. QED BY <1>1, <1>2, <1>3 DEF Exposed, Handlers

(* Logging the tokens of an answer removes a handler that had room for them. *)
LEMMA OverrunRecord ==
  ASSUME TypeOK, TypeOK', NEW w \in Windows, NEW k \in Keys, NEW t \in Times,
         NEW d \in Dims, Limit(k, w)[d] > 0, OverrunAt(w, k, t, d),
         NEW r \in Requests, RecordUsage(r),
         at[r] \in Times, Calendar[w][at[r]] <= Calendar[w][now]
  PROVE OverrunAt(w, k, t, d)'
  <1> DEFINE p == Calendar[w][t]
             S == Exposed(w, k, p, d)
             c == cost[r][d]
  <1>1. /\ used[w][k][p][d] \in Nat /\ Limit(k, w)[d] \in Nat
        /\ p \in Nat /\ Calendar[w][now] \in Nat
    BY PeriodType, LimitType, QuotaAssumption DEF TypeOK
  <1>2. c \in Nat /\ c <= MaxCost /\ MaxCost \in Nat
    BY CostType, QuotaAssumption DEF TypeOK
  <1>3. S \in SUBSET Handlers(k) /\ S' \subseteq S \ {r} /\ now' = now
    <2>1. S \in SUBSET Handlers(k) /\ now' = now
      BY DEF Exposed, RecordUsage, EndLog
    <2>2. S' \subseteq S /\ r \notin S'
      BY RecordExposes
    <2>3. QED BY <2>1, <2>2
  <1>4. /\ IsFiniteSet(S) /\ Cardinality(S) \in Nat /\ Cardinality(S') \in Nat
        /\ MaxCost * Cardinality(S) \in Nat /\ MaxCost * Cardinality(S') \in Nat
        /\ MaxCost * Cardinality(S') <= MaxCost * Cardinality(S)
    BY <1>3, LoadOrder
  <1>5. Ceiling(w, k, d)' = Ceiling(w, k, d)
    BY DEF Ceiling, Handlers, Limit, EffectiveWeeklyTokens
  <1>6. Ceiling(w, k, d) \in Int
    BY <1>1, LoadOrder DEF Ceiling
  <1>7. CASE k = KeyOf[r] /\ p = Calendar[w][at[r]]
    <2>1. used'[w][k][p][d] = used[w][k][p][d] + c
      BY <1>7, RecordEffect
    <2>2. r \in S
      BY <1>7 DEF Exposed, RecordUsage, EndLog, Goto, Handlers
    <2>3. S \ {r} \in SUBSET Handlers(k) /\ S' \in SUBSET Handlers(k)
      BY <1>3
    <2>4. /\ MaxCost * Cardinality(S') <= MaxCost * Cardinality(S \ {r})
          /\ Cardinality(S \ {r}) = Cardinality(S) - 1
          /\ MaxCost * Cardinality(S \ {r}) \in Nat
      BY <1>3, <1>4, <2>2, <2>3, LoadOrder, FS_RemoveElement
    <2>5. MaxCost * Cardinality(S \ {r}) = MaxCost * Cardinality(S) - MaxCost
      <3> HIDE DEF S, c
      <3>1. QED BY <1>2, <1>4, <2>4, SMTT(30)
    <2>6. used[w][k][p][d] + MaxCost * Cardinality(S) <= Ceiling(w, k, d)
      BY <1>7 DEF OverrunAt
    <2>7. used'[w][k][p][d] + MaxCost * Cardinality(S') <= Ceiling(w, k, d)
      <3> HIDE DEF S, c
      <3>1. QED BY <1>1, <1>2, <1>4, <1>6, <2>1, <2>4, <2>5, <2>6
    <2> HIDE DEF S
    <2>8. QED BY <1>1, <1>3, <1>5, <1>7, <2>7, SMTT(30) DEF OverrunAt, S
  <1>8. CASE ~(k = KeyOf[r] /\ p = Calendar[w][at[r]])
    <2>1. used'[w][k][p][d] = used[w][k][p][d]
      BY <1>8, RecordEffect
    <2> HIDE DEF S
    <2>2. QED BY <1>1, <1>3, <1>4, <1>5, <1>6, <2>1 DEF OverrunAt, S
  <1>9. QED BY <1>7, <1>8

(* Time stamps are never in the future, so no log is either. *)
StampInv == \A r \in Requests : at[r] <= now

LEMMA StampStep == TypeOK /\ StampInv /\ [Next]_vars => StampInv'
  <1> SUFFICES ASSUME TypeOK, StampInv, [Next]_vars PROVE StampInv'
    OBVIOUS
  <1> USE QuotaAssumption DEF StampInv, TypeOK, Times, Goto, Forget
  <1>1. CASE Tick BY <1>1 DEF Tick
  <1>2. ASSUME NEW r \in Requests, Handler(r) PROVE StampInv'
    <2>1. \/ at' = [at EXCEPT ![r] = 0] /\ now' = now
          \/ at' = [at EXCEPT ![r] = now] /\ now' = now
          \/ at' = at /\ now' = now
      BY <1>2 DEF Handler, Begin, PassDaily, PassWeekly, RefuseQuota,
         EndWithoutTokens, Answer, RecordUsage, LoseUsage, EndLog
    <2>2. ASSUME NEW q \in Requests PROVE at'[q] <= now'
      <3>1. at \in [Requests -> Times] /\ now \in Nat /\ at[q] <= now /\ 0 <= now
        OBVIOUS
      <3>2. now' = now /\ at'[q] \in {0, now, at[q]}
        BY <2>1, <3>1
      <3>3. QED BY <3>1, <3>2
    <2>3. QED BY <2>2
  <1>3. CASE UNCHANGED vars BY <1>3 DEF vars
  <1>4. QED BY <1>1, <1>2, <1>3 DEF Next

LEMMA CalendarOrder ==
  ASSUME TypeOK, StampInv, NEW r \in Requests, NEW w \in Windows
  PROVE at[r] \in Times /\ Calendar[w][at[r]] <= Calendar[w][now]
  BY CalendarAssumption DEF TypeOK, StampInv

(* When the clock moves into a new period nothing has been logged in it, and
   the answers still owed to the old one are all that can be added there. *)
LEMMA OverrunTick ==
  ASSUME TypeOK, TypeOK', NEW w \in Windows, NEW k \in Keys, NEW t \in Times,
         NEW d \in Dims, Limit(k, w)[d] > 0, OverrunAt(w, k, t, d), Tick
  PROVE OverrunAt(w, k, t, d)'
  <1> DEFINE p == Calendar[w][t]
             S == Exposed(w, k, p, d)
  <1>1. /\ now \in Times /\ now' \in Times /\ now <= now' /\ used' = used
        /\ Calendar[w][now] \in Nat /\ Calendar[w][now'] \in Nat /\ p \in Nat
    BY PeriodType, QuotaAssumption DEF Tick, TypeOK, Times
  <1>2. Calendar[w][now] <= Calendar[w][now']
    BY <1>1, CalendarAssumption
  <1>3. /\ used[w][k][p][d] \in Nat /\ Limit(k, w)[d] \in Nat
    BY PeriodType, LimitType DEF TypeOK
  <1>4. S \in SUBSET Handlers(k) /\ S' \in SUBSET Handlers(k)
    BY DEF Exposed, Handlers
  <1>5. Ceiling(w, k, d)' = Ceiling(w, k, d)
    BY DEF Ceiling, Handlers, Limit, EffectiveWeeklyTokens
  <1>6. CASE p <= Calendar[w][now]
    <2>1. S' \subseteq S
      <3>1. pc' = pc /\ at' = at /\ missed' = missed
        BY DEF Tick, order
      <3>2. p = Calendar[w][now'] => p = Calendar[w][now]
        BY <1>1, <1>2, <1>6
      <3>3. \A q \in Requests : SeesRoom(q, w, at[q], d)' <=> SeesRoom(q, w, at[q], d)
        BY <1>1, <3>1 DEF SeesRoom, Limit, EffectiveWeeklyTokens
      <3>4. QED BY <3>1, <3>2, <3>3 DEF Exposed, Handlers
    <2>2. /\ MaxCost * Cardinality(S') <= MaxCost * Cardinality(S)
          /\ MaxCost * Cardinality(S') \in Nat /\ MaxCost * Cardinality(S) \in Nat
      BY <1>4, <2>1, LoadOrder
    <2>3. Ceiling(w, k, d) \in Int
      BY <1>3, LoadOrder DEF Ceiling
    <2> HIDE DEF S
    <2>4. QED BY <1>1, <1>2, <1>3, <1>5, <1>6, <2>2, <2>3 DEF OverrunAt, S
  <1>7. CASE p > Calendar[w][now]
    <2>1. used[w][k][p][d] = 0
      BY <1>7 DEF OverrunAt
    <2>2. /\ MaxCost * Cardinality(S') <= MaxCost * Cardinality(Handlers(k))
          /\ MaxCost * Cardinality(S') \in Nat
          /\ MaxCost * Cardinality(Handlers(k)) \in Nat
      BY <1>4, LoadOrder
    <2> HIDE DEF S
    <2>3. QED BY <1>1, <1>3, <1>5, <2>1, <2>2 DEF OverrunAt, Ceiling, S
  <1>8. QED BY <1>1, <1>6, <1>7

(* A request that comes finds its own view of the logs complete. *)
LEMMA BeginSeesAll ==
  ASSUME TypeOK, CheckInv, NEW r \in Requests, Begin(r), NEW w \in Windows,
         NEW t \in Times, NEW d \in Dims, Calendar[w][now] = Calendar[w][t],
         SeesRoom(r, w, at[r], d)'
  PROVE Room(w, KeyOf[r], t, d)
  <1>1. /\ at'[r] = now /\ used' = used /\ missed' = missed /\ missed[r][w][d] = 0
    <2>1. missed[r] = NothingMissed
      BY DEF Begin, Goto, CheckInv, Windows
    <2>2. QED BY <2>1 DEF Begin, TypeOK, NothingMissed, NoCost
  <1>2. KeyOf[r] \in Keys /\ Calendar[w][t] \in Periods
    BY QuotaAssumption, PeriodType
  <1>3. used[w][KeyOf[r]][Calendar[w][t]][d] \in Nat
    BY <1>2 DEF TypeOK
  <1>4. QED BY <1>1, <1>3 DEF SeesRoom, Room, Limit, EffectiveWeeklyTokens

(* Before its query a handler that is about to pass is exposed already. *)
LEMMA PassSeesRoom ==
  ASSUME TypeOK, NEW r \in Requests, NEW w \in Windows, NEW d \in Dims,
         Limit(KeyOf[r], w)[d] > 0, ~OutOfQuota(r, w)
  PROVE SeesRoom(r, w, at[r], d)
  <1>1. PICK t \in Times : t = at[r]
    BY DEF TypeOK
  <1>2. QED BY <1>1, OutOfQuotaMeans

LEMMA OverrunStep ==
  TypeOK /\ TypeOK' /\ CheckInv /\ StampInv /\ OverrunInv /\ [Next]_vars => OverrunInv'
  <1> SUFFICES ASSUME TypeOK, TypeOK', CheckInv, StampInv, OverrunInv, [Next]_vars,
                      NEW w \in Windows, NEW k \in Keys, NEW t \in Times,
                      NEW d \in Dims, Limit(k, w)[d] > 0
               PROVE OverrunAt(w, k, t, d)'
    BY DEF OverrunInv, Limit, EffectiveWeeklyTokens
  <1> DEFINE p == Calendar[w][t]
  <1>0. OverrunAt(w, k, t, d)
    BY DEF OverrunInv
  <1>1. CASE Tick BY <1>0, <1>1, OverrunTick
  <1>2. ASSUME NEW r \in Requests, Handler(r) PROVE OverrunAt(w, k, t, d)'
    <2>1. CASE RecordUsage(r)
      BY <1>0, <2>1, OverrunRecord, CalendarOrder
    <2>2. ASSUME UNCHANGED <<used, now>>, \A q \in Requests \ {r} :
                   pc'[q] = pc[q] /\ at'[q] = at[q] /\ missed'[q] = missed[q],
                 r \in Exposed(w, k, p, d)' =>
                   r \in Exposed(w, k, p, d) \/ Room(w, k, t, d)
          PROVE OverrunAt(w, k, t, d)'
      <3>1. \A q \in Requests \ {r} :
              SeesRoom(q, w, at[q], d)' <=> SeesRoom(q, w, at[q], d)
        BY <2>2 DEF SeesRoom, Limit, EffectiveWeeklyTokens
      <3>2. Exposed(w, k, p, d)' \subseteq Exposed(w, k, p, d) \cup {r}
        BY <2>2, <3>1 DEF Exposed, Handlers
      <3>3. QED BY <1>0, <2>2, <3>2, OverrunFrame
    <2> USE DEF Goto, Forget, EndCheck, TypeOK, order
    <2>3. CASE Begin(r)
      <3>1. r \in Exposed(w, k, p, d)' =>
              k = KeyOf[r] /\ p = Calendar[w][now] /\ SeesRoom(r, w, at[r], d)'
        BY <2>3 DEF Exposed, Handlers, Past, Begin
      <3>2. r \in Exposed(w, k, p, d)' => Room(w, k, t, d)
        BY <2>3, <3>1, BeginSeesAll
      <3>3. QED BY <2>2, <2>3, <3>2 DEF Begin
    <2>4. CASE RefuseQuota(r) \/ EndWithoutTokens(r)
      <3>1. r \notin Exposed(w, k, p, d)'
        BY <2>4 DEF RefuseQuota, EndWithoutTokens, Exposed, Past, Before
      <3>2. QED BY <2>2, <2>4, <3>1 DEF RefuseQuota, EndWithoutTokens
    <2>5. CASE LoseUsage(r)
      <3>1. r \notin Exposed(w, k, p, d)'
        BY <2>5 DEF LoseUsage, EndLog, Exposed, Past, Before
      <3>2. QED BY <2>2, <2>5, <3>1 DEF LoseUsage, EndLog
    <2>6. ASSUME NEW c \in Costs, Answer(r, c) PROVE OverrunAt(w, k, t, d)'
      <3>1. r \in Exposed(w, k, p, d)' => r \in Exposed(w, k, p, d)
        BY <2>6 DEF Answer, Exposed, Handlers, Past, Before, Windows
      <3>2. QED BY <2>2, <2>6, <3>1 DEF Answer
    <2>7. CASE PassDaily(r)
      <3>1. /\ pc[r] = "daily" /\ pc'[r] = "weekly" /\ at' = at /\ missed' = missed
            /\ used' = used /\ now' = now /\ ~OutOfQuota(r, "daily")
        BY <2>7 DEF PassDaily
      <3>2. k = KeyOf[r] /\ w = "daily" => SeesRoom(r, w, at[r], d)
        BY <3>1, PassSeesRoom
      <3>3. SeesRoom(r, w, at[r], d)' <=> SeesRoom(r, w, at[r], d)
        BY <3>1 DEF SeesRoom, Limit, EffectiveWeeklyTokens
      <3>4. r \in Exposed(w, k, p, d)' => r \in Exposed(w, k, p, d)
        BY <3>1, <3>2, <3>3 DEF Exposed, Handlers, Past, Before, Windows
      <3>5. QED BY <2>2, <2>7, <3>4 DEF PassDaily
    <2>8. CASE PassWeekly(r)
      <3>1. /\ pc[r] = "weekly" /\ pc'[r] = "admitted" /\ at' = at
            /\ used' = used /\ now' = now /\ ~OutOfQuota(r, "weekly")
        BY <2>8 DEF PassWeekly
      <3>2. k = KeyOf[r] /\ w = "weekly" => SeesRoom(r, w, at[r], d)
        BY <3>1, PassSeesRoom
      <3>3. r \in Exposed(w, k, p, d)' => r \in Exposed(w, k, p, d)
        BY <3>1, <3>2 DEF Exposed, Handlers, Past, Before, Windows
      <3>4. QED BY <2>2, <2>8, <3>3 DEF PassWeekly
    <2>9. QED BY <1>2, <2>1, <2>3, <2>4, <2>5, <2>6, <2>7, <2>8 DEF Handler
  <1>3. CASE UNCHANGED vars
    <2>1. Exposed(w, k, p, d)' = Exposed(w, k, p, d) /\ UNCHANGED <<used, now>>
      BY <1>3 DEF vars, order, Exposed, Handlers, SeesRoom, Limit, EffectiveWeeklyTokens
    <2>2. QED BY <1>0, <2>1, OverrunFrame
  <1>4. QED BY <1>1, <1>2, <1>3 DEF Next

LEMMA OverrunCeiling == TypeOK /\ OverrunInv => BoundedOverrun
  <1> SUFFICES ASSUME TypeOK, OverrunInv, NEW w \in Windows, NEW k \in Keys,
                      NEW t \in Times, NEW d \in Dims, Limit(k, w)[d] > 0
               PROVE used[w][k][Calendar[w][t]][d] <= Ceiling(w, k, d)
    BY DEF BoundedOverrun, Ceiling
  <1> DEFINE p == Calendar[w][t]
             S == Exposed(w, k, p, d)
  <1>1. OverrunAt(w, k, t, d)
    BY DEF OverrunInv
  <1>2. S \in SUBSET Handlers(k)
    BY DEF Exposed
  <1>3. MaxCost * Cardinality(S) \in Nat /\ MaxCost * Cardinality(Handlers(k)) \in Nat
    BY <1>2, LoadOrder
  <1>4. /\ used[w][k][p][d] \in Nat /\ Limit(k, w)[d] \in Nat
        /\ p \in Nat /\ Calendar[w][now] \in Nat
    BY PeriodType, LimitType DEF TypeOK
  <1> HIDE DEF S
  <1>5. QED BY <1>1, <1>3, <1>4 DEF OverrunAt, Ceiling, S

(* For every quota, calendar, cost and number of handlers: the tokens logged in
   a day or a week exceed a limit by at most one answer per handler of the key. *)
THEOREM OverrunIsBounded == Spec => []BoundedOverrun
  <1>1. Init => StampInv /\ CheckInv
    BY QuotaAssumption DEF Init, StampInv, CheckInv
  <1>2. Spec => []StampInv
    BY <1>1, StampStep, TypeCorrect, PTL DEF Spec
  <1>3. Spec => []CheckInv
    BY <1>1, CheckStep, TypeCorrect, PTL DEF Spec
  <1>4. Spec => []OverrunInv
    BY <1>2, <1>3, OverrunInit, OverrunStep, TypeCorrect, PTL DEF Spec
  <1>5. QED BY <1>4, OverrunCeiling, TypeCorrect, PTL
===============================================================================
