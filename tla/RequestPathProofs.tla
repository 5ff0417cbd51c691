--------------------------- MODULE RequestPathProofs ---------------------------
(***************************************************************************)
(* Proofs about GatewayRequest: types, the windows CheckPolicy counts, one   *)
(* usage log for each answered request, and what a request makes of the two  *)
(* rows of the upstream strategy.                                            *)
(***************************************************************************)
EXTENDS GatewayRequest, FiniteSetTheorems, TLAPS

-----------------------------------------------------------------------------
(* Types. *)

LEMMA PairType ==
  ASSUME NEW s
  PROVE  Pair(s) \in Plans
  BY DEF Pair, Plans

LEMMA SettingTypes ==
  ASSUME TypeOK
  PROVE  Mode \in {"codex_backend", "codex_cli"} /\ Fallback \in BOOLEAN
  BY GatewayAssumption DEF TypeOK, Mode, Fallback

LEMMA StrategyType ==
  ASSUME NEW p
  PROVE  StrategyOf(p) \in Strategies
  BY DEF StrategyOf, Strategies

LEMMA InitTypeOK == Init => TypeOK
  <1> SUFFICES ASSUME Init PROVE TypeOK
    OBVIOUS
  <1>1. Pair("backend_only") \in Plans /\ StrategyOf(Env) \in Strategies
    BY PairType, StrategyType
  <1>2. /\ deployment.ticks \in Nat /\ deployment.edits \in Nat
        /\ deployment.requests \in Nat
    BY GatewayAssumption DEF Init
  <1>3. QED
    BY <1>1, <1>2 DEF Init, TypeOK, NoAsk, Asks, NoEntry, Strategies

(* The ends of a request, by what they leave for recordUsage. *)
LEMMA Endings ==
  ASSUME NEW h \in Handlers, Refuse(h) \/ Finish(h)
  PROVE  \/ \E from \in {"open", "policy", "prepare"} : Answer(h, from, 0)
         \/ \E t \in TokenCosts \cup {0} : Answer(h, "upstream", t)
  <1>1. CASE Refuse(h)
    BY <1>1 DEF Refuse, RefuseEffort, RefuseModel, RefuseQuota, RefuseByPolicy,
                RefuseContext, RefuseLarge
  <1>2. CASE Finish(h)
    BY <1>2 DEF Finish, ServeBackendStream, FailBackendStream, ServeStream, ServeWhole,
                FailProxy
  <1>3. QED BY <1>1, <1>2

LEMMA Endless ==
  ASSUME NEW h \in Handlers, RefuseBody(h) \/ EncodeFails(h) \/ RecordFails(h)
  PROVE  \/ LeaveUnlogged(h, "open", "body") \/ LeaveUnlogged(h, "upstream", "encoding")
         \/ LeaveUnlogged(h, "record", "write")
  BY DEF RefuseBody, EncodeFails, RecordFails

LEMMA LeaveTypeOK ==
  ASSUME TypeOK, NEW h \in Handlers, NEW from, Goes(h, from, "idle"), Leave(h),
         logs' \subseteq Log, unlogged' \subseteq Handlers \X Nat \X Whys
  PROVE  TypeOK'
  <1>1. Pair("backend_only") \in Plans
    BY PairType
  <1>2. QED
    BY <1>1 DEF TypeOK, Goes, Leave, adminVars, NoAsk, NoEntry, Asks

LEMMA AnswerTypeOK ==
  ASSUME TypeOK, NEW h \in Handlers, NEW from, NEW t \in Nat, Answer(h, from, t)
  PROVE  TypeOK'
  <1>1. clock \in Nat
    BY GatewayAssumption DEF TypeOK
  <1>2. QED
    BY <1>1 DEF TypeOK, Answer, Goes, adminVars

LEMMA HandleTypeOK ==
  ASSUME TypeOK, NEW h \in Handlers, Receive(h) \/ Handle(h)
  PROVE  TypeOK'
  <1> USE DEF TypeOK, Goes, policyVars, adminVars, requestVars
  <1>1. CASE Receive(h)
    BY <1>1, GatewayAssumption DEF Receive
  <1>2. CASE RefuseBody(h) \/ RecordFails(h) \/ EncodeFails(h)
    <2>1. PICK from \in {"open", "upstream", "record"}, why \in Whys : LeaveUnlogged(h, from, why)
      BY <1>2, Endless DEF Whys
    <2>2. <<h, nth[h], why>> \in Handlers \X Nat \X Whys
      BY GatewayAssumption
    <2>3. unlogged' \subseteq Handlers \X Nat \X Whys
      BY <2>1, <2>2 DEF LeaveUnlogged
    <2>4. QED BY <2>1, <2>3, LeaveTypeOK DEF LeaveUnlogged
  <1>3. CASE Refuse(h) \/ Finish(h)
    <2>1. PICK from \in {"open", "policy", "prepare", "upstream"}, t \in TokenCosts \cup {0} :
             Answer(h, from, t)
      BY <1>3, Endings
    <2>2. QED BY <2>1, AnswerTypeOK, GatewayAssumption
  <1>4. CASE BeginPolicy(h)
    <2>1. clock \in Nat
      BY GatewayAssumption
    <2>2. QED BY <1>4, <2>1 DEF BeginPolicy
  <1>5. CASE PassWindow(h)
    BY <1>5 DEF PassWindow
  <1>6. CASE Admit(h)
    BY <1>6 DEF Admit
  <1>7. CASE UseOverride(h)
    BY <1>7, PairType DEF UseOverride, Decide
  <1>8. CASE ReadMode(h)
    BY <1>8, SettingTypes DEF ReadMode
  <1>9. CASE ReadFallback(h)
    <2>1. [mode |-> seen[h], fallback |-> Fallback] \in Plans
      BY SettingTypes DEF Plans
    <2>2. QED BY <1>9, <2>1 DEF ReadFallback, Decide
  <1>10. CASE ReadFails(h)
    <2>1. Env \in Plans
      BY GatewayAssumption DEF Plans
    <2>2. QED BY <1>10, <2>1 DEF ReadFails, Decide
  <1>11. CASE Dispatch(h)
    BY <1>11, ZenonT(60) DEF Dispatch
  <1>12. CASE Record(h)
    <2>1. WithLog(h) \subseteq Log
      BY GatewayAssumption DEF WithLog, Log
    <2>2. QED BY <1>12, <2>1, LeaveTypeOK DEF Record
  <1>13. QED
    BY <1>1, <1>2, <1>3, <1>4, <1>5, <1>6, <1>7, <1>8, <1>9, <1>10, <1>11, <1>12
    DEF Handle

LEMMA AdminTypeOK ==
  ASSUME TypeOK, NEW a \in Admins, Administer(a)
  PROVE  TypeOK'
  <1> USE DEF TypeOK, policyVars, requestVars
  <1>1. ASSUME NEW to \in {"read", "write"}, Begin(a, to)
        PROVE  edits' \in 0..deployment.edits /\ quiet' \in [Handlers -> Strategies \cup {"unsure"}]
    BY <1>1, GatewayAssumption DEF Begin
  <1>2. ASSUME NEW s \in Strategies, SetStrategy(a, s) PROVE TypeOK'
    BY <1>2, <1>1 DEF SetStrategy, Begin
  <1>3. CASE SetEffort(a)
    BY <1>3, <1>1 DEF SetEffort, Begin
  <1>4. CASE AdminReadsMode(a) \/ AdminReadsFallback(a)
    <2>1. \E s \in Strategies : wants' = [wants EXCEPT ![a] = s]
      <3>1. CASE AdminReadsMode(a)
        BY <3>1, StrategyType DEF AdminReadsMode
      <3>2. CASE AdminReadsFallback(a)
        BY <3>2, StrategyType DEF AdminReadsFallback
      <3>3. QED BY <1>4, <3>1, <3>2
    <2>2. QED BY <1>4, <2>1, SMTT(30) DEF AdminReadsMode, AdminReadsFallback, AdminGoes
  <1>5. /\ Pair(wants[a]).mode \in {"codex_backend", "codex_cli"}
        /\ Pair(wants[a]).fallback \in BOOLEAN
    BY DEF Pair
  <1>6. CASE WriteMode(a)
    BY <1>5, <1>6 DEF WriteMode, AdminGoes
  <1>7. CASE WriteFallback(a)
    BY <1>5, <1>7 DEF WriteFallback, Return, AdminGoes, Strategies
  <1>8. CASE CallFails(a)
    BY <1>8 DEF CallFails, Return, AdminGoes, Strategies
  <1>9. QED
    BY <1>2, <1>3, <1>4, <1>6, <1>7, <1>8 DEF Administer

LEMMA NextTypeOK == TypeOK /\ [Next]_vars => TypeOK'
  <1> SUFFICES ASSUME TypeOK, [Next]_vars PROVE TypeOK'
    OBVIOUS
  <1>1. CASE Tick
    BY <1>1, GatewayAssumption DEF Tick, TypeOK, requestVars, adminVars
  <1>2. CASE UNCHANGED vars
    BY <1>2 DEF vars, policyVars, requestVars, adminVars, TypeOK
  <1>3. QED
    BY <1>1, <1>2, HandleTypeOK, AdminTypeOK DEF Next, Quiet

(* The variables of a request, of its windows and of the settings keep their types. *)
THEOREM TypeCorrect == Spec => []TypeOK
  BY InitTypeOK, NextTypeOK, PTL DEF Spec

-----------------------------------------------------------------------------
(* The windows of CheckPolicy. *)

Late(h) ==
  {g \in Handlers \ {h} : pc[g] = "record" /\ entry[g].at < now[h]}

(* What one log can add to what is spent in window i. *)
Heaviest(i) == IF Windows[i].tokens THEN Max(TokenCosts) ELSE 1

(* The handler has been let through window i. *)
Passed(h, i) == (pc[h] = "policy" /\ i < window[h]) \/ Admitted(h)

(* What window i holds and what is late for it: late logs only move over. *)
WindowInv ==
  /\ IsFiniteSet(logs)
  /\ \A h \in Handlers : now[h] <= clock
  /\ \A h \in Handlers : entry[h].tokens <= Max(TokenCosts)
  /\ \A l \in logs : l.tokens <= Max(TokenCosts)
  /\ \A h \in Handlers : \A i \in 1..6 : Limits[i] > 0 /\ Passed(h, i) =>
       Spent(i, now[h]) + Heaviest(i) * Cardinality(Late(h))
         <= Limits[i] - 1 + Heaviest(i) * Others

LEMMA MostTokens ==
  /\ Max(TokenCosts) \in TokenCosts /\ Max(TokenCosts) \in Nat
  /\ \A t \in TokenCosts : t <= Max(TokenCosts)
  <1>1. \E most \in TokenCosts : \A t \in TokenCosts : most >= t
    BY GatewayAssumption
  <1>2. Max(TokenCosts) \in TokenCosts /\ \A t \in TokenCosts : Max(TokenCosts) >= t
    BY <1>1 DEF Max
  <1>3. QED BY <1>2, GatewayAssumption

LEMMA HeaviestType == ASSUME NEW i \in 1..6 PROVE Heaviest(i) \in Nat
  BY MostTokens DEF Heaviest

LEMMA HandlersFinite == Others \in Int /\ \A h \in Handlers :
  /\ Cardinality(Handlers \ {h}) = Others
  /\ IsFiniteSet(Handlers \ {h})
  BY GatewayAssumption, FS_RemoveElement, FS_CardinalityType, SMTT(30) DEF Others

LEMMA LateBounded ==
  ASSUME NEW h \in Handlers
  PROVE  /\ IsFiniteSet(Late(h)) /\ Cardinality(Late(h)) \in Nat
         /\ Cardinality(Late(h)) <= Others
  <1>1. Late(h) \subseteq Handlers \ {h}
    BY DEF Late
  <1>2. IsFiniteSet(Handlers \ {h}) /\ Cardinality(Handlers \ {h}) = Others
    BY HandlersFinite
  <1>3. IsFiniteSet(Late(h)) /\ Cardinality(Late(h)) <= Cardinality(Handlers \ {h})
    BY <1>1, <1>2, FS_Subset
  <1>4. QED BY <1>2, <1>3, FS_CardinalityType

(* Products of naturals, the one arithmetic the windows need. *)
LEMMA TimesMonotone ==
  ASSUME NEW w \in Nat, NEW c \in Nat, NEW d \in Nat, c <= d
  PROVE  w * c \in Nat /\ w * d \in Nat /\ w * c <= w * d
  OBVIOUS

LEMMA TimesLess ==
  ASSUME NEW w \in Nat, NEW c \in Nat
  PROVE  w * (c - 1) = w * c - w /\ w * c \in Nat
  OBVIOUS

LEMMA LogsInFinite ==
  ASSUME IsFiniteSet(logs), NEW i, NEW t
  PROVE  IsFiniteSet(LogsIn(i, t)) /\ Cardinality(LogsIn(i, t)) \in Nat
  BY FS_Subset, FS_CardinalityType DEF LogsIn

LEMMA TokensFinite ==
  ASSUME NEW some, IsFiniteSet(some),
         \A l \in some : l.tokens \in Nat /\ l.tokens <= Max(TokenCosts)
  PROVE  IsFiniteSet(TokensOf(some))
  <1>1. TokensOf(some) \subseteq some \X (1..Max(TokenCosts))
    BY MostTokens DEF TokensOf
  <1>2. IsFiniteSet(1..Max(TokenCosts))
    BY MostTokens, FS_Interval
  <1>3. IsFiniteSet(some \X (1..Max(TokenCosts)))
    BY <1>2, FS_Product
  <1>4. QED BY <1>1, <1>3, FS_Subset

(* What is spent is finite, and grows with the logs of the window. *)
LEMMA SpentType ==
  ASSUME TypeOK, WindowInv, NEW i, NEW t
  PROVE  Spent(i, t) \in Nat
  <1>1. IsFiniteSet(LogsIn(i, t))
    BY LogsInFinite DEF WindowInv
  <1>2. \A l \in LogsIn(i, t) : l.tokens \in Nat /\ l.tokens <= Max(TokenCosts)
    BY DEF TypeOK, Log, LogsIn, WindowInv
  <1>3. IsFiniteSet(TokensOf(LogsIn(i, t)))
    BY <1>1, <1>2, TokensFinite
  <1>4. QED BY <1>1, <1>3, FS_CardinalityType DEF Spent

(* One log adds at most its tokens. *)
LEMMA UnitsOf ==
  ASSUME NEW l, NEW n \in Nat
  PROVE  IsFiniteSet({l} \X (1..n)) /\ Cardinality({l} \X (1..n)) = n
  <1>1. IsFiniteSet({l}) /\ Cardinality({l}) = 1
    BY FS_Singleton
  <1>2. IsFiniteSet(1..n) /\ Cardinality(1..n) = n
    BY FS_Interval
  <1>3. /\ IsFiniteSet({l} \X (1..n))
        /\ Cardinality({l} \X (1..n)) = Cardinality({l}) * Cardinality(1..n)
    BY <1>1, <1>2, FS_Product
  <1>4. QED BY <1>1, <1>2, <1>3

LEMMA UnionAtMost ==
  ASSUME NEW S, NEW T, IsFiniteSet(S), IsFiniteSet(T)
  PROVE  /\ IsFiniteSet(S \cup T) /\ Cardinality(S \cup T) \in Nat
         /\ Cardinality(S \cup T) <= Cardinality(S) + Cardinality(T)
  <1>1. /\ IsFiniteSet(S \cup T)
        /\ Cardinality(S \cup T) = Cardinality(S) + Cardinality(T) - Cardinality(S \cap T)
    BY FS_Union
  <1>2. IsFiniteSet(S \cap T)
    BY FS_Intersection
  <1>3. /\ Cardinality(S) \in Nat /\ Cardinality(T) \in Nat
        /\ Cardinality(S \cap T) \in Nat /\ Cardinality(S \cup T) \in Nat
    BY <1>1, <1>2, FS_CardinalityType
  <1>4. QED BY <1>1, <1>3

LEMMA TokensOneMore ==
  ASSUME NEW some, NEW l, IsFiniteSet(TokensOf(some)), NEW n \in Nat, l.tokens = n
  PROVE  /\ IsFiniteSet(TokensOf(some \cup {l}))
         /\ Cardinality(TokensOf(some \cup {l})) <= Cardinality(TokensOf(some)) + n
  <1>1. TokensOf(some \cup {l}) = TokensOf(some) \cup ({l} \X (1..n))
    BY DEF TokensOf
  <1>2. IsFiniteSet({l} \X (1..n)) /\ Cardinality({l} \X (1..n)) = n
    BY UnitsOf
  <1>3. /\ IsFiniteSet(TokensOf(some) \cup ({l} \X (1..n)))
        /\ Cardinality(TokensOf(some) \cup ({l} \X (1..n)))
             <= Cardinality(TokensOf(some)) + Cardinality({l} \X (1..n))
    BY <1>2, UnionAtMost
  <1>4. QED BY <1>1, <1>2, <1>3

LEMMA SpentOneMore ==
  ASSUME TypeOK, WindowInv, NEW i \in 1..6, NEW t, NEW l,
         l.tokens \in Nat, l.tokens <= Max(TokenCosts),
         LogsIn(i, t)' = LogsIn(i, t) \cup {l}, t' = t
  PROVE  Spent(i, t)' \in Nat /\ Spent(i, t)' <= Spent(i, t) + Heaviest(i)
  <1> DEFINE some == LogsIn(i, t)
  <1>1. IsFiniteSet(some) /\ Cardinality(some) \in Nat
    BY LogsInFinite DEF WindowInv
  <1>2. \A k \in some : k.tokens \in Nat /\ k.tokens <= Max(TokenCosts)
    BY DEF TypeOK, Log, LogsIn, WindowInv
  <1> HIDE DEF some
  <1>3. CASE Windows[i].tokens
    <2>1. IsFiniteSet(TokensOf(some)) /\ Cardinality(TokensOf(some)) \in Nat
      BY <1>1, <1>2, TokensFinite, FS_CardinalityType
    <2>2. /\ IsFiniteSet(TokensOf(some \cup {l}))
          /\ Cardinality(TokensOf(some \cup {l})) <= Cardinality(TokensOf(some)) + l.tokens
      BY <2>1, TokensOneMore
    <2>3. Cardinality(TokensOf(some \cup {l})) \in Nat
      BY <2>2, FS_CardinalityType
    <2>4. /\ Spent(i, t) = Cardinality(TokensOf(some))
          /\ Spent(i, t)' = Cardinality(TokensOf(some \cup {l}))
          /\ Heaviest(i) = Max(TokenCosts)
      BY <1>3 DEF Spent, Heaviest, some, TokensOf
    <2>5. QED BY <2>1, <2>2, <2>3, <2>4, MostTokens
  <1>4. CASE ~Windows[i].tokens
    <2>1. Cardinality(some \cup {l}) \in Nat /\ Cardinality(some \cup {l}) <= Cardinality(some) + 1
      <3>1. IsFiniteSet({l}) /\ Cardinality({l}) = 1
        BY FS_Singleton
      <3>2. QED BY <1>1, <3>1, UnionAtMost
    <2>2. /\ Spent(i, t) = Cardinality(some) /\ Spent(i, t)' = Cardinality(some \cup {l})
          /\ Heaviest(i) = 1
      BY <1>4 DEF Spent, Heaviest, some
    <2>3. QED BY <2>1, <2>2
  <1>5. QED BY <1>3, <1>4

(* A step that writes no log, and moves none before a time already taken. *)
LEMMA WindowFrame ==
  ASSUME TypeOK, WindowInv, UNCHANGED <<logs, deployment>>,
         \A h \in Handlers : now'[h] <= clock' /\ entry'[h].tokens <= Max(TokenCosts),
         \A h \in Handlers, i \in 1..6 :
           Passed(h, i)' => Passed(h, i) /\ now'[h] = now[h] /\ Late(h)' \subseteq Late(h)
  PROVE  WindowInv'
  <1> SUFFICES ASSUME NEW h \in Handlers, NEW i \in 1..6, Limits[i] > 0, Passed(h, i)'
               PROVE  (Spent(i, now[h]) + Heaviest(i) * Cardinality(Late(h)))'
                        <= Limits[i] - 1 + Heaviest(i) * Others
    BY DEF WindowInv, Others, Heaviest
  <1>1. Spent(i, now[h])' = Spent(i, now[h])
    BY DEF Spent, TokensOf, LogsIn, Start
  <1>2. IsFiniteSet(Late(h)) /\ Cardinality(Late(h)) \in Nat
    BY LateBounded
  <1>3. Cardinality(Late(h)') <= Cardinality(Late(h)) /\ Cardinality(Late(h)') \in Nat
    BY <1>2, FS_Subset, FS_CardinalityType
  <1>4. /\ Heaviest(i) * Cardinality(Late(h)') <= Heaviest(i) * Cardinality(Late(h))
        /\ Heaviest(i) * Cardinality(Late(h)') \in Nat
        /\ Heaviest(i) * Cardinality(Late(h)) \in Nat
    BY <1>2, <1>3, HeaviestType, TimesMonotone
  <1>5. Spent(i, now[h]) + Heaviest(i) * Cardinality(Late(h))
          <= Limits[i] - 1 + Heaviest(i) * Others
    BY DEF WindowInv
  <1>6. Spent(i, now[h]) \in Nat /\ Limits[i] \in Nat /\ Others \in Int
    BY SpentType, HandlersFinite, GatewayAssumption
  <1>7. Heaviest(i) * Others \in Int
    BY <1>6, HeaviestType
  <1>8. (Heaviest(i) * Cardinality(Late(h)))' = Heaviest(i) * Cardinality(Late(h)')
    BY DEF Heaviest
  <1> HIDE DEF Heaviest
  <1>9. QED BY <1>1, <1>4, <1>5, <1>6, <1>7, <1>8

LEMMA AnswerWindow ==
  ASSUME TypeOK, WindowInv, NEW h \in Handlers, NEW from, NEW t \in TokenCosts \cup {0},
         Answer(h, from, t)
  PROVE  WindowInv'
  <1> USE DEF Answer, Goes, TypeOK
  <1>1. \A g \in Handlers : now'[g] <= clock' /\ entry'[g].tokens <= Max(TokenCosts)
    BY MostTokens DEF WindowInv
  <1>2. ASSUME NEW g \in Handlers PROVE Late(g)' \subseteq Late(g)
    <2>1. ~(clock < now[g])
      BY GatewayAssumption DEF WindowInv
    <2>2. QED BY <2>1 DEF Late
  <1>3. \A g \in Handlers, i \in 1..6 : Passed(g, i)' => Passed(g, i)
    BY DEF Passed, Admitted
  <1>4. QED BY <1>1, <1>2, <1>3, WindowFrame

LEMMA LeaveWindow ==
  ASSUME TypeOK, WindowInv, NEW h \in Handlers, NEW from, NEW why, LeaveUnlogged(h, from, why)
  PROVE  WindowInv'
  <1> USE DEF LeaveUnlogged, Leave, Goes, TypeOK
  <1>1. \A g \in Handlers : now'[g] <= clock' /\ entry'[g].tokens <= Max(TokenCosts)
    BY GatewayAssumption, MostTokens DEF WindowInv, NoEntry
  <1>2. \A g \in Handlers, i \in 1..6 : Passed(g, i)' =>
           g # h /\ Passed(g, i) /\ now'[g] = now[g]
    BY DEF Passed, Admitted
  <1>3. ASSUME NEW g \in Handlers, g # h PROVE Late(g)' \subseteq Late(g)
    BY <1>3 DEF Late
  <1>4. QED BY <1>1, <1>2, <1>3, WindowFrame

LEMMA RecordWindow ==
  ASSUME TypeOK, WindowInv, NEW g \in Handlers, Record(g)
  PROVE  WindowInv'
  <1> DEFINE l == [by |-> g, nth |-> nth[g], at |-> entry[g].at, tokens |-> entry[g].tokens]
  <1>1. logs' = logs \cup {l} /\ IsFiniteSet(logs') /\ l.at = entry[g].at
    BY FS_AddElement DEF Record, WithLog, WindowInv
  <1>2. l.tokens \in Nat /\ l.tokens <= Max(TokenCosts)
    BY DEF TypeOK, WindowInv
  <1> HIDE DEF l
  <1>3. \A h \in Handlers : now'[h] <= clock' /\ entry'[h].tokens <= Max(TokenCosts)
    BY GatewayAssumption, MostTokens DEF TypeOK, WindowInv, Record, Leave, NoEntry
  <1>4. ASSUME NEW h \in Handlers, NEW i \in 1..6, Limits[i] > 0, Passed(h, i)'
        PROVE  (Spent(i, now[h]) + Heaviest(i) * Cardinality(Late(h)))'
                 <= Limits[i] - 1 + Heaviest(i) * Others
    <2>1. h # g /\ Passed(h, i) /\ now'[h] = now[h]
      BY <1>4 DEF TypeOK, Record, Leave, Goes, Passed, Admitted
    <2>2. Spent(i, now[h]) + Heaviest(i) * Cardinality(Late(h))
            <= Limits[i] - 1 + Heaviest(i) * Others
      BY <1>4, <2>1 DEF WindowInv
    <2>3. /\ Spent(i, now[h]) \in Nat /\ Heaviest(i) \in Nat
          /\ IsFiniteSet(Late(h)) /\ Cardinality(Late(h)) \in Nat
          /\ Limits[i] \in Nat /\ Others \in Int
      BY SpentType, HeaviestType, LateBounded, HandlersFinite, GatewayAssumption
    <2>4. Start(i, now[h])' = Start(i, now[h])
      BY <2>1 DEF Start
    <2>5. (Heaviest(i) * Cardinality(Late(h)))' = Heaviest(i) * Cardinality(Late(h)')
      BY DEF Heaviest
    <2>6. Heaviest(i) * Others \in Int
      BY <2>3
    <2>7. CASE entry[g].at < now[h]
      <3>1. g \in Late(h) /\ Late(h)' = Late(h) \ {g}
        BY <2>1, <2>7 DEF TypeOK, Record, Leave, Goes, Late
      <3>2. Cardinality(Late(h)') = Cardinality(Late(h)) - 1
        BY <2>3, <3>1, FS_RemoveElement
      <3>3. /\ Heaviest(i) * Cardinality(Late(h)') =
                 Heaviest(i) * Cardinality(Late(h)) - Heaviest(i)
            /\ Heaviest(i) * Cardinality(Late(h)) \in Nat
        BY <2>3, <3>2, TimesLess
      <3>4. \/ LogsIn(i, now[h])' = LogsIn(i, now[h]) \cup {l}
            \/ LogsIn(i, now[h])' = LogsIn(i, now[h])
        BY <1>1, <2>1, <2>4 DEF LogsIn
      <3>5. Spent(i, now[h])' \in Nat /\ Spent(i, now[h])' <= Spent(i, now[h]) + Heaviest(i)
        <4>1. CASE LogsIn(i, now[h])' = LogsIn(i, now[h])
          <5>1. Spent(i, now[h])' = Spent(i, now[h])
            BY <4>1 DEF Spent, TokensOf
          <5>2. QED BY <2>3, <5>1
        <4>2. CASE LogsIn(i, now[h])' = LogsIn(i, now[h]) \cup {l}
          BY <1>2, <2>1, <4>2, SpentOneMore
        <4>3. QED BY <3>4, <4>1, <4>2
      <3>6. QED BY <2>2, <2>3, <2>5, <2>6, <3>3, <3>5
    <2>8. CASE ~(entry[g].at < now[h])
      <3>1. Late(h)' = Late(h)
        BY <2>1, <2>8 DEF TypeOK, Record, Leave, Goes, Late
      <3>2. LogsIn(i, now[h])' = LogsIn(i, now[h])
        BY <1>1, <2>1, <2>4, <2>8 DEF LogsIn
      <3>3. Spent(i, now[h])' = Spent(i, now[h])
        BY <3>2 DEF Spent, TokensOf
      <3>4. QED BY <2>2, <2>5, <3>1, <3>3
    <2>9. QED BY <2>7, <2>8
  <1>5. \A k \in logs' : k.tokens <= Max(TokenCosts)
    BY <1>1, <1>2 DEF WindowInv
  <1>6. QED BY <1>1, <1>3, <1>4, <1>5 DEF WindowInv, Others, Heaviest

LEMMA PassWindowStep ==
  ASSUME TypeOK, WindowInv, NEW h \in Handlers, PassWindow(h)
  PROVE  WindowInv'
  <1> USE DEF PassWindow, requestVars, adminVars, TypeOK
  <1>1. /\ UNCHANGED <<logs, now, entry, pc, deployment, clock>>
        /\ pc[h] = "policy" /\ window[h] \in Nat
        /\ \A g \in Handlers : window'[g] = IF g = h THEN window[h] + 1 ELSE window[g]
    <2>1. window \in [Handlers -> 1..7]
      OBVIOUS
    <2>2. window' = [window EXCEPT ![h] = @ + 1]
      OBVIOUS
    <2>3. /\ UNCHANGED <<logs, now, entry, pc, deployment, clock>>
          /\ pc[h] = "policy"
      BY Zenon DEF policyVars
    <2> HIDE DEF PassWindow, TypeOK
    <2>4. QED BY <2>1, <2>2, <2>3
  <1>2. ASSUME NEW g \in Handlers, NEW i \in 1..6, Limits[i] > 0, Passed(g, i)'
        PROVE  Spent(i, now[g]) + Heaviest(i) * Cardinality(Late(g))
                 <= Limits[i] - 1 + Heaviest(i) * Others
    <2>1. CASE Passed(g, i)
      BY <1>2, <2>1 DEF WindowInv
    <2>2. CASE ~Passed(g, i)
      <3>1. g = h /\ i = window[h]
        BY <1>1, <1>2, <2>2 DEF Passed, Admitted
      <3>2. ~(Spent(i, now[g]) >= Limits[i])
        BY <1>2, <3>1 DEF Exhausted
      <3>3. Spent(i, now[g]) \in Nat /\ Limits[i] \in Nat
        BY SpentType, GatewayAssumption
      <3>4. /\ Cardinality(Late(g)) <= Others /\ Cardinality(Late(g)) \in Nat
            /\ Others \in Nat /\ Heaviest(i) \in Nat
        BY LateBounded, HandlersFinite, HeaviestType
      <3>5. /\ Heaviest(i) * Cardinality(Late(g)) <= Heaviest(i) * Others
            /\ Heaviest(i) * Cardinality(Late(g)) \in Nat /\ Heaviest(i) * Others \in Nat
        BY <3>4, TimesMonotone
      <3>6. QED BY <3>2, <3>3, <3>5
    <2>3. QED BY <2>1, <2>2
  <1>3. \A g \in Handlers, i \in 1..6 :
          Spent(i, now[g])' = Spent(i, now[g]) /\ Late(g)' = Late(g)
    BY <1>1 DEF Spent, TokensOf, LogsIn, Start, Late
  <1>4. QED BY <1>1, <1>2, <1>3 DEF WindowInv, Others, Heaviest

LEMMA WindowStep == TypeOK /\ WindowInv /\ [Next]_vars => WindowInv'
  <1> SUFFICES ASSUME TypeOK, WindowInv, [Next]_vars PROVE WindowInv'
    OBVIOUS
  <1> USE DEF policyVars, requestVars, adminVars
  (* Steps after which nobody has passed more, and no time or log has moved. *)
  <1>1. ASSUME UNCHANGED <<logs, deployment, now, entry>>, clock <= clock',
               \A g \in Handlers : pc'[g] = "record" => pc[g] = "record",
               \A g \in Handlers, i \in 1..6 : Passed(g, i)' => Passed(g, i)
        PROVE  WindowInv'
    <2>1. \A g \in Handlers : now'[g] <= clock' /\ entry'[g].tokens <= Max(TokenCosts)
      BY <1>1, NextTypeOK, GatewayAssumption DEF WindowInv, TypeOK
    <2>2. \A g \in Handlers : Late(g)' \subseteq Late(g)
      BY <1>1 DEF Late
    <2>3. QED BY <1>1, <2>1, <2>2, WindowFrame
  <1>2. clock \in Nat
    BY GatewayAssumption DEF TypeOK
  <1>3. ASSUME NEW h \in Handlers, Receive(h) \/ Handle(h) PROVE WindowInv'
    <2> USE DEF TypeOK, Goes, Passed, Admitted
    <2>1. CASE Receive(h)
      BY <1>1, <1>2, <2>1 DEF Receive
    <2>2. CASE RefuseBody(h) \/ RecordFails(h) \/ EncodeFails(h)
      BY <2>2, LeaveWindow, Endless
    <2>3. CASE Refuse(h) \/ Finish(h)
      BY <2>3, AnswerWindow, Endings
    <2>4. CASE BeginPolicy(h)
      <3>1. \A g \in Handlers : now'[g] <= clock' /\ entry'[g].tokens <= Max(TokenCosts)
        BY <1>2, <2>4 DEF BeginPolicy, WindowInv
      <3>2. \A g \in Handlers, i \in 1..6 :
               Passed(g, i)' => g # h /\ Passed(g, i) /\ now'[g] = now[g]
        BY <2>4, GatewayAssumption DEF BeginPolicy
      <3>3. \A g \in Handlers : g # h => Late(g)' \subseteq Late(g)
        BY <2>4 DEF BeginPolicy, Late
      <3>4. QED BY <2>4, <3>1, <3>2, <3>3, WindowFrame DEF BeginPolicy
    <2>5. CASE PassWindow(h)
      BY <2>5, PassWindowStep
    <2>6. CASE Admit(h)
      BY <1>1, <1>2, <2>6 DEF Admit
    <2>7. CASE UseOverride(h) \/ ReadMode(h) \/ ReadFallback(h) \/ ReadFails(h)
      BY <1>1, <1>2, <2>7 DEF UseOverride, ReadMode, ReadFallback, ReadFails, Decide
    <2>8. CASE Dispatch(h)
      BY <1>1, <1>2, <2>8 DEF Dispatch
    <2>9. CASE Record(h)
      BY <2>9, RecordWindow
    <2>10. QED
      BY <1>3, <2>1, <2>2, <2>3, <2>4, <2>5, <2>6, <2>7, <2>8, <2>9 DEF Handle
  <1>4. CASE Tick
    BY <1>1, <1>2, <1>4 DEF Tick, Passed, Admitted
  <1>5. ASSUME NEW a \in Admins, Administer(a) PROVE WindowInv'
    <2>1. UNCHANGED <<policyVars, pc>>
      BY <1>5 DEF Administer, SetStrategy, SetEffort, Begin, AdminReadsMode,
                  AdminReadsFallback, WriteMode, WriteFallback, CallFails, Return, AdminGoes
    <2>2. QED BY <1>1, <1>2, <2>1 DEF Passed, Admitted
  <1>6. CASE UNCHANGED vars
    BY <1>1, <1>2, <1>6 DEF vars, Passed, Admitted
  <1>7. QED BY <1>3, <1>4, <1>5, <1>6 DEF Next, Quiet

LEMMA WindowImpliesBound == TypeOK /\ WindowInv => RequestWindowBound /\ TokenWindowBound
  <1> SUFFICES ASSUME TypeOK, WindowInv PROVE RequestWindowBound /\ TokenWindowBound
    OBVIOUS
  <1>1. ASSUME NEW h \in Handlers, Admitted(h), NEW i \in 1..6, Limits[i] > 0
        PROVE  Spent(i, now[h]) <= Limits[i] - 1 + Heaviest(i) * Others
    <2>1. Spent(i, now[h]) + Heaviest(i) * Cardinality(Late(h))
            <= Limits[i] - 1 + Heaviest(i) * Others
      BY <1>1 DEF WindowInv, Passed
    <2>2. /\ Cardinality(Late(h)) \in Nat /\ Spent(i, now[h]) \in Nat
          /\ Limits[i] \in Nat /\ Others \in Int /\ Heaviest(i) \in Nat
      BY LateBounded, SpentType, HandlersFinite, HeaviestType, GatewayAssumption
    <2>3. Heaviest(i) * Cardinality(Late(h)) \in Nat /\ Heaviest(i) * Others \in Int
      BY <2>2
    <2>4. QED BY <2>1, <2>2, <2>3
  <1>2. ASSUME NEW h \in Handlers, Admitted(h), NEW i \in {1, 3, 4}, Limits[i] > 0
        PROVE  Cardinality(LogsIn(i, now[h])) <= Limits[i] - 1 + Others
    <2>1. Spent(i, now[h]) = Cardinality(LogsIn(i, now[h])) /\ Heaviest(i) = 1
      BY DEF Spent, Heaviest, Windows
    <2>2. QED BY <1>1, <1>2, <2>1, HandlersFinite
  <1>3. ASSUME NEW h \in Handlers, Admitted(h), NEW i \in {2, 5, 6}, Limits[i] > 0
        PROVE  Spent(i, now[h]) <= Limits[i] - 1 + Others * Max(TokenCosts)
    <2>1. Heaviest(i) = Max(TokenCosts)
      BY DEF Heaviest, Windows
    <2>2. Others \in Int /\ Max(TokenCosts) \in Nat
      BY HandlersFinite, MostTokens
    <2>3. Max(TokenCosts) * Others = Others * Max(TokenCosts)
      BY <2>2
    <2>4. QED BY <1>1, <1>3, <2>1, <2>3
  <1>4. QED BY <1>2, <1>3 DEF RequestWindowBound, TokenWindowBound

LEMMA InitWindow == Init => WindowInv
  BY FS_EmptySet, GatewayAssumption, MostTokens DEF Init, WindowInv, Passed, Admitted, NoEntry

LEMMA WindowsInvariant == Spec => [](TypeOK /\ WindowInv)
  <1>1. Init => TypeOK /\ WindowInv
    BY InitTypeOK, InitWindow
  <1>2. TypeOK /\ WindowInv /\ [Next]_vars => (TypeOK /\ WindowInv)'
    BY NextTypeOK, WindowStep
  <1>3. QED BY <1>1, <1>2, PTL DEF Spec

(* However the handlers interleave, a request CheckPolicy lets through finds fewer *)
(* logs in a window of requests than the limit, up to one late log of each other   *)
(* handler.                                                                        *)
THEOREM WindowsHold == Spec => []RequestWindowBound
  BY WindowsInvariant, WindowImpliesBound, PTL

(* And in a window of tokens, for every size an answer may have and every day and  *)
(* month the windows begin with, fewer tokens than the limit, up to one late       *)
(* answer of each other handler.                                                   *)
THEOREM TokenWindowsHold == Spec => []TokenWindowBound
  BY WindowsInvariant, WindowImpliesBound, PTL

-----------------------------------------------------------------------------
(* Usage logs. *)

(* Who is unlogged is answered; else an answered request has its one log. *)
Booked(h, n) ==
  /\ Unlogged(h, n) => Answered(h, n)
  /\ Answered(h, n) /\ ~Unlogged(h, n) => \E l : LogsOf(h, n) = {l}
  /\ ~(Answered(h, n) /\ ~Unlogged(h, n)) => LogsOf(h, n) = {}

LedgerInv == \A h \in Handlers : \A n \in 1..deployment.requests : Booked(h, n)

(* A request whose log, answer and marks stay is booked as before. *)
LEMMA BookedFrame ==
  ASSUME NEW h \in Handlers, NEW n, Booked(h, n), LogsOf(h, n)' = LogsOf(h, n),
         Answered(h, n)' <=> Answered(h, n),
         \A why \in Whys : <<h, n, why>> \in unlogged' <=> <<h, n, why>> \in unlogged
  PROVE  Booked(h, n)'
  BY DEF Booked, Unlogged, Whys

LEMMA LedgerFrame ==
  ASSUME TypeOK, LedgerInv, UNCHANGED <<logs, deployment, nth, unlogged>>,
         \A h \in Handlers : pc'[h] = "idle" <=> pc[h] = "idle"
  PROVE  LedgerInv'
  <1>1. \A h \in Handlers : \A n \in 1..deployment.requests :
          LogsOf(h, n)' = LogsOf(h, n) /\ (Answered(h, n)' <=> Answered(h, n))
    BY DEF Answered, LogsOf
  <1>2. QED BY <1>1, BookedFrame DEF LedgerInv

LEMMA ReceiveLedger ==
  ASSUME TypeOK, LedgerInv, NEW h \in Handlers, Receive(h)
  PROVE  LedgerInv'
  <1>1. \A g \in Handlers : nth[g] \in Nat
    BY GatewayAssumption DEF TypeOK
  <1>2. /\ UNCHANGED <<logs, unlogged, deployment>> /\ pc[h] = "idle"
        /\ pc' = [pc EXCEPT ![h] = "open"] /\ nth' = [nth EXCEPT ![h] = @ + 1]
    BY DEF Receive, Goes
  <1>3. \A g \in Handlers : \A n \in 1..deployment.requests :
          Answered(g, n)' <=> Answered(g, n)
    <2> SUFFICES ASSUME NEW g \in Handlers, NEW n \in 1..deployment.requests
                 PROVE  Answered(g, n)' <=> Answered(g, n)
      OBVIOUS
    <2>2. n \in Nat /\ nth[g] \in Nat
      BY <1>1, GatewayAssumption DEF TypeOK
    <2>3. CASE g = h
      <3>1. nth'[h] = nth[h] + 1 /\ pc'[h] = "open" /\ pc[h] = "idle"
        BY <1>2 DEF TypeOK
      <3>2. Answered(h, n)' <=> n \in 1..(nth[h] + 1) /\ n # nth[h] + 1
        BY <3>1 DEF Answered
      <3>3. Answered(h, n) <=> n \in 1..nth[h]
        BY <3>1 DEF Answered
      <3>4. QED BY <2>2, <2>3, <3>2, <3>3
    <2>4. CASE g # h
      BY <1>2, <2>4 DEF TypeOK, Answered
    <2>5. QED BY <2>3, <2>4
  <1>4. \A g \in Handlers : \A n : LogsOf(g, n)' = LogsOf(g, n)
    BY <1>2 DEF LogsOf
  <1>5. QED BY <1>2, <1>3, <1>4, BookedFrame DEF LedgerInv

(* The request under way becomes answered, the others are what they were. *)
LEMMA LeaveAnswers ==
  ASSUME TypeOK, NEW h \in Handlers, NEW from, from # "idle", Goes(h, from, "idle"),
         UNCHANGED <<deployment, nth>>
  PROVE  /\ \A n \in 1..deployment.requests :
              n = nth[h] => Answered(h, n)' /\ ~Answered(h, n)
         /\ \A g \in Handlers : \A n \in 1..deployment.requests :
              g # h \/ n # nth[h] => (Answered(g, n)' <=> Answered(g, n))
  <1>1. \A g \in Handlers : nth[g] \in Nat
    BY GatewayAssumption DEF TypeOK
  <1>2. pc[h] # "idle" /\ pc' = [pc EXCEPT ![h] = "idle"]
    BY DEF Goes
  <1>3. QED BY <1>1, <1>2, GatewayAssumption DEF TypeOK, Answered

LEMMA LeaveLedger ==
  ASSUME TypeOK, LedgerInv, NEW h \in Handlers, NEW from, from # "idle",
         NEW why \in Whys, LeaveUnlogged(h, from, why)
  PROVE  LedgerInv'
  <1>1. /\ UNCHANGED <<logs, deployment, nth>> /\ Goes(h, from, "idle")
        /\ unlogged' = unlogged \cup {<<h, nth[h], why>>}
    BY DEF LeaveUnlogged, Leave
  <1>2. \A g \in Handlers : \A n : LogsOf(g, n)' = LogsOf(g, n)
    BY <1>1 DEF LogsOf
  <1>3. ASSUME NEW g \in Handlers, NEW n \in 1..deployment.requests, g # h \/ n # nth[h]
        PROVE  Booked(g, n)'
    <2>1. (Answered(g, n)' <=> Answered(g, n)) /\ Booked(g, n)
      BY <1>1, <1>3, LeaveAnswers DEF LedgerInv
    <2>2. \A w \in Whys : <<g, n, w>> \in unlogged' <=> <<g, n, w>> \in unlogged
      BY <1>1, <1>3
    <2>3. QED BY <1>2, <2>1, <2>2, BookedFrame
  <1>4. ASSUME NEW n \in 1..deployment.requests, n = nth[h] PROVE Booked(h, n)'
    <2>1. ~Answered(h, n) /\ Answered(h, n)' /\ Booked(h, n)
      BY <1>1, <1>4, LeaveAnswers DEF LedgerInv
    <2>2. Unlogged(h, n)'
      BY <1>1, <1>4 DEF Unlogged, Whys
    <2>3. QED BY <1>2, <2>1, <2>2 DEF Booked
  <1>5. QED BY <1>1, <1>3, <1>4 DEF LedgerInv

LEMMA RecordLedger ==
  ASSUME TypeOK, LedgerInv, NEW h \in Handlers, Record(h)
  PROVE  LedgerInv'
  <1> DEFINE l == [by |-> h, nth |-> nth[h], at |-> entry[h].at, tokens |-> entry[h].tokens]
  <1>1. /\ UNCHANGED <<unlogged, deployment, nth>> /\ Goes(h, "record", "idle")
        /\ logs' = logs \cup {l} /\ l.by = h /\ l.nth = nth[h]
    BY DEF Record, Leave, WithLog
  <1> HIDE DEF l
  <1>2. ASSUME NEW g \in Handlers, NEW n \in 1..deployment.requests, g # h \/ n # nth[h]
        PROVE  LogsOf(g, n)' = LogsOf(g, n) /\ (Answered(g, n)' <=> Answered(g, n))
    BY <1>1, <1>2, LeaveAnswers DEF LogsOf
  <1>3. ASSUME NEW n \in 1..deployment.requests, n = nth[h]
        PROVE  /\ LogsOf(h, n)' = {l} /\ Answered(h, n)'
               /\ ~Unlogged(h, n)'
    <2>1. ~Answered(h, n) /\ Answered(h, n)'
      BY <1>1, <1>3, LeaveAnswers
    <2>2. LogsOf(h, n) = {} /\ ~Unlogged(h, n)
      BY <2>1 DEF LedgerInv, Booked
    <2>3. LogsOf(h, n)' = LogsOf(h, n) \cup {l}
      BY <1>1, <1>3 DEF LogsOf
    <2>4. ~Unlogged(h, n)'
      BY <1>1, <2>2 DEF Unlogged, Whys
    <2>5. QED BY <2>1, <2>2, <2>3, <2>4
  <1>4. ASSUME NEW g \in Handlers, NEW n \in 1..deployment.requests PROVE Booked(g, n)'
    <2>1. CASE g # h \/ n # nth[h]
      BY <1>1, <1>2, <2>1, BookedFrame DEF LedgerInv
    <2>2. CASE g = h /\ n = nth[h]
      BY <1>1, <1>3, <2>2 DEF Booked
    <2>3. QED BY <2>1, <2>2
  <1>5. QED BY <1>1, <1>4 DEF LedgerInv

LEMMA LedgerStep == TypeOK /\ LedgerInv /\ [Next]_vars => LedgerInv'
  <1> SUFFICES ASSUME TypeOK, LedgerInv, [Next]_vars PROVE LedgerInv'
    OBVIOUS
  <1> USE DEF policyVars, requestVars, adminVars
  <1>1. ASSUME NEW h \in Handlers, Receive(h) \/ Handle(h) PROVE LedgerInv'
    <2> USE DEF TypeOK, Goes
    <2>1. CASE Receive(h)
      BY <2>1, ReceiveLedger
    <2>2. CASE RefuseBody(h) \/ RecordFails(h) \/ EncodeFails(h)
      BY <2>2, LeaveLedger, Endless DEF Whys
    <2>3. CASE Refuse(h) \/ Finish(h)
      BY <2>3, Endings, LedgerFrame DEF Answer
    <2>4. CASE BeginPolicy(h) \/ PassWindow(h) \/ Admit(h)
      BY <2>4, LedgerFrame DEF BeginPolicy, PassWindow, Admit
    <2>5. CASE UseOverride(h) \/ ReadMode(h) \/ ReadFallback(h) \/ ReadFails(h) \/ Dispatch(h)
      BY <2>5, LedgerFrame DEF UseOverride, ReadMode, ReadFallback, ReadFails, Decide, Dispatch
    <2>6. CASE Record(h)
      BY <2>6, RecordLedger
    <2>7. QED BY <1>1, <2>1, <2>2, <2>3, <2>4, <2>5, <2>6 DEF Handle
  <1>2. CASE Tick
    BY <1>2, LedgerFrame DEF Tick
  <1>3. ASSUME NEW a \in Admins, Administer(a) PROVE LedgerInv'
    <2>1. UNCHANGED <<policyVars, pc>>
      BY <1>3 DEF Administer, SetStrategy, SetEffort, Begin, AdminReadsMode,
                  AdminReadsFallback, WriteMode, WriteFallback, CallFails, Return, AdminGoes
    <2>2. QED BY <2>1, LedgerFrame
  <1>4. CASE UNCHANGED vars
    BY <1>4, LedgerFrame DEF vars
  <1>5. QED BY <1>1, <1>2, <1>3, <1>4 DEF Next, Quiet

LEMMA InitLedger == Init => LedgerInv
  BY GatewayAssumption DEF Init, LedgerInv, Booked, Unlogged, Answered, LogsOf

(* Whatever way a request takes through handleProxy, it leaves one usage log behind, *)
(* unless its body was refused, its answer could not be encoded or the log could not *)
(* be written.                                                                       *)
THEOREM OneLogEach == Spec => []LoggedOnce
  <1>1. Init => TypeOK /\ LedgerInv
    BY InitTypeOK, InitLedger
  <1>2. TypeOK /\ LedgerInv /\ [Next]_vars => (TypeOK /\ LedgerInv)'
    BY NextTypeOK, LedgerStep
  <1>3. LedgerInv => LoggedOnce
    <2> SUFFICES ASSUME LedgerInv, NEW h \in Handlers, NEW n \in 1..deployment.requests
                 PROVE  Cardinality(LogsOf(h, n)) =
                          IF Answered(h, n) /\ ~Unlogged(h, n) THEN 1 ELSE 0
      BY DEF LoggedOnce
    <2>2. Booked(h, n)
      BY DEF LedgerInv
    <2>3. CASE Answered(h, n) /\ ~Unlogged(h, n)
      <3>1. PICK l : LogsOf(h, n) = {l}
        BY <2>2, <2>3 DEF Booked
      <3>2. QED BY <2>3, <3>1, FS_Singleton
    <2>4. CASE ~(Answered(h, n) /\ ~Unlogged(h, n))
      BY <2>2, <2>4, FS_EmptySet DEF Booked
    <2>5. QED BY <2>3, <2>4
  <1>4. QED BY <1>1, <1>2, <1>3, PTL DEF Spec

-----------------------------------------------------------------------------
(* The two rows of the strategy. *)

Stored == [mode |-> Mode, fallback |-> Fallback]

(* A call that runs alone is on its way from one strategy to its target. *)
LoneInv ==
  /\ settled # "unsure" =>
       (\A a \in Admins : admin[a] = "idle") /\ StrategyOf(Stored) = settled
  /\ lone => \A a, b \in Admins : admin[a] # "idle" /\ admin[b] # "idle" => a = b
  /\ lone => \A a \in Admins : target[a] # "unsure" =>
       /\ admin[a] \in {"read", "read_fallback"} => StrategyOf(Stored) = target[a]
       /\ admin[a] = "read_fallback" =>
            wants[a] = StrategyOf([mode |-> Mode, fallback |-> FALSE])
       /\ admin[a] \in {"write", "write_fallback"} => wants[a] = target[a]
       /\ admin[a] = "write_fallback" => rows.mode = Pair(wants[a]).mode

(* A request that has met no call has read what is settled. *)
ReaderInv ==
  \A h \in Handlers :
    /\ pc[h] \in {"idle", "open", "policy"} => quiet[h] = "unsure"
    /\ quiet[h] # "unsure" =>
         /\ ask[h].override = "inherit"
         /\ settled = quiet[h]
         /\ pc[h] = "fallback" => seen[h] = Mode
         /\ pc[h] \in {"prepare", "upstream"} => StrategyOf(plan[h]) = quiet[h]

QuietInv == LoneInv /\ ReaderInv

LEMMA StoredPair ==
  ASSUME NEW s \in Strategies
  PROVE  /\ StrategyOf(Pair(s)) = s
         /\ Pair(s).mode \in {"codex_backend", "codex_cli"} /\ Pair(s).fallback \in BOOLEAN
         /\ Pair(s) = [mode |-> Pair(s).mode, fallback |-> Pair(s).fallback]
  BY DEF StrategyOf, Pair, Strategies

LEMMA ReadBack ==
  ASSUME NEW m \in {"codex_backend", "codex_cli"}, NEW f \in BOOLEAN
  PROVE  StrategyOf([mode |-> Pair(StrategyOf([mode |-> m, fallback |-> FALSE])).mode,
                     fallback |-> f])
           = StrategyOf([mode |-> m, fallback |-> f])
  BY DEF StrategyOf, Pair

(* Handlers leave the settings alone. *)
LEMMA LoneFrame ==
  ASSUME LoneInv, UNCHANGED adminVars
  PROVE  LoneInv'
  BY DEF LoneInv, adminVars, Stored, Mode, Fallback

LEMMA ReaderFrame ==
  ASSUME TypeOK, ReaderInv, NEW h \in Handlers, UNCHANGED adminVars,
         \A g \in Handlers \ {h} :
           /\ pc'[g] = pc[g] /\ quiet'[g] = quiet[g] /\ ask'[g] = ask[g]
           /\ seen'[g] = seen[g] /\ plan'[g] = plan[g],
         \/ quiet'[h] = "unsure"
         \/ /\ quiet'[h] = quiet[h] /\ ask'[h] = ask[h] /\ seen'[h] = seen[h]
            /\ plan'[h] = plan[h]
            /\ pc'[h] \in {"mode", "record"}
         \/ /\ quiet'[h] = quiet[h] /\ ask'[h] = ask[h] /\ plan'[h] = plan[h]
            /\ pc[h] = "prepare" /\ pc'[h] = "upstream"
  PROVE  ReaderInv'
  <1>1. settled' = settled /\ Mode' = Mode
    BY DEF adminVars, Mode
  <1>2. ASSUME NEW g \in Handlers, g # h
        PROVE  /\ pc'[g] \in {"idle", "open", "policy"} => quiet'[g] = "unsure"
               /\ quiet'[g] # "unsure" =>
                    /\ ask'[g].override = "inherit"
                    /\ settled' = quiet'[g]
                    /\ pc'[g] = "fallback" => seen'[g] = Mode'
                    /\ pc'[g] \in {"prepare", "upstream"} => StrategyOf(plan'[g]) = quiet'[g]
    BY <1>1, <1>2 DEF ReaderInv
  <1>3. /\ pc'[h] \in {"idle", "open", "policy"} => quiet'[h] = "unsure"
        /\ quiet'[h] # "unsure" =>
             /\ ask'[h].override = "inherit"
             /\ settled' = quiet'[h]
             /\ pc'[h] = "fallback" => seen'[h] = Mode'
             /\ pc'[h] \in {"prepare", "upstream"} => StrategyOf(plan'[h]) = quiet'[h]
    BY <1>1 DEF ReaderInv
  <1>4. QED BY <1>2, <1>3 DEF ReaderInv

LEMMA HandleQuiet ==
  ASSUME TypeOK, QuietInv, NEW h \in Handlers, Receive(h) \/ Handle(h)
  PROVE  QuietInv'
  <1> USE DEF TypeOK, Goes, policyVars, QuietInv
  <1>1. UNCHANGED adminVars
    BY Endings, Endless DEF Handle, Receive, BeginPolicy, PassWindow, Admit, UseOverride,
           ReadMode, ReadFallback, ReadFails, Dispatch, Record, LeaveUnlogged, Leave, Answer
  <1>2. LoneInv'
    BY <1>1, LoneFrame
  <1>3. CASE Receive(h) \/ BeginPolicy(h) \/ Admit(h)
    <2>1. quiet'[h] = "unsure"
      BY <1>3 DEF Receive, BeginPolicy, Admit, ReaderInv
    <2>2. QED BY <1>1, <1>2, <1>3, <2>1, ReaderFrame DEF Receive, BeginPolicy, Admit
  <1>4. CASE RefuseBody(h) \/ RecordFails(h) \/ EncodeFails(h) \/ Record(h)
    BY <1>1, <1>2, <1>4, ReaderFrame, Endless DEF Record, LeaveUnlogged, Leave
  <1>5. CASE Refuse(h) \/ Finish(h)
    BY <1>1, <1>2, <1>5, ReaderFrame, Endings DEF Answer
  <1>6. CASE PassWindow(h)
    BY <1>1, <1>2, <1>6 DEF PassWindow, requestVars, adminVars, ReaderInv, Mode
  <1>7. CASE UseOverride(h)
    <2>1. quiet'[h] = "unsure"
      BY <1>7 DEF UseOverride, ReaderInv
    <2>2. QED BY <1>1, <1>2, <1>7, <2>1, ReaderFrame DEF UseOverride, Decide
  <1>8. CASE ReadFails(h)
    BY <1>1, <1>2, <1>8, ReaderFrame DEF ReadFails, Decide
  <1>9. CASE Dispatch(h)
    BY <1>1, <1>2, <1>9, ReaderFrame DEF Dispatch
  <1>10. CASE ReadMode(h)
    <2>1. settled' = settled /\ Mode' = Mode
      BY <1>1 DEF adminVars, Mode
    <2>2. QED BY <1>2, <1>10, <2>1 DEF ReadMode, ReaderInv
  <1>11. CASE ReadFallback(h)
    <2>1. settled' = settled /\ Mode' = Mode
      BY <1>1 DEF adminVars, Mode
    <2>2. quiet[h] # "unsure" => StrategyOf([mode |-> seen[h], fallback |-> Fallback]) = quiet[h]
      BY <1>11 DEF ReadFallback, Decide, ReaderInv, LoneInv, Stored
    <2>3. QED BY <1>2, <1>11, <2>1, <2>2 DEF ReadFallback, Decide, ReaderInv
  <1>12. QED
    BY <1>3, <1>4, <1>5, <1>6, <1>7, <1>8, <1>9, <1>10, <1>11 DEF Handle

LEMMA ReaderUnsure ==
  ASSUME ReaderInv, UNCHANGED <<pc, ask, seen, plan>>,
         \/ \A h \in Handlers : quiet'[h] = "unsure"
         \/ quiet' = quiet /\ settled = "unsure"
  PROVE  ReaderInv'
  BY DEF ReaderInv

LEMMA AdminQuiet ==
  ASSUME TypeOK, QuietInv, NEW a \in Admins, Administer(a)
  PROVE  QuietInv'
  <1> USE DEF TypeOK, QuietInv
  <1>1. UNCHANGED <<pc, ask, seen, plan>>
    BY DEF Administer, SetStrategy, SetEffort, Begin, AdminReadsMode, AdminReadsFallback,
           WriteMode, WriteFallback, CallFails, Return, AdminGoes, policyVars, requestVars
  (* A call that begins is alone or overlaps, and settles nothing before it ends. *)
  <1>2. ASSUME NEW to \in {"read", "write"}, Begin(a, to)
        PROVE  ReaderInv'
    <2>1. \A h \in Handlers : quiet'[h] = "unsure"
      BY <1>2 DEF Begin
    <2>2. QED BY <1>1, <2>1, ReaderUnsure
  <1>3. ASSUME NEW s \in Strategies, SetStrategy(a, s) PROVE QuietInv'
    <2>1. LoneInv'
      BY <1>3 DEF SetStrategy, Begin, LoneInv
    <2>2. QED BY <1>2, <1>3, <2>1 DEF SetStrategy
  <1>4. CASE SetEffort(a)
    <2>1. LoneInv'
      BY <1>4 DEF SetEffort, Begin, LoneInv, Stored, Mode, Fallback
    <2>2. QED BY <1>2, <1>4, <2>1 DEF SetEffort
  (* While a call runs nothing is settled. *)
  <1>5. ASSUME admin[a] # "idle", quiet' = quiet PROVE ReaderInv'
    <2>1. settled = "unsure"
      BY <1>5 DEF LoneInv
    <2>2. QED BY <1>1, <1>5, <2>1, ReaderUnsure
  <1>6. CASE AdminReadsMode(a)
    <2>1. LoneInv'
      BY <1>6 DEF AdminReadsMode, AdminGoes, LoneInv, Stored, Mode, Fallback
    <2>2. QED BY <1>5, <1>6, <2>1 DEF AdminReadsMode, AdminGoes, requestVars
  <1>7. CASE AdminReadsFallback(a)
    <2>1. StrategyOf([mode |-> Pair(StrategyOf([mode |-> Mode, fallback |-> FALSE])).mode,
                      fallback |-> Fallback]) = StrategyOf(Stored)
      BY SettingTypes, ReadBack DEF Stored
    <2>2. Stored' = Stored
      BY <1>7 DEF AdminReadsFallback, Stored, Mode, Fallback
    <2>3. lone /\ target[a] # "unsure" => wants'[a] = target[a]
      BY <1>7, <2>1 DEF AdminReadsFallback, AdminGoes, LoneInv
    <2>4. LoneInv'
      BY <1>7, <2>2, <2>3 DEF AdminReadsFallback, AdminGoes, LoneInv
    <2>5. QED BY <1>5, <1>7, <2>4 DEF AdminReadsFallback, AdminGoes, requestVars
  <1>8. CASE WriteMode(a)
    <2>1. LoneInv'
      BY <1>8 DEF WriteMode, AdminGoes, LoneInv
    <2>2. QED BY <1>5, <1>8, <2>1 DEF WriteMode, AdminGoes, requestVars
  <1>9. CASE WriteFallback(a)
    <2>1. lone /\ target[a] # "unsure" => Stored' = Pair(target[a])
      BY <1>9, GatewayAssumption, StoredPair
      DEF WriteFallback, Return, AdminGoes, LoneInv, Stored, Mode, Fallback
    <2>2. settled' # "unsure" =>
            (\A b \in Admins : admin'[b] = "idle") /\ StrategyOf(Stored') = settled'
      BY <1>9, <2>1, StoredPair DEF WriteFallback, Return, AdminGoes, LoneInv
    <2>3. LoneInv'
      BY <1>9, <2>2 DEF WriteFallback, Return, AdminGoes, LoneInv
    <2>4. QED BY <1>5, <1>9, <2>3 DEF WriteFallback, Return, AdminGoes, requestVars
  <1>10. CASE CallFails(a)
    <2>1. LoneInv'
      BY <1>10 DEF CallFails, Return, AdminGoes, LoneInv, Stored, Mode, Fallback
    <2>2. QED BY <1>5, <1>10, <2>1 DEF CallFails, Return, AdminGoes, requestVars
  <1>11. QED
    BY <1>3, <1>4, <1>6, <1>7, <1>8, <1>9, <1>10 DEF Administer

LEMMA QuietStep == TypeOK /\ QuietInv /\ [Next]_vars => QuietInv'
  <1> SUFFICES ASSUME TypeOK, QuietInv, [Next]_vars PROVE QuietInv'
    OBVIOUS
  <1>1. CASE UNCHANGED <<requestVars, adminVars>>
    BY <1>1 DEF QuietInv, LoneInv, ReaderInv, Stored, Mode, Fallback, requestVars, adminVars
  <1>2. CASE Tick
    BY <1>1, <1>2 DEF Tick
  <1>3. CASE UNCHANGED vars
    BY <1>1, <1>3 DEF vars
  <1>4. QED BY <1>2, <1>3, HandleQuiet, AdminQuiet DEF Next, Quiet

LEMMA InitQuiet == Init => QuietInv
  <1> SUFFICES ASSUME Init PROVE QuietInv
    OBVIOUS
  <1>1. StrategyOf(Stored) = StrategyOf(Env)
    BY GatewayAssumption DEF Init, Stored, Mode, Fallback, StrategyOf
  <1>2. QED BY <1>1 DEF Init, QuietInv, LoneInv, ReaderInv

(* A request that meets no call of an administrator goes by the strategy the last lone *)
(* call has set, although it is written as two rows and read as two.                   *)
THEOREM QuietReads == Spec => []QuietStrategy
  <1>1. Init => TypeOK /\ QuietInv
    BY InitTypeOK, InitQuiet
  <1>2. TypeOK /\ QuietInv /\ [Next]_vars => (TypeOK /\ QuietInv)'
    BY NextTypeOK, QuietStep
  <1>3. QuietInv => QuietStrategy
    BY DEF QuietInv, ReaderInv, QuietStrategy
  <1>4. QED BY <1>1, <1>2, <1>3, PTL DEF Spec

-----------------------------------------------------------------------------
(* The CLI. *)

CliChosen == "codex_cli" \in asked \/ Env.mode = "codex_cli"
FallbackChosen == "backend_with_cli_fallback" \in asked \/ Env.fallback

(* Every copy of the mode and of the fallback comes from a call or the environment. *)
ChoiceInv ==
  /\ Mode = "codex_cli" => CliChosen
  /\ Fallback => FallbackChosen
  /\ \A a \in Admins :
       /\ wants[a] = "codex_cli" => CliChosen
       /\ wants[a] = "backend_with_cli_fallback" => FallbackChosen
  /\ \A h \in Handlers :
       /\ pc[h] = "fallback" => ask[h].override = "inherit"
       /\ seen[h] = "codex_cli" => CliChosen
       /\ pc[h] \in {"prepare", "upstream"} /\ ask[h].override = "inherit" =>
            /\ plan[h].mode = "codex_cli" => CliChosen
            /\ plan[h].fallback => FallbackChosen

LEMMA HandleChoice ==
  ASSUME TypeOK, ChoiceInv, NEW h \in Handlers, Receive(h) \/ Handle(h)
  PROVE  ChoiceInv'
  <1> USE DEF TypeOK, Goes, policyVars
  <1>1. UNCHANGED adminVars
    BY Endings, Endless DEF Handle, Receive, BeginPolicy, PassWindow, Admit, UseOverride,
           ReadMode, ReadFallback, ReadFails, Dispatch, Record, LeaveUnlogged, Leave, Answer
  <1>2. /\ (Mode' = Mode) /\ (Fallback' <=> Fallback)
        /\ (CliChosen' <=> CliChosen) /\ (FallbackChosen' <=> FallbackChosen)
    BY <1>1 DEF adminVars, Mode, Fallback, CliChosen, FallbackChosen
  (* What is left to show for the handler that takes the step. *)
  <1>3. ASSUME \A g \in Handlers \ {h} :
                 /\ pc'[g] = pc[g] /\ ask'[g] = ask[g] /\ seen'[g] = seen[g]
                 /\ plan'[g] = plan[g],
               pc'[h] = "fallback" => ask'[h].override = "inherit",
               seen'[h] = "codex_cli" => CliChosen,
               pc'[h] \in {"prepare", "upstream"} /\ ask'[h].override = "inherit" =>
                 (plan'[h].mode = "codex_cli" => CliChosen)
                 /\ (plan'[h].fallback => FallbackChosen)
        PROVE  ChoiceInv'
    <2> HIDE DEF TypeOK
    <2>1. UNCHANGED <<rows, wants>>
      BY <1>1 DEF adminVars
    <2>2. ASSUME NEW g \in Handlers
          PROVE  /\ pc'[g] = "fallback" => ask'[g].override = "inherit"
                 /\ seen'[g] = "codex_cli" => CliChosen
                 /\ pc'[g] \in {"prepare", "upstream"} /\ ask'[g].override = "inherit" =>
                      /\ plan'[g].mode = "codex_cli" => CliChosen
                      /\ plan'[g].fallback => FallbackChosen
      <3>1. CASE g = h
        BY <1>3, <3>1
      <3>2. CASE g # h
        BY <1>3, <3>2 DEF ChoiceInv
      <3>3. QED BY <3>1, <3>2
    <2>3. QED BY <1>2, <2>1, <2>2 DEF ChoiceInv
  <1> USE DEF ChoiceInv
  <1>4. CASE Receive(h) \/ BeginPolicy(h) \/ Admit(h) \/ Dispatch(h)
    BY <1>3, <1>4 DEF Receive, BeginPolicy, Admit, Dispatch
  <1>5. CASE RefuseBody(h) \/ RecordFails(h) \/ EncodeFails(h) \/ Record(h)
    BY <1>3, <1>5, Endless DEF Record, LeaveUnlogged, Leave
  <1>6. CASE Refuse(h) \/ Finish(h)
    BY <1>3, <1>6, Endings DEF Answer
  <1>7. CASE PassWindow(h)
    BY <1>3, <1>7 DEF PassWindow, requestVars
  <1>8. CASE UseOverride(h) \/ ReadMode(h)
    BY <1>3, <1>8 DEF UseOverride, ReadMode, Decide
  <1>9. CASE ReadFallback(h)
    BY <1>3, <1>9 DEF ReadFallback, Decide
  <1>10. CASE ReadFails(h)
    BY <1>3, <1>10 DEF ReadFails, Decide, CliChosen, FallbackChosen
  <1>11. QED
    BY <1>4, <1>5, <1>6, <1>7, <1>8, <1>9, <1>10 DEF Handle

LEMMA AdminChoice ==
  ASSUME TypeOK, ChoiceInv, NEW a \in Admins, Administer(a)
  PROVE  ChoiceInv'
  <1> USE DEF TypeOK, ChoiceInv
  <1>1. UNCHANGED <<pc, ask, seen, plan>>
    BY DEF Administer, SetStrategy, SetEffort, Begin, AdminReadsMode, AdminReadsFallback,
           WriteMode, WriteFallback, CallFails, Return, AdminGoes, policyVars, requestVars
  <1>2. ASSUME NEW s \in Strategies, SetStrategy(a, s) PROVE ChoiceInv'
    BY <1>1, <1>2 DEF SetStrategy, Begin, Mode, Fallback, CliChosen, FallbackChosen
  <1>3. CASE SetEffort(a)
    BY <1>1, <1>3 DEF SetEffort, Begin, Mode, Fallback, CliChosen, FallbackChosen
  <1>4. CASE AdminReadsMode(a)
    BY <1>1, <1>4
    DEF AdminReadsMode, AdminGoes, Mode, Fallback, StrategyOf, CliChosen, FallbackChosen
  <1>5. CASE AdminReadsFallback(a)
    BY <1>1, <1>5
    DEF AdminReadsFallback, AdminGoes, Mode, Fallback, StrategyOf, Pair, CliChosen,
        FallbackChosen
  <1>6. CASE WriteMode(a)
    BY <1>1, <1>6, GatewayAssumption
    DEF WriteMode, AdminGoes, Mode, Fallback, Pair, CliChosen, FallbackChosen
  <1>7. CASE WriteFallback(a)
    BY <1>1, <1>7, GatewayAssumption
    DEF WriteFallback, Return, AdminGoes, Mode, Fallback, Pair, CliChosen, FallbackChosen
  <1>8. CASE CallFails(a)
    BY <1>1, <1>8
    DEF CallFails, Return, AdminGoes, Mode, Fallback, CliChosen, FallbackChosen
  <1>9. QED
    BY <1>2, <1>3, <1>4, <1>5, <1>6, <1>7, <1>8 DEF Administer

LEMMA ChoiceStep == TypeOK /\ ChoiceInv /\ [Next]_vars => ChoiceInv'
  <1> SUFFICES ASSUME TypeOK, ChoiceInv, [Next]_vars PROVE ChoiceInv'
    OBVIOUS
  <1>1. CASE UNCHANGED <<requestVars, adminVars>>
    BY <1>1 DEF ChoiceInv, Mode, Fallback, CliChosen, FallbackChosen, requestVars, adminVars
  <1>2. CASE Tick
    BY <1>1, <1>2 DEF Tick
  <1>3. CASE UNCHANGED vars
    BY <1>1, <1>3 DEF vars
  <1>4. QED BY <1>2, <1>3, HandleChoice, AdminChoice DEF Next, Quiet

LEMMA InitChoice == Init => ChoiceInv
  BY DEF Init, ChoiceInv, Mode, Fallback, CliChosen, FallbackChosen

(* No overlap of calls, failed call or half-read pair of rows sends an inheriting *)
(* request to the CLI that neither an administrator nor the environment chose.    *)
THEOREM NobodyInventsTheCli == Spec => []CliWasChosen
  <1>1. Init => TypeOK /\ ChoiceInv
    BY InitTypeOK, InitChoice
  <1>2. TypeOK /\ ChoiceInv /\ [Next]_vars => (TypeOK /\ ChoiceInv)'
    BY NextTypeOK, ChoiceStep
  <1>3. ChoiceInv => CliWasChosen
    BY DEF ChoiceInv, CliWasChosen, CliChosen, FallbackChosen
  <1>4. QED BY <1>1, <1>2, <1>3, PTL DEF Spec

-----------------------------------------------------------------------------
(* The accounting. *)

\* A request that is not admitted yet has not read the strategy.
RoundInv == \A h \in Handlers : pc[h] \in {"idle", "open", "policy"} => round[h] = 1

LEMMA RoundStep == TypeOK /\ RoundInv /\ [Next]_vars => RoundInv'
  <1> SUFFICES ASSUME TypeOK, RoundInv, [Next]_vars PROVE RoundInv'
    OBVIOUS
  <1> USE DEF TypeOK, RoundInv
  <1>1. CASE UNCHANGED <<pc, round>>
    BY <1>1
  <1>2. ASSUME NEW h \in Handlers, Receive(h) \/ Handle(h) PROVE RoundInv'
    <2> USE DEF Goes, policyVars, adminVars
    <2>1. CASE Receive(h)
      BY <2>1 DEF Receive
    <2>2. CASE RefuseBody(h) \/ Record(h) \/ RecordFails(h) \/ EncodeFails(h)
      <3>1. PICK from : Goes(h, from, "idle") /\ Leave(h)
        BY <2>2, Endless DEF Record, LeaveUnlogged
      <3>2. QED BY <3>1 DEF Leave
    <2>3. CASE Refuse(h) \/ Finish(h)
      BY <2>3, Endings DEF Answer
    <2>4. CASE BeginPolicy(h) \/ Admit(h)
      BY <2>4 DEF BeginPolicy, Admit
    <2>5. CASE PassWindow(h)
      BY <2>5 DEF PassWindow, requestVars
    <2>6. CASE UseOverride(h) \/ ReadMode(h) \/ ReadFallback(h) \/ ReadFails(h)
      BY <2>6 DEF UseOverride, ReadMode, ReadFallback, ReadFails, Decide
    <2>7. CASE Dispatch(h)
      BY <2>7 DEF Dispatch
    <2>8. QED
      BY <1>2, <2>1, <2>2, <2>3, <2>4, <2>5, <2>6, <2>7 DEF Handle
  <1>3. ASSUME NEW a \in Admins, Administer(a) PROVE UNCHANGED <<pc, round>>
    BY <1>3 DEF Administer, SetStrategy, SetEffort, Begin, AdminReadsMode,
                AdminReadsFallback, WriteMode, WriteFallback, CallFails, Return, AdminGoes,
                requestVars
  <1>4. Tick \/ Quiet \/ UNCHANGED vars => UNCHANGED <<pc, round>>
    BY DEF Tick, Quiet, vars, requestVars
  <1>5. QED BY <1>1, <1>2, <1>3, <1>4 DEF Next

\* What a step of one handler does to the stages.
LEMMA StageMoves ==
  ASSUME TypeOK, NEW h \in Handlers, NEW from, NEW to, Goes(h, from, to),
         \A g \in Handlers \ {h} : round'[g] = round[g]
  PROVE  /\ stageBar[h] = StageOf(from, round[h])
         /\ stageBar' = [stageBar EXCEPT ![h] = StageOf(to, round'[h])]
  <1>1. /\ pc[h] = from /\ pc'[h] = to
        /\ \A g \in Handlers \ {h} : pc'[g] = pc[g]
    BY DEF TypeOK, Goes
  <1>2. stageBar' = [g \in Handlers |-> IF g = h THEN StageOf(to, round'[h])
                                        ELSE stageBar[g]]
    BY <1>1 DEF stageBar
  <1>3. QED BY <1>1, <1>2 DEF stageBar

LEMMA StagesStay ==
  ASSUME UNCHANGED <<pc, round>>
  PROVE  stageBar' = stageBar
  BY DEF stageBar

\* A refusal or an answer of the upstream is owed from now on.
LEMMA LedgerAnswer ==
  ASSUME TypeOK, NEW h \in Handlers, NEW from, NEW t, Answer(h, from, t)
  PROVE  /\ Ledger!Owe(h, t)
         /\ stageBar[h] = StageOf(from, round[h])
         /\ stageBar' = [stageBar EXCEPT ![h] = "answered"]
  <1>1. Goes(h, from, "record") /\ round' = round
    BY DEF Answer
  <1>2. StageOf("record", round'[h]) = "answered"
    BY DEF StageOf
  <1>3. Ledger!Owe(h, t)
    BY DEF Answer, Ledger!Owe
  <1>4. QED BY <1>1, <1>2, <1>3, StageMoves

\* A handler that leaves its request closes it.
LEMMA LedgerLeave ==
  ASSUME TypeOK, NEW h \in Handlers, NEW from, Goes(h, from, "idle"), Leave(h)
  PROVE  /\ Ledger!Close(h)
         /\ stageBar[h] = StageOf(from, round[h])
         /\ stageBar' = [stageBar EXCEPT ![h] = "none"]
  <1>1. \A g \in Handlers \ {h} : round'[g] = round[g]
    BY DEF Leave, TypeOK
  <1>2. StageOf("idle", round'[h]) = "none"
    BY DEF StageOf
  <1>3. Ledger!Close(h)
    BY DEF Leave, Ledger!Close, Ledger!Nothing, NoEntry
  <1>4. QED BY <1>1, <1>2, <1>3, StageMoves

\* A request that goes on is at the next stage or at the same one.
LEMMA LedgerGoesOn ==
  ASSUME TypeOK, RoundInv, NEW h \in Handlers,
         \/ Receive(h) \/ BeginPolicy(h) \/ PassWindow(h) \/ Admit(h)
         \/ UseOverride(h) \/ ReadMode(h) \/ ReadFallback(h) \/ ReadFails(h)
         \/ Dispatch(h)
  PROVE  \/ Ledger!Take(h) \/ Ledger!Admit(h) \/ Ledger!Send(h)
         \/ UNCHANGED Ledger!vars
  <1> USE DEF Ledger!vars, policyVars
  <1>1. CASE Receive(h)
    <2>1. Goes(h, "idle", "open") /\ round' = round
      BY <1>1 DEF Receive
    <2>2. stageBar[h] = "none" /\ stageBar' = [stageBar EXCEPT ![h] = "taken"]
      BY <2>1, StageMoves DEF StageOf
    <2>3. Ledger!Take(h)
      BY <1>1, <2>2 DEF Receive, Ledger!Take, Ledger!Comes
    <2>4. QED BY <2>3
  <1>2. CASE BeginPolicy(h) \/ Admit(h)
    <2>1. PICK from \in {"open", "policy"}, to \in {"policy", "mode"} :
            Goes(h, from, to) /\ UNCHANGED <<round, clock, nth, entry, logs, unlogged>>
      BY <1>2 DEF BeginPolicy, Admit
    <2>2. round[h] = 1
      BY <2>1 DEF RoundInv, Goes
    <2>3. stageBar[h] = "taken" /\ stageBar' = [stageBar EXCEPT ![h] = StageOf(to, 1)]
      BY <2>1, <2>2, StageMoves DEF StageOf
    <2>4. CASE to = "policy"
      <3>1. stageBar' = stageBar
        <4>1. StageOf(to, 1) = stageBar[h]
          BY <2>3, <2>4 DEF StageOf
        <4>2. QED BY <2>3, <4>1 DEF stageBar
      <3>2. QED BY <2>1, <3>1
    <2>5. CASE to = "mode"
      <3>1. Ledger!Admit(h)
        BY <2>1, <2>3, <2>5 DEF StageOf, Ledger!Admit, Ledger!Comes
      <3>2. QED BY <3>1
    <2>6. QED BY <2>4, <2>5
  <1>3. CASE PassWindow(h)
    BY <1>3, StagesStay DEF PassWindow, requestVars
  <1>4. CASE UseOverride(h) \/ ReadMode(h) \/ ReadFallback(h) \/ ReadFails(h)
    <2>1. PICK from \in {"mode", "fallback"}, to \in {"fallback", "prepare", "upstream"} :
            /\ Goes(h, from, to)
            /\ UNCHANGED <<round, clock, nth, entry, logs, unlogged>>
            /\ to = "prepare" => round[h] = 1
            /\ to = "upstream" => round[h] # 1
      BY <1>4 DEF UseOverride, ReadMode, ReadFallback, ReadFails, Decide
    <2>2. round[h] \in {1, 2}
      BY DEF TypeOK
    <2>3. StageOf(to, round[h]) = StageOf(from, round[h])
      BY <2>1, <2>2 DEF StageOf
    <2>4. stageBar' = [stageBar EXCEPT ![h] = stageBar[h]]
      BY <2>1, <2>3, StageMoves
    <2>5. stageBar' = stageBar
      BY <2>4 DEF stageBar
    <2>6. QED BY <2>1, <2>5
  <1>5. CASE Dispatch(h)
    <2>1. PICK to \in {"mode", "upstream"} :
            /\ Goes(h, "prepare", to)
            /\ \A g \in Handlers \ {h} : round'[g] = round[g]
            /\ to = "mode" => round'[h] = 2
            /\ UNCHANGED <<clock, nth, entry, logs, unlogged>>
      BY <1>5 DEF Dispatch, TypeOK
    <2>2. stageBar[h] = "admitted" /\ stageBar' = [stageBar EXCEPT ![h] = "sent"]
      BY <2>1, StageMoves DEF StageOf
    <2>3. Ledger!Send(h)
      BY <2>1, <2>2 DEF Ledger!Send, Ledger!Comes
    <2>4. QED BY <2>3
  <1>6. QED BY <1>1, <1>2, <1>3, <1>4, <1>5

LEMMA LedgerEnds ==
  ASSUME TypeOK, RoundInv, NEW h \in Handlers,
         \/ RefuseBody(h) \/ Refuse(h) \/ Finish(h) \/ EncodeFails(h)
         \/ Record(h) \/ RecordFails(h)
  PROVE  \/ Ledger!Refuse(h) \/ Ledger!Serve(h) \/ Ledger!Fail(h)
         \/ Ledger!Book(h) \/ Ledger!Lose(h)
  <1>1. ASSUME NEW from \in {"open", "policy", "prepare"}, Answer(h, from, 0)
        PROVE  Ledger!Refuse(h)
    <2>1. StageOf(from, round[h]) \in {"taken", "admitted"}
      BY DEF StageOf
    <2>2. QED BY <1>1, <2>1, LedgerAnswer DEF Ledger!Refuse, Ledger!Comes
  <1>2. ASSUME NEW t \in TokenCosts \cup {0}, Answer(h, "upstream", t)
        PROVE  Ledger!Serve(h) \/ Ledger!Fail(h)
    <2>1. StageOf("upstream", round[h]) = "sent"
      BY DEF StageOf
    <2>2. QED BY <1>2, <2>1, LedgerAnswer DEF Ledger!Serve, Ledger!Fail, Ledger!Comes
  <1>3. CASE RefuseBody(h) \/ EncodeFails(h) \/ RecordFails(h)
    <2>1. /\ StageOf("open", round[h]) = "taken"
          /\ StageOf("upstream", round[h]) = "sent"
          /\ StageOf("record", round[h]) = "answered"
      BY DEF StageOf
    <2>2. PICK from \in {"open", "upstream", "record"}, why \in Whys :
            /\ LeaveUnlogged(h, from, why)
            /\ <<StageOf(from, round[h]), why>> \in Ledger!Losses
      BY <1>3, <2>1, Endless DEF Whys, Ledger!Losses
    <2>3. Ledger!Close(h) /\ UNCHANGED logs
      BY <2>2, LedgerLeave DEF LeaveUnlogged
    <2>4. /\ Ledger!Comes(h, {StageOf(from, round[h])}, "none")
          /\ unlogged' = unlogged \cup {<<h, nth[h], why>>}
      BY <2>2, LedgerLeave DEF LeaveUnlogged, Ledger!Comes
    <2>5. Ledger!Lose(h)
      BY <2>2, <2>3, <2>4 DEF Ledger!Lose
    <2>6. QED BY <2>5
  <1>4. CASE Record(h)
    <2>1. StageOf("record", round[h]) = "answered"
      BY DEF StageOf
    <2>2. Ledger!Book(h)
      BY <1>4, <2>1, LedgerLeave DEF Record, WithLog, Ledger!Book, Ledger!Comes
    <2>3. QED BY <2>2
  <1>5. QED BY <1>1, <1>2, <1>3, <1>4, Endings

LEMMA LedgerInit == Init => Ledger!Init
  BY DEF Init, Ledger!Init, Ledger!Nothing, NoEntry, stageBar, StageOf

LEMMA LedgerNext == TypeOK /\ RoundInv /\ [Next]_vars => [Ledger!Next]_(Ledger!vars)
  <1> SUFFICES ASSUME TypeOK, RoundInv, [Next]_vars PROVE [Ledger!Next]_(Ledger!vars)
    OBVIOUS
  <1>1. CASE Tick
    <2>1. Ledger!Pass
      BY <1>1, StagesStay DEF Tick, requestVars, Ledger!Pass
    <2>2. QED BY <2>1 DEF Ledger!Next
  <1>2. ASSUME NEW h \in Handlers, Receive(h) \/ Handle(h)
        PROVE  [Ledger!Next]_(Ledger!vars)
    BY <1>2, LedgerGoesOn, LedgerEnds DEF Handle, Ledger!Next
  <1>3. ASSUME NEW a \in Admins, Administer(a) PROVE UNCHANGED <<policyVars, pc, round>>
    BY <1>3 DEF Administer, SetStrategy, SetEffort, Begin, AdminReadsMode,
                AdminReadsFallback, WriteMode, WriteFallback, CallFails, Return, AdminGoes,
                requestVars
  <1>4. Quiet \/ UNCHANGED vars => UNCHANGED <<policyVars, pc, round>>
    BY DEF Quiet, vars, requestVars
  <1>5. CASE UNCHANGED <<policyVars, pc, round>>
    BY <1>5, StagesStay DEF policyVars, Ledger!vars
  <1>6. QED BY <1>1, <1>2, <1>3, <1>4, <1>5 DEF Next

(* However the handlers interleave, whatever refuses or fails on the way: the     *)
(* usage logs are the ledger RequestLedger promises, for every number of handlers, *)
(* limits and costs.                                                               *)
THEOREM RequestsFollowTheLedger == Spec => LedgerSpec
  <1>1. Init => TypeOK /\ RoundInv
    <2>1. Init => RoundInv
      BY DEF Init, RoundInv
    <2>2. QED BY <2>1, InitTypeOK
  <1>2. TypeOK /\ RoundInv /\ [Next]_vars => (TypeOK /\ RoundInv)'
    BY NextTypeOK, RoundStep
  <1>3. QED
    BY <1>1, <1>2, LedgerInit, LedgerNext, PTL DEF Spec, LedgerSpec, Ledger!Spec
=============================================================================
