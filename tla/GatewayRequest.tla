---------------------------- MODULE GatewayRequest ----------------------------
(***************************************************************************)
(* One key and one model: the way of a request through handleProxy, with    *)
(* the windows CheckPolicy counts over the usage logs, the strategy read     *)
(* from two rows of gateway_settings, once to choose a handler and once      *)
(* more in handleCodexCLIProxy, and the usage log written after the answer;  *)
(* and the administrators who write those two rows one after the other.     *)
(***************************************************************************)
EXTENDS Integers, FiniteSetsExt

CONSTANTS
  Handlers,     \* goroutines; each serves requests one by one
  Admins,       \* calls of api.gateway_upstream_set that may run at a time
  Limits,       \* the limits of the key's policy, 0 for none
  Minute, Day, Month,   \* in ticks of the clock
  TokenCosts,   \* the total_tokens an upstream call may be logged with
  Env,          \* CODEX_UPSTREAM_MODE and CODEX_UPSTREAM_FALLBACK_ENABLED
  Unset,        \* no row of gateway_settings
  Deployments   \* rate limiting on or off, who serves, and the bounds of a run

Strategies == {"backend_only", "backend_with_cli_fallback", "codex_cli"}

\* A request may bring a key with a strategy of its own.
Asks == [override : Strategies \cup {"inherit"}, stream : BOOLEAN,
         path : {"responses", "chat"}]

\* In the order of CheckPolicy.
Windows ==
  <<[span |-> "minute", tokens |-> FALSE], [span |-> "minute", tokens |-> TRUE],
    [span |-> "day", tokens |-> FALSE], [span |-> "month", tokens |-> FALSE],
    [span |-> "day", tokens |-> TRUE], [span |-> "month", tokens |-> TRUE]>>

ASSUME GatewayAssumption ==
  /\ IsFiniteSet(Handlers)
  /\ Limits \in [1..6 -> Nat]
  /\ {Minute, Day, Month} \subseteq Nat \ {0}
  /\ TokenCosts \subseteq Nat
  /\ \E most \in TokenCosts : \A t \in TokenCosts : t <= most  \* a Go int
  /\ Env \in [mode : {"codex_backend", "codex_cli"}, fallback : BOOLEAN]
  /\ Unset \notin {"codex_backend", "codex_cli"} /\ Unset \notin BOOLEAN
  /\ \A d \in Deployments :
       /\ d.limited \in BOOLEAN /\ d.asks \subseteq Asks /\ d.handlers \subseteq Handlers
       /\ {d.requests, d.ticks, d.edits} \subseteq Nat

VARIABLES
  deployment,  \* the deployment that runs
  clock,
  logs,        \* gateway_usage_logs of the key and model
  pc,          \* where each handler is
  ask,         \* what the request it serves asks for
  nth,         \* which request of the handler that is
  now,         \* the time CheckPolicy was called with
  window,      \* the window it checks next
  seen,        \* the mode it has read
  plan,        \* the mode and fallback it goes by
  round,       \* which reading of the strategy that is
  entry,       \* the usage log it is about to write
  rows,        \* the settings codex_upstream_mode and codex_fallback
  admin,       \* where each administrator's call is
  wants,       \* the strategy it writes
  edits,       \* calls made so far
  asked,       \* history: the strategies the administrators asked for
  settled,     \* history: the strategy the last call left, if it ran alone
  lone,        \* history: no two calls overlapped since one ran alone
  target,      \* history: the strategy a call should leave behind
  quiet,       \* history: what was settled ever since a request began to read
  unlogged     \* history: the answered requests without a usage log, and why

policyVars == <<deployment, clock, logs, nth, now, window, entry, unlogged>>
requestVars == <<pc, ask, seen, plan, round, quiet>>
adminVars == <<rows, admin, wants, edits, asked, settled, lone, target>>
vars == <<policyVars, requestVars, adminVars>>

NoEntry == [at |-> 0, tokens |-> 0]
NoAsk == [override |-> "inherit", stream |-> FALSE, path |-> "responses"]

\* Why an answered request may have no usage log.
Whys == {"body", "encoding", "write"}

(* A mistake: the strategy without fallback is stored with it. *)
PairWithFallback(s) ==
  [mode |-> IF s = "codex_cli" THEN "codex_cli" ELSE "codex_backend",
   fallback |-> s # "codex_cli"]

\* The two values a strategy is stored as.
Pair(s) ==
  [mode |-> IF s = "codex_cli" THEN "codex_cli" ELSE "codex_backend",
   fallback |-> s = "backend_with_cli_fallback"]

Plans == [mode : {"codex_backend", "codex_cli"}, fallback : BOOLEAN]

StrategyOf(p) ==
  IF p.mode = "codex_cli" THEN "codex_cli"
  ELSE IF p.fallback THEN "backend_with_cli_fallback" ELSE "backend_only"

Log == [by : Handlers, nth : Nat, at : Nat, tokens : Nat]

TypeOK ==
  /\ deployment \in Deployments
  /\ clock \in 0..deployment.ticks
  /\ logs \subseteq Log
  /\ pc \in [Handlers -> {"idle", "open", "policy", "mode", "fallback", "prepare",
                         "upstream", "record"}]
  /\ ask \in [Handlers -> Asks]
  /\ nth \in [Handlers -> 0..deployment.requests]
  /\ now \in [Handlers -> Nat]
  /\ window \in [Handlers -> 1..7]
  /\ seen \in [Handlers -> {"codex_backend", "codex_cli"}]
  /\ plan \in [Handlers -> Plans]
  /\ round \in [Handlers -> {1, 2}]
  /\ entry \in [Handlers -> [at : Nat, tokens : Nat]]
  /\ rows \in [mode : {Unset, "codex_backend", "codex_cli"}, fallback : BOOLEAN \cup {Unset}]
  /\ admin \in [Admins -> {"idle", "read", "read_fallback", "write", "write_fallback"}]
  /\ wants \in [Admins -> Strategies]
  /\ edits \in 0..deployment.edits
  /\ asked \subseteq Strategies
  /\ settled \in Strategies \cup {"unsure"}
  /\ lone \in BOOLEAN
  /\ target \in [Admins -> Strategies \cup {"unsure"}]
  /\ quiet \in [Handlers -> Strategies \cup {"unsure"}]
  /\ unlogged \subseteq Handlers \X Nat \X Whys

Init ==
  /\ deployment \in Deployments
  /\ clock = 0
  /\ logs = {}
  /\ pc = [h \in Handlers |-> "idle"]
  /\ ask = [h \in Handlers |-> NoAsk]
  /\ nth = [h \in Handlers |-> 0]
  /\ now = [h \in Handlers |-> 0]
  /\ window = [h \in Handlers |-> 1]
  /\ seen = [h \in Handlers |-> "codex_backend"]
  /\ plan = [h \in Handlers |-> Pair("backend_only")]
  /\ round = [h \in Handlers |-> 1]
  /\ entry = [h \in Handlers |-> NoEntry]
  /\ rows = [mode |-> Unset, fallback |-> Unset]
  /\ admin = [a \in Admins |-> "idle"]
  /\ wants = [a \in Admins |-> "backend_only"]
  /\ edits = 0
  /\ asked = {}
  /\ settled = StrategyOf(Env)
  /\ lone = TRUE
  /\ target = [a \in Admins |-> "unsure"]
  /\ quiet = [h \in Handlers |-> "unsure"]
  /\ unlogged = {}

Tick ==
  /\ clock < deployment.ticks
  /\ clock' = clock + 1
  /\ UNCHANGED <<deployment, logs, nth, now, window, entry, unlogged, requestVars, adminVars>>

-----------------------------------------------------------------------------
(* handleProxy                                                              *)

Goes(h, from, to) == pc[h] = from /\ pc' = [pc EXCEPT ![h] = to]

Receive(h) ==
  /\ Goes(h, "idle", "open")
  /\ h \in deployment.handlers /\ nth[h] < deployment.requests
  /\ nth' = [nth EXCEPT ![h] = @ + 1]
  /\ \E a \in deployment.asks : ask' = [ask EXCEPT ![h] = a]
  /\ UNCHANGED <<deployment, clock, logs, now, window, entry, unlogged, seen, plan, round,
                 quiet, adminVars>>

\* The client has its answer; what recordUsage is to write is stamped now.
Answer(h, from, tokens) ==
  /\ Goes(h, from, "record")
  /\ entry' = [entry EXCEPT ![h] = [at |-> clock, tokens |-> tokens]]
  /\ UNCHANGED <<deployment, clock, logs, nth, now, window, unlogged, ask, seen, plan, round,
                 quiet, adminVars>>

\* The handler is done with its request.
Leave(h) ==
  /\ ask' = [ask EXCEPT ![h] = NoAsk]
  /\ now' = [now EXCEPT ![h] = 0]
  /\ window' = [window EXCEPT ![h] = 1]
  /\ seen' = [seen EXCEPT ![h] = "codex_backend"]
  /\ plan' = [plan EXCEPT ![h] = Pair("backend_only")]
  /\ round' = [round EXCEPT ![h] = 1]
  /\ entry' = [entry EXCEPT ![h] = NoEntry]
  /\ quiet' = [quiet EXCEPT ![h] = "unsure"]
  /\ UNCHANGED <<deployment, clock, nth, adminVars>>

LeaveUnlogged(h, from, why) ==
  /\ Goes(h, from, "idle")
  /\ unlogged' = unlogged \cup {<<h, nth[h], why>>}
  /\ Leave(h)
  /\ UNCHANGED logs

\* The body cannot be read or is too large: the one refusal that is not logged.
RefuseBody(h) == LeaveUnlogged(h, "open", "body")

\* The body is no JSON, or its model has no such reasoning effort.
RefuseEffort(h) == Answer(h, "open", 0)

\* ValidateModelAccess: the model is unknown, disabled or not the key's.
RefuseModel(h) == Answer(h, "open", 0)

\* CheckAPIKeyTokenQuota.
RefuseQuota(h) == deployment.limited /\ Answer(h, "open", 0)

\* CheckPolicy takes its time before it reads anything.
BeginPolicy(h) ==
  /\ Goes(h, "open", IF deployment.limited THEN "policy" ELSE "mode")
  /\ now' = [now EXCEPT ![h] = clock]
  /\ window' = [window EXCEPT ![h] = 1]
  /\ UNCHANGED <<deployment, clock, logs, nth, entry, unlogged, ask, seen, plan, round, quiet,
                 adminVars>>

Start(i, t) ==
  CASE Windows[i].span = "minute" -> t - Minute
    [] Windows[i].span = "day" -> (t \div Day) * Day
    [] Windows[i].span = "month" -> (t \div Month) * Month

LogsIn(i, t) == {l \in logs : Start(i, t) <= l.at /\ l.at < t}

\* The sum of total_tokens, as a set: every token of every log.
TokensOf(some) == UNION {{l} \X (1..l.tokens) : l \in some}

Spent(i, t) ==
  Cardinality(IF Windows[i].tokens THEN TokensOf(LogsIn(i, t)) ELSE LogsIn(i, t))

(* A mistake: the request that reaches the limit is let through. *)
AboveLimit(i, t) == Spent(i, t) > Limits[i]

Exhausted(i, t) == Spent(i, t) >= Limits[i]

\* One query per window that has a limit; refused requests are logged and count.
PassWindow(h) ==
  /\ pc[h] = "policy" /\ window[h] <= 6
  /\ Limits[window[h]] > 0 => ~Exhausted(window[h], now[h])
  /\ window' = [window EXCEPT ![h] = @ + 1]
  /\ UNCHANGED <<deployment, clock, logs, nth, now, entry, unlogged, requestVars, adminVars>>

\* A failed query of a window, or of the policy, refuses the request as well.
RefuseByPolicy(h) ==
  /\ window[h] = 1 \/ (window[h] <= 6 /\ Limits[window[h]] > 0)
  /\ Answer(h, "policy", 0)

Admit(h) ==
  /\ window[h] = 7
  /\ Goes(h, "policy", "mode")
  /\ UNCHANGED <<policyVars, ask, seen, plan, round, quiet, adminVars>>

-----------------------------------------------------------------------------
(* effectiveCodexUpstream                                                   *)

Decide(h, from, p) ==
  /\ Goes(h, from, IF round[h] = 1 THEN "prepare" ELSE "upstream")
  /\ plan' = [plan EXCEPT ![h] = p]

UseOverride(h) ==
  /\ ask[h].override # "inherit"
  /\ Decide(h, "mode", Pair(ask[h].override))
  /\ UNCHANGED <<policyVars, ask, seen, round, quiet, adminVars>>

(* A mistake: a setting that has no row is not defaulted. *)
ModeVerbatim == rows.mode

Mode == IF rows.mode = Unset THEN Env.mode ELSE rows.mode
Fallback == IF rows.fallback = Unset THEN Env.fallback ELSE rows.fallback

ReadMode(h) ==
  /\ ask[h].override = "inherit"
  /\ Goes(h, "mode", "fallback")
  /\ seen' = [seen EXCEPT ![h] = Mode]
  /\ quiet' = [quiet EXCEPT ![h] = settled]
  /\ UNCHANGED <<policyVars, ask, plan, round, adminVars>>

ReadFallback(h) ==
  /\ Decide(h, "fallback", [mode |-> seen[h], fallback |-> Fallback])
  /\ UNCHANGED <<policyVars, ask, seen, round, quiet, adminVars>>

\* A setting cannot be read: the environment decides.
ReadFails(h) ==
  /\ ask[h].override = "inherit"
  /\ \E from \in {"mode", "fallback"} : Decide(h, from, Env)
  /\ quiet' = [quiet EXCEPT ![h] = "unsure"]
  /\ UNCHANGED <<policyVars, ask, seen, round, adminVars>>

\* prepareGatewayContext: too large even when compacted.
RefuseContext(h) == Answer(h, "prepare", 0)

(* A mistake: the refusal of the large-request guard is not logged. *)
RefuseLargeSilently(h) ==
  /\ Goes(h, "prepare", "idle")
  /\ Leave(h)
  /\ UNCHANGED <<logs, unlogged>>

\* The large-request guard: too many at once, or too often.
RefuseLarge(h) == Answer(h, "prepare", 0)

(* A mistake: handleProxy asks for the strategy again, over and over. *)
DispatchAgain(h) ==
  /\ Goes(h, "prepare", "mode")
  /\ UNCHANGED <<policyVars, ask, seen, plan, round, quiet, adminVars>>

\* A Responses stream from the backend goes by this reading, in a handler of its
\* own; handleCodexCLIProxy reads once more.
Dispatch(h) ==
  /\ IF ask[h].stream /\ ask[h].path = "responses" /\ plan[h].mode = "codex_backend"
     THEN Goes(h, "prepare", "upstream") /\ UNCHANGED round
     ELSE Goes(h, "prepare", "mode") /\ round' = [round EXCEPT ![h] = 2]
  /\ UNCHANGED <<policyVars, ask, seen, plan, quiet, adminVars>>

\* The two ends of handleCodexBackendResponsesStream.
ServeBackendStream(h) == round[h] = 1 /\ \E t \in TokenCosts : Answer(h, "upstream", t)
FailBackendStream(h) == round[h] = 1 /\ Answer(h, "upstream", 0)

\* The ends of handleCodexCLIProxy.
ServeStream(h) ==
  round[h] = 2 /\ ask[h].stream /\ \E t \in TokenCosts : Answer(h, "upstream", t)
ServeWhole(h) ==
  round[h] = 2 /\ ~ask[h].stream /\ \E t \in TokenCosts : Answer(h, "upstream", t)
FailProxy(h) == round[h] = 2 /\ Answer(h, "upstream", 0)

\* The whole answer cannot be encoded: 500, and no log.
EncodeFails(h) ==
  round[h] = 2 /\ ~ask[h].stream /\ LeaveUnlogged(h, "upstream", "encoding")

(* A mistake: the log is dated when it is written. *)
WithLogNow(h) ==
  logs \cup {[by |-> h, nth |-> nth[h], at |-> clock, tokens |-> entry[h].tokens]}

WithLog(h) ==
  logs \cup {[by |-> h, nth |-> nth[h], at |-> entry[h].at, tokens |-> entry[h].tokens]}

Record(h) ==
  /\ Goes(h, "record", "idle")
  /\ logs' = WithLog(h)
  /\ Leave(h)
  /\ UNCHANGED unlogged

\* The write fails or takes more than its timeout: that is only reported.
RecordFails(h) == LeaveUnlogged(h, "record", "write")

-----------------------------------------------------------------------------
(* api.gateway_upstream_set                                                 *)

Begin(a, to) ==
  /\ admin[a] = "idle" /\ edits < deployment.edits
  /\ admin' = [admin EXCEPT ![a] = to]
  /\ edits' = edits + 1
  /\ settled' = "unsure"
  /\ lone' = \A b \in Admins : admin[b] = "idle"
  /\ quiet' = [h \in Handlers |-> "unsure"]
  /\ UNCHANGED <<policyVars, pc, ask, seen, plan, round, rows>>

SetStrategy(a, s) ==
  /\ Begin(a, "write")
  /\ wants' = [wants EXCEPT ![a] = s]
  /\ asked' = asked \cup {s}
  /\ target' = [target EXCEPT ![a] = s]

\* Only the reasoning effort is given: the strategy read is written back.
SetEffort(a) ==
  /\ Begin(a, "read")
  /\ target' = [target EXCEPT ![a] = settled]
  /\ UNCHANGED <<wants, asked>>

AdminGoes(a, from, to) ==
  /\ admin[a] = from
  /\ admin' = [admin EXCEPT ![a] = to]
  /\ UNCHANGED <<policyVars, requestVars, edits, asked>>

AdminReadsMode(a) ==
  /\ AdminGoes(a, "read", "read_fallback")
  /\ wants' = [wants EXCEPT ![a] = StrategyOf([mode |-> Mode, fallback |-> FALSE])]
  /\ UNCHANGED <<rows, settled, lone, target>>

AdminReadsFallback(a) ==
  /\ AdminGoes(a, "read_fallback", "write")
  /\ wants' = [wants EXCEPT ![a] = StrategyOf([mode |-> Pair(@).mode, fallback |-> Fallback])]
  /\ UNCHANGED <<rows, settled, lone, target>>

WriteMode(a) ==
  /\ AdminGoes(a, "write", "write_fallback")
  /\ rows' = [rows EXCEPT !.mode = Pair(wants[a]).mode]
  /\ UNCHANGED <<wants, settled, lone, target>>

\* The call is over.
Return(a, from) ==
  /\ AdminGoes(a, from, "idle")
  /\ wants' = [wants EXCEPT ![a] = "backend_only"]
  /\ target' = [target EXCEPT ![a] = "unsure"]
  /\ UNCHANGED lone

(* A mistake: a change of the mode alone is taken for a change of the strategy. *)
WriteNoFallback(a) ==
  /\ Return(a, "write_fallback")
  /\ settled' = IF lone THEN target[a] ELSE "unsure"
  /\ UNCHANGED rows

WriteFallback(a) ==
  /\ Return(a, "write_fallback")
  /\ rows' = [rows EXCEPT !.fallback = Pair(wants[a]).fallback]
  /\ settled' = IF lone THEN target[a] ELSE "unsure"

\* A statement fails, or a create meets the row of another call.
CallFails(a) ==
  /\ \E from \in {"read", "read_fallback", "write", "write_fallback"} : Return(a, from)
  /\ UNCHANGED <<rows, settled>>

-----------------------------------------------------------------------------
Refuse(h) ==
  \/ RefuseEffort(h) \/ RefuseModel(h) \/ RefuseQuota(h) \/ RefuseByPolicy(h)
  \/ RefuseContext(h) \/ RefuseLarge(h)

Finish(h) ==
  \/ ServeBackendStream(h) \/ FailBackendStream(h)
  \/ ServeStream(h) \/ ServeWhole(h) \/ FailProxy(h)

Handle(h) ==
  \/ RefuseBody(h) \/ Refuse(h) \/ BeginPolicy(h) \/ PassWindow(h) \/ Admit(h)
  \/ UseOverride(h) \/ ReadMode(h) \/ ReadFallback(h) \/ ReadFails(h)
  \/ Dispatch(h) \/ Finish(h) \/ EncodeFails(h)
  \/ Record(h) \/ RecordFails(h)

Administer(a) ==
  \/ \E s \in Strategies : SetStrategy(a, s)
  \/ SetEffort(a)
  \/ AdminReadsMode(a) \/ AdminReadsFallback(a) \/ WriteMode(a) \/ WriteFallback(a)
  \/ CallFails(a)

\* The bounds of the deployment are used up and nothing is under way.
Quiet ==
  /\ clock = deployment.ticks /\ edits = deployment.edits
  /\ \A h \in deployment.handlers : pc[h] = "idle" /\ nth[h] = deployment.requests
  /\ \A a \in Admins : admin[a] = "idle"
  /\ UNCHANGED vars

Next ==
  \/ Tick
  \/ \E h \in Handlers : Receive(h) \/ Handle(h)
  \/ \E a \in Admins : Administer(a)
  \/ Quiet

(* A handler runs on: nothing in it waits but on calls with a timeout. *)
Spec == Init /\ [][Next]_vars /\ \A h \in Handlers : WF_vars(Handle(h))

-----------------------------------------------------------------------------
(* What holds                                                               *)

Others == Cardinality(Handlers) - 1

Admitted(h) == deployment.limited /\ pc[h] \in {"mode", "fallback", "prepare", "upstream"}

(* Refused and failed requests are logged too, but late: a request CheckPolicy *)
(* lets through has fewer logs in a window of requests than the limit, and as  *)
(* many more, at most, as other handlers were about to write when it looked.   *)
RequestWindowBound ==
  \A h \in Handlers : Admitted(h) =>
    \A i \in {1, 3, 4} : Limits[i] > 0 =>
      Cardinality(LogsIn(i, now[h])) <= Limits[i] - 1 + Others

(* In a window of tokens each of those late logs may weigh a whole answer.     *)
TokenWindowBound ==
  \A h \in Handlers : Admitted(h) =>
    \A i \in {2, 5, 6} : Limits[i] > 0 =>
      Spent(i, now[h]) <= Limits[i] - 1 + Others * Max(TokenCosts)

LogsOf(h, n) == {l \in logs : l.by = h /\ l.nth = n}

Answered(h, n) == n \in 1..nth[h] /\ (n = nth[h] => pc[h] = "idle")

Unlogged(h, n) == \E why \in Whys : <<h, n, why>> \in unlogged

(* Whichever of its many ends a request comes to, it has one usage log from    *)
(* then on; one under way has none, and none is logged twice. Three ends have  *)
(* none: the body was refused, the whole answer could not be encoded (both     *)
(* against server/docs/api.md:112, which has failures logged as well), or the  *)
(* write has failed.                                                           *)
LoggedOnce ==
  \A h \in Handlers : \A n \in 1..deployment.requests :
    Cardinality(LogsOf(h, n)) =
      IF Answered(h, n) /\ ~Unlogged(h, n) THEN 1 ELSE 0

(* However calls of gateway_upstream_set overlap, fail half-way or are read     *)
(* half-way: the CLI serves an inheriting request only where an administrator   *)
(* has asked for it, as the mode or as the fallback, or the environment has.    *)
CliWasChosen ==
  \A h \in Handlers :
    pc[h] \in {"prepare", "upstream"} /\ ask[h].override = "inherit" =>
      /\ plan[h].mode = "codex_cli" =>
           "codex_cli" \in asked \/ Env.mode = "codex_cli"
      /\ plan[h].fallback =>
           "backend_with_cli_fallback" \in asked \/ Env.fallback

(* A request that reads while no call is under way goes by the strategy that    *)
(* the last call set, if that ran alone and to its end, effort-only calls in    *)
(* between included: the two rows, though written apart, are then one strategy. *)
QuietStrategy ==
  \A h \in Handlers :
    pc[h] \in {"prepare", "upstream"} /\ quiet[h] # "unsure" =>
      StrategyOf(plan[h]) = quiet[h]

\* How far a request has come for those who pay for it, with its handler at p.
StageOf(p, reading) ==
  CASE p = "idle" -> "none"
    [] p \in {"open", "policy"} -> "taken"
    [] p = "prepare" \/ (p \in {"mode", "fallback"} /\ reading = 1) -> "admitted"
    [] p = "upstream" \/ (p \in {"mode", "fallback"} /\ reading = 2) -> "sent"
    [] p = "record" -> "answered"

stageBar == [h \in Handlers |-> StageOf(pc[h], round[h])]

Ledger == INSTANCE RequestLedger
  WITH time <- clock, stage <- stageBar, turn <- nth, owed <- entry,
       ledger <- logs, lost <- unlogged, Costs <- TokenCosts

(* Checks, readings of the strategy, refusals and failures on the way leave the *)
(* accounting of RequestLedger: a request ends once, booked for what it was      *)
(* answered with and dated by its answer, and nothing refuses it once it is sent.*)
LedgerSpec == Ledger!Spec

(* Every request handleProxy has taken is answered and its log tried: whatever *)
(* is under way, each handler is free again.                                  *)
RequestsAnswered == \A h \in Handlers : []<>(pc[h] = "idle")
=============================================================================
