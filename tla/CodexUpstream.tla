----------------------------- MODULE CodexUpstream -----------------------------
(***************************************************************************)
(* How a request reaches an upstream when it is not relayed as a stream of  *)
(* the backend: handleCodexCLIProxy runs the Codex backend or the Codex CLI *)
(* or, if the strategy says so, the CLI after the backend has failed.  All  *)
(* CLI runs of the process share one mutex.  For a streamed answer the work *)
(* is done in a goroutine of its own, which the handler leaves behind when  *)
(* its client has gone; otherwise the handler works itself and cannot leave. *)
(* A large request holds its in-flight slot as long as its handler runs.    *)
(***************************************************************************)
EXTENDS Naturals, FiniteSets

CONSTANTS
  Requests,     \* the requests of one API key
  Nobody,       \* the CLI mutex is free
  Streams,      \* the requests with stream set
  BackendOnly,  \* those the CLI cannot serve: tools, files, agent passthrough
  Large,        \* those the large-request guard looks at
  Hanging,      \* those whose upstream may never answer
  InFlightMax   \* how many of them may be upstream at a time

ASSUME UpstreamAssumption ==
  /\ IsFiniteSet(Requests)
  /\ Nobody \notin Requests
  /\ Streams \subseteq Requests
  /\ BackendOnly \subseteq Requests
  /\ Large \subseteq Requests
  /\ Hanging \subseteq Requests
  /\ InFlightMax \in Nat \ {0}

Strategies == {"backend", "fallback", "cli"}

VARIABLES
  setting,   \* the strategy the administrator has set
  handler,   \* where the handler of each request is
  strategy,  \* the strategy its request runs with
  worker,    \* where runCodexUpstreamWithOptions is
  result,    \* what it has returned
  ctx,       \* the context of the request
  mutex,     \* codexCLIUpstreamMu: its holder
  log        \* the status of its usage log; a success logs the tokens too

vars == <<setting, handler, strategy, worker, result, ctx, mutex, log>>

(* locking: waits for the mutex. *)
AtWork == {"backend", "locking", "cli"}

(* hidden: an error caused by the end of the context which errors.Is does not
   take for context.Canceled. *)
Results == {"answer", "canceled", "hidden", "error"}

TypeOK ==
  /\ setting \in Strategies
  /\ handler \in [Requests -> {"new", "waiting", "over"}]
  /\ strategy \in [Requests -> Strategies]
  /\ worker \in [Requests -> AtWork \cup {"none", "done"}]
  /\ result \in [Requests -> Results \cup {"none"}]
  /\ ctx \in [Requests -> {"live", "canceled"}]
  /\ mutex \in Requests \cup {Nobody}
  /\ log \in [Requests -> {"none", "success", "499", "502"}]

Init ==
  /\ setting \in Strategies
  /\ handler = [r \in Requests |-> "new"]
  /\ strategy = [r \in Requests |-> "backend"]
  /\ worker = [r \in Requests |-> "none"]
  /\ result = [r \in Requests |-> "none"]
  /\ ctx = [r \in Requests |-> "live"]
  /\ mutex = Nobody
  /\ log = [r \in Requests |-> "none"]

Work(r, from, to) ==
  /\ worker[r] = from
  /\ worker' = [worker EXCEPT ![r] = to]

(* The worker returns: its result is there, its parameters are gone. *)
Returns(r, value) ==
  /\ result' = [result EXCEPT ![r] = value]
  /\ strategy' = [strategy EXCEPT ![r] = "backend"]

(***************************************************************************)
(* The handler.                                                            *)
(***************************************************************************)

SlotHolders == {r \in Large : handler[r] = "waiting"}

(* A mistake: the slot is taken without counting those taken. *)
SlotAlwaysFree(r) == TRUE

(* acquireGatewayLargeRequestSlot lets the request through. *)
SlotFree(r) == r \in Large => Cardinality(SlotHolders) < InFlightMax

(* The strategy is read here, not where handleProxy chose this way. *)
Dispatch(r) ==
  /\ handler[r] = "new"
  /\ SlotFree(r)
  /\ handler' = [handler EXCEPT ![r] = "waiting"]
  /\ strategy' = [strategy EXCEPT ![r] = setting]
  /\ Work(r, "none", IF setting = "cli" THEN "locking" ELSE "backend")
  /\ UNCHANGED <<setting, result, ctx, mutex, log>>

(* Returning from the handler ends the context of its request. *)
Record(r, status) ==
  /\ handler' = [handler EXCEPT ![r] = "over"]
  /\ log' = [log EXCEPT ![r] = status]
  /\ ctx' = [ctx EXCEPT ![r] = "canceled"]
  /\ UNCHANGED <<setting, strategy, worker, mutex>>

(* A mistake: the outcome is recorded as the upstream names it. *)
StatusVerbatim(r) == result[r]

Status(r) ==
  CASE result[r] = "answer" -> "success"
    [] result[r] = "canceled" -> "499"
    [] OTHER -> "502"

(* The result is there: by the done channel, or by the call itself. *)
TakeResult(r) ==
  /\ handler[r] = "waiting"
  /\ worker[r] = "done"
  /\ Record(r, Status(r))
  /\ result' = [result EXCEPT ![r] = "none"]

(* The heartbeat loop of a streamed answer: the client has gone. *)
LeaveWork(r) ==
  /\ r \in Streams
  /\ handler[r] = "waiting"
  /\ ctx[r] = "canceled"
  /\ Record(r, "499")
  /\ UNCHANGED result

(***************************************************************************)
(* runCodexUpstreamWithOptions and runCodexCLI.                            *)
(***************************************************************************)

BackendAnswers(r) ==
  /\ Work(r, "backend", "done")
  /\ Returns(r, "answer")
  /\ UNCHANGED <<setting, handler, ctx, mutex, log>>

(* A mistake: the features of the request are not looked at. *)
FallsBackBlindly(r) == strategy[r] = "fallback"

FallsBack(r) == strategy[r] = "fallback" /\ r \notin BackendOnly

(* How the failure of the backend is reported: wrapped, except where a fallback
   was allowed but the request cannot use it; there its text remains. *)
Reported(r, cause) ==
  IF cause = "canceled" /\ strategy[r] = "fallback" THEN "hidden" ELSE cause

(* A mistake: a timeout of the upstream is taken for the client's. *)
CauseUnknown(r, cause) == cause \in {"canceled", "error"}

(* The backend reports a cancel only when the request was cancelled. *)
CauseOf(r, cause) == cause = "error" \/ (cause = "canceled" /\ ctx[r] = "canceled")

BackendFails(r, cause) ==
  /\ CauseOf(r, cause)
  /\ IF FallsBack(r)
     THEN Work(r, "backend", "locking") /\ UNCHANGED <<strategy, result>>
     ELSE Work(r, "backend", "done") /\ Returns(r, Reported(r, cause))
  /\ UNCHANGED <<setting, handler, ctx, mutex, log>>

(* The prompt for the CLI cannot be made: that comes before the mutex. *)
PromptFails(r) ==
  /\ Work(r, "locking", "done")
  /\ Returns(r, "error")
  /\ UNCHANGED <<setting, handler, ctx, mutex, log>>

(* The mutex is not given up for a context that has ended. *)
LockCLI(r) ==
  /\ mutex = Nobody
  /\ Work(r, "locking", "cli")
  /\ mutex' = r
  /\ UNCHANGED <<setting, handler, strategy, result, ctx, log>>

(* A mistake: the mutex is kept when the CLI was killed. *)
KeepCLI(r) == mutex' = IF ctx[r] = "canceled" THEN mutex ELSE Nobody

UnlockCLI(r) == mutex' = Nobody

(* The CLI answers, fails, is killed (the error then names the signal) or, when
   the context had ended before, is not started at all. *)
CLIEnds(r, value) ==
  /\ value \in {"canceled", "hidden"} => ctx[r] = "canceled"
  /\ Work(r, "cli", "done")
  /\ Returns(r, value)
  /\ UnlockCLI(r)
  /\ UNCHANGED <<setting, handler, ctx, log>>

(***************************************************************************)
(* The environment.                                                        *)
(***************************************************************************)

ClientLeaves(r) ==
  /\ handler[r] = "waiting"
  /\ ctx[r] = "live"
  /\ ctx' = [ctx EXCEPT ![r] = "canceled"]
  /\ UNCHANGED <<setting, handler, strategy, worker, result, mutex, log>>

SetStrategy(s) ==
  /\ setting' = s
  /\ UNCHANGED <<handler, strategy, worker, result, ctx, mutex, log>>

Handler(r) == TakeResult(r) \/ LeaveWork(r)

Upstream(r) ==
  \/ BackendAnswers(r) \/ (\E cause \in {"canceled", "error"} : BackendFails(r, cause))
  \/ (\E value \in Results : CLIEnds(r, value))

Next ==
  \/ \E r \in Requests : Dispatch(r) \/ Handler(r) \/ Upstream(r)
                         \/ PromptFails(r) \/ LockCLI(r) \/ ClientLeaves(r)
  \/ \E s \in Strategies : SetStrategy(s)

Spec == Init /\ [][Next]_vars

(* Handlers run on.  Both upstreams are bounded by a timeout, except where they
   hang; and a Go mutex hands itself to a waiter that has starved for a
   millisecond, hence strong fairness. *)
Fairness ==
  /\ \A r \in Requests : WF_vars(Handler(r))
  /\ \A r \in Requests \ Hanging : SF_vars(LockCLI(r) \/ Upstream(r))
  /\ \A r \in Hanging : SF_vars(LockCLI(r))

FairSpec == Spec /\ Fairness

(***************************************************************************)
(* Properties.                                                             *)
(***************************************************************************)

Upstreamed == {r \in Large : worker[r] \in {"backend", "cli"}}

(* Never more large requests than allowed work upstream for a client that still
   waits: a handler that gives its slot back leaves only cancelled work. *)
LiveWithinLimit ==
  Cardinality({r \in Upstreamed : ctx[r] = "live"}) <= InFlightMax

(* server/docs/config.md: tool calls, tool history and files never fall back;
   a request the CLI cannot serve reaches it only when the strategy in force at
   its dispatch was the CLI. *)
NoBlindFallback ==
  \A r \in BackendOnly : worker[r] \in {"locking", "cli"} => strategy[r] = "cli"

(* A call is booked on the client only when the client has gone: no timeout and
   no failure of an upstream is recorded as client_canceled, on any way through
   backend, fallback and CLI. *)
ClientBlamedWhenGone == [][\A r \in Requests :
  log[r] # "499" /\ log'[r] = "499" => ctx[r] = "canceled"]_vars

(* Every request is answered and leaves no work behind, although the mutex of
   the CLI does not watch the contexts of those who wait for it; only a CLI run
   that hangs can keep the others waiting.  A streamed request whose client has
   gone gives its slot back even then, and even when its own upstream hangs. *)
RequestsEnd ==
  /\ \A r \in Requests \ Hanging :
       handler[r] = "waiting" ~>
         \/ handler[r] = "over" /\ worker[r] = "done"
         \/ mutex \in Hanging
  /\ \A r \in Streams :
       handler[r] = "waiting" /\ ctx[r] = "canceled" ~> handler[r] = "over"

(* server/docs/config.md says MAX_INFLIGHT_PER_KEY is the number of large
   requests of a key that may be upstream at the same time. *)
UpstreamWithinLimit == Cardinality(Upstreamed) <= InFlightMax
=============================================================================
