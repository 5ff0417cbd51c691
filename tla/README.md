# A verification of the OpenAI OAuth API service

The service is a gateway. Downstream clients hold API keys and speak
`/v1/models`, `/v1/chat/completions` and `/v1/responses`; the gateway checks the
key, its token quota and its policy, protects the upstream from bursts of large
requests, and passes the request on to a Codex backend with the one OAuth login
it shares among all clients, or to a Codex CLI process. What every request cost
is logged, and later requests are judged by those logs.

The modules of this directory model the parts of the service in which the order
of events decides. TLC checks them on small instances; TLAPS proves their most
important invariants for every value of the constants. Paths below are relative
to `src/`; `G` stands for `server/internal/server/openai_gateway_handler.go`, `A`
for `server/internal/server/codex_backend_adapter.go`, `C` for
`server/internal/server/gateway_context_compaction.go`, `B` for
`server/internal/biz/gateway.go`, `D` for `server/internal/data/gateway_repo.go`,
`J` for `server/internal/data/jsonrpc_gateway.go`.

## Inventory

A request of a client goes through `handleProxy` (G:293-486) in one goroutine:
authenticate, read and parse the body, model access, key quota, policy, upstream
strategy and context preparation, large-request guard, upstream, usage log. All
goroutines share the limiters, the credentials, the CLI mutex and the database,
and nothing else; the administrator's RPCs write the same database meanwhile.

| Component | State it keeps | Operations | What makes it hard | Correct means |
|---|---|---|---|---|
| Large-request guard (G:467-690) | burst events and in-flight counts per key, each behind a mutex of its own | `acquireGatewayLargeRequestSlot`, the deferred release | two limiters in a row; a time stamp older than the lock it is used under | counts are exact; a window holds no more than its limit, and exceeds it afterwards by a bounded number |
| Key token quota (B:1013-1104, D:285-456) | usage logs, limits of the key | `CheckAPIKeyTokenQuota`, `CreateUsageLog` | check and log lie a whole upstream call apart; two windows, two queries, one old stamp | the overrun is bounded; who is out of quota stays out |
| Codex credentials (A:85-300, A:966-1010) | `auth.json`, one mutex | `codexAccessToken`, refresh, save, retry, forced refresh | rotation of the refresh token; crash and failed save; other processes write the file | the login survives; a retry carries a younger token; the mutex is given back |
| Streamed backend responses (G:700-1248) | two channels, flags of one call | opener, scanner and relay goroutines | `select` chooses freely between upstream, deadline and client | the record agrees with what the upstream said and the client got |
| Codex CLI upstream and fallback (G:1281-1605, G:1857-1941) | one process-wide mutex, work of requests | backend, CLI, CLI after backend; the heartbeat loop that leaves its work behind | strategy read twice; mutex deaf to contexts; errors wrapped in four ways | limits hold for live clients; no forbidden fallback; the right party is blamed; everybody ends |
| Task group (`server/pkg/taskgroup`) | stop flag, map of cancel functions, WaitGroup | `Go`, `finish`, `Stop` | the map and the WaitGroup change at different moments; Stop's timer races them | a drained group is empty; nobody is forgotten; Stop returns |
| Gateway request pipeline (G:293-486) | key snapshot, one usage log | the stages above in order | everything read early is used late | one log per request, whichever end it comes to; three ends leave none |
| Request policy (B:1125-1180) | policies, usage logs | `CheckPolicy` over six windows | the logs of requests under way are missing; counts refused requests too; a failed query refuses | limits bound what is admitted, up to what the other handlers have under way |
| Context compaction (C, A:748-787, D:757-825) | one summary per session | `prepareGatewayContext`: cut the history, build the restore state from it and the last summary, store it, insert it; the adapter's orphan removal | read-modify-write of the row; state carried from summary to summary; two passes that tell the role of a text in two ways; dropping a call drops its outputs | no output is kept without its call; the summary arrives; the words of a tool or the model are no instructions; instructions do not contradict each other; facts are remembered |
| Upstream settings (B:1296-1426, D:262-283, J:61-106) | two settings and per-key overrides | get, set | two writes that belong together, two reads that belong together, read twice per request | no request is served by a strategy nobody chose |
| Model catalog and key administration (B:800-1011, D:186-224, D:827-907, D:1191-1337) | the tables of models, keys and policies | the startup's clean-up, the administrator's calls, a request's reads | statements without a transaction, cut short by a crash or a failure; two queries for one policy; an emptied list allows everything | the process serves on clean tables only; no limit that stays is missed; a disabled key falls silent |
| Balance cache (`codex_balance_handler.go`) | last balance | fetch, store, serve stale | two fetches side by side | an older answer does not replace a younger |
| Alerts and audit (B:1523-1547) | rules, events | evaluated with every usage log | nothing remembers what was raised | one event for one condition |
| OAuth login and sessions | signed state, JWTs | login, callback, middleware | sequential, stateless between requests | — |
| Admin RPC, assembly, web console, scripts, prototype | — | decoding, wiring, presentation | — | — |

All of these are modelled but the last four: the catalogue and its administration
for all but the numbers (prices, quotas, secrets), the settings for all but the
default reasoning effort, the pipeline for all but audit rows, diagnostics and
`last_used_at`. The last four are under *Not modelled*. `PROJECT.json` has the
hazards of the code line by line, with the properties that would catch each going
wrong.

## Modules

For each component there is the module itself, an `MC` module that names the
model values of its instances, and a `Proofs` module with the theorems. Each
action is one step the code can be interrupted after: what happens under a lock
is one action, what happens between two channel operations is one action. Next
to several definitions stands a variant marked *A mistake* (a release that runs
twice, a select without its context case, ...). It is used by no specification;
replacing the definition by it makes the property it is paired with in
`PROJECT.json` fail, which shows that the property depends on that code.

**LargeRequestGuard.** Handlers `Requests` of API keys `Keys`. `StartLarge`
takes `time.Now()`, evaluated as an argument before `allow` locks; `Allow` and
`RefuseBurst` are the critical section of the burst limiter, prune first and
then record or refuse; `TryAcquire` and `RefuseInFlight` are the other mutex;
`Finish` is the end of `handleProxy` with the deferred release, on every path.
Events are tickets with a stamp and a serial number, so that two of the same
instant are two. `accepted` and `latest` are history. The limits are those of the
`deployment` that runs, one of a set, so that one run sees either limiter alone
and both in a row.

**RequestLedger** and **GatewayRequest.** The first is what the accounting
promises: a request is taken, admitted, sent and answered, or refused before it is
sent, and ends once, booked under its number or lost, for one of three reasons that
belong to three stages; a refusal costs nothing, and
the ledger dates a request by its answer, however late it is booked. The second is
one key and one model, from the body to the usage log.
`Receive` begins a request. Each of its ways out is an action of its own, because
each has its own call of `recordUsage` in the code or none: the refusals `RefuseBody`
(no log), `RefuseEffort`, `RefuseModel`, `RefuseQuota`, `RefuseByPolicy`,
`RefuseContext`, `RefuseLarge`; the ends of `handleCodexBackendResponsesStream`,
`ServeBackendStream` and `FailBackendStream`; those of `handleCodexCLIProxy`,
`ServeStream`, `ServeWhole`, `FailProxy` and `EncodeFails` (no log). What the stages
do inside other modules have in detail. `PassWindow` is one query of `CheckPolicy`,
with the clock, the other handlers' logs and a failing query in between; a query
sees the logs stamped before `now`. `ReadMode` and `ReadFallback` are the two
queries of the strategy, gone through once to choose a handler and, but for a
backend stream, a second time in `handleCodexCLIProxy` (`round`); `ReadFails` is the
way to the environment. The client has its answer when `Answer` stamps the log,
`Record` writes it later or `RecordFails` does not. `Administer` is
`gateway_upstream_set`: `WriteMode` and `WriteFallback` are two statements, a call
with only a reasoning effort reads both rows first (`SetEffort`), and any statement
may fail (`CallFails`). `settled` is history: the strategy the last call set, if
that ran alone; `quiet` what was settled ever since a request began to read. In
`LedgerSpec`, the refinement, `stageBar` maps a handler's place to a stage: a second
reading of the strategy (`round` 2) is past the last refusal, so the request counts as
sent; `entry` is what is owed, `logs` the ledger, `unlogged` the lost requests with the reason.

**HistoryCompaction** and **ContextSession.** The first is the pure part as
operators: `Boundary` is where a history is cut, `Compactions` what comes of it (a
set, because which of several long texts is the longest is left open, and Go walks a
map in any order), `WithSummary`
where the summary goes, `RestoreState` the state built from the folded texts and the
last summary, `Delivered` what the backend's adapter keeps. A text is at most one
line that matters and a size; a line is a model value, and `Mark[k]` is the set of
lines that hold a marker of kind *k*, one line possibly of several kinds, which is
where the lists of markers in the code meet. Beside the text that
`gatewayContextTextFromValue` reads an item has a `side`, which it does not: the summary of a reasoning item, an output given in parts, the
arguments of a chat's `tool_calls`; and the payload has its instructions (`top`).
`FoldEarlier` leaves no segment of a folded side; `CutRecent` is the pass over the
kept items of a Responses history, each under its own role; `CutLongStrings` is the
last pass, over every text, side and instructions still long, which has the role of a
string from its path (`LongSegment`). `LineLimit`, `PinLimit`, `FactLimit` and
`Room` are the code's 16, 12, 64 and 12,000 runes. The second is
`prepareGatewayContext` for concurrent requests of one session: the read of the row
that may fail (`CompactUnread`), the update that finds none and the create that may
then meet another's row (`UpdateFoundNone`, `Create`, `StoreFails`), the hard limit
that is checked after the summary is stored (`Forward`). The operators use no
recursion but in `WithFacts`, a recursive function over the facts found: what a loop
of the code appends under a condition is `Picked`, the places where the condition
holds in their order, so that a statement about the result is one about places.

**TokenQuota.** `Begin` stamps the check, `PassDaily` and `PassWeekly` are the
two queries (other requests log in between), `Answer` is the moment the client
has its response and `CreatedAt` is stamped, `RecordUsage` inserts the log later
and `LoseUsage` loses it (`gatewayUsageWriteTimeout`, a failed insert). The logs
are kept as sums per window, period and dimension. A query leaves out logs whose
`CreatedAt` is not before the stamp of the check: `older` and `missed` hold, per
handler under check, which answers are older than its stamp and what was logged
since that is not. Dimensions add up separately. The *billable* dimension is
max(0, ΣI − ΣC) in the SQL; it is additive, as modelled, when each log has at most
as many cached as input tokens, which is how the upstream reports them.

**CredentialRefresh.** One pair of tokens is named by the number of its issue.
`LoadFresh`, `LoadToRefresh`, `LoadFails` are what `codexAccessToken` decides
under its mutex after reading the file; `Trade` is the identity provider, with
or without rotation, `Receive` the arrival of its answer, `Truncate` and `Save`
the two halves of `os.WriteFile`, `LoseAnswer`, `SaveFails` and `Crash` the
failures; `Upstream401` repeats the call with `forceRefresh`. The environment
expires and revokes tokens, replaces the file (a `codex login`, a Codex CLI that
shares it) and kills the process. `broken` records that a pair was lost by one
of these; the promises about the login are conditional on it, because no
protocol on the gateway's side can mend them.

**BackendStream.** One call. `openCh` is unbuffered (`offer`), `dataCh` is a
sequence bounded by `Capacity` (16 in the code), `errCh` is `scanErr`. Every
alternative of each `select` is an action, enabled whenever the code's case is
ready, so TLC and the proofs see every choice Go may make. `ReturnFailure`,
`ReturnClientGone` and `Return` are the ways out with what they write and close.
Writes to a client that has hung up may still succeed, as they do into a socket
buffer; they fail sooner or later, never for a client that is there.

**TaskLifecycle** and **TaskGroup.** The first is what the package's README
promises: a task is accepted only before the first Stop, refused after it; a
Stop that drained left nobody alive, one that was cut short told everybody. The
second is the code: the map, the WaitGroup, `finish` in two halves (`delete`
under the lock, `Done` after it), the goroutine Stop starts to wait, its timer,
`cancelRunning`. `LifecycleSpec` is the refinement: a task is alive from `Go`
until `finish` unlists it, and a Stop's verdict is given when it returns.

**CodexUpstream.** A request is dispatched with the strategy read *then*
(`handleCodexCLIProxy` reads it a second time), holds its in-flight slot while
its handler waits, and works in a goroutine when it is streamed. `LeaveWork` is
the context case of the heartbeat loop, after which the goroutine runs on;
`Reported` is how the four ways out of `runCodexUpstreamWithOptions` wrap the
error: three keep it for `errors.Is`, one (`%v`) does not. `LockCLI` waits
for the process-wide mutex, which no context interrupts.

**CatalogPromise** and **ModelCatalog.** The first is what `server/docs/api.md:86`
promises of the fixed list of models: a start removes everything off the list as
if in one step; one that is cut short can be completed, to the same tables; and the
service runs on clean tables only. The second is the code: `EnsureDefaultModels`
and `pruneGatewayModels`, which run before the process serves, one action for each
statement (`SeedModel`, `DeletePoliciesOf`, `UnlistModel`, `DeleteRow`,
`SweepPolicies`, `SweepKey`) with the lists their loops have read (`todo`,
`keysTodo`), and `Crash`, which stands for the end of the process as well as for a
statement that fails. `Start` may bring any catalogue, an older one included, and
`Init` any tables. `Admin` is the administrator's calls with the checks
of the use cases in their parameters; a deletion of keys is two statements.
Requests read one query at a time: `Authenticate` keeps a copy of the key's list
(`may`), `Validate` looks at the model, `LookupOwn` and `LookupAny` are the two
queries of `GetPolicyForKeyModel`. `steady` is history: the policies that apply to
the request and have been there since its lookup began. `rateLimitEnabled` is on.
The refinement maps the tables of a process that starts to what cleaning makes of
them: then `Start` is the clean-up and no statement shows.

How the modules meet. GatewayRequest is the frame: its `RefuseModel`
is ModelCatalog's refusal, `RefuseQuota` TokenQuota's, `RefuseContext` ContextSession's,
`RefuseLarge` LargeRequestGuard's; `ServeBackendStream` and `FailBackendStream` are the
end of BackendStream, `ServeStream`, `ServeWhole` and `FailProxy` that of
CodexUpstream; the slot of
LargeRequestGuard is the slot CodexUpstream and BackendStream requests hold for the
time of their handler; CredentialRefresh's call is what BackendStream's opener and
CodexUpstream's backend wait for. ContextSession EXTENDS HistoryCompaction; TaskGroup,
ModelCatalog and GatewayRequest refine TaskLifecycle, CatalogPromise and RequestLedger.
Else each module takes the
other's interface as free choice (an opener that returns a body, an error or a
cancel at any time; a stage that refuses or lets through), so the safety shown of it
holds in any composition.

## Runs

| Run | Instance | Shows |
|---|---|---|
| `guard` | three deployments: two slots and no burst limit for three handlers of one key and one of another; burst limit 2 for three handlers of one key; burst limit 2 and one slot for the same; a window of 2 ticks, clock to 2, five accepted requests | the in-flight count is the number of running large requests, whatever the ways out; an open window never holds more than the burst limit; a closed one, judged by overtaken stamps, at most one more for each other handler |
| `quota_windows` | two handlers, days of two ticks, a week of four, clock to 4; weekly limit on the total (the total quota of old keys, which counts as a weekly one), daily limit on billable input; answers of two tokens | bounded overrun in each dimension and window; who came late is never let through, midnight inside the check included |
| `request_path` | limits 1, 2 per minute, 2, 3 per day, 3, 5 per month (requests, tokens) over a minute of one tick, a day of two, a month of three, two handlers of two requests each; one handler of one request against three calls of two administrators; and one that streams a chat, against one call | admission exceeds a limit by what the other handlers had under way at most, in requests and in tokens; one log from every end of a request but a refused body, an answer that cannot be encoded and a failed write; the CLI only where somebody chose it; a request that reads undisturbed goes by what was set; every request is answered; the usage logs are the promised ledger |
| `credential_line` | two handlers, one retry, three token pairs | no interleaving loses the login unless a pair was lost; repeated calls carry younger tokens; all calls end |
| `stream_outcome` | channel of two, four events of any kind | success is honest and completion no failure (`OutcomeIsHonest`); a client that stays gets an end; handler and opener end, the scanner ends or is stuck on a full channel (`CallEnds`) |
| `upstream_outcome` | three large requests, two streamed, two beyond the CLI, one upstream that hangs, two slots | live requests stay within the limit, nothing falls back that may not, only clients that left are blamed, requests end unless a hanging CLI run holds the mutex |
| `context_compaction` | three requests of one session; the first asks any of some 250 histories of one to three turns (instructions, facts, long texts of users and the model, tool loops of one, two and four calls, with and without a long system message; something long beside a text, folded, kept or all there is, with and without long instructions), the second sets a goal and a stop, the third folds nothing that matters; keep 2, lists of 3, 2 and 2 lines | a closed tool loop is never torn; the summary arrives once; the restore state never says two things; instructions and facts of a Responses history folded at a boundary are no text of a tool or the model; the row counts and remembers what was stored whole |
| `catalog_rules` | three models, catalogues {a}, {a, b}, {b, c} after one another in any order, one key, one request, any tables at first | the startup implements the promise of one clean step; no steady limit missed; a disabled key falls silent |
| `group_promise` | three tasks, two patient and one impatient Stop | the group implements its life cycle; every Stop returns, nothing leaks |

Three runs show where the code and what is said about it part:

| Run | The text | What the code does |
|---|---|---|
| `upstream_detached` | `server/docs/config.md:106`: the in-flight limit counts the large requests of a key upstream at the same time | the handler of a cancelled stream frees its slot while its goroutine still waits for the CLI or runs it (G:1585-1603) |
| `catalog_restriction` | `server/docs/api.md:86`: a start deletes what models off the list left in a key's `allowed_models` | a list of such models only becomes empty (D:1233-1243, D:1324-1334), which `ValidateModelAccess` reads as no restriction (B:1002-1004): the key may then use every model |
| `context_tools` | `server/docs/config.md:113`: the boundary moves back over tool outputs so that the most recent tool loop is not torn | it moves back over outputs only (C:409-411); where a Responses history has two calls and then their two outputs, it may stop between the calls, the first call is folded, and the adapter drops its output (A:748-787) |


What is true in their place: `LiveWithinLimit` bounds the requests whose clients
still wait; `PromiseSpec` says that a restriction becomes what is left of it, the
empty list included; `LoopsStayWhole` says that no output that is kept loses its
call where every output follows its call directly, with other outputs at most
between, as in a chat history.

Two more disagreements are built into the models, and the property beside each says
how far the text still holds:

- *Requests without a log.* `server/docs/api.md:112` says that requests that succeed
  and requests that fail both leave a usage log. A body that cannot be read or is too
  large is answered without one (G:295-302), and so is an answer that cannot be
  encoded, although the upstream has been paid for it (G:1409-1412). `RefuseBody` and
  `EncodeFails` are these ends; `LoggedOnce` says that they and a failed write are
  the only ones, whichever of its ways out a request takes.
- *Instructions that no user gave.* `server/docs/config.md:132` says that the latest
  instruction comes from user-eligible fragments only, never from what the model or a
  tool put out. The last pass gives every long string under `.input` or `.content` the
  role of a user (C:455-489, C:633-645): a reasoning summary, an output given in parts,
  or a long text of a tool or the model that a chat keeps becomes the latest
  instruction. `LongSegment` is that rule; `InstructionsFromUsers` says that a
  Responses history folded at a boundary takes nothing from the *texts* of a tool or
  the model, only from a user's, from long strings beside the kept texts, and from the
  instructions.

Smaller observations, without a run of their own.

*Guard and quota.* The burst event is recorded before the in-flight limiter refuses
(G:601-611) and not taken back, so refused requests use up burst budget, while
`server/docs/config.md:107` speaks of requests that may enter the upstream. The
answer is delivered before its usage is inserted, so a client that sends its next
request at once can overrun its quota by two requests, while `server/docs/api.md:134`
speaks of one; `BoundedOverrun` is the bound that holds. A body that names no model
passes `ValidateModelAccess` (B:984-986) whatever the key is restricted to.

*Request path.* Refused requests are logged and count against the next window, so a
client that retries on 429 keeps its own window full. A repository error in the
minute windows is reported as a rate limit (B:1162-1167), one in the day or month
as what it is. A policy for all models is counted per requested model. Two
overlapping calls of `gateway_upstream_set` can leave the mode of one beside the
fallback of the other, and one that gives only an effort can write back what another
has just replaced (J:69-74): `QuietStrategy` speaks of calls that ran alone. Where a
settings row cannot be read the environment decides (G:1469-1476), even if an
administrator chose otherwise.

*Upstream.* `docs/archive/progress-2026-06-04-before-govulncheck.md:262` counts a
client that closes right after `response.completed` as a success with its tokens; a
keepalive or the added `[DONE]` that cannot be written afterwards makes it
`client_canceled` without tokens (G:932-936, G:995-1000). Line 384 of the same file
has a cancelled request recorded as 499; where a fallback is configured but not
allowed the error is wrapped with `%v` (G:1530-1537) and recorded as 502.

*Compaction.* What `gatewayContextTextFromValue` does not see of a folded item (a
chat's `tool_calls`, a reasoning summary, an output in parts, C:647-663) goes without a
segment (C:348, C:417), and of the segments the summary keeps selected lines only
(C:704-709, C:1282-1299): that no line is lost is neither promised nor true, and
no property says it. Only a Responses history folded at a boundary has its long texts
cut under their own roles before the last pass; `InstructionsFromUsers` is stated for
those. A directive said twice counts at its first place (C:934-962). A summary cut
at 12,000 runes no longer parses, and everything carried so far is lost (C:704-709,
C:830-847). A read that fails is followed by a write that erases the earlier state.
A request refused by the hard limit has stored its summary before. System messages
of a Responses input are dropped by the adapter, with the summary if that is where
it went; in a chat a long system message may be what the summary replaces. A stop
given in the same compaction as a goal is not the latest instruction (C:866-878) and
stays a prohibition only until a later compaction brings an instruction of its own;
one that allows going on clears the prohibitions of its own line.

*Administration.* A failure between the two statements of `DeleteAPIKey` (D:186-204)
leaves a key without its policies (`DeleteKeysFails`).

### Why the bounds are enough

The protocols are symmetric in their handlers, and each race needs two or three
of them: two that hold the same refresh token and a file, one that passes a check
and one that logs, one that holds the mutex while one waits and one is cancelled.
Three token pairs let two trades of one token finish in the wrong order. Clocks
run far enough that a window closes (guard: stamps 0 to 2 with a window of 2), or
that a day and a week end between a check and its log (quota: three days, two
weeks; request path: each window can be exhausted by four requests, and a minute
and a day end). The chat that is streamed is the one request that reads the strategy a second time and ends as a stream. Three calls of two administrators are one that ran alone, two that
overlap, and one after them. Four stream events are completed, failed, `[DONE]` and
one more in any order, and the channel of two fills up while a third is held. Three
models make one that stays, one that goes and one that comes; with one key every
interleaving of its administration, its clean-up and its request is there, and keys
do not interact but through batches of calls, which are single statements. Three
turns with two kept items make a lead, something folded, and a loop the boundary can
fall into; three compactions make a state that is carried over twice, and lists of
two and three overflow. The theorems remove
the bounds for the properties listed below. `MaxTime`, `MaxTickets`, `MaxToken`,
`MaxEvents` bound the clock, the accepted requests, the issued pairs and the
events; they stand in the guards of `Tick`, `StartLarge`, `Trade`, `Replace` and
`ScanEvent`, and nowhere else. In GatewayRequest a deployment bounds the ticks, the
requests of each handler and the administrators' calls, in the guards of `Tick`,
`Receive` and `Begin`; `Quiet` is the stuttering of an instance that has used them
up. In ContextSession each request is served once.

Deadlock is checked except in the stream and in the task group: one call, and a
group in which every `Go` and `Stop` has been made, are over at some time.

### Fairness

*Goroutines run on.* Weak fairness on the steps of a handler that depend on no
one else; this is the Go scheduler. *Mutexes.* Strong fairness where a handler
waits for a mutex that others take again and again (`Load`, `LockCLI`):
`sync.Mutex` hands itself to a waiter that has starved for a millisecond.
*Upstreams end*, because `codexBackendTimeout` and the CLI timeout bound them;
CodexUpstream takes this away from the requests in `Hanging`, to see who suffers
when it fails. *The deadline fires* in BackendStream and *the timer* in TaskGroup.
The relay's `select` is random, so a case that stays ready is chosen in the end.
In ModelCatalog and
GatewayRequest a handler goes on to its answer: its statements return, one way or
the other. The guard and the compaction have safety properties only. Not assumed: that clients come, stay or leave, that the upstream sends anything,
that the provider or the file system works, that the process lives. A background
task is assumed to end after its context is cancelled, which the package's README
asks of its users, and nothing before.

## Proofs

All theorems follow from the named assumptions on the constants (finite sets,
natural numbers, a calendar that does not run backwards, answers of at most
`MaxCost` tokens, a dearest answer, a mark for *nothing said* that is no line, at least two
kept items) and from nothing else. Each rests on an inductive invariant,
shown to hold at first and to be kept by each action, and on PTL for the last
step.

- **LargeRequestGuardProofs**: `TypeCorrect`; `SlotsAccounted` (`SlotAccounting` is
  inductive with the types: each action moves at most one handler into or out of
  the set whose size is the counter, lemmas `SlotFrame`, `AcquireStep`,
  `ReleaseStep`); `BurstWindowHolds`. `BurstWindow` speaks of all accepted events
  and is not inductive; `BurstMemory` is: the limiter holds at most `BurstMax`
  events and has forgotten none still inside the window of the youngest stamp it
  has judged by. The window at that stamp or later is then a subset of what it
  holds. `OverrunBounded` (`BurstOverrun`) is about windows that ended before the
  event that overtook them. `OverrunInv` counts, for a window and a stamp, the
  events in it and the handlers whose own, younger or equal stamp is still to be
  judged (`Pending`): the sum is within the limit plus the other handlers, and a
  step that accepts an event takes its handler out of the second set. Where the
  window is still open, `BurstMemory` gives the bound at once.
- **RequestPathProofs**: `TypeCorrect`; `WindowsHold` and `TokenWindowsHold`, both
  from `WindowInv`: for each of the six windows, what it counts of the logs stamped
  before a check, plus the heaviest log (`Heaviest(i)`: one request, or the dearest
  answer's tokens of that dimension) for every handler that may still add one with
  an older stamp, is below the limit plus the heaviest log of each other handler, from
  the query of that window on. A request counts one, so the sum over logs and the
  number of logs are one argument; the sum needs only that it grows by the log that
  is added; `OneLogEach`, from `LedgerInv` (a log belongs to a request that is
  answered, and none has two), shown for each end by itself: `Endings` and `Endless` say what those that answer with a log to write, and those
  without one, come down to; `QuietReads`, from `QuietInv` (while something is
  settled the rows say it, a half-read strategy agrees with it, and so does a call
  that writes back what it read); `NobodyInventsTheCli`, from `ChoiceInv` (every value
  a row, a reader or a call holds comes from a strategy that was asked for or from
  the environment). `RequestsFollowTheLedger` is the refinement of RequestLedger, step
  by step, an end without a log being lost for the reason and at the stage the ledger
  names: `StageMoves` says what a handler's step does to the stages, and `RoundInv`
  (who is not admitted has not read the strategy) is the one invariant it needs beyond
  the types, so that an admission is not taken for a second reading.
- **TokenQuotaProofs**: `TypeCorrect`; `LateRequestsRefused`, from `LateInv` (a
  request that came late is still before the query that refuses it) and `CheckInv`
  (outside a check nothing is missed); the core is that a stamped sum never
  shrinks when others log. `OverrunIsBounded`, from `OverrunInv`: the tokens logged
  in a period, plus `MaxCost` for each handler that may still add to it, stay below
  the ceiling; the set of those handlers (`Exposed`) contains the answered, the
  admitted, and those whose check will see room because their stamp is old. The
  theorem says that this set accounts for every way past the check, midnight
  included.
- **BackendProofs**, of the two modules that talk to the backend. Of
  CredentialRefresh (whose definitions have `Login` in front where BackendStream has
  the same): `LoginTypeCorrect`; `LoginIsKept`, from `LockInv` (who is inside holds
  the mutex) and `LineInv` (the live refresh token is in the file or, in the hands of
  the handler inside, on its way to it); `RetriesAreFresh`, from `YoungInv` (pairs
  that are owed to the file are younger than any token that was refused before). Of
  BackendStream: `TypeCorrect`; `OutcomesAreHonest` from `OutcomeInv`, which ties the
  frames on the wire to what the relay has seen; `ClientIsTold` from `EndInv`.
- **ContextSessionProofs**: every safety property of the compaction, in two halves.
  The first is about the operators, for a history of any length: `PickedFacts` and
  `NthOfRank` (picked places are an order-preserving bijection), `LastFewFacts`,
  `DurableFactsFacts` (merging facts adds no other, repeats none, and drops none while
  they are within `FactLimit`; by a least counterexample along `WithFacts`), `RestoreParts`,
  `BoundaryFacts`, and `CompactionFacts`, which says what any compaction is. Either
  every item stays at its place and only what is long in it is cut (`InPlace`), or the
  lead stays, one summary follows, and then what lies after the boundary, each item
  calling and answering what it did; of a Responses history every segment then has the
  line and the role of an item, or the line of a long string beside the kept texts or
  of the long instructions (`FoldedAt`). Both rest on `CutLongStringsFacts`: the last
  pass squeezes each item at its place (`Squeezed`) and, in whatever order it walks,
  adds segments of long lines only (`LastPass`). The second half is about the requests: `MadeInv` (what a request holds
  is one of the compactions of what it asked, made with the row it read, from the
  fold until it is sent), `Counted` (no more summaries stored than requests past
  storing), `MemoryInv` (what the row or any reader holds was stored; steadily stored,
  the row holds it all) and `SentInv`. `CompactionKeepsLoops` rests on the one item
  the boundary guarantees, the first kept one that needs no predecessor: a call before
  it cannot be followed by an output after it with only outputs in between.
  `SummaryReachesBackend`: the first cut text is at the latest the summary itself, and
  up to there calls and outputs are as they were asked, so it is no orphan.
  `OnlyUsersInstruct` is where the pass of `CutRecent` is needed: it leaves the last
  pass no long text of an item, so only what is long beside the texts comes to the
  segments under a role that is not its own. `RestoreStatesConsistent`
  needs no history at all and holds for every state read. `SummariesRemember`.
- **TaskGroupProofs**: `TypeCorrect`, `DrainedIsDone`, `EverybodyIsTold` from one
  `IInv`: the map is the set of working tasks, the WaitGroup counts those and the
  ones between `delete` and `Done`, and what a waiter has seen stays true because
  nothing is accepted after a Stop. `GroupImplementsLifecycle` is the refinement:
  the initial state maps to the initial state, each step to a step or a stutter.
- **CodexUpstreamProofs**: `TypeCorrect`, `LiveWorkIsLimited` (live work is work of
  a handler that holds a slot), `FallbackIsNeverBlind`, and the action property
  `ClientsAreBlamedRightly` (a result *canceled* exists only where the context has
  ended).

- **ModelCatalogProofs**: `TypeCorrect`, `CleanTables`, `SteadyLimitsAreSeen` and the
  refinement `CatalogImplementsPromise`. `CleanWhileServing` says nothing of a start;
  `StartInv` tells from the tables how far a start has got (what is seeded, which
  rows off the list are still before the loop, which keys are still to be swept),
  for whatever tables and however many starts that died before. `LookupInv` says
  that what was there throughout is still there, and that the first query has
  ruled out the policy of the model. In the refinement every statement of the
  startup leaves the cleaned tables as they are (`PromiseStartup`), and a crash
  leaves tables that clean to the same (`PromiseCrash`).

`DrainedIsDone` and `EverybodyIsTold` of the task group and `CleanTables` of the
catalogue are proved of definitions no run checks on its own: they follow from the
refinements the runs check, and are what those refinements are used for.
The guard's types are a theorem as well and not checked by its run, whose
`SlotAccounting` says more of the counter.

Only model-checked: all liveness (`DisabledKeyFallsSilent`, `CallEnds`, `LoginCallEnds`,
`NothingLeaks`, `RequestsEnd`, `RequestsAnswered`), which the prover does not reach,
and the disagreements the three violation runs show. Every
other property of every run is a theorem.

## What is left out of the modelled components

Formats, translations between the two APIs, diagnostics and headers are left out;
what a frame or an error *says* is kept. `Retry-After` values and the wait
between retries are not modelled. In CodexUpstream mode and fallback are read as
one value and per-key overrides are part of it; GatewayRequest has them apart.
HistoryCompaction leaves out the wording of texts, the lists of progress lines and of
obsolete constraints the summary only reports, what a cut text repeats of its
original; a Responses input that is one string (C:385-391) is a history of one item
of the user. GatewayRequest leaves out
`TouchAPIKeyUsed`, the audit row of a refusal and the default reasoning effort.
ModelCatalog leaves out prices, secrets, quotas and the numbers
in a policy, writes to models other than their switch, and a second process on the
same database. The CLI's child process and its output are one step. The
parser for streams that are not passed on (`parseCodexBackendSSE`) is one result.

## Not modelled

- **Balance cache** (`codex_balance_handler.go`). One copy of a display value behind
  a mutex, with a life of five minutes; fetching it is talk with a child process. An
  older fetch can overwrite a younger one, and either is recent enough to show.
- **Alerts and audit** (B:1523-1547). Rows written beside a usage log from sums of
  the same logs. Nothing reads them back in the service, and nothing promises that a
  condition which lasts raises one event only.
- **OAuth login, sessions, user administration.** Sequential handlers over single
  rows, signatures and JWTs; requests share nothing but those rows.
- **`parseCodexBackendSSE`** (A:816). The parser of a stream that is not passed on
  takes a clean end without `response.completed` for an answer; nothing in the
  repository says it should not.
- **Assembly, web console, scripts, the Python prototype.** Wiring and presentation.
- **Generated code.** Some 53,000 of the repository's counted lines are the `ent`
  query builders, protobuf code and the pages of the web console. A model of the
  builders would be a model of a library; what a statement does is in the actions
  that stand for its caller.

## Plan

The plan of the models is carried out: guard, quota, request path with policy and
settings, credentials, stream, upstream, compaction, catalogue and task group, and so
is the plan of the proofs: every safety property and every refinement of the passing
runs is a theorem.
