--------------------------- MODULE CredentialRefresh ---------------------------
(***************************************************************************)
(* The Codex credentials of the gateway: one auth.json holds an access and  *)
(* a refresh token.  Every upstream call gets its access token from         *)
(* codexAccessToken, which reads the file under a mutex and, when the token *)
(* expires soon or was just refused with 401, trades the refresh token at   *)
(* the identity provider and writes the new pair back, still under the      *)
(* mutex.  The provider may rotate the refresh token, so whatever happens   *)
(* between the trade and the write decides whether the login survives.      *)
(***************************************************************************)
EXTENDS Naturals

CONSTANTS
  Requests,  \* the handler goroutines; each serves requests one by one
  Nobody,    \* the mutex is free
  Retries,   \* CODEX_BACKEND_RETRY_ATTEMPTS
  MaxToken   \* bound of the token pairs ever issued

ASSUME RefreshAssumption ==
  /\ Nobody \notin Requests
  /\ Retries \in Nat
  /\ MaxToken \in Nat \ {0}

VARIABLES
  pc,       \* where each handler is
  force,    \* forceRefresh of the handler's current call
  attempt,  \* retry attempt of openResponsesWithRetry
  auth,     \* the pair a handler holds inside codexAccessToken
  token,    \* the access token of the handler's upstream request
  refused,  \* the access token the handler was refused with 401 before forcing
  lock,     \* codexBackendClient.mu: its holder
  file,     \* auth.json: the pair in it, and whether it can be parsed
  issued,   \* the provider: number of pairs issued, a pair is named by its number
  live,     \* the provider: the refresh token it still accepts
  expiring, \* the access tokens jwtExpiresSoon says yes to
  revoked,  \* the access tokens the upstream answers 401 to
  broken    \* history: a pair was lost on its way into the file

local == <<pc, force, attempt, auth, token, refused>>
provider == <<issued, live>>
upstream == <<expiring, revoked>>
loginVars == <<local, lock, file, provider, upstream, broken>>

Tokens == 0 .. MaxToken
Pair == [access : Tokens, refresh : Tokens]
NoPair == [access |-> 0, refresh |-> 0]

(* locking: waits for the mutex.  asking: has sent the refresh token.  traded:
   the provider has issued a pair, its answer is under way.  saving: holds the
   new pair.  writing: has truncated the file.  calling: is upstream. *)
Places == {"idle", "locking", "asking", "traded", "saving", "writing", "calling"}

(* The handlers inside codexAccessToken past its first decision. *)
Inside == {"asking", "traded", "saving", "writing"}

(* ... those of them that have a pair the file does not have. *)
Owing == {"traded", "saving", "writing"}

LoginTypeOK ==
  /\ pc \in [Requests -> Places]
  /\ force \in [Requests -> BOOLEAN]
  /\ attempt \in [Requests -> 0 .. Retries]
  /\ auth \in [Requests -> Pair]
  /\ token \in [Requests -> Tokens]
  /\ refused \in [Requests -> Tokens]
  /\ lock \in Requests \cup {Nobody}
  /\ file \in [pair : Pair, whole : BOOLEAN]
  /\ issued \in Tokens
  /\ live \in Tokens
  /\ expiring \in SUBSET Tokens
  /\ revoked \in SUBSET Tokens
  /\ broken \in BOOLEAN

(* The service starts after codex login. *)
LoginInit ==
  /\ pc = [r \in Requests |-> "idle"]
  /\ force = [r \in Requests |-> FALSE]
  /\ attempt = [r \in Requests |-> 0]
  /\ auth = [r \in Requests |-> NoPair]
  /\ token = [r \in Requests |-> 0]
  /\ refused = [r \in Requests |-> 0]
  /\ lock = Nobody
  /\ file = [pair |-> [access |-> 1, refresh |-> 1], whole |-> TRUE]
  /\ issued = 1
  /\ live = 1
  /\ expiring = {}
  /\ revoked = {}
  /\ broken = FALSE

Goto(r, from, to) ==
  /\ pc[r] = from
  /\ pc' = [pc EXCEPT ![r] = to]

(***************************************************************************)
(* openResponsesWithRetry around codexAccessToken.                         *)
(***************************************************************************)

Start(r) ==
  /\ Goto(r, "idle", "locking")
  /\ UNCHANGED <<force, attempt, auth, token, refused, lock, file, provider,
                 upstream, broken>>

(* The call of a handler is over: its locals are gone. *)
Done(r) ==
  /\ pc' = [pc EXCEPT ![r] = "idle"]
  /\ force' = [force EXCEPT ![r] = FALSE]
  /\ attempt' = [attempt EXCEPT ![r] = 0]
  /\ auth' = [auth EXCEPT ![r] = NoPair]
  /\ token' = [token EXCEPT ![r] = 0]
  /\ refused' = [refused EXCEPT ![r] = 0]

(* A mistake: one attempt too many. *)
RetryOnceMore(r) ==
  /\ attempt[r] <= Retries
  /\ attempt' = [attempt EXCEPT ![r] = @ + 1]
  /\ pc' = [pc EXCEPT ![r] = "locking"]
  /\ force' = [force EXCEPT ![r] = FALSE]
  /\ auth' = [auth EXCEPT ![r] = NoPair]
  /\ token' = [token EXCEPT ![r] = 0]
  /\ refused' = [refused EXCEPT ![r] = 0]

(* A retriable error: the next attempt starts without forcing. *)
Retry(r) ==
  /\ attempt[r] < Retries
  /\ attempt' = [attempt EXCEPT ![r] = @ + 1]
  /\ pc' = [pc EXCEPT ![r] = "locking"]
  /\ force' = [force EXCEPT ![r] = FALSE]
  /\ auth' = [auth EXCEPT ![r] = NoPair]
  /\ token' = [token EXCEPT ![r] = 0]
  /\ refused' = [refused EXCEPT ![r] = 0]

(* An error that may or may not be retriable, the context included. *)
Fail(r) == Done(r) \/ Retry(r)

(* A mistake: a path that returns without unlocking. *)
KeepLocked == UNCHANGED lock

(* Returning from codexAccessToken runs its deferred Unlock. *)
Unlock == lock' = Nobody

(* codexAccessToken returns the token of the pair and unlocks. *)
GiveToken(r, pair) ==
  /\ token' = [token EXCEPT ![r] = pair.access]
  /\ auth' = [auth EXCEPT ![r] = NoPair]
  /\ Unlock

(* The mutex is free; Lock does not watch the request's context. *)
Free == lock = Nobody

(* A mistake: forceRefresh is not looked at. *)
LooksExpiring(r) == file.pair.access \in expiring

NeedsRefresh(r) == force[r] \/ file.pair.access \in expiring

(* The file cannot be parsed: an error that is never retried. *)
LoadFails(r) ==
  /\ Free
  /\ pc[r] = "locking"
  /\ ~file.whole
  /\ Done(r)
  /\ UNCHANGED <<lock, file, provider, upstream, broken>>

LoadFresh(r) ==
  /\ Free
  /\ file.whole
  /\ ~NeedsRefresh(r)
  /\ Goto(r, "locking", "calling")
  /\ GiveToken(r, file.pair)
  /\ UNCHANGED <<force, attempt, refused, file, provider, upstream, broken>>

(* A mistake: the mutex covers the reading of the file, not the refresh. *)
LoadThenUnlock(r) ==
  /\ Free
  /\ file.whole
  /\ NeedsRefresh(r)
  /\ Goto(r, "locking", "asking")
  /\ auth' = [auth EXCEPT ![r] = file.pair]
  /\ UNCHANGED <<force, attempt, token, refused, lock, file, provider, upstream,
                 broken>>

LoadToRefresh(r) ==
  /\ Free
  /\ file.whole
  /\ NeedsRefresh(r)
  /\ Goto(r, "locking", "asking")
  /\ auth' = [auth EXCEPT ![r] = file.pair]
  /\ lock' = r
  /\ UNCHANGED <<force, attempt, token, refused, file, provider, upstream, broken>>

(* The provider is not reached, or the request's context is done before. *)
AskFails(r) ==
  /\ pc[r] = "asking"
  /\ Fail(r)
  /\ Unlock
  /\ UNCHANGED <<file, provider, upstream, broken>>

(* The provider does not know the refresh token any more: no retry. *)
AskRefused(r) ==
  /\ pc[r] = "asking"
  /\ auth[r].refresh # live
  /\ Done(r)
  /\ Unlock
  /\ UNCHANGED <<file, provider, upstream, broken>>

(* The provider issues an access token; with it a refresh token, which then
   replaces the old one, or none, and the code keeps the one it has. *)
Trade(r, rotates) ==
  /\ issued < MaxToken
  /\ auth[r].refresh = live
  /\ Goto(r, "asking", "traded")
  /\ issued' = issued + 1
  /\ live' = IF rotates THEN issued + 1 ELSE live
  /\ auth' = [auth EXCEPT ![r] = [access |-> issued + 1, refresh |-> live']]
  /\ UNCHANGED <<force, attempt, token, refused, lock, file, upstream, broken>>

(* The answer is lost: connection, deadline, or the client of this request
   went away and its context took the refresh with it. *)
LoseAnswer(r) ==
  /\ pc[r] = "traded"
  /\ Fail(r)
  /\ Unlock
  /\ broken' = TRUE
  /\ UNCHANGED <<file, provider, upstream>>

Receive(r) ==
  /\ Goto(r, "traded", "saving")
  /\ UNCHANGED <<force, attempt, auth, token, refused, lock, file, provider,
                 upstream, broken>>

(* os.WriteFile opens with O_TRUNC ... *)
Truncate(r) ==
  /\ Goto(r, "saving", "writing")
  /\ file' = [pair |-> file.pair, whole |-> FALSE]
  /\ UNCHANGED <<force, attempt, auth, token, refused, lock, provider, upstream,
                 broken>>

(* ... and then writes: saveCodexAuthFile is done, the call goes on. *)
Save(r) ==
  /\ Goto(r, "writing", "calling")
  /\ file' = [pair |-> auth[r], whole |-> TRUE]
  /\ GiveToken(r, auth[r])
  /\ UNCHANGED <<force, attempt, refused, provider, upstream, broken>>

(* Opening or writing the file fails: the new pair is dropped. *)
SaveFails(r) ==
  /\ pc[r] \in {"saving", "writing"}
  /\ Done(r)
  /\ Unlock
  /\ broken' = TRUE
  /\ UNCHANGED <<file, provider, upstream>>

UpstreamAccepts(r) ==
  /\ pc[r] = "calling"
  /\ token[r] \notin revoked
  /\ Done(r)
  /\ UNCHANGED <<lock, file, provider, upstream, broken>>

(* The first 401 of an attempt: the call is repeated with forceRefresh. *)
Upstream401(r) ==
  /\ token[r] \in revoked
  /\ ~force[r]
  /\ Goto(r, "calling", "locking")
  /\ force' = [force EXCEPT ![r] = TRUE]
  /\ refused' = [refused EXCEPT ![r] = token[r]]
  /\ UNCHANGED <<attempt, auth, token, lock, file, provider, upstream, broken>>

(* Any other error, retriable or not, a second 401 included. *)
UpstreamFails(r) ==
  /\ pc[r] = "calling"
  /\ Fail(r)
  /\ UNCHANGED <<lock, file, provider, upstream, broken>>

(***************************************************************************)
(* The environment.                                                        *)
(***************************************************************************)

Expire(t) ==
  /\ t \in (1 .. issued) \ expiring
  /\ expiring' = expiring \cup {t}
  /\ UNCHANGED <<local, lock, file, provider, revoked, broken>>

Revoke(t) ==
  /\ t \in (1 .. issued) \ revoked
  /\ revoked' = revoked \cup {t}
  /\ UNCHANGED <<local, lock, file, provider, expiring, broken>>

(* codex login, or a Codex CLI process that shares the file and refreshes it
   without the mutex: a whole new pair.  A handler that is about to write its
   own pair will overwrite it. *)
Replace ==
  /\ issued < MaxToken
  /\ issued' = issued + 1
  /\ live' = issued + 1
  /\ file' = [pair |-> [access |-> issued + 1, refresh |-> issued + 1], whole |-> TRUE]
  /\ broken' = \E r \in Requests : pc[r] \in Owing
  /\ UNCHANGED <<local, lock, upstream>>

(* The process dies and starts again; only the file survives. *)
Crash ==
  /\ pc' = [r \in Requests |-> "idle"]
  /\ force' = [r \in Requests |-> FALSE]
  /\ attempt' = [r \in Requests |-> 0]
  /\ auth' = [r \in Requests |-> NoPair]
  /\ token' = [r \in Requests |-> 0]
  /\ refused' = [r \in Requests |-> 0]
  /\ lock' = Nobody
  /\ broken' = (broken \/ \E r \in Requests : pc[r] \in Owing)
  /\ UNCHANGED <<file, provider, upstream>>

Load(r) == LoadFails(r) \/ LoadFresh(r) \/ LoadToRefresh(r)

Refresh(r) ==
  \/ AskFails(r) \/ AskRefused(r) \/ (\E rotates \in BOOLEAN : Trade(r, rotates))
  \/ LoseAnswer(r) \/ Receive(r) \/ Truncate(r) \/ Save(r) \/ SaveFails(r)

Call(r) == UpstreamAccepts(r) \/ Upstream401(r) \/ UpstreamFails(r)

Handler(r) == Start(r) \/ Load(r) \/ Refresh(r) \/ Call(r)

Environment ==
  Replace \/ Crash \/ \E t \in 1 .. MaxToken : Expire(t) \/ Revoke(t)

LoginNext == Environment \/ \E r \in Requests : Handler(r)

LoginSpec == LoginInit /\ [][LoginNext]_loginVars

(* A goroutine runs on, its calls are bounded by the request's timeout, and a
   Go mutex hands itself to a waiter that has starved for a millisecond: strong
   fairness, because other handlers take the mutex again and again. *)
LoginFairness == \A r \in Requests : SF_loginVars(Load(r) \/ Refresh(r) \/ Call(r))

LoginFairSpec == LoginSpec /\ LoginFairness

(***************************************************************************)
(* Properties.                                                             *)
(***************************************************************************)

(* Concurrent refreshes never cost the login: while nobody is inside, the file
   can be parsed and holds the refresh token the provider accepts, unless an
   answer of the provider was lost, a save failed, the process died inside a
   refresh or another process wrote the file during one. *)
LoginSurvives ==
  ~broken /\ Free => file.whole /\ file.pair.refresh = live

(* The call repeated after a 401 carries a younger access token than the one
   the upstream refused, whatever other handlers and processes wrote to the
   file in between. *)
RetryIsFresh ==
  \A r \in Requests : pc[r] = "calling" /\ force[r] => token[r] > refused[r]

(* Every call ends: the mutex is released on every path, and neither the retry
   loop nor the repeated call after a 401 goes on for ever. *)
LoginCallEnds == \A r \in Requests : pc[r] # "idle" ~> pc[r] = "idle"
=============================================================================
