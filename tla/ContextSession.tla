---------------------------- MODULE ContextSession ----------------------------
(***************************************************************************)
(* prepareGatewayContext (gateway_context_compaction.go) for the requests of *)
(* one session, with the session's row of gateway_context_summaries: the    *)
(* row is read, the history compacted with it, the row written back by an    *)
(* update and, when the update found none, by a create.  Requests of a       *)
(* session run at the same time and every statement may fail; a failure is   *)
(* only logged.                                                             *)
(***************************************************************************)
EXTENDS HistoryCompaction

CONSTANTS
  Requests,   \* the requests of the session, each served once
  Bodies,     \* Bodies[r]: what request r may ask
  Weight,     \* Weight[s]: what a text of size s counts
  CompactAt,  \* ContextCompactTokens or Bytes of the model's policy
  HardAt      \* ContextHardTokens or Bytes

\* Only a compaction cuts and sums up.
ASSUME SessionAssumption ==
  /\ IsFiniteSet(Requests)
  /\ CompactAt \in Nat /\ HardAt \in Nat
  /\ Weight \in [{"none", "short", "big", "cut", "summary"} -> Nat]
  /\ \A r \in Requests : \A b \in Bodies[r] :
       /\ b.form \in {"chat", "responses"}
       /\ b.passthrough \in BOOLEAN /\ b.session \in BOOLEAN
       /\ b.items \in Seq(Item) /\ b.items # <<>>
       /\ b.top \in Text  \* the instructions of the payload
       /\ \A i \in DOMAIN b.items : b.items[i].size \in {"none", "short", "big"}

VARIABLES
  row,      \* the session's row: its summary and compaction_count
  pc,       \* where each request is
  body,     \* what it asked
  read,     \* the previous summary and count it works with
  made,     \* its compaction: body, instructions, segments and restore state
  sent,     \* what the backend gets of it
  stores,   \* history: compactions stored
  told,     \* history: the facts in the texts stored compactions folded as a user's
  steady    \* history: every compaction so far was stored whole, over the row it read

vars == <<row, pc, body, read, made, sent, stores, told, steady>>

NoRow == [summary |-> NoState, readable |-> FALSE, count |-> 0, there |-> FALSE]
NotMade == [body |-> <<>>, top |-> NoText, segments |-> <<>>, state |-> NoState]

WeightOf(h, top) ==
  Weight[top.size] +
    MapThenSumSet(LAMBDA i : Weight[h[i].size] + Weight[h[i].side.size], DOMAIN h)

Row == [summary : State, readable : BOOLEAN, count : Nat, there : BOOLEAN]
Compaction == [body : Seq(Item), top : Text, segments : Seq(Segment), state : State]

TypeOK ==
  /\ row \in Row
  /\ pc \in [Requests -> {"idle", "asked", "made", "missed", "stored", "forwarded", "refused"}]
  /\ DOMAIN body = Requests
  /\ \A r \in Requests : pc[r] # "idle" => body[r] \in Bodies[r]
  /\ read \in [Requests -> Row]
  /\ made \in [Requests -> Compaction]
  /\ sent \in [Requests -> Seq(Item)]
  /\ stores \in 0..Cardinality(Requests)
  /\ told \subseteq Mark.fact
  /\ steady \in BOOLEAN

Init ==
  /\ row = NoRow
  /\ pc = [r \in Requests |-> "idle"]
  /\ body = [r \in Requests |-> CHOOSE b \in Bodies[r] : TRUE]
  /\ read = [r \in Requests |-> NoRow]
  /\ made = [r \in Requests |-> NotMade]
  /\ sent = [r \in Requests |-> <<>>]
  /\ stores = 0
  /\ told = {}
  /\ steady = TRUE

history == <<stores, told, steady>>

Arrive(r) ==
  /\ pc[r] = "idle"
  /\ pc' = [pc EXCEPT ![r] = "asked"]
  /\ \E b \in Bodies[r] : body' = [body EXCEPT ![r] = b]
  /\ UNCHANGED <<row, read, made, sent, history>>

NeedsCompaction(r) ==
  ~body[r].passthrough /\ WeightOf(body[r].items, body[r].top) >= CompactAt

\* Passthrough, or short enough: forwarded as it came.
Pass(r) ==
  /\ pc[r] = "asked"
  /\ ~NeedsCompaction(r)
  /\ pc' = [pc EXCEPT ![r] = "forwarded"]
  /\ sent' = [sent EXCEPT ![r] = Delivered(body[r].form, body[r].items)]
  /\ UNCHANGED <<row, body, read, made, history>>

\* What GetContextSummary gives: the row, or nothing without a session.
Answer(r) == IF body[r].session THEN row ELSE NoRow

\* Compaction with the summary that was read; a request without a session
\* is not stored.
Fold(r, seen) ==
  \E c \in Compactions(body[r].form, body[r].items, body[r].top) :
    LET previous == IF seen.readable THEN seen.summary ELSE NoState
        state == RestoreState(previous, c.segments)
    IN /\ read' = [read EXCEPT ![r] = seen]
       /\ made' = [made EXCEPT ![r] = [body |-> WithSummary(c.body), top |-> c.top,
                                       segments |-> c.segments, state |-> state]]
       /\ pc' = [pc EXCEPT ![r] = IF body[r].session THEN "made" ELSE "stored"]

Compact(r) ==
  /\ pc[r] = "asked"
  /\ NeedsCompaction(r)
  /\ Fold(r, Answer(r))
  /\ UNCHANGED <<row, body, sent, history>>

\* The read of the row fails: the request goes on as if there were none.
CompactUnread(r) ==
  /\ pc[r] = "asked"
  /\ NeedsCompaction(r) /\ body[r].session
  /\ Fold(r, NoRow)
  /\ UNCHANGED <<row, body, sent, history>>

NotCompactable(r) ==
  /\ pc[r] = "asked"
  /\ NeedsCompaction(r)
  /\ Compactions(body[r].form, body[r].items, body[r].top) = {}
  /\ pc' = [pc EXCEPT ![r] = "refused"]
  /\ UNCHANGED <<row, body, read, made, sent, history>>

(* A mistake a change could make: a summary that was stored is stored again. *)
StoreAgain(r) ==
  /\ row' = [summary |-> made[r].state, readable |-> Fits(made[r].state),
             count |-> read[r].count + 1, there |-> TRUE]
  /\ stores' = stores + 1
  /\ UNCHANGED <<pc, told, steady>>

\* The row after the request's summary is written to it.
Store(r) ==
  /\ row' = [summary |-> made[r].state, readable |-> Fits(made[r].state),
             count |-> read[r].count + 1, there |-> TRUE]
  /\ stores' = stores + 1
  /\ told' = told \cup (ToSet(UserLines(made[r].segments)) \cap Mark.fact)
  /\ steady' = (steady /\ row = read[r] /\ Fits(made[r].state))
  /\ pc' = [pc EXCEPT ![r] = "stored"]

Update(r) ==
  /\ pc[r] = "made"
  /\ row.there
  /\ Store(r)
  /\ UNCHANGED <<body, read, made, sent>>

UpdateFoundNone(r) ==
  /\ pc[r] = "made"
  /\ ~row.there
  /\ pc' = [pc EXCEPT ![r] = "missed"]
  /\ UNCHANGED <<row, body, read, made, sent, history>>

Create(r) ==
  /\ pc[r] = "missed"
  /\ ~row.there
  /\ Store(r)
  /\ UNCHANGED <<body, read, made, sent>>

\* The statement fails, or the create meets another's row: session_id is unique.
StoreFails(r) ==
  /\ pc[r] \in {"made", "missed"}
  /\ pc' = [pc EXCEPT ![r] = "stored"]
  /\ UNCHANGED <<row, body, read, made, sent, history>>

\* Only now the hard limit: a request refused here has stored its summary.
Forward(r) ==
  /\ pc[r] = "stored"
  /\ IF WeightOf(made[r].body, made[r].top) < HardAt
     THEN /\ pc' = [pc EXCEPT ![r] = "forwarded"]
          /\ sent' = [sent EXCEPT ![r] = Delivered(body[r].form, made[r].body)]
     ELSE /\ pc' = [pc EXCEPT ![r] = "refused"]
          /\ UNCHANGED sent
  /\ UNCHANGED <<row, body, read, made, history>>

Answered == \A r \in Requests : pc[r] \in {"forwarded", "refused"}

Done == Answered /\ UNCHANGED vars

Next ==
  \/ \E r \in Requests :
       \/ Arrive(r) \/ Pass(r) \/ Compact(r) \/ CompactUnread(r) \/ NotCompactable(r)
       \/ Update(r) \/ UpdateFoundNone(r) \/ Create(r) \/ StoreFails(r) \/ Forward(r)
  \/ Done

Spec == Init /\ [][Next]_vars

-----------------------------------------------------------------------------
Compacted(r) == made[r] # NotMade

AtBoundary(r) ==
  Len(body[r].items) > 1
    /\ Boundary(body[r].form, body[r].items) > Lead(body[r].form, body[r].items)

UserTexts(h) == {h[i].line : i \in {i \in DOMAIN h : h[i].role = "user"}}

\* The long strings compactLargeResponsesItems cannot see, those of the items that
\* are folded left aside.
LongElsewhere(b) ==
  LET kept == (Boundary(b.form, b.items) + 1)..Len(b.items)
  IN {b.items[i].side.line : i \in {i \in kept : b.items[i].side.size = "big"}}
       \cup (IF b.top.size = "big" THEN {b.top.line} ELSE {})

\* Every output follows its call with nothing but outputs in between.
LoopsClosed(h) ==
  \A i \in DOMAIN h : h[i].answers # {} =>
    \E j \in 1..(i - 1) : /\ h[i].answers \subseteq h[j].calls
                          /\ \A k \in (j + 1)..i : NeedsPrevious(h[k])

(* A tool loop whose outputs follow their calls stays whole: wherever         *)
(* compactChatPayload and compactResponsesPayload cut, the new body holds the  *)
(* call of every output it holds, so the adapter drops none.                  *)
LoopsStayWhole ==
  \A r \in Requests :
    Compacted(r) /\ LoopsClosed(body[r].items) => Orphans(made[r].body) = {}

(* The backend gets the summary of a compacted request once, wherever       *)
(* insertGatewayContextSummary put it and whatever the adapter then drops    *)
(* (unless a Responses input holds system messages, which the adapter drops  *)
(* and which may be where the summary went).                                 *)
SummaryArrives ==
  \A r \in Requests :
    /\ pc[r] = "forwarded" /\ Compacted(r)
    /\ Orphans(body[r].items) = {}
    /\ body[r].form = "responses" => \A i \in DOMAIN body[r].items : body[r].items[i].role # "system"
    => Cardinality({i \in DOMAIN sent[r] : sent[r][i].size = "summary"}) = 1

(* The restore state of a compaction never says two things: an instruction   *)
(* that allows going on leaves no prohibition, no stop and no confirmation;  *)
(* a stop comes with a prohibition and asks before the next step.            *)
RestoreConsistent ==
  \A r \in Requests : Compacted(r) =>
    LET s == made[r].state
    IN /\ s.latest \in Mark.allow =>
            s.phase = "executing" /\ s.mustNotDo = {} /\ ~s.confirm
       /\ s.phase = "stopped" => s.mustNotDo # {} /\ s.confirm

(* A Responses request folded at a boundary takes its instruction, its goal   *)
(* and its facts from texts of the user, from the summary it read, or from a  *)
(* long string that is no text of a kept item; never from the text of a tool  *)
(* or the model: compactLargeResponsesItems cuts the long ones under their own*)
(* role before compactLargePayloadStrings would take them for the user's.     *)
(* server/docs/config.md:132 promises it of every output; for those beside the*)
(* texts the last pass breaks it.                                             *)
InstructionsFromUsers ==
  \A r \in Requests :
    (Compacted(r) /\ body[r].form = "responses" /\ AtBoundary(r)) =>
      LET users == UserTexts(body[r].items) \cup LongElsewhere(body[r])
          s == made[r].state
      IN /\ s.latest \in users \cup {read[r].summary.latest, Silent}
         /\ s.goal \in users \cup {read[r].summary.goal, Silent}
         /\ ToSet(s.facts) \subseteq users \cup ToSet(read[r].summary.facts)

(* The row of a session: never more compactions nor other facts than were    *)
(* stored; and as long as every compaction was stored whole over the row it  *)
(* read, it counts them all and holds every fact they folded, up to the      *)
(* limit of facts (prepareGatewayContext and UpsertContextSummary).          *)
SessionRemembers ==
  /\ row.count <= stores
  /\ ToSet(row.summary.facts) \subseteq told
  /\ steady => /\ row.count = stores
               /\ Cardinality(told) <= FactLimit => told = ToSet(row.summary.facts)

(* The documentation (server/docs/config.md:113) promises the most recent     *)
(* tool loop whole: what the compaction keeps of it, the backend gets.       *)
ToolLoopsWhole ==
  \A r \in Requests :
    (pc[r] = "forwarded" /\ Compacted(r) /\ Orphans(body[r].items) = {}) =>
      \A i \in DOMAIN made[r].body :
        made[r].body[i].answers \subseteq UNION {sent[r][k].answers : k \in DOMAIN sent[r]}
=============================================================================
