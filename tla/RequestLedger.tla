----------------------------- MODULE RequestLedger -----------------------------
(***************************************************************************)
(* What the gateway's accounting promises of the requests of one key: each   *)
(* is taken once and ends once, in the ledger under its own number or among   *)
(* the lost, for one of three reasons, each at its own stage. What is refused *)
(* or fails costs nothing, and may be refused only until it is sent; what is  *)
(* served costs what the upstream reported. The ledger dates a request by its *)
(* answer, however much later it is booked.                                   *)
(***************************************************************************)
EXTENDS Naturals

CONSTANTS
  Handlers,  \* goroutines; each has one request at a time
  Costs      \* the tokens an upstream call may report

VARIABLES
  time,
  stage,   \* how far each handler's request has come
  turn,    \* which request of the handler that is
  owed,    \* what is to be booked for it
  ledger,  \* what is booked
  lost     \* the requests that ended unbooked, and why

vars == <<time, stage, turn, owed, ledger, lost>>

Nothing == [at |-> 0, tokens |-> 0]

Init ==
  /\ time = 0
  /\ stage = [h \in Handlers |-> "none"]
  /\ turn = [h \in Handlers |-> 0]
  /\ owed = [h \in Handlers |-> Nothing]
  /\ ledger = {}
  /\ lost = {}

Pass ==
  /\ time' = time + 1
  /\ UNCHANGED <<stage, turn, owed, ledger, lost>>

Comes(h, from, to) ==
  /\ stage[h] \in from
  /\ stage' = [stage EXCEPT ![h] = to]

Take(h) ==
  /\ Comes(h, {"none"}, "taken")
  /\ turn' = [turn EXCEPT ![h] = @ + 1]
  /\ UNCHANGED <<time, owed, ledger, lost>>

\* The key's quota and the windows of its policy have room.
Admit(h) ==
  /\ Comes(h, {"taken"}, "admitted")
  /\ UNCHANGED <<time, turn, owed, ledger, lost>>

\* The upstream is chosen.
Send(h) ==
  /\ Comes(h, {"admitted"}, "sent")
  /\ UNCHANGED <<time, turn, owed, ledger, lost>>

Owe(h, tokens) ==
  /\ owed' = [owed EXCEPT ![h] = [at |-> time, tokens |-> tokens]]
  /\ UNCHANGED <<time, turn, ledger, lost>>

Refuse(h) == Comes(h, {"taken", "admitted"}, "answered") /\ Owe(h, 0)

Serve(h) == Comes(h, {"sent"}, "answered") /\ \E c \in Costs : Owe(h, c)

Fail(h) == Comes(h, {"sent"}, "answered") /\ Owe(h, 0)

Close(h) ==
  /\ owed' = [owed EXCEPT ![h] = Nothing]
  /\ UNCHANGED <<time, turn>>

Book(h) ==
  /\ Comes(h, {"answered"}, "none")
  /\ ledger' = ledger \cup
       {[by |-> h, nth |-> turn[h], at |-> owed[h].at, tokens |-> owed[h].tokens]}
  /\ Close(h)
  /\ UNCHANGED lost

\* An unreadable body, an answer that cannot be encoded, an entry not written.
Losses == {<<"taken", "body">>, <<"sent", "encoding">>, <<"answered", "write">>}

Lose(h) ==
  /\ \E l \in Losses :
       Comes(h, {l[1]}, "none") /\ lost' = lost \cup {<<h, turn[h], l[2]>>}
  /\ Close(h)
  /\ UNCHANGED ledger

Next ==
  \/ Pass
  \/ \E h \in Handlers :
       \/ Take(h) \/ Admit(h) \/ Send(h) \/ Refuse(h) \/ Serve(h) \/ Fail(h)
       \/ Book(h) \/ Lose(h)

Spec == Init /\ [][Next]_vars
=============================================================================
