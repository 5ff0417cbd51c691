--------------------------- MODULE MCContextSession ---------------------------
(* Instances of ContextSession: histories put together from turns.          *)
EXTENDS ContextSession

MCLines == {"goal", "go", "stop", "hold", "must", "fact1", "fact2"}
\* "go" reads: current request: go on, but deploy nothing without confirmation.
MCMark ==
  [current |-> {"goal", "go"}, goal |-> {"goal", "go"},
   pinned |-> {"goal", "go", "stop", "hold", "must"}, allow |-> {"go"},
   restrict |-> {"go", "stop", "hold"}, stop |-> {"stop"}, wait |-> {"hold"},
   confirm |-> {"go", "hold"}, fact |-> {"fact1", "fact2"}]
MCCalls == 1..8
MCWeight == [none |-> 0, short |-> 1, big |-> 4, cut |-> 1, summary |-> 2]

Says(role, size, line) ==
  [role |-> role, calls |-> {}, answers |-> {}, size |-> size, line |-> line, side |-> NoText]
User(line) == <<Says("user", "short", line)>>
Output(call, size, line) ==
  [Says("tool", size, line) EXCEPT !.answers = {call}]

\* Calls of one turn and their outputs, as each form writes them.
Loop(form, calls, size, line) ==
  LET outputs == [i \in 1..Len(calls) |-> Output(calls[i], size, line)]
  IN IF form = "chat"
     THEN <<[Says("assistant", "none", Silent) EXCEPT !.calls = ToSet(calls)]>> \o outputs
     ELSE [i \in 1..Len(calls) |->
             [Says("call", "short", Silent) EXCEPT !.calls = {calls[i]}]] \o outputs

Turns(form, t) ==
  {User("goal"), User("go"), User("stop"), User("fact1"),
   <<Says("user", "big", "must")>>, <<Says("assistant", "big", "stop")>>,
   Loop(form, <<t>>, "short", "go"), Loop(form, <<t>>, "big", "goal"),
   Loop(form, <<t, t + 4>>, "short", Silent)}

Leads == {<<>>, <<Says("system", "big", "stop")>>}

Histories(form) ==
  {a : a \in Turns(form, 1)} \cup
  {a \o b : b \in Turns(form, 2),
     a \in {User("stop"), <<Says("user", "big", "must")>>, <<Says("assistant", "big", "stop")>>}} \cup
  {User("fact1") \o b \o c : b \in Turns(form, 2),
     c \in {Loop(form, <<3>>, "big", "go"), Loop(form, <<3, 7>>, "short", "goal")}}

\* What is long beside the text: reasoning, an output in parts, a call's arguments.
Aside(item, line) == [item EXCEPT !.side = [size |-> "big", line |-> line]]
Asides(form) ==
  IF form = "chat"
  THEN {<<Aside([Says("assistant", size, "goal") EXCEPT !.calls = {4}], "stop"),
          Output(4, "short", Silent)>> : size \in {"none", "big"}}
  ELSE {<<Aside(Says("call", size, "goal"), "stop")>> : size \in {"none", "big"}} \cup
       {<<[Says("call", "short", Silent) EXCEPT !.calls = {4}],
          Aside(Output(4, "none", Silent), "fact2")>>}

\* Folded with what comes before it, kept behind it, or all there is.
BesideTexts(form) ==
  UNION {{a, User("fact1") \o User("must") \o a, a \o User(Silent) \o User("hold")} :
           a \in Asides(form)}

Asks(form, items) ==
  [form |-> form, items |-> items, top |-> NoText, passthrough |-> FALSE, session |-> TRUE]

Instructed(form, items) ==
  {[Asks(form, items) EXCEPT !.top = t] : t \in {NoText, [size |-> "big", line |-> "go"]}}

Chatter == User(Silent) \o User(Silent)

\* The first request is any history, the others fold little.
Wide ==
  UNION {{Asks(form, lead \o h) : lead \in Leads, h \in Histories(form)} :
           form \in {"chat", "responses"}} \cup
  UNION {UNION {Instructed(form, h) : h \in BesideTexts(form)} : form \in {"chat", "responses"}} \cup
  {[Asks("chat", User("must") \o User("fact1") \o Chatter) EXCEPT !.session = FALSE],
   [Asks("chat", Chatter \o Chatter) EXCEPT !.passthrough = TRUE],
   Asks("chat", Loop("chat", <<1, 2, 3, 4>>, "short", "goal")),
   Asks("chat", User("fact1") \o Loop("chat", <<1, 2, 3, 4>>, "short", "goal"))}
Narrow ==
  {Asks("responses", User("fact2") \o User("goal") \o User("stop") \o Chatter),
   Asks("chat", User(Silent) \o User("hold") \o User("fact1") \o Chatter)}
Silence == {Asks("responses", User(Silent) \o Chatter \o Chatter)}

MCBodies == [r \in Requests |-> IF r = "r1" THEN Wide
                                ELSE IF r = "r2" THEN Narrow ELSE Silence]
=============================================================================
