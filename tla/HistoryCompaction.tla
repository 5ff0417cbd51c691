-------------------------- MODULE HistoryCompaction --------------------------
(***************************************************************************)
(* What gateway_context_compaction.go does to one oversized request, as      *)
(* operators: where the history is cut, which texts are folded away and      *)
(* under which role, the restore state built from them, and what the        *)
(* adapter of the backend keeps of the result.  A text is at most one line   *)
(* that matters (its wording replaced by the markers it holds) and a size.   *)
(* An item has the text gatewayContextTextFromValue reads, and beside it one *)
(* that it does not see: the summary of a reasoning item, an output given in *)
(* parts, the arguments of a chat's tool_calls.  What a cut text repeats of  *)
(* its original, the lists of progress lines and of obsolete constraints and *)
(* the layout of the summary are left out.                                  *)
(***************************************************************************)
EXTENDS Integers, FiniteSetsExt, SequencesExt

CONSTANTS
  Lines,       \* what a line of a text may say
  Silent,      \* a text without such a line; an instruction not yet given
  StandStill,  \* the line must_not_do gets when stopped without another
  Mark,        \* Mark[k]: the lines that hold a marker of kind k
  Calls,       \* the ids of function calls
  Keep,        \* ContextKeepItems
  LineLimit,   \* the lines a list of directives keeps: 16
  PinLimit,    \* the pinned directives: 12
  FactLimit,   \* the durable facts: 64
  Room         \* facts and prohibitions that fit in a summary of 12,000 runes

Kinds == {"current", "goal", "pinned", "restrict", "stop", "wait", "allow",
          "confirm", "fact"}

ASSUME CompactionAssumption ==
  /\ Silent \notin Lines \cup {StandStill}
  /\ Mark \in [Kinds -> SUBSET Lines]
  /\ Keep \in Nat /\ Keep >= 2
  /\ {LineLimit, PinLimit, FactLimit, Room} \subseteq Nat \ {0}

-----------------------------------------------------------------------------
(* The history of a request.  An item calls functions (the tool_calls of an *)
(* assistant message, a function_call), answers one, or neither.            *)

Text == [size : {"none", "short", "big", "cut"}, line : Lines \cup {Silent}]
NoText == [size |-> "none", line |-> Silent]

\* "call" is any item without a role of its own.
Roles == {"system", "user", "assistant", "tool", "call"}
Item == [role : Roles, calls : SUBSET Calls, answers : SUBSET Calls,
         size : {"none", "short", "big", "cut", "summary"},
         line : Lines \cup {Silent}, side : Text]

\* A folded text and the role it is folded under.
Segment == [role : Roles, line : Lines \cup {Silent}]

LastFew(s, n) == SubSeq(s, Max({1, Len(s) - n + 1}), Len(s))

\* The k-th of some places.
Nth(places, k) ==
  CHOOSE i \in places : Cardinality({j \in places : j <= i}) = k

\* What is left when only some places of s are kept, in their order.
Picked(s, places) == [k \in 1..Cardinality(places) |-> s[Nth(places, k)]]

NeedsPrevious(item) == item.role = "tool"

\* The system messages a chat history begins with are never folded.
Lead(form, h) ==
  IF form = "responses" THEN 0
  ELSE Max({k \in 0..Len(h) : \A i \in 1..k : h[i].role = "system"})

KeepStart(form, h) == Max({Len(h) - Keep, Lead(form, h)})

(* A mistake a change could make: the boundary is not moved back over outputs. *)
BoundaryAtKeep(form, h) == KeepStart(form, h)

\* Items 1..Boundary are not kept: Keep from the end, further back over outputs.
Boundary(form, h) ==
  Max({k \in Lead(form, h)..KeepStart(form, h) :
         k = Lead(form, h) \/ ~NeedsPrevious(h[k + 1])})

Bigs(h) == {i \in DOMAIN h : h[i].size = "big"}
Cut(item) == [item EXCEPT !.size = "cut", !.line = Silent]
CutAll(h) == [i \in DOMAIN h |-> IF i \in Bigs(h) THEN Cut(h[i]) ELSE h[i]]

SegmentsOf(items) ==
  [i \in DOMAIN items |-> [role |-> items[i].role, line |-> items[i].line]]

LongItems(h) == Picked(h, Bigs(h))

-----------------------------------------------------------------------------
(* The last pass, over whatever is long still and wherever it is.           *)

CutText == [size |-> "cut", line |-> Silent]

CutSides(h) ==
  [i \in DOMAIN h |-> IF h[i].side.size = "big" THEN [h[i] EXCEPT !.side = CutText] ELSE h[i]]

LongPlaces(h) ==
  (Bigs(h) \X {"text"}) \cup ({i \in DOMAIN h : h[i].side.size = "big"} \X {"side"})

\* The items come in their order, the texts of one item in either: its keys are
\* walked as Go walks a map.
Walks(h) ==
  {w \in SetToSeqs(LongPlaces(h)) : \A j, k \in DOMAIN w : j < k => w[j][1] <= w[k][1]}

\* The path to it (.content, .input) makes a text one of the user; only the path
\* to the arguments of tool_calls does not.
LongSegment(form, h, place) ==
  LET i == place[1]
  IN IF place[2] = "text" THEN [role |-> "user", line |-> h[i].line]
     ELSE [role |-> IF form = "responses" THEN "user" ELSE "call", line |-> h[i].side.line]

\* The instructions of the payload are a text of the user, and come before all
\* the items or after them: again the keys of a map.
LongSegments(form, h, top) ==
  LET long(w) == [k \in DOMAIN w |-> LongSegment(form, h, w[k])]
      lead == IF top.size = "big" THEN <<[role |-> "user", line |-> top.line]>> ELSE <<>>
  IN UNION {{lead \o long(w), long(w) \o lead} : w \in Walks(h)}

CutLongStrings(form, c, top) ==
  {[body |-> CutSides(CutAll(c.body)),
    top |-> IF top.size = "big" THEN CutText ELSE top,
    segments |-> c.segments \o more] : more \in LongSegments(form, c.body, top)}

-----------------------------------------------------------------------------
(* What is folded and cut before it.                                        *)

\* Nothing to fold between the lead and the kept items: the longest text is cut.
CutLongest(h) ==
  {[body |-> [h EXCEPT ![i] = Cut(@)], segments |-> SegmentsOf(<<h[i]>>)] :
     i \in Bigs(h)}

SummaryMessage == [role |-> "user", calls |-> {}, answers |-> {},
                   size |-> "cut", line |-> Silent, side |-> NoText]

(* A mistake a change could make: the kept items are all left to the last pass. *)
CutNoRecent(form, recent) == [body |-> recent, segments |-> <<>>]

\* Of the items a Responses input keeps, the long texts are cut, each under its
\* own role; a chat leaves them to the last pass.
CutRecent(form, recent) ==
  IF form = "responses"
  THEN [body |-> CutAll(recent), segments |-> SegmentsOf(LongItems(recent))]
  ELSE [body |-> recent, segments |-> <<>>]

\* An earlier item without a text leaves no segment, whatever it has beside it.
FoldEarlier(form, h) ==
  LET lead == Lead(form, h)
      b == Boundary(form, h)
      earlier == Picked(h, {i \in (lead + 1)..b : h[i].size # "none"})
      recent == CutRecent(form, SubSeq(h, b + 1, Len(h)))
  IN [body |-> SubSeq(h, 1, lead) \o <<SummaryMessage>> \o recent.body,
      segments |-> SegmentsOf(earlier) \o recent.segments]

\* The outcomes (which of several long texts is the longest is left open); none
\* when the request is not compactable, long strings beside the texts or not.
Compactions(form, h, top) ==
  LET folded == {c \in IF Len(h) = 1 \/ Boundary(form, h) = Lead(form, h)
                       THEN CutLongest(h) ELSE {FoldEarlier(form, h)} :
                   c.segments # <<>>}
  IN UNION {CutLongStrings(form, c, top) : c \in folded}

(* A mistake a change could make: the summary replaces every placeholder. *)
WithSummaries(body) ==
  [i \in DOMAIN body |-> IF body[i].size = "cut"
                         THEN [body[i] EXCEPT !.size = "summary"] ELSE body[i]]

\* The summary replaces the first placeholder, whichever message holds it.
WithSummary(body) ==
  [body EXCEPT ![Min({i \in DOMAIN body : body[i].size = "cut"})].size = "summary"]

-----------------------------------------------------------------------------
(* The restore state.                                                       *)

State == [goal : Lines \cup {Silent}, latest : Lines \cup {Silent},
          facts : Seq(Lines), mustNotDo : SUBSET (Lines \cup {StandStill}),
          phase : {"executing", "stopped", "waiting_for_user"}, confirm : BOOLEAN]

\* What a missing or unreadable previous summary counts as.
NoState == [goal |-> Silent, latest |-> Silent, facts |-> <<>>, mustNotDo |-> {},
            phase |-> "executing", confirm |-> TRUE]

UserLines(segments) ==
  LET said == Picked(segments, {i \in DOMAIN segments :
                                  segments[i].role = "user" /\ segments[i].line # Silent})
  IN [i \in DOMAIN said |-> said[i].line]

\* A directive said twice counts at its first place.
FirstPlaces(lines, kind) ==
  {i \in DOMAIN lines : /\ lines[i] \in Mark[kind]
                        /\ \A j \in 1..(i - 1) : lines[j] # lines[i]}

Directives(lines, kind) == LastFew(Picked(lines, FirstPlaces(lines, kind)), LineLimit)

LastOr(s, other) == IF s = <<>> THEN other ELSE s[Len(s)]

LatestIn(lines) ==
  LastOr(Directives(lines, "current"), LastOr(Directives(lines, "restrict"), Silent))

Stops(line) == line \in Mark.restrict \ Mark.allow

ResolveConflicts(pins, latest) ==
  LET out == Picked(pins, {i \in DOMAIN pins : /\ latest \in Mark.allow => ~Stops(pins[i])
                                               /\ Stops(latest) => pins[i] \notin Mark.allow})
  IN IF pins # <<>> /\ out = <<>> /\ latest # Silent THEN <<latest>> ELSE out

AddFact(facts, fact) ==
  IF fact \in ToSet(facts) THEN facts ELSE LastFew(Append(facts, fact), FactLimit)

\* One fact after the other is added.
WithFacts(facts, found) ==
  LET after[n \in 0..Len(found)] ==
        IF n = 0 THEN facts ELSE AddFact(after[n - 1], found[n])
  IN after[Len(found)]

FactLines(lines) == Picked(lines, {i \in DOMAIN lines : lines[i] \in Mark.fact})

(* A mistake a change could make: the facts of the previous state are not merged. *)
FactsOfLines(previous, lines) == WithFacts(<<>>, FactLines(lines))

DurableFacts(previous, lines) ==
  WithFacts(previous.facts, WithFacts(<<>>, FactLines(lines)))

TaskPhase(latest, pins) ==
  LET texts == {latest} \cup ToSet(pins)
  IN IF latest \in Mark.allow THEN "executing"
     ELSE IF texts \cap Mark.stop # {} THEN "stopped"
     ELSE IF texts \cap Mark.wait # {} THEN "waiting_for_user" ELSE "executing"

(* A mistake a change could make: going on does not clear the prohibitions. *)
ProhibitionsKept(latest, latestHere, pins, previous) ==
  IF ToSet(pins) \cap Mark.restrict = {} /\ latestHere = Silent
  THEN previous.mustNotDo ELSE ToSet(pins) \cap Mark.restrict

\* Without an instruction of its own a compaction keeps the earlier prohibitions.
Prohibitions(latest, latestHere, pins, previous) ==
  LET here == ToSet(pins) \cap Mark.restrict
  IN IF latest \in Mark.allow THEN {}
     ELSE IF here = {} /\ latestHere = Silent THEN previous.mustNotDo ELSE here

RestoreState(previous, segments) ==
  LET lines == UserLines(segments)
      pinned == LastFew(Directives(lines, "pinned"), PinLimit)
      latestHere == LatestIn(lines)
      latest == IF latestHere # Silent THEN latestHere
                ELSE LastOr(pinned, previous.latest)
      pins == ResolveConflicts(pinned, latest)
      goal == LastOr(Directives(lines, "goal"),
                     IF latestHere # Silent THEN latestHere ELSE previous.goal)
      phase == TaskPhase(latest, pins)
      standing == Prohibitions(latest, latestHere, pins, previous)
      allowed == latest \in Mark.allow /\ standing = {}
  IN [goal |-> goal, latest |-> latest, phase |-> phase,
      facts |-> DurableFacts(previous, lines),
      mustNotDo |-> IF phase = "stopped" /\ standing = {} THEN {StandStill} ELSE standing,
      confirm |-> /\ ~allowed
                  /\ \/ phase # "executing"
                     \/ goal = Silent \/ latest = Silent
                     \/ (standing \cup {latest}) \cap Mark.confirm # {}]

\* A summary is cut at 12,000 runes; a cut one does not parse when read again.
Fits(state) == Len(state.facts) + Cardinality(state.mustNotDo) <= Room

-----------------------------------------------------------------------------
(* What codex_backend_adapter.go makes of a body.                           *)

CallsBefore(h, i) == UNION {h[j].calls : j \in 1..(i - 1)}
Orphans(h) == {i \in DOMAIN h : ~(h[i].answers \subseteq CallsBefore(h, i))}

DropOrphans(h) == Picked(h, DOMAIN h \ Orphans(h))

\* System messages of a chat become instructions, those of a Responses input go.
Delivered(form, body) ==
  DropOrphans(IF form = "responses"
              THEN Picked(body, {i \in DOMAIN body : body[i].role # "system"}) ELSE body)

=============================================================================
