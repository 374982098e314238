--------------------------- MODULE Linearizability ---------------------------
(***************************************************************************)
(* The linearizability checker of the oracle crate: client histories       *)
(* (history.rs) and the search for a legal order of them                   *)
(* (linearizability.rs).  A history grows by push, one completed operation *)
(* at a time; check then takes its keys one by one, and check_one_key is   *)
(* the depth-first search, one action per turn of its outer loop.          *)
(*                                                                         *)
(* Event indices are 1-based here and 0-based in the code.  The bit mask   *)
(* `ahead' is the set of offsets from the frontier that are already        *)
(* placed: bit k of the mask is offset k + 1.  What the code keeps only to *)
(* word its report (the best prefix, the culprit) is left out.             *)
(***************************************************************************)
EXTENDS Naturals, Sequences, FiniteSetsExt, TLC

CONSTANTS
    Client,         \* the workload's clients
    Workload,       \* sets of observations, what one operation did and saw:
                    \* records [op, key, ..., ret].  A history is drawn from one
    MaxEvents,      \* bound: operations in a history
    MaxTime,        \* bound: virtual instants are 0..MaxTime
    AHEAD,          \* how far past the frontier an operation may be placed
    max_states      \* Limits::max_states

Observation == UNION Workload

Key == {o.key : o \in Observation}

VARIABLES
    history,        \* History::events, in the order the clients pushed them
    todo,           \* keys that check has not looked at yet; {} before it runs
    events,         \* the sorted operations of the key being checked
    stack,          \* frames of the search, the deepest last
    visited,        \* configurations already tried
    explored,       \* turns of the search loop
    bounded_out,    \* the AHEAD window cut off a candidate
    verdict         \* "none" until check returns

vars == <<history, todo, events, stack, visited, explored, bounded_out,
          verdict>>

search == <<todo, events, stack, visited, explored, bounded_out>>

nil == "nil"
Unknown == "Unknown"

is_unknown(e) == e.ret = Unknown

----------------------------------------------------------------------------
\* Histories.

Event(c, o, from, to) ==
    [client |-> c, key |-> o.key, obs |-> o, ret |-> o.ret,
     invoked |-> from, returned |-> to]

\* sort_by: invocation, then return, then client.
Before(a, b) ==
    \/ a.invoked < b.invoked
    \/ a.invoked = b.invoked /\ a.returned < b.returned
    \/ a.invoked = b.invoked /\ a.returned = b.returned /\ a.client < b.client

sorted(h) == SortSeq(h, Before)

by_key(k) == sorted(SelectSeq(history, LAMBDA e : e.key = k))

\* One client operation: the workload reads the clock, calls, reads it again and
\* pushes what came back.  A client has one call at a time, and an operation
\* takes time.  Histories are in order of return, as the pushes are; of calls that
\* return at one instant the order is immaterial, since check sorts them.
push(c, o, from, to) ==
    /\ verdict = "none" /\ todo = {} /\ stack = <<>>
    /\ Len(history) < MaxEvents
    /\ from < to
    /\ \A i \in DOMAIN history :
          /\ \/ history[i].returned < to
             \/ history[i].returned = to /\ history[i].client < c
          /\ history[i].client = c => history[i].returned <= from
    /\ \E w \in Workload : {o} \cup {history[i].obs : i \in DOMAIN history} \subseteq w
    /\ history' = Append(history, Event(c, o, from, to))
    /\ UNCHANGED <<search, verdict>>

----------------------------------------------------------------------------
\* The sequential register.

\* Model::step as a set: the one register value after e, or none when what e
\* observed cannot have happened at value v.
step(v, e) ==
    LET o == e.obs IN
    CASE o.op = "Read"   -> IF is_unknown(e) \/ o.ret = v THEN {v} ELSE {}
      [] o.op = "Write"  -> {o.value}
      [] o.op = "Delete" -> {nil}
      [] o.op = "Cas"    ->
            CASE o.ret = "CasFailed" -> IF o.expect = v THEN {} ELSE {v}
              [] o.ret = "Ok"        -> IF o.expect = v THEN {o.value} ELSE {}
              [] OTHER               -> IF o.expect = v THEN {o.value} ELSE {v}

----------------------------------------------------------------------------
\* The search.

Frame(v, f, a) == [model |-> v, frontier |-> f, ahead |-> a, cursor |-> 0]

\* The operations placed right behind the frontier.
trailing(frame) ==
    CHOOSE t \in 0 .. AHEAD :
        1 .. t \subseteq frame.ahead /\ t + 1 \notin frame.ahead

\* Variant: the mask is shifted one position short.
advance_short(frame, offset) ==
    IF offset > 0
    THEN [frontier |-> frame.frontier, ahead |-> frame.ahead \cup {offset}]
    ELSE LET t == trailing(frame)
         IN [frontier |-> frame.frontier + 1 + t,
             ahead |-> {o - t : o \in {p \in frame.ahead : p > t}}]

\* Placing the frontier operation moves the frontier over the run of t already
\* placed operations behind it; placing another one marks it.
advance(frame, offset) ==
    IF offset > 0
    THEN [frontier |-> frame.frontier, ahead |-> frame.ahead \cup {offset}]
    ELSE LET t == trailing(frame)
         IN [frontier |-> frame.frontier + 1 + t,
             ahead |-> {o - (t + 1) : o \in {p \in frame.ahead : p > t + 1}}]

\* Candidate moves of a frame are numbered: twice the offset from the frontier,
\* plus one for the move that discards the effect of an Unknown operation.
Offset(c) == c \div 2
SkipsEffect(c) == c % 2 = 1

\* The frontier operation has to return before anything invoked later.
horizon(frame) == events[frame.frontier].returned

InWindow(frame, offset) ==
    /\ frame.frontier + offset <= Len(events)
    /\ events[frame.frontier + offset].invoked <= horizon(frame)

\* The register after move c, if it can be made at all.
next_models(frame, c) ==
    LET e == events[frame.frontier + Offset(c)]
    IN IF SkipsEffect(c)
       THEN IF is_unknown(e) THEN {frame.model} ELSE {}
       ELSE step(frame.model, e)

\* Variant: the memory tells configurations apart by what is placed alone.
Config_placed(v, place) == <<place.frontier, place.ahead>>

Config(v, place) == <<v, place.frontier, place.ahead>>

Fresh(frame, c) ==
    {v \in next_models(frame, c) : Config(v, advance(frame, Offset(c))) \notin visited}

Moves(frame) ==
    {c \in frame.cursor .. 2 * AHEAD + 1 :
        /\ InWindow(frame, Offset(c))
        /\ Offset(c) \notin frame.ahead
        /\ Fresh(frame, c) # {}}

Top == stack[Len(stack)]

Below == SubSeq(stack, 1, Len(stack) - 1)

----------------------------------------------------------------------------
\* check and check_one_key.

\* check: the next key in order, and the start of its search.
check ==
    /\ verdict = "none" /\ stack = <<>>
    /\ LET left == IF todo = {} THEN Key ELSE todo
       IN /\ todo' = left \ {Min(left)}
          /\ events' = by_key(Min(left))
    /\ stack' = IF events' = <<>> THEN <<>> ELSE <<Frame(nil, 1, {})>>
    /\ visited' = {} /\ explored' = 0 /\ bounded_out' = FALSE
    /\ verdict' = IF events' = <<>> /\ todo' = {} THEN "Linearizable" ELSE "none"
    /\ UNCHANGED history

\* The budget is spent.
exhausted ==
    /\ verdict = "none" /\ stack # <<>>
    /\ explored = max_states
    /\ verdict' = "Inconclusive"
    /\ stack' = <<>>
    /\ UNCHANGED <<history, todo, events, visited, explored, bounded_out>>

\* Every operation of the key is placed; check goes on with the next key.
placed_all ==
    /\ verdict = "none" /\ stack # <<>> /\ explored < max_states
    /\ Top.frontier > Len(events)
    /\ stack' = <<>>
    /\ verdict' = IF todo = {} THEN "Linearizable" ELSE "none"
    /\ UNCHANGED <<history, todo, events, visited, explored, bounded_out>>

\* The first admissible move of the top frame is made.
place ==
    /\ verdict = "none" /\ stack # <<>> /\ explored < max_states
    /\ Top.frontier <= Len(events)
    /\ LET moves == Moves(Top)
           c == Min(moves)
           v == CHOOSE v \in Fresh(Top, c) : TRUE
           at == advance(Top, Offset(c))
       IN /\ moves # {}
          /\ stack' = Below \o <<[Top EXCEPT !.cursor = c + 1],
                                 Frame(v, at.frontier, at.ahead)>>
          /\ visited' = visited \cup {Config(v, at)}
    /\ explored' = explored + 1
    /\ UNCHANGED <<history, todo, events, bounded_out, verdict>>

\* No move is left: the frame is dropped.  With the last frame the search has
\* failed, and says so unless the window hid a candidate from it.
backtrack ==
    /\ verdict = "none" /\ stack # <<>> /\ explored < max_states
    /\ Top.frontier <= Len(events)
    /\ Moves(Top) = {}
    /\ bounded_out' = (bounded_out \/ InWindow(Top, AHEAD + 1))
    /\ explored' = explored + 1
    /\ stack' = Below
    /\ verdict' = CASE Below # <<>> -> "none"
                    [] Below = <<>> /\ bounded_out' -> "Inconclusive"
                    [] OTHER -> "NotLinearizable"
    /\ UNCHANGED <<history, todo, events, visited>>

Init ==
    /\ history = <<>>
    /\ todo = {} /\ events = <<>> /\ stack = <<>> /\ visited = {}
    /\ explored = 0 /\ bounded_out = FALSE
    /\ verdict = "none"

Next ==
    \/ \E c \in Client, o \in Observation, from, to \in 0 .. MaxTime :
          push(c, o, from, to)
    \/ check
    \/ exhausted
    \/ placed_all
    \/ place
    \/ backtrack

Spec == Init /\ [][Next]_vars

----------------------------------------------------------------------------
\* What the verdicts have to mean, stated without the search: the operations
\* are placed one at a time on a store, and an operation may be next only if no
\* operation still to be placed has to precede it.

\* The stores after operation e on store s; an Unknown one may have no effect.
Effects(s, e) ==
    {[s EXCEPT ![e.key] = v] : v \in step(s[e.key], e)}
        \cup (IF is_unknown(e) THEN {s} ELSE {})

\* Real time: i returned before j was invoked.  An operation without an answer
\* may still take effect after its client gave up, so it precedes nothing.
Precedes(i, j) ==
    ~ is_unknown(history[i]) /\ history[i].returned < history[j].invoked

RECURSIVE Placeable(_, _)
Placeable(left, s) ==
    \/ left = {}
    \/ \E j \in left : /\ \A i \in left : ~ Precedes(i, j)
                       /\ \E t \in Effects(s, history[j]) : Placeable(left \ {j}, t)

Empty == [k \in Key |-> nil]

Linearizable == Placeable(DOMAIN history, Empty)

\* Operations j of one key, other than i, that are invoked before i returns.
Reaches(i, j) ==
    /\ i # j /\ history[i].key = history[j].key
    /\ history[j].invoked <= history[i].returned

\* No client gave up on an operation before the last one of its key began.
UnknownsStayOpen ==
    \A i, j \in DOMAIN history :
        is_unknown(history[i]) /\ i # j /\ history[i].key = history[j].key
            => Reaches(i, j)

\* No operation is still open when one that began after it has returned and a
\* third one of the key begins.
NothingEnclosed ==
    \A i, j, k \in DOMAIN history :
        /\ Reaches(i, j) /\ Reaches(i, k) /\ Precedes(j, k)
        => Before(history[j], history[i])

\* An operation has no more than AHEAD later ones beginning in its window.
NothingCrowded ==
    \A i \in DOMAIN history :
        Cardinality({j \in DOMAIN history :
                        Reaches(i, j) /\ Before(history[i], history[j])}) <= AHEAD

\* A reported violation is one: no order of the whole history over all keys that
\* respects real time produces what the clients saw.  The frontier, the mask of
\* placed operations, the memory of tried configurations, the split by key and
\* the cut at AHEAD lose no order (check, check_one_key).  It is claimed for
\* histories in which no client gave up before the last operation of the key
\* began; ViolationsAreReal says it of all.
NoFalseAlarm ==
    verdict = "NotLinearizable" /\ UnknownsStayOpen => ~ Linearizable

\* A violation is found: unless the budget ran out or the window cut something
\* off, a history that is not linearizable is reported.  It is claimed for
\* histories in which no operation encloses two others of its key in sequence;
\* AcceptedIsLinearizable says it of all.
ViolationsAreFound ==
    verdict # "none" /\ ~ Linearizable /\ NothingEnclosed
        => \/ verdict = "NotLinearizable"
           \/ verdict = "Inconclusive" /\ (explored = max_states \/ ~ NothingCrowded)

\* What history.rs asks for operations without an answer: the checker may place
\* them anywhere, so it reports no history that some such placing explains.
ViolationsAreReal == verdict = "NotLinearizable" => ~ Linearizable

\* What linearizability.rs promises of an accepted history: an order exists
\* that respects the windows and produces what the clients saw.
AcceptedIsLinearizable == verdict = "Linearizable" => Linearizable
=============================================================================
