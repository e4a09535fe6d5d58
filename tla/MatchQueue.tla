----------------------------- MODULE MatchQueue -----------------------------
(***************************************************************************)
(* The match queue: match.start and match.cancel append to and delete from *)
(* a queue per game name, and every two seconds the ticker's goroutine     *)
(* cuts groups off the queues' heads, makes a room for each and announces  *)
(* it (tryMatch).                                                          *)
(*                                                                         *)
(* tryMatch holds MatchQueue.mu from its first to its last line, so        *)
(* requests wait while it runs; its loops are one step per iteration, with *)
(* the local slice it cuts from kept apart from the stored queue it writes *)
(* back at the end.  Rooms are Lobby's part.                               *)
(***************************************************************************)
EXTENDS Integers, Sequences, FiniteSets, FiniteSetsExt, Functions

CONSTANTS
    Players,                 \* player ids
    Names,                   \* game names clients ask for
    Games,                   \* those that are registered
    MinPlayers, MaxPlayers,  \* per registered game
    MaxTickets,              \* bound: match.start requests in a behaviour
    None

ASSUME NamesAssumption == Games \subseteq Names /\ None \notin Names
ASSUME TicketsAssumption == MaxTickets \in Nat
ASSUME SizesAssumption ==
    /\ MinPlayers \in [Games -> Nat \ {0}]
    /\ MaxPlayers \in [Games -> Nat]
    /\ \A g \in Games : MaxPlayers[g] > 0 => MinPlayers[g] <= MaxPlayers[g]

VARIABLES
    queues,     \* MatchQueue.queues: entries in order of arrival
    issued,     \* number of entries appended so far; an entry's ticket is its number
    cancelled,  \* tickets deleted by match.cancel
    matches,    \* the groups announced so far, in order
    online,     \* players with a connection past auth.login
    busy,       \* tryMatch holds mu
    todo,       \* names its outer loop has still to visit
    current,    \* the game of the inner loop, None between two
    rest        \* its local variable queue

vars == <<queues, issued, cancelled, matches, online, busy, todo, current, rest>>
tickVars == <<busy, todo, current, rest>>

Entry == [player : Players, ticket : 1..MaxTickets]
Match == [game : Games, group : Seq(Entry)]

Tickets(q) == {q[i].ticket : i \in DOMAIN q}
MatchedTickets == UNION {Tickets(matches[i].group) : i \in DOMAIN matches}

\* The types of the state; the local slice is empty between two games.
TypeOK ==
    /\ queues \in [Names -> Seq(Entry)]
    /\ issued \in 0..MaxTickets
    /\ cancelled \subseteq 1..issued
    /\ matches \in Seq(Match)
    /\ online \subseteq Players
    /\ busy \in BOOLEAN
    /\ todo \subseteq Names
    /\ current \in Games \cup {None}
    /\ rest \in Seq(Entry)
    /\ current = None => rest = <<>>
    /\ ~busy => todo = {} /\ current = None

Init ==
    /\ queues = [g \in Names |-> <<>>]
    /\ issued = 0
    /\ cancelled = {}
    /\ matches = <<>>
    /\ online = {}
    /\ busy = FALSE
    /\ todo = {}
    /\ current = None
    /\ rest = <<>>

-----------------------------------------------------------------------------
(* Connections and requests.                                               *)

Connect(p) ==
    /\ p \notin online
    /\ online' = online \cup {p}
    /\ UNCHANGED <<queues, issued, cancelled, matches, tickVars>>

\* handleWS's cleanup does not touch the queues, whatever its comment says.
Disconnect(p) ==
    /\ p \in online
    /\ online' = online \ {p}
    /\ UNCHANGED <<queues, issued, cancelled, matches, tickVars>>

\* match.start: any name is accepted, as often as the player likes.
Enqueue(p, g) ==
    /\ ~busy /\ p \in online
    /\ issued < MaxTickets
    /\ issued' = issued + 1
    /\ queues' = [queues EXCEPT ![g] = Append(@, [player |-> p, ticket |-> issued + 1])]
    /\ UNCHANGED <<cancelled, matches, online, tickVars>>

\* Mutant: append(queue[:i], queue[i+2:]...).
MutWithoutTwo(q, i) == SubSeq(q, 1, i - 1) \o SubSeq(q, i + 2, Len(q))

\* append(queue[:i], queue[i+1:]...).
Without(q, i) == SubSeq(q, 1, i - 1) \o SubSeq(q, i + 1, Len(q))

IsFirstOf(q, i, p) == q[i].player = p /\ \A j \in 1..(i - 1) : q[j].player # p

\* Mutant: a player who is not queued cancels the zero entry.
MutDequeue(p, g) ==
    /\ ~busy /\ p \in online
    /\ cancelled' = cancelled \cup
          {IF \E i \in DOMAIN queues[g] : IsFirstOf(queues[g], i, p)
             THEN queues[g][CHOOSE i \in DOMAIN queues[g] : IsFirstOf(queues[g], i, p)].ticket
             ELSE 0}
    /\ queues' = [queues EXCEPT ![g] = SelectSeq(@, LAMBDA e : e.ticket \notin cancelled')]
    /\ UNCHANGED <<issued, matches, online, tickVars>>

\* match.cancel deletes the player's first entry only, and says "cancelled" in any case.
Dequeue(p, g) ==
    /\ ~busy /\ p \in online
    /\ \E i \in DOMAIN queues[g] :
          /\ IsFirstOf(queues[g], i, p)
          /\ queues' = [queues EXCEPT ![g] = Without(@, i)]
          /\ cancelled' = cancelled \cup {queues[g][i].ticket}
    /\ UNCHANGED <<issued, matches, online, tickVars>>

-----------------------------------------------------------------------------
(* tryMatch.                                                               *)

Tick ==
    /\ ~busy
    /\ \E g \in Games : Len(queues[g]) >= MinPlayers[g]  \* otherwise it changes nothing
    /\ busy' = TRUE
    /\ todo' = Names
    /\ UNCHANGED <<queues, issued, cancelled, matches, online, current, rest>>

\* Mutant: tryMatch returns at a name that is not registered.
MutNextGame ==
    \E g \in todo :
        /\ current = None
        /\ todo' = IF g \in Games THEN todo \ {g} ELSE {}
        /\ current' = IF g \in Games THEN g ELSE None
        /\ rest' = IF g \in Games THEN queues[g] ELSE <<>>
        /\ UNCHANGED <<queues, issued, cancelled, matches, online, busy>>

\* range over the map: any order; a name that is not registered is skipped.
NextGame ==
    \E g \in todo :
        /\ current = None
        /\ todo' = todo \ {g}
        /\ current' = IF g \in Games THEN g ELSE None
        /\ rest' = IF g \in Games THEN queues[g] ELSE <<>>
        /\ UNCHANGED <<queues, issued, cancelled, matches, online, busy>>

\* Mutant: the whole queue once the maximum is there.
MutGroupSize(g, q) ==
    IF MaxPlayers[g] > 0 /\ Len(q) >= MaxPlayers[g] THEN Len(q) ELSE MinPlayers[g]

Enough(g, q) == Len(q) >= MinPlayers[g]

GroupSize(g, q) ==
    IF MaxPlayers[g] > 0 /\ Len(q) >= MaxPlayers[g] THEN MaxPlayers[g] ELSE MinPlayers[g]

\* Mutant: the group is cut off the queue's tail.
MutCutGroup ==
    LET n == GroupSize(current, rest)
    IN  /\ current # None /\ Enough(current, rest)
        /\ matches' = Append(matches, [game |-> current, group |-> SubSeq(rest, Len(rest) - n + 1, Len(rest))])
        /\ rest' = SubSeq(rest, 1, Len(rest) - n)
        /\ UNCHANGED <<queues, issued, cancelled, online, busy, todo, current>>

\* One iteration of the inner loop: a group, its room and its announcement.
\* CreateRoom cannot fail, the game being registered.
CutGroup ==
    LET n == GroupSize(current, rest)
    IN  /\ current # None /\ Enough(current, rest)
        /\ matches' = Append(matches, [game |-> current, group |-> SubSeq(rest, 1, n)])
        /\ rest' = SubSeq(rest, n + 1, Len(rest))
        /\ UNCHANGED <<queues, issued, cancelled, online, busy, todo, current>>

\* Mutant: the stored queue keeps the entries that were matched.
MutStoreRest ==
    /\ current # None /\ ~Enough(current, rest)
    /\ current' = None
    /\ rest' = <<>>
    /\ UNCHANGED <<queues, issued, cancelled, matches, online, busy, todo>>

StoreRest ==
    /\ current # None /\ ~Enough(current, rest)
    /\ queues' = [queues EXCEPT ![current] = rest]
    /\ current' = None
    /\ rest' = <<>>
    /\ UNCHANGED <<issued, cancelled, matches, online, busy, todo>>

TickEnd ==
    /\ busy /\ current = None /\ todo = {}
    /\ busy' = FALSE
    /\ UNCHANGED <<queues, issued, cancelled, matches, online, todo, current, rest>>

-----------------------------------------------------------------------------
TickStep == Tick \/ NextGame \/ CutGroup \/ StoreRest \/ TickEnd

Next ==
    \/ \E p \in Players : Connect(p) \/ Disconnect(p)
    \/ \E p \in Players, g \in Names : Enqueue(p, g) \/ Dequeue(p, g)
    \/ TickStep

Spec == Init /\ [][Next]_vars

\* A group has been cut off, and OnMatch writes to its players' connections.
Notifying == current # None /\ rest # queues[current]

\* The ticker fires for ever and its goroutine is scheduled; clients need not do anything,
\* not even read what OnMatch sends them, so it need not return.
FairSpec == Spec /\ WF_vars(~Notifying /\ TickStep)

-----------------------------------------------------------------------------
(* Properties.                                                             *)

\* What the queue of g holds: the local slice while tryMatch cuts it.
Waiting(g) == IF current = g THEN rest ELSE queues[g]
WaitingTickets == UNION {Tickets(Waiting(g)) : g \in Names}

\* Places of entries: a group and a position in it, a queue and a position in it.
MatchedPlaces ==
    {x \in (DOMAIN matches) \X (1..MaxTickets) : x[2] \in DOMAIN matches[x[1]].group}
WaitingPlaces ==
    {x \in Names \X (1..MaxTickets) : x[2] \in DOMAIN Waiting(x[1])}

\* No request is lost and none is served twice: every ticket is waiting in one place
\* of one queue, or was cancelled, or is in one place of one group.
TicketsConserved ==
    /\ 1..issued = cancelled \cup MatchedTickets \cup WaitingTickets
    /\ issued = Cardinality(cancelled) + Cardinality(MatchedPlaces) + Cardinality(WaitingPlaces)

\* First come, first served: whoever is still waiting for a game came after everybody
\* who was matched for it.
NoOvertaking ==
    \A g \in Names, i \in DOMAIN matches :
        matches[i].game = g =>
            \A a \in Tickets(matches[i].group), b \in Tickets(Waiting(g)) : a < b

\* A group is neither too small nor too large for its game.
GroupFits ==
    \A i \in DOMAIN matches :
        LET g == matches[i].game
            n == Len(matches[i].group)
        IN  n >= MinPlayers[g] /\ (MaxPlayers[g] > 0 => n <= MaxPlayers[g])

\* When tryMatch gives up the mutex, no registered game has a full group waiting.
TickDrains ==
    [][busy /\ ~busy' => \A g \in Games : Len(queues'[g]) < MinPlayers[g]]_vars

Service ==
    INSTANCE MatchService
    WITH filed <- issued,
         waiting <- [g \in Names |-> Range(Waiting(g))],
         served <- {[game |-> matches[i].game, group |-> Range(matches[i].group)] : i \in DOMAIN matches}

\* Requests between two ticks, gaps closed in slices and queues cut while their stored
\* copies still have what was cut off are a history of requests that are filed,
\* withdrawn and served in single steps, in order of arrival.
ImplementsService == Service!Spec

\* Once there are players enough for a game, those at the head of its queue are matched,
\* all of them, unless one of them cancels, or OnMatch never comes back from writing to a
\* client that has stopped reading.
HeadIsMatched ==
    \/ <>[]Notifying
    \/ \A g \in Games : \A S \in kSubset(MinPlayers[g], 1..MaxTickets) :
           (Len(queues[g]) >= MinPlayers[g] /\ Tickets(SubSeq(queues[g], 1, MinPlayers[g])) = S)
               ~> (S \subseteq MatchedTickets \/ S \cap cancelled # {})
=============================================================================
