--------------------------- MODULE RoomLifecycle ----------------------------
(***************************************************************************)
(* What the lobby promises of its rooms, whoever runs which handler: a     *)
(* room is listed when it is made, entered and left one player at a time,  *)
(* never beyond its seats, started at most once and by one goroutine, is   *)
(* closed by the leaver that empties it, and is taken off the list only    *)
(* when it is closed and somebody had left it.  Lobby implements this with *)
(* handlers of several critical sections each.                             *)
(***************************************************************************)
EXTENDS Integers, FiniteSets

CONSTANTS
    Players, RoomIds, Games,
    Seats,      \* per game
    None

VARIABLES
    life,       \* "unused", "waiting", "playing" or "closed"
    played,     \* the room's game
    who,        \* the players in it
    listed,     \* the rooms on the list
    launch      \* OnStart: "no", "due" once somebody may call it, "done"

lifecycle == <<life, played, who, listed, launch>>

Init ==
    /\ life = [r \in RoomIds |-> "unused"]
    /\ played = [r \in RoomIds |-> None]
    /\ who = [r \in RoomIds |-> {}]
    /\ listed = {}
    /\ launch = [r \in RoomIds |-> "no"]

Open(r, g) ==
    /\ life[r] = "unused"
    /\ life' = [life EXCEPT ![r] = "waiting"]
    /\ played' = [played EXCEPT ![r] = g]
    /\ listed' = listed \cup {r}
    /\ UNCHANGED <<who, launch>>

\* Also while a game is played, and once the room is closed.
Enter(r, p) ==
    /\ life[r] # "unused"
    /\ Cardinality(who[r]) < Seats[played[r]]
    /\ who' = [who EXCEPT ![r] = @ \cup {p}]
    /\ UNCHANGED <<life, played, listed, launch>>

\* Also by somebody who is not in it.
Leave(r, p) ==
    /\ life[r] # "unused"
    /\ who' = [who EXCEPT ![r] = @ \ {p}]
    /\ life' = [life EXCEPT ![r] = IF who[r] \subseteq {p} THEN "closed" ELSE @]
    /\ UNCHANGED <<played, listed, launch>>

Start(r) ==
    /\ life[r] = "waiting"
    /\ life' = [life EXCEPT ![r] = "playing"]
    /\ launch' = [launch EXCEPT ![r] = "due"]
    /\ UNCHANGED <<played, who, listed>>

\* The room may have been closed since it was started.
Launch(r) ==
    /\ life[r] \in {"playing", "closed"}
    /\ launch[r] = "due"
    /\ launch' = [launch EXCEPT ![r] = "done"]
    /\ UNCHANGED <<life, played, who, listed>>

Delist(r) ==
    /\ life[r] = "closed"
    /\ r \in listed
    /\ listed' = listed \ {r}
    /\ UNCHANGED <<life, played, who, launch>>

Next ==
    \E r \in RoomIds :
        \/ \E g \in Games : Open(r, g)
        \/ \E p \in Players : Enter(r, p) \/ Leave(r, p)
        \/ Start(r) \/ Launch(r) \/ Delist(r)

Spec == Init /\ [][Next]_lifecycle

\* Room r does not stay on the list for ever once it is closed and nobody is in it.
Tended(r) == WF_lifecycle(who[r] = {} /\ Delist(r))
=============================================================================
