------------------------------- MODULE Lobby -------------------------------
(***************************************************************************)
(* The lobby: its map of rooms, the rooms' rosters and life cycle, and the *)
(* request handlers that change them.                                      *)
(*                                                                         *)
(* Every connection has one goroutine (handleWS) that runs one handler at  *)
(* a time; the match queue's ticker goroutine creates and fills rooms      *)
(* beside them.  A handler takes lobby.mu and room.mu several times and    *)
(* releases them in between, so it is modelled as a sequence of steps, one *)
(* per critical section: pc says which critical section comes next and at  *)
(* is the *Room the handler has already looked up.  Requests that are      *)
(* refused, and requests that only read, change no state and are not       *)
(* actions.                                                                *)
(***************************************************************************)
EXTENDS Integers, Sequences, FiniteSets

CONSTANTS
    Sessions,       \* connection slots; a slot is reused after it is gone
    Players,        \* player ids of the white list
    Identities,     \* Identities[s]: the players the client of slot s can log in as
    RoomIds,        \* the uuids CreateRoom may draw, each at most once
    Games,          \* names in the game registry
    TankGames,      \* those whose instance is the tank battle
    MinPlayers, MaxPlayers,  \* per game
    None

ASSUME IdentitiesAssumption == Identities \in [Sessions -> SUBSET Players]
ASSUME RoomIdsAssumption == IsFiniteSet(RoomIds)
ASSUME GamesAssumption == TankGames \subseteq Games
ASSUME SeatsAssumption ==
    /\ MinPlayers \in [Games -> Nat \ {0}]
    /\ MaxPlayers \in [Games -> Nat \ {0}]
    /\ \A g \in Games : MinPlayers[g] <= MaxPlayers[g]
ASSUME NoneAssumption ==
    None \notin Players /\ None \notin RoomIds /\ None \notin Games /\ None \notin Sessions

VARIABLES
    rooms,          \* Lobby.rooms: the listed room ids (the instance map has the same keys)
    state,          \* Room.State; "unused" before the id is drawn
    game,           \* Room.GameName
    owner,          \* Room.OwnerID
    members,        \* keys of Room.Players
    ready,          \* members with IsReady
    inst,           \* Room.GameInstance: "new", "running", or "wedged" (mutex held for ever)
    registered,     \* players handed to RegisterPlayer
    pc,             \* next critical section of the session's goroutine
    player,         \* Session.PlayerID
    roomOf,         \* Session.RoomID, None for ""
    at,             \* the handler's local variable room
    closing,        \* sessions running handleWS's deferred cleanup
    mmRoom,         \* the room tryMatch is filling
    mmGroup,        \* matched: the players it was made for
    mmNext          \* index of the next one to add

roomVars == <<rooms, state, game, owner, members, ready, inst, registered>>
sessVars == <<pc, player, roomOf, at, closing>>
mmVars == <<mmRoom, mmGroup, mmNext>>
vars == <<rooms, state, game, owner, members, ready, inst, registered,
          pc, player, roomOf, at, closing, mmRoom, mmGroup, mmNext>>

\* RoomEnded exists in the code but nothing assigns it.
RoomStates == {"unused", "waiting", "playing", "ended", "closed"}
InstStates == {"new", "running", "wedged"}
Steps == {"gone", "idle", "creating", "joining", "leaving", "counting", "dropping",
          "readying", "starting", "registering", "launching", "moving", "panicking"}

RoomTypeOK ==
    /\ rooms \subseteq RoomIds
    /\ state \in [RoomIds -> RoomStates]
    /\ game \in [RoomIds -> Games \cup {None}]
    /\ owner \in [RoomIds -> Players \cup {None}]
    /\ members \in [RoomIds -> SUBSET Players]
    /\ ready \in [RoomIds -> SUBSET Players]
    /\ inst \in [RoomIds -> InstStates]
    /\ registered \in [RoomIds -> SUBSET Players]
    /\ \A r \in RoomIds : ready[r] \subseteq members[r]

SessionTypeOK ==
    /\ pc \in [Sessions -> Steps]
    /\ player \in [Sessions -> Players \cup {None}]
    /\ roomOf \in [Sessions -> RoomIds \cup {None}]
    /\ at \in [Sessions -> RoomIds \cup {None}]
    /\ closing \subseteq Sessions

MatchTypeOK ==
    /\ mmRoom \in RoomIds \cup {None}
    /\ mmGroup \in Seq(Players)
    /\ mmNext \in Nat

\* The types of the state; a ready mark belongs to a member.
TypeOK == RoomTypeOK /\ SessionTypeOK /\ MatchTypeOK

Init ==
    /\ rooms = {}
    /\ state = [r \in RoomIds |-> "unused"]
    /\ game = [r \in RoomIds |-> None]
    /\ owner = [r \in RoomIds |-> None]
    /\ members = [r \in RoomIds |-> {}]
    /\ ready = [r \in RoomIds |-> {}]
    /\ inst = [r \in RoomIds |-> "new"]
    /\ registered = [r \in RoomIds |-> {}]
    /\ pc = [s \in Sessions |-> "gone"]
    /\ player = [s \in Sessions |-> None]
    /\ roomOf = [s \in Sessions |-> None]
    /\ at = [s \in Sessions |-> None]
    /\ closing = {}
    /\ mmRoom = None
    /\ mmGroup = <<>>
    /\ mmNext = 1

-----------------------------------------------------------------------------
(* Rooms: what one critical section of room.mu or lobby.mu does.           *)

\* NewRoom under lobby.mu, with a game instance; OnInit is never called.
NewRoom(r, g, p) ==
    /\ state[r] = "unused"
    /\ rooms' = rooms \cup {r}
    /\ state' = [state EXCEPT ![r] = "waiting"]
    /\ game' = [game EXCEPT ![r] = g]
    /\ owner' = [owner EXCEPT ![r] = p]
    /\ UNCHANGED <<members, ready, inst, registered>>

\* Mutant: one seat too many.
MutFullOffByOne(r) == Cardinality(members[r]) > MaxPlayers[game[r]]

Full(r) == Cardinality(members[r]) >= MaxPlayers[game[r]]

\* AddPlayer, the part that succeeds: the caller has seen that r is not Full.
AddPlayer(r, p) ==
    /\ members' = [members EXCEPT ![r] = @ \cup {p}]
    /\ UNCHANGED <<rooms, state, game, owner, ready, inst, registered>>

\* Mutants: an emptied room stays as it is; only a waiting one closes.
MutStaysOpen(r, ps) == state[r]
MutOnlyWaitingCloses(r, ps) ==
    IF ps = {} /\ state[r] = "waiting" THEN "closed" ELSE state[r]

\* State after a removal that leaves the players ps: the room nobody is in closes.
StateLeftWith(r, ps) == IF ps = {} THEN "closed" ELSE state[r]

\* Mutant: the leaver's ready mark is forgotten.
MutRemoveKeepsReady(r, p) ==
    /\ members' = [members EXCEPT ![r] = @ \ {p}]
    /\ state' = [state EXCEPT ![r] = StateLeftWith(r, members[r] \ {p})]
    /\ UNCHANGED <<rooms, game, owner, ready, inst, registered>>

RemovePlayer(r, p) ==
    /\ members' = [members EXCEPT ![r] = @ \ {p}]
    /\ ready' = [ready EXCEPT ![r] = @ \ {p}]
    /\ state' = [state EXCEPT ![r] = StateLeftWith(r, members[r] \ {p})]
    /\ UNCHANGED <<rooms, game, owner, inst, registered>>

RemoveRoom(r) ==
    /\ rooms' = rooms \ {r}
    /\ UNCHANGED <<state, game, owner, members, ready, inst, registered>>

-----------------------------------------------------------------------------
(* The session's goroutine.                                                *)

\* From one critical section to the next; the handler keeps its room r.
Go(s, from, to, r) ==
    /\ pc[s] = from
    /\ pc' = [pc EXCEPT ![s] = to]
    /\ at' = [at EXCEPT ![s] = r]

\* The end of a handler: back to the read loop, or, in the deferred cleanup, the
\* end of the connection.  RoomID becomes r.
Finish(s, from, r) ==
    /\ pc[s] = from
    /\ pc' = [pc EXCEPT ![s] = IF s \in closing THEN "gone" ELSE "idle"]
    /\ at' = [at EXCEPT ![s] = None]
    /\ roomOf' = [roomOf EXCEPT ![s] = IF s \in closing THEN None ELSE r]
    /\ player' = [player EXCEPT ![s] = IF s \in closing THEN None ELSE @]
    /\ closing' = closing \ {s}
    /\ UNCHANGED mmVars

\* A session reaches the lobby only after auth.login (AuthMiddleware), and may
\* log in again, as another player, at any time; RoomID stays what it was.
Login(s) ==
    \E p \in Identities[s] \ {player[s]} :
        /\ pc[s] \in {"gone", "idle"}
        /\ pc' = [pc EXCEPT ![s] = "idle"]
        /\ player' = [player EXCEPT ![s] = p]
        /\ UNCHANGED <<roomVars, mmVars, roomOf, at, closing>>

\* lobby.create_room, first half: the room is listed before its creator is in it.
\* The handler does not ask whether the session already is in a room.
CreateRoom(s) ==
    \E r \in RoomIds, g \in Games :
        /\ Go(s, "idle", "creating", r)
        /\ NewRoom(r, g, player[s])
        /\ UNCHANGED <<mmVars, player, roomOf, closing>>

\* Second half: AddPlayer's error is ignored, RoomID is set in either case.
AddCreator(s) ==
    /\ Finish(s, "creating", at[s])
    /\ IF Full(at[s]) THEN UNCHANGED roomVars ELSE AddPlayer(at[s], player[s])

\* lobby.join_room up to GetRoom.
JoinRoom(s) ==
    \E r \in rooms :
        /\ roomOf[s] = None
        /\ Go(s, "idle", "joining", r)
        /\ UNCHANGED <<roomVars, mmVars, player, roomOf, closing>>

AddJoiner(s) ==
    \/ /\ Finish(s, "joining", at[s])
       /\ ~Full(at[s])
       /\ AddPlayer(at[s], player[s])
    \/ /\ Finish(s, "joining", roomOf[s])
       /\ Full(at[s])
       /\ UNCHANGED roomVars

\* lobby.leave_room up to GetRoom.
LeaveRoom(s) ==
    \/ /\ roomOf[s] \in rooms
       /\ Go(s, "idle", "leaving", roomOf[s])
       /\ UNCHANGED <<roomVars, mmVars, player, roomOf, closing>>
    \/ /\ roomOf[s] \in RoomIds \ rooms
       /\ Finish(s, "idle", None)
       /\ UNCHANGED roomVars

\* handleWS's deferred cleanup up to GetRoom: when the client is gone and the
\* read loop ends, or when a handler's panic unwinds through it.
Cleanup(s, from) ==
    \/ /\ roomOf[s] \in rooms
       /\ Go(s, from, "leaving", roomOf[s])
       /\ closing' = closing \cup {s}
       /\ UNCHANGED <<roomVars, mmVars, player, roomOf>>
    \/ /\ roomOf[s] \notin rooms
       /\ pc[s] = from
       /\ pc' = [pc EXCEPT ![s] = "gone"]
       /\ at' = [at EXCEPT ![s] = None]
       /\ roomOf' = [roomOf EXCEPT ![s] = None]
       /\ player' = [player EXCEPT ![s] = None]
       /\ UNCHANGED <<roomVars, mmVars, closing>>

Disconnect(s) == Cleanup(s, "idle")
Unwind(s) == Cleanup(s, "panicking")

\* Shared by the leave handler and the cleanup: RemovePlayer, PlayerCount and
\* RemoveRoom are three critical sections.
TakeOut(s) ==
    /\ Go(s, "leaving", "counting", at[s])
    /\ RemovePlayer(at[s], player[s])
    /\ UNCHANGED <<mmVars, player, roomOf, closing>>

\* Mutants: the cleanup does not remove the room; the last player but one does.
MutCountLeftNotOnCleanup(s) ==
    \/ /\ Go(s, "counting", "dropping", at[s])
       /\ members[at[s]] = {} /\ s \notin closing
       /\ UNCHANGED <<roomVars, mmVars, player, roomOf, closing>>
    \/ /\ Finish(s, "counting", None)
       /\ members[at[s]] # {} \/ s \in closing
       /\ UNCHANGED roomVars
MutCountLeftOne(s) ==
    \/ /\ Go(s, "counting", "dropping", at[s])
       /\ Cardinality(members[at[s]]) <= 1
       /\ UNCHANGED <<roomVars, mmVars, player, roomOf, closing>>
    \/ /\ Finish(s, "counting", None)
       /\ Cardinality(members[at[s]]) > 1
       /\ UNCHANGED roomVars

CountLeft(s) ==
    \/ /\ Go(s, "counting", "dropping", at[s])
       /\ members[at[s]] = {}
       /\ UNCHANGED <<roomVars, mmVars, player, roomOf, closing>>
    \/ /\ Finish(s, "counting", None)
       /\ members[at[s]] # {}
       /\ UNCHANGED roomVars

DropRoom(s) ==
    /\ Finish(s, "dropping", None)
    /\ RemoveRoom(at[s])

\* room.ready: a toggle, without effect for a session that is no member.
Ready(s) ==
    /\ roomOf[s] \in rooms
    /\ Go(s, "idle", "readying", roomOf[s])
    /\ UNCHANGED <<roomVars, mmVars, player, roomOf, closing>>

ToggleReady(s) ==
    LET r == at[s]
        p == player[s]
        toggled == IF p \in ready[r] THEN ready[r] \ {p} ELSE ready[r] \cup {p}
    IN  /\ Finish(s, "readying", roomOf[s])
        /\ ready' = [ready EXCEPT ![r] = IF p \in members[r] THEN toggled ELSE @]
        /\ UNCHANGED <<rooms, state, game, owner, members, inst, registered>>

\* room.start_game up to the owner check; OwnerID never changes.
StartGame(s) ==
    /\ roomOf[s] \in rooms
    /\ owner[roomOf[s]] = player[s]
    /\ Go(s, "idle", "starting", roomOf[s])
    /\ UNCHANGED <<roomVars, mmVars, player, roomOf, closing>>

\* Mutant: only a closed room is refused.
MutMayStartUnlessClosed(r) == state[r] # "closed"

\* The check of State; readiness and the number of players are not looked at.
MayStart(r) == state[r] = "waiting"

\* The check-and-set under room.mu.
SetPlaying(s) ==
    \/ /\ Go(s, "starting", "registering", at[s])
       /\ MayStart(at[s])
       /\ state' = [state EXCEPT ![at[s]] = "playing"]
       /\ UNCHANGED <<rooms, game, owner, members, ready, inst, registered>>
       /\ UNCHANGED <<mmVars, player, roomOf, closing>>
    \/ /\ Finish(s, "starting", roomOf[s])
       /\ ~MayStart(at[s])
       /\ UNCHANGED roomVars

\* RegisterPlayer for every member under room.mu; only the tank battle has it.
RegisterPlayers(s) ==
    LET r == at[s]
    IN  /\ Go(s, "registering", "launching", r)
        /\ registered' = [registered EXCEPT ![r] = IF game[r] \in TankGames THEN members[r] ELSE @]
        /\ UNCHANGED <<rooms, state, game, owner, members, ready, inst>>
        /\ UNCHANGED <<mmVars, player, roomOf, closing>>

\* The tank battle's OnStart places every registered player on the map OnInit
\* would have loaded: with a player it panics on the nil map, its mutex held.
LaunchPanics(r) == game[r] \in TankGames /\ registered[r] # {}

Launch(s) ==
    LET r == at[s]
    IN  /\ \/ /\ Finish(s, "launching", roomOf[s])
              /\ ~LaunchPanics(r)
           \/ /\ Go(s, "launching", "panicking", None)
              /\ LaunchPanics(r)
              /\ UNCHANGED <<mmVars, player, roomOf, closing>>
        /\ inst' = [inst EXCEPT ![r] = IF LaunchPanics(r) THEN "wedged" ELSE "running"]
        /\ UNCHANGED <<rooms, state, game, owner, members, ready, registered>>

\* game.move up to the call of OnMessage; it needs the tank battle's mutex.
GameMove(s) ==
    /\ roomOf[s] \in rooms
    /\ state[roomOf[s]] = "playing"
    /\ player[s] \in members[roomOf[s]]
    /\ Go(s, "idle", "moving", roomOf[s])
    /\ UNCHANGED <<roomVars, mmVars, player, roomOf, closing>>

OnMessage(s) ==
    /\ Finish(s, "moving", roomOf[s])
    /\ inst[at[s]] # "wedged"
    /\ UNCHANGED roomVars

-----------------------------------------------------------------------------
(* The match loop, as the lobby sees it: any group of queue entries, the   *)
(* same player perhaps twice; MatchQueue models which.                     *)

MatchSizes(g) == {MinPlayers[g], MaxPlayers[g]}

MatchCreate ==
    \E r \in RoomIds, g \in Games :
        \E k \in MatchSizes(g) : \E group \in [1..k -> Players] :
            /\ mmRoom = None
            /\ NewRoom(r, g, group[1])
            /\ mmRoom' = r
            /\ mmGroup' = group
            /\ mmNext' = 1
            /\ UNCHANGED sessVars

\* AddPlayer's error is ignored; the players' sessions keep their RoomID.
MatchAdd ==
    /\ mmNext <= Len(mmGroup)
    /\ IF Full(mmRoom) THEN UNCHANGED roomVars ELSE AddPlayer(mmRoom, mmGroup[mmNext])
    /\ mmNext' = mmNext + 1
    /\ UNCHANGED <<sessVars, mmRoom, mmGroup>>

\* OnMatch sends event.match_found to the players' connections.
MatchNotify ==
    /\ mmRoom # None
    /\ mmNext > Len(mmGroup)
    /\ mmRoom' = None
    /\ mmGroup' = <<>>
    /\ mmNext' = 1
    /\ UNCHANGED <<roomVars, sessVars>>

-----------------------------------------------------------------------------
\* Handlers run on their own; clients decide about requests.
Handler(s) ==
    \/ AddCreator(s) \/ AddJoiner(s) \/ TakeOut(s) \/ CountLeft(s) \/ DropRoom(s)
    \/ ToggleReady(s) \/ SetPlaying(s) \/ RegisterPlayers(s) \/ Launch(s)
    \/ OnMessage(s) \/ Unwind(s)

Request(s) ==
    \/ Login(s) \/ CreateRoom(s) \/ JoinRoom(s) \/ LeaveRoom(s) \/ Ready(s)
    \/ StartGame(s) \/ GameMove(s) \/ Disconnect(s)

Next ==
    \/ \E s \in Sessions : Request(s) \/ Handler(s)
    \/ MatchCreate \/ MatchAdd \/ MatchNotify

Spec == Init /\ [][Next]_vars

\* The goroutine of s broadcasts the player_left of its leave_room.  A client that stops
\* reading can keep it from the rest of the handler; the cleanup does not broadcast.
Telling(s) == pc[s] = "counting" /\ s \notin closing

\* Goroutines are scheduled; no fairness of what clients send, or of their reading.
Fairness ==
    /\ \A s \in Sessions : WF_vars(~Telling(s) /\ Handler(s))
    /\ WF_vars(MatchAdd)

FairSpec == Spec /\ Fairness

\* And when, beyond that, all clients read.
ReadingSpec ==
    /\ Spec
    /\ \A s \in Sessions : WF_vars(Handler(s))
    /\ WF_vars(MatchAdd \/ MatchNotify)

-----------------------------------------------------------------------------
(* Properties.                                                             *)

\* A room never holds more players than its game allows, whatever order creators,
\* joiners and the match loop reach AddPlayer in.
Capacity ==
    \A r \in RoomIds :
        state[r] # "unused" => Cardinality(members[r]) <= MaxPlayers[game[r]]

\* Somebody is about to put a first player into r.
Filling(r) ==
    \/ \E s \in Sessions : pc[s] = "creating" /\ at[s] = r
    \/ mmRoom = r /\ mmNext = 1

\* Somebody is about to count r's players, or has found none.
Reaping(r) == \E s \in Sessions : pc[s] \in {"counting", "dropping"} /\ at[s] = r

\* No room leaks: a listed room without players is one that a handler in progress
\* is going to fill or to remove, although removing a player, counting the rest
\* and removing the room are separate critical sections of concurrent leavers.
EmptyRoomIsTended ==
    \A r \in rooms : members[r] = {} => Filling(r) \/ Reaping(r)

\* list_rooms shows waiting rooms: one without players is still being set up, never
\* one that everybody has left.
WaitingRoomIsLive ==
    \A r \in RoomIds : state[r] = "waiting" /\ members[r] = {} => Filling(r)

\* A room is taken off the list only once it is closed, so a handler that still holds
\* the *Room cannot start a game in it.
DelistedIsClosed ==
    \A r \in RoomIds \ rooms : state[r] \in {"unused", "closed"}

Launchers(r) == {s \in Sessions : pc[s] \in {"registering", "launching"} /\ at[s] = r}

\* At most one start_game gets past the check of State, so OnStart runs at most once
\* for an instance, also when the owner sends it over several connections; and the
\* instance of a room that has not been started is untouched.
LaunchDiscipline ==
    \A r \in RoomIds :
        /\ \A s, t \in Launchers(r) : s = t
        /\ Launchers(r) # {} => inst[r] = "new"
        /\ state[r] \in {"unused", "waiting"} =>
               Launchers(r) = {} /\ inst[r] = "new" /\ registered[r] = {}

\* OnStart of r's instance has not been reached, may be reached, or has been called.
LaunchOf(r) == IF inst[r] # "new" THEN "done" ELSE IF Launchers(r) # {} THEN "due" ELSE "no"

Lifecycle ==
    INSTANCE RoomLifecycle
    WITH Seats <- MaxPlayers, life <- state, played <- game, who <- members,
         listed <- rooms, launch <- [r \in RoomIds |-> LaunchOf(r)]

\* The handlers' critical sections, in whatever order they come, are a history of rooms
\* that are opened, entered, left, started, launched and delisted in single steps.
ImplementsLifecycle == Lifecycle!Spec

\* A room nobody is in any more is delisted, or somebody enters it first, unless for
\* ever somebody who has left it broadcasts to a client that has stopped reading.
EmptyRoomIsDelisted ==
    \A r \in RoomIds :
        Lifecycle!Tended(r) \/ \E s \in Sessions : <>[](Telling(s) /\ at[s] = r)

-----------------------------------------------------------------------------
(* What the documentation says and the code does not do.                   *)

\* "Closed (removed from memory)" (2026-07-23-game-server-design.md, the room life
\* cycle): a closed room does not stay on the list.
ClosedIsRemoved == \A r \in RoomIds : (state[r] = "closed") ~> (r \notin rooms)

\* Starting the game launches it (tankbattle-api.md: the server then broadcasts the
\* state 20 times a second).
StartedGameRuns ==
    \A r \in RoomIds :
        (state[r] = "playing" /\ members[r] # {}) ~> (inst[r] = "running" \/ state[r] = "closed")

\* The match loop puts the matched players into the room it created for them
\* (2026-07-23-game-server-design.md, the matching system).
MatchedAreSeated ==
    mmRoom # None /\ mmNext > Len(mmGroup) =>
        \A i \in 1..Len(mmGroup) : mmGroup[i] \in members[mmRoom]
=============================================================================
