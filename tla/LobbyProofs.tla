---------------------------- MODULE LobbyProofs ----------------------------
(***************************************************************************)
(* Proofs about Lobby: type correctness and the safety invariants, for any *)
(* sets of connections, players, rooms and games.                          *)
(*                                                                         *)
(* The first half shows that every step keeps the types, the roster sizes  *)
(* and what the handlers rely on (BaseInv), one lemma per way a step       *)
(* changes rooms or a session.  The second half adds the life cycle: who   *)
(* tends an empty room, when a room may be delisted, who may launch.       *)
(***************************************************************************)
EXTENDS Lobby, FiniteSetTheorems, TLAPS

\* The part of a handler that holds a *Room.
HasRoom == Steps \ {"gone", "idle", "panicking"}

\* A connection past auth.login has a player, and the room a handler holds exists.
SessionInv ==
    /\ \A s \in Sessions : pc[s] # "gone" => player[s] \in Players
    /\ \A s \in Sessions : pc[s] \in HasRoom => at[s] \in RoomIds /\ state[at[s]] # "unused"

\* The match loop has a room exactly while it has a group to seat.
MatchInv ==
    /\ mmNext >= 1
    /\ mmRoom = None => mmGroup = <<>>
    /\ mmRoom # None => state[mmRoom] # "unused" /\ Len(mmGroup) >= 1

RoomInv ==
    \A r \in RoomIds :
        /\ state[r] # "unused" => game[r] \in Games
        /\ state[r] = "unused" => members[r] = {}
        /\ r \in rooms => state[r] # "unused"
        /\ IsFiniteSet(members[r])

RoomsOK == RoomTypeOK /\ RoomInv /\ Capacity
SessionsOK == SessionTypeOK /\ SessionInv
MatchOK == MatchTypeOK /\ MatchInv

BaseInv == RoomsOK /\ SessionsOK /\ MatchOK

\* A room id that has been drawn stays drawn.
UsedStays == \A r \in RoomIds : state[r] # "unused" => state'[r] # "unused"

-----------------------------------------------------------------------------
(* What a step does to the rooms.                                          *)

LEMMA RoomsFrame == ASSUME RoomsOK, UNCHANGED roomVars PROVE RoomsOK' /\ UsedStays
  BY DEF RoomsOK, RoomTypeOK, RoomInv, Capacity, UsedStays, roomVars

LEMMA NewRoomKeeps ==
  ASSUME RoomsOK, NEW r \in RoomIds, NEW g \in Games, NEW p \in Players, NewRoom(r, g, p)
  PROVE  RoomsOK' /\ UsedStays /\ state'[r] # "unused"
<1>1. RoomTypeOK' /\ RoomInv' /\ UsedStays /\ state'[r] # "unused"
  BY DEF RoomsOK, RoomTypeOK, RoomInv, UsedStays, NewRoom, RoomStates
<1>2. Capacity'
  <2> SUFFICES ASSUME NEW q \in RoomIds, state'[q] # "unused"
               PROVE  Cardinality(members'[q]) <= MaxPlayers[game'[q]]
    BY DEF Capacity
  <2>1. CASE q = r
    <3>1. members'[r] = {} /\ game'[r] = g
      BY DEF RoomsOK, RoomTypeOK, RoomInv, NewRoom
    <3>2. Cardinality({}) = 0
      BY FS_EmptySet
    <3> QED
      BY <2>1, <3>1, <3>2, SeatsAssumption
  <2>2. CASE q # r
    BY <2>2 DEF RoomsOK, RoomTypeOK, Capacity, NewRoom
  <2> QED
    BY <2>1, <2>2
<1> QED
  BY <1>1, <1>2 DEF RoomsOK

\* AddPlayer after the check that the room is not full.
LEMMA AddPlayerKeeps ==
  ASSUME RoomsOK, NEW r \in RoomIds, NEW p \in Players, state[r] # "unused",
         ~Full(r), AddPlayer(r, p)
  PROVE  RoomsOK' /\ UsedStays
<1>1. /\ IsFiniteSet(members[r] \cup {p})
      /\ Cardinality(members[r] \cup {p}) <= Cardinality(members[r]) + 1
      /\ Cardinality(members[r] \cup {p}) \in Nat
      /\ Cardinality(members[r]) \in Nat
  <2>1. IsFiniteSet(members[r])
    BY DEF RoomsOK, RoomInv
  <2>2. Cardinality(members[r]) \in Nat
    BY <2>1, FS_CardinalityType
  <2>3. /\ IsFiniteSet(members[r] \cup {p})
        /\ Cardinality(members[r] \cup {p}) =
             IF p \in members[r] THEN Cardinality(members[r]) ELSE Cardinality(members[r]) + 1
    BY <2>1, FS_AddElement, Zenon
  <2> QED
    BY <2>2, <2>3
<1>2. RoomTypeOK' /\ UsedStays
  BY DEF RoomsOK, RoomTypeOK, UsedStays, AddPlayer
<1>3. RoomInv'
  BY <1>1 DEF RoomsOK, RoomTypeOK, RoomInv, AddPlayer
<1>4. MaxPlayers[game[r]] \in Nat
  BY SeatsAssumption DEF RoomsOK, RoomInv
<1>5. Capacity'
  <2>1. members' = [members EXCEPT ![r] = @ \cup {p}] /\ UNCHANGED <<state, game>>
    BY DEF AddPlayer
  <2>2. Cardinality(members[r] \cup {p}) <= MaxPlayers[game[r]]
    BY <1>1, <1>4 DEF Full
  <2> QED
    BY <2>1, <2>2 DEF RoomsOK, RoomTypeOK, Capacity
<1> QED
  BY <1>2, <1>3, <1>5 DEF RoomsOK

LEMMA RemovePlayerKeeps ==
  ASSUME RoomsOK, NEW r \in RoomIds, NEW p \in Players, state[r] # "unused", RemovePlayer(r, p)
  PROVE  RoomsOK' /\ UsedStays
<1>1. /\ IsFiniteSet(members[r] \ {p})
      /\ Cardinality(members[r] \ {p}) <= Cardinality(members[r])
      /\ Cardinality(members[r] \ {p}) \in Nat
      /\ Cardinality(members[r]) \in Nat
  <2>1. IsFiniteSet(members[r])
    BY DEF RoomsOK, RoomInv
  <2>2. Cardinality(members[r]) \in Nat
    BY <2>1, FS_CardinalityType
  <2>3. /\ IsFiniteSet(members[r] \ {p})
        /\ Cardinality(members[r] \ {p}) =
             IF p \in members[r] THEN Cardinality(members[r]) - 1 ELSE Cardinality(members[r])
    BY <2>1, FS_RemoveElement, Zenon
  <2>4. Cardinality(members[r] \ {p}) \in Nat
    BY <2>3, FS_CardinalityType
  <2> QED
    BY <2>2, <2>3, <2>4
<1>2. RoomTypeOK' /\ UsedStays
  BY DEF RoomsOK, RoomTypeOK, RoomStates, UsedStays, RemovePlayer, StateLeftWith
<1>3. RoomInv'
  BY <1>1 DEF RoomsOK, RoomTypeOK, RoomInv, RemovePlayer, StateLeftWith
<1>4. MaxPlayers[game[r]] \in Nat
  BY SeatsAssumption DEF RoomsOK, RoomInv
<1>5. Capacity'
  BY <1>1, <1>4 DEF RoomsOK, RoomTypeOK, Capacity, RemovePlayer, StateLeftWith
<1> QED
  BY <1>2, <1>3, <1>5 DEF RoomsOK

LEMMA RemoveRoomKeeps ==
  ASSUME RoomsOK, NEW r \in RoomIds, RemoveRoom(r)
  PROVE  RoomsOK' /\ UsedStays
  BY DEF RoomsOK, RoomTypeOK, RoomInv, Capacity, UsedStays, RemoveRoom

\* The handlers' own updates of ready, state, registered and inst.
LEMMA MarksKeep ==
  ASSUME RoomsOK, NEW s \in Sessions, state[at[s]] # "unused", at[s] \in RoomIds,
         ToggleReady(s) \/ SetPlaying(s) \/ RegisterPlayers(s) \/ Launch(s)
  PROVE  RoomsOK' /\ UsedStays
<1>1. CASE ToggleReady(s)
  BY <1>1 DEF ToggleReady, RoomsOK, RoomTypeOK, RoomInv, Capacity, UsedStays
<1>2. CASE SetPlaying(s)
  BY <1>2 DEF SetPlaying, RoomsOK, RoomTypeOK, RoomInv, Capacity, UsedStays, RoomStates, roomVars
<1>3. CASE RegisterPlayers(s)
  BY <1>3 DEF RegisterPlayers, RoomsOK, RoomTypeOK, RoomInv, Capacity, UsedStays
<1>4. CASE Launch(s)
  BY <1>4 DEF Launch, RoomsOK, RoomTypeOK, RoomInv, Capacity, UsedStays, InstStates
<1> QED
  BY <1>1, <1>2, <1>3, <1>4

-----------------------------------------------------------------------------
(* What a step does to a session and to the match loop.                    *)

LEMMA GoKeeps ==
  ASSUME SessionsOK, RoomTypeOK, UsedStays, NEW s \in Sessions,
         NEW from \in Steps \ {"gone"}, NEW to \in Steps, NEW r \in RoomIds \cup {None},
         Go(s, from, to, r),
         UNCHANGED <<player, roomOf>>, closing' \subseteq Sessions,
         to \in HasRoom => r \in RoomIds /\ state'[r] # "unused"
  PROVE  SessionsOK'
<1>1. SessionTypeOK'
  BY DEF SessionsOK, SessionTypeOK, Go
<1>2. ASSUME NEW t \in Sessions PROVE pc'[t] # "gone" => player'[t] \in Players
  BY DEF SessionsOK, SessionTypeOK, SessionInv, Go
<1>3. ASSUME NEW t \in Sessions, pc'[t] \in HasRoom
      PROVE  at'[t] \in RoomIds /\ state'[at'[t]] # "unused"
  BY <1>3 DEF SessionsOK, SessionTypeOK, SessionInv, Go, UsedStays
<1> QED
  BY <1>1, <1>2, <1>3 DEF SessionsOK, SessionInv

\* A connection that is not in a handler holding a room: the read loop, or the end.
LEMMA RestKeeps ==
  ASSUME SessionsOK, RoomTypeOK, UsedStays, SessionTypeOK', NEW s \in Sessions,
         pc'[s] \in {"gone", "idle"}, pc'[s] = "idle" => player'[s] \in Players,
         \A t \in Sessions \ {s} : pc'[t] = pc[t] /\ player'[t] = player[t] /\ at'[t] = at[t]
  PROVE  SessionsOK'
<1>1. ASSUME NEW t \in Sessions PROVE pc'[t] # "gone" => player'[t] \in Players
  BY DEF SessionsOK, SessionInv
<1>2. ASSUME NEW t \in Sessions, pc'[t] \in HasRoom
      PROVE  at'[t] \in RoomIds /\ state'[at'[t]] # "unused"
  <2>1. t # s
    BY <1>2 DEF HasRoom
  <2> QED
    BY <1>2, <2>1 DEF SessionsOK, SessionInv, UsedStays
<1> QED
  BY <1>1, <1>2 DEF SessionsOK, SessionInv

LEMMA FinishKeeps ==
  ASSUME SessionsOK, RoomTypeOK, UsedStays, NEW s \in Sessions,
         NEW from \in Steps \ {"gone"}, NEW r \in RoomIds \cup {None}, Finish(s, from, r)
  PROVE  SessionsOK'
<1>1. SessionTypeOK'
  BY DEF SessionsOK, SessionTypeOK, Finish, Steps
<1>2. pc'[s] \in {"gone", "idle"} /\ (pc'[s] = "idle" => player'[s] \in Players)
  BY DEF SessionsOK, SessionTypeOK, SessionInv, Finish
<1>3. \A t \in Sessions \ {s} : pc'[t] = pc[t] /\ player'[t] = player[t] /\ at'[t] = at[t]
  BY DEF SessionsOK, SessionTypeOK, Finish
<1> QED
  BY <1>1, <1>2, <1>3, RestKeeps

LEMMA SessionsFrame ==
  ASSUME SessionsOK, RoomTypeOK, UsedStays, UNCHANGED sessVars
  PROVE  SessionsOK'
  BY DEF SessionsOK, SessionTypeOK, SessionInv, UsedStays, sessVars

LEMMA MatchFrame ==
  ASSUME MatchOK, UsedStays, UNCHANGED mmVars
  PROVE  MatchOK'
  BY DEF MatchOK, MatchTypeOK, MatchInv, UsedStays, mmVars

-----------------------------------------------------------------------------
(* Every step keeps BaseInv.                                               *)

\* What a handler that holds a room may assume.
LEMMA InHandler ==
  ASSUME BaseInv, NEW s \in Sessions, pc[s] \in HasRoom
  PROVE  at[s] \in RoomIds /\ state[at[s]] # "unused" /\ player[s] \in Players
  BY DEF BaseInv, SessionsOK, SessionInv, HasRoom

\* What a request handler may assume that has found the session's room.
LEMMA FoundRoom ==
  ASSUME BaseInv, NEW r \in rooms
  PROVE  r \in RoomIds /\ state[r] # "unused"
  BY DEF BaseInv, RoomsOK, RoomTypeOK, RoomInv

\* A step of one session keeps BaseInv when it keeps the rooms' and the sessions' part.
LEMMA SessionStep ==
  ASSUME BaseInv, RoomsOK', SessionsOK', UsedStays, UNCHANGED mmVars
  PROVE  BaseInv'
  BY MatchFrame DEF BaseInv

\* A handler ends without touching the rooms.
LEMMA QuietFinish ==
  ASSUME BaseInv, NEW s \in Sessions, NEW from \in Steps \ {"gone"},
         NEW r \in RoomIds \cup {None}, Finish(s, from, r), UNCHANGED roomVars
  PROVE  BaseInv'
<1>1. RoomsOK' /\ UsedStays
  BY RoomsFrame DEF BaseInv
<1>2. SessionsOK'
  BY <1>1, FinishKeeps DEF BaseInv, RoomsOK
<1>3. UNCHANGED mmVars
  BY DEF Finish
<1> QED
  BY <1>1, <1>2, <1>3, SessionStep

\* A handler goes on without touching the rooms.
LEMMA QuietGo ==
  ASSUME BaseInv, NEW s \in Sessions, NEW from \in Steps \ {"gone"}, NEW to \in Steps,
         NEW r \in RoomIds, state[r] # "unused", Go(s, from, to, r),
         UNCHANGED <<roomVars, mmVars, player, roomOf>>, closing' \subseteq Sessions
  PROVE  BaseInv'
<1>1. RoomsOK' /\ UsedStays
  BY RoomsFrame DEF BaseInv
<1>2. SessionsOK'
  BY <1>1, GoKeeps DEF BaseInv, RoomsOK, UsedStays
<1> QED
  BY <1>1, <1>2, SessionStep

LEMMA CleanupKeepsBase ==
  ASSUME BaseInv, NEW s \in Sessions, NEW from \in Steps \ {"gone"}, Cleanup(s, from)
  PROVE  BaseInv'
<1>1. CASE roomOf[s] \in rooms
  <2>1. /\ Go(s, from, "leaving", roomOf[s])
        /\ UNCHANGED <<roomVars, mmVars, player, roomOf>>
        /\ closing' \subseteq Sessions
    BY <1>1 DEF Cleanup, BaseInv, SessionsOK, SessionTypeOK
  <2>2. roomOf[s] \in RoomIds /\ state[roomOf[s]] # "unused"
    BY <1>1, FoundRoom
  <2> QED
    BY <2>1, <2>2, QuietGo DEF Steps
<1>2. CASE roomOf[s] \notin rooms
  <2>1. RoomsOK' /\ UsedStays /\ UNCHANGED mmVars
    BY <1>2, RoomsFrame DEF Cleanup, BaseInv
  <2>2. SessionTypeOK' /\ pc'[s] = "gone"
    BY <1>2 DEF Cleanup, BaseInv, SessionsOK, SessionTypeOK, Steps
  <2>3. \A t \in Sessions \ {s} : pc'[t] = pc[t] /\ player'[t] = player[t] /\ at'[t] = at[t]
    BY <1>2 DEF Cleanup, BaseInv, SessionsOK, SessionTypeOK
  <2>4. SessionsOK'
    BY <2>1, <2>2, <2>3, RestKeeps DEF BaseInv, RoomsOK
  <2> QED
    BY <2>1, <2>4, SessionStep
<1> QED
  BY <1>1, <1>2

LEMMA RequestsKeepBase ==
  ASSUME BaseInv, NEW s \in Sessions, Request(s)
  PROVE  BaseInv'
<1> USE DEF Steps
<1>1. CASE Login(s)
  <2>1. PICK p \in Identities[s] : Login(s)!(p)
    BY <1>1 DEF Login
  <2>2. p \in Players
    BY <2>1, IdentitiesAssumption
  <2>3. RoomsOK' /\ UsedStays /\ UNCHANGED mmVars
    BY <2>1, RoomsFrame DEF BaseInv
  <2>4. SessionTypeOK' /\ pc'[s] = "idle" /\ player'[s] = p
    BY <2>1, <2>2 DEF BaseInv, SessionsOK, SessionTypeOK
  <2>5. \A t \in Sessions \ {s} : pc'[t] = pc[t] /\ player'[t] = player[t] /\ at'[t] = at[t]
    BY <2>1 DEF BaseInv, SessionsOK, SessionTypeOK
  <2>6. SessionsOK'
    BY <2>2, <2>3, <2>4, <2>5, RestKeeps DEF BaseInv, RoomsOK
  <2> QED
    BY <2>3, <2>6, SessionStep
<1>2. CASE CreateRoom(s)
  <2>1. PICK r \in RoomIds, g \in Games :
          /\ Go(s, "idle", "creating", r)
          /\ NewRoom(r, g, player[s])
          /\ UNCHANGED <<mmVars, player, roomOf, closing>>
    BY <1>2 DEF CreateRoom
  <2>2. pc[s] = "idle" /\ player[s] \in Players
    BY <2>1 DEF Go, BaseInv, SessionsOK, SessionInv
  <2>3. RoomsOK' /\ UsedStays /\ state'[r] # "unused"
    BY <2>1, <2>2, NewRoomKeeps DEF BaseInv
  <2>4. UNCHANGED <<mmVars, player, roomOf, closing>> /\ closing' \subseteq Sessions
    BY <2>1 DEF BaseInv, SessionsOK, SessionTypeOK
  <2>5. SessionsOK'
    BY <2>1, <2>3, <2>4, GoKeeps DEF BaseInv, RoomsOK
  <2> QED
    BY <2>3, <2>4, <2>5, SessionStep
<1>3. CASE JoinRoom(s)
  <2>1. PICK r \in rooms : JoinRoom(s)!(r)
    BY <1>3 DEF JoinRoom
  <2>2. r \in RoomIds /\ state[r] # "unused" /\ closing' \subseteq Sessions
    BY <2>1, FoundRoom DEF BaseInv, SessionsOK, SessionTypeOK
  <2> QED
    BY <2>1, <2>2, QuietGo
<1>4. CASE LeaveRoom(s) \/ Ready(s) \/ StartGame(s) \/ GameMove(s)
  <2>1. CASE \E to \in Steps :
               /\ roomOf[s] \in rooms
               /\ Go(s, "idle", to, roomOf[s])
               /\ UNCHANGED <<roomVars, mmVars, player, roomOf, closing>>
    <3>1. PICK to \in Steps :
               /\ roomOf[s] \in rooms
               /\ Go(s, "idle", to, roomOf[s])
               /\ UNCHANGED <<roomVars, mmVars, player, roomOf, closing>>
      BY <2>1
    <3>2. roomOf[s] \in RoomIds /\ state[roomOf[s]] # "unused" /\ closing' \subseteq Sessions
      BY <3>1, FoundRoom DEF BaseInv, SessionsOK, SessionTypeOK
    <3> QED
      BY <3>1, <3>2, QuietGo
  <2>2. CASE Finish(s, "idle", None) /\ UNCHANGED roomVars
    BY <2>2, QuietFinish
  <2> QED
    BY <1>4, <2>1, <2>2 DEF LeaveRoom, Ready, StartGame, GameMove
<1>5. CASE Disconnect(s)
  <2>1. Cleanup(s, "idle")
    BY <1>5 DEF Disconnect
  <2> QED
    BY <2>1, CleanupKeepsBase
<1> QED
  BY <1>1, <1>2, <1>3, <1>4, <1>5 DEF Request

LEMMA HandlersKeepBase ==
  ASSUME BaseInv, NEW s \in Sessions, Handler(s)
  PROVE  BaseInv'
<1> USE DEF Steps
<1>1. CASE AddCreator(s) \/ AddJoiner(s)
  <2>1. CASE /\ ~Full(at[s]) /\ AddPlayer(at[s], player[s])
             /\ \E from \in {"creating", "joining"} : Finish(s, from, at[s])
    <3>1. at[s] \in RoomIds /\ state[at[s]] # "unused" /\ player[s] \in Players
      BY <2>1, InHandler DEF HasRoom, Finish
    <3>2. RoomsOK' /\ UsedStays
      BY <2>1, <3>1, AddPlayerKeeps DEF BaseInv
    <3>3. SessionsOK' /\ UNCHANGED mmVars
      BY <2>1, <3>1, <3>2, FinishKeeps DEF BaseInv, RoomsOK, Finish
    <3> QED
      BY <3>2, <3>3, SessionStep
  <2>2. CASE /\ UNCHANGED roomVars
             /\ \E from \in {"creating", "joining"}, r \in RoomIds \cup {None} : Finish(s, from, r)
    BY <2>2, QuietFinish
  <2>3. at[s] \in RoomIds \cup {None} /\ roomOf[s] \in RoomIds \cup {None}
    BY DEF BaseInv, SessionsOK, SessionTypeOK
  <2> QED
    BY <1>1, <2>1, <2>2, <2>3 DEF AddCreator, AddJoiner
<1>2. CASE TakeOut(s)
  <2>1. at[s] \in RoomIds /\ state[at[s]] # "unused" /\ player[s] \in Players
    BY <1>2, InHandler DEF HasRoom, TakeOut, Go
  <2>2. RoomsOK' /\ UsedStays
    BY <1>2, <2>1, RemovePlayerKeeps DEF TakeOut, BaseInv
  <2>3. SessionsOK'
    BY <1>2, <2>1, <2>2, GoKeeps DEF TakeOut, UsedStays, BaseInv, RoomsOK, SessionsOK, SessionTypeOK
  <2> QED
    BY <1>2, <2>2, <2>3, SessionStep DEF TakeOut
<1>3. CASE CountLeft(s)
  <2>1. at[s] \in RoomIds /\ state[at[s]] # "unused" /\ closing \subseteq Sessions
    BY <1>3, InHandler DEF HasRoom, CountLeft, Go, Finish, BaseInv, SessionsOK, SessionTypeOK
  <2>2. CASE Go(s, "counting", "dropping", at[s]) /\ UNCHANGED <<roomVars, mmVars, player, roomOf, closing>>
    BY <2>1, <2>2, QuietGo
  <2>3. CASE Finish(s, "counting", None) /\ UNCHANGED roomVars
    BY <2>3, QuietFinish
  <2> QED
    BY <1>3, <2>2, <2>3 DEF CountLeft
<1>4. CASE DropRoom(s)
  <2>1. at[s] \in RoomIds
    BY <1>4, InHandler DEF HasRoom, DropRoom, Finish
  <2>2. RoomsOK' /\ UsedStays
    BY <1>4, <2>1, RemoveRoomKeeps DEF DropRoom, BaseInv
  <2>3. SessionsOK' /\ UNCHANGED mmVars
    BY <1>4, <2>2, FinishKeeps DEF DropRoom, BaseInv, RoomsOK, Finish
  <2> QED
    BY <2>2, <2>3, SessionStep
<1>5. CASE ToggleReady(s) \/ SetPlaying(s) \/ RegisterPlayers(s) \/ Launch(s)
  <2>1. pc[s] \in HasRoom
    BY <1>5 DEF ToggleReady, SetPlaying, RegisterPlayers, Launch, Go, Finish, HasRoom
  <2>2. at[s] \in RoomIds /\ state[at[s]] # "unused"
    BY <2>1, InHandler
  <2>3. RoomsOK' /\ UsedStays
    BY <1>5, <2>2, MarksKeep DEF BaseInv
  <2>4. roomOf[s] \in RoomIds \cup {None} /\ closing \subseteq Sessions
    BY DEF BaseInv, SessionsOK, SessionTypeOK
  <2>5. CASE \E from \in Steps \ {"gone"} : Finish(s, from, roomOf[s])
    <3>1. SessionsOK' /\ UNCHANGED mmVars
      BY <2>3, <2>4, <2>5, FinishKeeps DEF BaseInv, RoomsOK, Finish
    <3> QED
      BY <2>3, <3>1, SessionStep
  <2>6. CASE /\ \E from \in Steps \ {"gone"}, to \in Steps : 
                   \/ Go(s, from, to, at[s])
                   \/ Go(s, from, to, None) /\ to \notin HasRoom
             /\ UNCHANGED <<mmVars, player, roomOf, closing>>
    <3>1. SessionsOK'
      BY <2>2, <2>3, <2>4, <2>6, GoKeeps DEF BaseInv, RoomsOK, UsedStays
    <3> QED
      BY <2>3, <2>6, <3>1, SessionStep
  <2> QED
    BY <1>5, <2>5, <2>6 DEF ToggleReady, SetPlaying, RegisterPlayers, Launch, HasRoom
<1>6. CASE OnMessage(s)
  <2>1. roomOf[s] \in RoomIds \cup {None}
    BY DEF BaseInv, SessionsOK, SessionTypeOK
  <2> QED
    BY <1>6, <2>1, QuietFinish DEF OnMessage
<1>7. CASE Unwind(s)
  BY <1>7, CleanupKeepsBase DEF Unwind
<1> QED
  BY <1>1, <1>2, <1>3, <1>4, <1>5, <1>6, <1>7 DEF Handler

LEMMA MatchKeepsBase ==
  ASSUME BaseInv, MatchCreate \/ MatchAdd \/ MatchNotify
  PROVE  BaseInv'
<1>1. CASE MatchCreate
  <2>1. PICK r \in RoomIds, g \in Games, k \in Nat :
          k \in MatchSizes(g) /\ \E group \in [1..k -> Players] :
          /\ mmRoom = None
          /\ NewRoom(r, g, group[1])
          /\ mmRoom' = r /\ mmGroup' = group /\ mmNext' = 1
          /\ UNCHANGED sessVars
    BY <1>1, SeatsAssumption DEF MatchCreate, MatchSizes
  <2>2. PICK group \in [1..k -> Players] :
          /\ NewRoom(r, g, group[1])
          /\ mmRoom' = r /\ mmGroup' = group /\ mmNext' = 1
          /\ UNCHANGED sessVars
    BY <2>1
  <2>3. k \in Nat \ {0}
    BY <2>1, SeatsAssumption DEF MatchSizes
  <2>4. group \in Seq(Players) /\ group[1] \in Players /\ Len(group) >= 1
    BY <2>2, <2>3
  <2>5. RoomsOK' /\ UsedStays /\ state'[r] # "unused"
    BY <2>2, <2>4, NewRoomKeeps DEF BaseInv
  <2>6. SessionsOK'
    BY <2>2, <2>5, SessionsFrame DEF BaseInv, RoomsOK
  <2>7. MatchOK'
    BY <2>2, <2>4, <2>5, NoneAssumption DEF MatchOK, MatchTypeOK, MatchInv
  <2> QED
    BY <2>5, <2>6, <2>7 DEF BaseInv
<1>2. CASE MatchAdd
  <2>1. mmNext \in 1..Len(mmGroup) /\ mmGroup \in Seq(Players)
    BY <1>2 DEF MatchAdd, BaseInv, MatchOK, MatchTypeOK, MatchInv
  <2>2. mmRoom \in RoomIds /\ state[mmRoom] # "unused" /\ mmGroup[mmNext] \in Players
    BY <2>1 DEF BaseInv, MatchOK, MatchTypeOK, MatchInv
  <2>3. RoomsOK' /\ UsedStays
    BY <1>2, <2>2, AddPlayerKeeps, RoomsFrame DEF MatchAdd, BaseInv
  <2>4. SessionsOK'
    BY <1>2, <2>3, SessionsFrame DEF MatchAdd, BaseInv, RoomsOK
  <2>5. MatchOK'
    BY <1>2, <2>2, <2>3 DEF MatchAdd, BaseInv, MatchOK, MatchTypeOK, MatchInv, UsedStays
  <2> QED
    BY <2>3, <2>4, <2>5 DEF BaseInv
<1>3. CASE MatchNotify
  <2>1. RoomsOK' /\ UsedStays
    BY <1>3, RoomsFrame DEF MatchNotify, BaseInv
  <2>2. SessionsOK'
    BY <1>3, <2>1, SessionsFrame DEF MatchNotify, BaseInv, RoomsOK
  <2>3. MatchOK'
    BY <1>3 DEF MatchNotify, MatchOK, MatchTypeOK, MatchInv
  <2> QED
    BY <2>1, <2>2, <2>3 DEF BaseInv
<1> QED
  BY <1>1, <1>2, <1>3

LEMMA InitBase == Init => BaseInv
<1> SUFFICES ASSUME Init PROVE BaseInv
  OBVIOUS
<1>1. IsFiniteSet({})
  BY FS_EmptySet
<1>2. RoomsOK
  BY <1>1 DEF Init, RoomsOK, RoomTypeOK, RoomInv, Capacity, RoomStates, InstStates
<1>3. SessionsOK
  BY DEF Init, SessionsOK, SessionTypeOK, SessionInv, Steps, HasRoom
<1>4. MatchOK
  BY DEF Init, MatchOK, MatchTypeOK, MatchInv
<1> QED
  BY <1>2, <1>3, <1>4 DEF BaseInv

LEMMA NextBase == BaseInv /\ [Next]_vars => BaseInv'
<1> SUFFICES ASSUME BaseInv, [Next]_vars PROVE BaseInv'
  OBVIOUS
<1>1. CASE \E s \in Sessions : Request(s) \/ Handler(s)
  BY <1>1, RequestsKeepBase, HandlersKeepBase
<1>2. CASE MatchCreate \/ MatchAdd \/ MatchNotify
  BY <1>2, MatchKeepsBase
<1>3. CASE UNCHANGED vars
  <2>1. UNCHANGED roomVars /\ UNCHANGED sessVars /\ UNCHANGED mmVars
    BY <1>3 DEF vars, roomVars, sessVars, mmVars
  <2> QED
    BY <2>1, RoomsFrame, SessionsFrame, MatchFrame DEF BaseInv, RoomsOK
<1> QED
  BY <1>1, <1>2, <1>3 DEF Next

\* BaseInv holds, whatever the handlers of other sessions do.
THEOREM BaseInvariance == Spec => []BaseInv
  BY InitBase, NextBase, PTL DEF Spec

\* The types of Lobby's state, and that a ready mark belongs to a member.
THEOREM TypeCorrect == Spec => []TypeOK
<1>1. BaseInv => TypeOK
  BY DEF BaseInv, RoomsOK, SessionsOK, MatchOK, TypeOK
<1> QED
  BY <1>1, BaseInvariance, PTL

\* No interleaving of creators, joiners and the match loop overfills a room.
THEOREM CapacityHolds == Spec => []Capacity
<1>1. BaseInv => Capacity
  BY DEF BaseInv, RoomsOK
<1> QED
  BY <1>1, BaseInvariance, PTL

-----------------------------------------------------------------------------
(***************************************************************************)
(* The life cycle.  An empty room that nobody is filling has been closed   *)
(* by the last leaver's RemovePlayer, in the same critical section; closed *)
(* is final because start_game only takes a waiting room; so whoever finds *)
(* no players left removes a closed room, and whoever finds some leaves it *)
(* to a later leaver.                                                      *)
(***************************************************************************)

\* Whoever is about to remove a room removes a closed one.
ReapersInv ==
    \A s \in Sessions :
        /\ pc[s] = "counting" /\ members[at[s]] = {} => state[at[s]] = "closed"
        /\ pc[s] = "dropping" => state[at[s]] = "closed"

EmptyIsOver ==
    \A r \in RoomIds : members[r] = {} => state[r] \in {"unused", "closed"} \/ Filling(r)

IInv ==
    /\ BaseInv
    /\ ReapersInv
    /\ EmptyIsOver
    /\ EmptyRoomIsTended
    /\ DelistedIsClosed
    /\ LaunchDiscipline

\* The other sessions and the match loop stay where they are.
OnlyMoves(s) ==
    /\ \A t \in Sessions \ {s} : pc'[t] = pc[t] /\ at'[t] = at[t]
    /\ UNCHANGED mmVars

LEMMA OnlyOneMoves ==
  ASSUME BaseInv, NEW s \in Sessions, Request(s) \/ Handler(s)
  PROVE  OnlyMoves(s)
<1> USE DEF BaseInv, SessionsOK, SessionTypeOK, OnlyMoves, Go, Finish, mmVars
<1>1. CASE Login(s) \/ CreateRoom(s) \/ JoinRoom(s) \/ LeaveRoom(s) \/ Ready(s)
  BY <1>1 DEF Login, CreateRoom, JoinRoom, LeaveRoom, Ready
<1>2. CASE StartGame(s) \/ GameMove(s) \/ Disconnect(s) \/ Unwind(s)
  BY <1>2 DEF StartGame, GameMove, Disconnect, Unwind, Cleanup
<1>3. CASE AddCreator(s) \/ AddJoiner(s) \/ TakeOut(s) \/ CountLeft(s) \/ DropRoom(s)
  BY <1>3 DEF AddCreator, AddJoiner, TakeOut, CountLeft, DropRoom
<1>4. CASE ToggleReady(s) \/ SetPlaying(s) \/ RegisterPlayers(s) \/ Launch(s) \/ OnMessage(s)
  BY <1>4 DEF ToggleReady, SetPlaying, RegisterPlayers, Launch, OnMessage
<1> QED
  BY <1>1, <1>2, <1>3, <1>4 DEF Request, Handler

\* A room without players is not full.
LEMMA FullIsPopulated ==
  ASSUME BaseInv, NEW r \in RoomIds, state[r] # "unused", Full(r)
  PROVE  members[r] # {}
<1>1. MaxPlayers[game[r]] \in Nat \ {0}
  BY SeatsAssumption DEF BaseInv, RoomsOK, RoomInv
<1>2. Cardinality({}) = 0
  BY FS_EmptySet
<1> QED
  BY <1>1, <1>2 DEF Full

\* After AddPlayer, whether it let the player in or found the room full, somebody is in
\* the room, nobody has left any room and no other room has changed.
LEMMA AddFills ==
  ASSUME BaseInv, NEW r \in RoomIds, state[r] # "unused",
         \/ Full(r) /\ members' = members
         \/ \E p : members' = [members EXCEPT ![r] = @ \cup {p}]
  PROVE  /\ members'[r] # {}
         /\ \A q \in RoomIds : members[q] \subseteq members'[q]
         /\ \A q \in RoomIds \ {r} : members'[q] = members[q]
<1>1. members \in [RoomIds -> SUBSET Players]
  BY DEF BaseInv, RoomsOK, RoomTypeOK
<1>2. CASE Full(r) /\ members' = members
  BY <1>2, FullIsPopulated
<1>3. ASSUME NEW p, members' = [members EXCEPT ![r] = @ \cup {p}]
      PROVE  /\ members'[r] = members[r] \cup {p}
             /\ \A q \in RoomIds \ {r} : members'[q] = members[q]
  BY ONLY <1>1, <1>3
<1> QED
  BY <1>2, <1>3

LifeInv == ReapersInv /\ EmptyIsOver /\ EmptyRoomIsTended /\ DelistedIsClosed

\* A step of s that moves neither players nor rooms, and no step of a reaper.
QuietLife(s) ==
    /\ UNCHANGED <<rooms, state, members>>
    /\ pc[s] \notin {"creating", "counting", "dropping"}
    /\ pc'[s] \notin {"counting", "dropping"}

LEMMA FillersStay ==
  ASSUME NEW s \in Sessions, OnlyMoves(s), pc[s] # "creating", NEW r \in RoomIds, Filling(r)
  PROVE  Filling(r)'
  BY DEF OnlyMoves, Filling, mmVars

LEMMA ReapersStay ==
  ASSUME NEW s \in Sessions, OnlyMoves(s), pc[s] \notin {"counting", "dropping"},
         NEW r \in RoomIds, Reaping(r)
  PROVE  Reaping(r)'
  BY DEF OnlyMoves, Reaping

LEMMA QuietLifeStep ==
  ASSUME BaseInv, LifeInv, NEW s \in Sessions, OnlyMoves(s), QuietLife(s)
  PROVE  LifeInv'
<1>1. ReapersInv'
  BY DEF LifeInv, ReapersInv, OnlyMoves, QuietLife
<1>2. EmptyIsOver'
  BY FillersStay DEF LifeInv, EmptyIsOver, QuietLife
<1>3. EmptyRoomIsTended'
  BY FillersStay, ReapersStay DEF LifeInv, EmptyRoomIsTended, QuietLife, BaseInv, RoomsOK, RoomTypeOK
<1>4. DelistedIsClosed'
  BY DEF LifeInv, DelistedIsClosed, QuietLife
<1> QED
  BY <1>1, <1>2, <1>3, <1>4 DEF LifeInv

LEMMA CreateLife ==
  ASSUME BaseInv, LifeInv, NEW s \in Sessions, OnlyMoves(s), CreateRoom(s)
  PROVE  LifeInv'
<1> USE DEF BaseInv, RoomsOK, RoomTypeOK, SessionsOK, SessionTypeOK
<1>1. PICK r \in RoomIds, g \in Games :
        /\ Go(s, "idle", "creating", r)
        /\ NewRoom(r, g, player[s])
  BY DEF CreateRoom
<1>2. pc[s] = "idle" /\ pc'[s] = "creating" /\ at'[s] = r
  BY <1>1 DEF Go
<1>3. /\ state[r] = "unused" /\ state' = [state EXCEPT ![r] = "waiting"]
      /\ rooms' = rooms \cup {r} /\ members' = members
  BY <1>1 DEF NewRoom
<1>4. Filling(r)'
  BY <1>2 DEF Filling
<1>5. ReapersInv'
  <2> SUFFICES ASSUME NEW t \in Sessions, pc'[t] \in {"counting", "dropping"}
               PROVE  /\ t # s /\ at[t] \in RoomIds /\ state[at[t]] # "unused"
    BY <1>3 DEF ReapersInv, LifeInv, OnlyMoves
  <2> QED
    BY <1>2 DEF OnlyMoves, SessionInv, HasRoom, Steps
<1>6. EmptyIsOver'
  BY <1>2, <1>3, <1>4, FillersStay DEF LifeInv, EmptyIsOver
<1>7. EmptyRoomIsTended'
  BY <1>2, <1>3, <1>4, FillersStay, ReapersStay DEF LifeInv, EmptyRoomIsTended
<1>8. DelistedIsClosed'
  BY <1>3 DEF LifeInv, DelistedIsClosed
<1> QED
  BY <1>5, <1>6, <1>7, <1>8 DEF LifeInv

\* Somebody is in the room the creator leaves behind, whether AddPlayer let him in or not.
LEMMA AddLife ==
  ASSUME BaseInv, LifeInv, NEW s \in Sessions, OnlyMoves(s), AddCreator(s) \/ AddJoiner(s)
  PROVE  LifeInv'
<1> USE DEF BaseInv, RoomsOK, RoomTypeOK, SessionsOK, SessionTypeOK
<1>1. /\ pc[s] \in {"creating", "joining"} /\ pc'[s] \in {"gone", "idle"}
      /\ UNCHANGED <<rooms, state>>
  BY DEF AddCreator, AddJoiner, Finish, AddPlayer, roomVars
<1>2. at[s] \in RoomIds /\ state[at[s]] # "unused" /\ player[s] \in Players
  BY <1>1, InHandler DEF HasRoom, Steps
<1>3. /\ members'[at[s]] # {}
      /\ \A r \in RoomIds : members[r] \subseteq members'[r]
      /\ \A r \in RoomIds \ {at[s]} : members'[r] = members[r]
  <2>1. \/ Full(at[s]) /\ members' = members
        \/ \E p : members' = [members EXCEPT ![at[s]] = @ \cup {p}]
    BY DEF AddCreator, AddJoiner, AddPlayer, roomVars
  <2> QED
    BY <1>2, <2>1, AddFills
<1>4. ASSUME NEW r \in RoomIds, members'[r] = {}
      PROVE  r # at[s] /\ members[r] = {} /\ (Filling(r) => Filling(r)')
  BY <1>3, <1>4 DEF Filling, OnlyMoves, mmVars
<1>5. ReapersInv'
  <2> SUFFICES ASSUME NEW t \in Sessions, pc'[t] \in {"counting", "dropping"}
               PROVE  /\ pc'[t] = "counting" /\ members'[at'[t]] = {} => state'[at'[t]] = "closed"
                      /\ pc'[t] = "dropping" => state'[at'[t]] = "closed"
    BY DEF ReapersInv
  <2>1. pc'[t] = pc[t] /\ at'[t] = at[t]
    BY <1>1 DEF OnlyMoves
  <2>2. at[t] \in RoomIds
    BY <2>1 DEF SessionInv, HasRoom, Steps
  <2>3. members'[at[t]] = {} => members[at[t]] = {}
    BY <2>2, <1>4
  <2> QED
    BY <1>1, <2>1, <2>3 DEF LifeInv, ReapersInv
<1>6. EmptyIsOver'
  BY <1>1, <1>4 DEF LifeInv, EmptyIsOver
<1>7. EmptyRoomIsTended'
  BY <1>1, <1>4, ReapersStay DEF LifeInv, EmptyRoomIsTended
<1>8. DelistedIsClosed'
  BY <1>1 DEF LifeInv, DelistedIsClosed
<1> QED
  BY <1>5, <1>6, <1>7, <1>8 DEF LifeInv

LEMMA TakeOutLife ==
  ASSUME BaseInv, LifeInv, NEW s \in Sessions, OnlyMoves(s), TakeOut(s)
  PROVE  LifeInv'
<1> USE DEF BaseInv, RoomsOK, RoomTypeOK, SessionsOK, SessionTypeOK
<1>1. pc[s] = "leaving" /\ pc'[s] = "counting" /\ at'[s] = at[s]
  BY DEF TakeOut, Go
<1>2. at[s] \in RoomIds /\ state[at[s]] # "unused"
  BY <1>1, InHandler DEF HasRoom, Steps
<1>3. /\ rooms' = rooms
      /\ \A r \in RoomIds \ {at[s]} : members'[r] = members[r] /\ state'[r] = state[r]
      /\ members'[at[s]] = {} => state'[at[s]] = "closed"
      /\ members'[at[s]] # {} => state'[at[s]] = state[at[s]] /\ members[at[s]] # {}
      /\ state[at[s]] = "closed" => state'[at[s]] = "closed"
  BY <1>2 DEF TakeOut, RemovePlayer, StateLeftWith
<1>4. Reaping(at[s])'
  BY <1>1 DEF Reaping
<1>5. ReapersInv'
  <2> SUFFICES ASSUME NEW t \in Sessions, pc'[t] \in {"counting", "dropping"}
               PROVE  at[t] \in RoomIds /\ (t # s => pc'[t] = pc[t] /\ at'[t] = at[t])
    BY <1>1, <1>3 DEF ReapersInv, LifeInv
  <2> QED
    BY <1>2 DEF OnlyMoves, SessionInv, HasRoom, Steps
<1>6. EmptyIsOver'
  BY <1>1, <1>3, FillersStay DEF LifeInv, EmptyIsOver
<1>7. EmptyRoomIsTended'
  BY <1>1, <1>3, <1>4, FillersStay, ReapersStay DEF LifeInv, EmptyRoomIsTended
<1>8. DelistedIsClosed'
  BY <1>2, <1>3 DEF LifeInv, DelistedIsClosed
<1> QED
  BY <1>5, <1>6, <1>7, <1>8 DEF LifeInv

LEMMA CountLife ==
  ASSUME BaseInv, LifeInv, NEW s \in Sessions, OnlyMoves(s), CountLeft(s)
  PROVE  LifeInv'
<1> USE DEF BaseInv, RoomsOK, RoomTypeOK, SessionsOK, SessionTypeOK
<1>1. /\ pc[s] = "counting" /\ UNCHANGED <<rooms, state, members>>
      /\ \/ members[at[s]] = {} /\ pc'[s] = "dropping" /\ at'[s] = at[s]
         \/ members[at[s]] # {} /\ pc'[s] \in {"gone", "idle"}
  BY DEF CountLeft, Go, Finish, roomVars
<1>2. ASSUME NEW r \in RoomIds, members[r] = {}, Reaping(r)
      PROVE  Reaping(r)'
  BY <1>1, <1>2 DEF Reaping, OnlyMoves
<1>3. ReapersInv'
  BY <1>1 DEF ReapersInv, LifeInv, OnlyMoves
<1>4. EmptyIsOver'
  BY <1>1, FillersStay DEF LifeInv, EmptyIsOver
<1>5. EmptyRoomIsTended'
  BY <1>1, <1>2, FillersStay DEF LifeInv, EmptyRoomIsTended
<1>6. DelistedIsClosed'
  BY <1>1 DEF LifeInv, DelistedIsClosed
<1> QED
  BY <1>3, <1>4, <1>5, <1>6 DEF LifeInv

LEMMA DropLife ==
  ASSUME BaseInv, LifeInv, NEW s \in Sessions, OnlyMoves(s), DropRoom(s)
  PROVE  LifeInv'
<1> USE DEF BaseInv, RoomsOK, RoomTypeOK, SessionsOK, SessionTypeOK
<1>1. /\ pc[s] = "dropping" /\ pc'[s] \in {"gone", "idle"}
      /\ rooms' = rooms \ {at[s]} /\ UNCHANGED <<state, members>>
  BY DEF DropRoom, RemoveRoom, Finish
<1>2. state[at[s]] = "closed"
  BY <1>1 DEF LifeInv, ReapersInv
<1>3. ASSUME NEW r \in rooms', Reaping(r)
      PROVE  Reaping(r)'
  BY <1>1, <1>3 DEF Reaping, OnlyMoves
<1>4. ReapersInv'
  BY <1>1 DEF ReapersInv, LifeInv, OnlyMoves
<1>5. EmptyIsOver'
  BY <1>1, FillersStay DEF LifeInv, EmptyIsOver
<1>6. EmptyRoomIsTended'
  BY <1>1, <1>3, FillersStay DEF LifeInv, EmptyRoomIsTended
<1>7. DelistedIsClosed'
  BY <1>1, <1>2 DEF LifeInv, DelistedIsClosed
<1> QED
  BY <1>4, <1>5, <1>6, <1>7 DEF LifeInv

\* Starting takes a waiting room, so it never brings a closed one back.
LEMMA SetPlayingLife ==
  ASSUME BaseInv, LifeInv, NEW s \in Sessions, OnlyMoves(s), SetPlaying(s)
  PROVE  LifeInv'
<1> USE DEF BaseInv, RoomsOK, RoomTypeOK, SessionsOK, SessionTypeOK
<1>1. CASE Finish(s, "starting", roomOf[s]) /\ UNCHANGED roomVars
  <2>1. QuietLife(s)
    BY <1>1 DEF QuietLife, Finish, roomVars
  <2> QED
    BY <2>1, QuietLifeStep
<1>2. CASE Go(s, "starting", "registering", at[s]) /\ MayStart(at[s])
  <2>1. /\ pc[s] = "starting" /\ pc'[s] = "registering"
        /\ UNCHANGED <<rooms, members>>
        /\ state[at[s]] = "waiting" /\ state' = [state EXCEPT ![at[s]] = "playing"]
    BY <1>2 DEF SetPlaying, Go, Finish, MayStart
  <2>2. at[s] \in RoomIds
    BY <2>1, InHandler DEF HasRoom, Steps
  <2>3. ReapersInv'
    <3> SUFFICES ASSUME NEW t \in Sessions, pc'[t] \in {"counting", "dropping"}
                 PROVE  t # s /\ at[t] \in RoomIds
      BY <2>1 DEF ReapersInv, LifeInv, OnlyMoves
    <3> QED
      BY <2>1 DEF OnlyMoves, SessionInv, HasRoom, Steps
  <2>4. EmptyIsOver'
    BY <2>1, <2>2, FillersStay DEF LifeInv, EmptyIsOver
  <2>5. EmptyRoomIsTended'
    BY <2>1, FillersStay, ReapersStay DEF LifeInv, EmptyRoomIsTended
  <2>6. DelistedIsClosed'
    BY <2>1, <2>2 DEF LifeInv, DelistedIsClosed
  <2> QED
    BY <2>3, <2>4, <2>5, <2>6 DEF LifeInv
<1> QED
  BY <1>1, <1>2 DEF SetPlaying

\* The match loop fills the room it creates, or finds it populated by others.
LEMMA MatchLife ==
  ASSUME BaseInv, LifeInv, MatchCreate \/ MatchAdd \/ MatchNotify
  PROVE  LifeInv'
<1> USE DEF BaseInv, RoomsOK, RoomTypeOK, SessionsOK, SessionTypeOK, MatchOK, MatchTypeOK
<1>1. UNCHANGED sessVars
  BY DEF MatchCreate, MatchAdd, MatchNotify
<1>2. \A r \in RoomIds : Reaping(r) => Reaping(r)'
  BY <1>1 DEF Reaping, sessVars
<1>3. \A t \in Sessions : pc[t] \in {"counting", "dropping"} =>
        at[t] \in RoomIds /\ state[at[t]] # "unused"
  BY DEF SessionInv, HasRoom, Steps
<1>4. CASE MatchCreate
  <2>1. PICK r \in RoomIds :
          /\ mmRoom = None /\ mmRoom' = r /\ mmNext' = 1
          /\ state[r] = "unused" /\ state' = [state EXCEPT ![r] = "waiting"]
          /\ rooms' = rooms \cup {r} /\ members' = members
    BY <1>4 DEF MatchCreate, NewRoom
  <2>2. Filling(r)'
    BY <2>1 DEF Filling
  <2>3. \A q \in RoomIds : Filling(q) => Filling(q)'
    BY <1>1, <2>1, NoneAssumption DEF Filling, sessVars
  <2>4. ReapersInv'
    BY <1>1, <1>3, <2>1 DEF LifeInv, ReapersInv, sessVars
  <2>5. EmptyIsOver'
    BY <2>1, <2>2, <2>3 DEF LifeInv, EmptyIsOver
  <2>6. EmptyRoomIsTended'
    BY <1>2, <2>1, <2>2, <2>3 DEF LifeInv, EmptyRoomIsTended
  <2>7. DelistedIsClosed'
    BY <2>1 DEF LifeInv, DelistedIsClosed
  <2> QED
    BY <2>4, <2>5, <2>6, <2>7 DEF LifeInv
<1>5. CASE MatchAdd
  <2>1. mmRoom \in RoomIds /\ state[mmRoom] # "unused"
    BY <1>5 DEF MatchAdd, MatchInv
  <2>2. /\ members'[mmRoom] # {}
        /\ \A q \in RoomIds : members[q] \subseteq members'[q]
        /\ \A q \in RoomIds \ {mmRoom} : members'[q] = members[q]
    <3>1. \/ Full(mmRoom) /\ members' = members
          \/ \E p : members' = [members EXCEPT ![mmRoom] = @ \cup {p}]
      BY <1>5 DEF MatchAdd, AddPlayer, roomVars
    <3> QED
      BY <2>1, <3>1, AddFills
  <2>3. UNCHANGED <<rooms, state>>
    BY <1>5 DEF MatchAdd, AddPlayer, roomVars
  <2>4. ASSUME NEW q \in RoomIds, members'[q] = {}
        PROVE  members[q] = {} /\ (Filling(q) => Filling(q)')
    <3>1. q # mmRoom /\ members[q] = {}
      BY <2>2, <2>4
    <3> QED
      BY <1>1, <1>5, <3>1 DEF Filling, sessVars, MatchAdd
  <2>5. ReapersInv'
    BY <1>1, <1>3, <2>3, <2>4 DEF LifeInv, ReapersInv, sessVars
  <2>6. EmptyIsOver'
    BY <2>3, <2>4 DEF LifeInv, EmptyIsOver
  <2>7. EmptyRoomIsTended'
    BY <1>2, <2>3, <2>4 DEF LifeInv, EmptyRoomIsTended
  <2>8. DelistedIsClosed'
    BY <2>3 DEF LifeInv, DelistedIsClosed
  <2> QED
    BY <2>5, <2>6, <2>7, <2>8 DEF LifeInv
<1>6. CASE MatchNotify
  <2>1. UNCHANGED <<rooms, state, members>>
    BY <1>6 DEF MatchNotify, roomVars
  <2>2. mmNext # 1
    BY <1>6 DEF MatchNotify, MatchInv
  <2>3. \A q \in RoomIds : Filling(q) => Filling(q)'
    BY <1>1, <2>2 DEF Filling, sessVars
  <2>4. ReapersInv'
    BY <1>1, <2>1 DEF LifeInv, ReapersInv, sessVars
  <2>5. EmptyIsOver' /\ EmptyRoomIsTended'
    BY <1>2, <2>1, <2>3 DEF LifeInv, EmptyIsOver, EmptyRoomIsTended
  <2>6. DelistedIsClosed'
    BY <2>1 DEF LifeInv, DelistedIsClosed
  <2> QED
    BY <2>4, <2>5, <2>6 DEF LifeInv
<1> QED
  BY <1>4, <1>5, <1>6

LEMMA SessionLife ==
  ASSUME BaseInv, LifeInv, NEW s \in Sessions, Request(s) \/ Handler(s)
  PROVE  LifeInv'
<1>1. OnlyMoves(s)
  BY OnlyOneMoves
<1>2. CASE Login(s) \/ JoinRoom(s) \/ Ready(s) \/ StartGame(s) \/ GameMove(s)
  <2>1. QuietLife(s)
    BY <1>2 DEF Login, JoinRoom, Ready, StartGame, GameMove, Go, QuietLife, roomVars,
                BaseInv, SessionsOK, SessionTypeOK
  <2> QED
    BY <1>1, <2>1, QuietLifeStep
<1>3. CASE LeaveRoom(s) \/ Disconnect(s) \/ Unwind(s)
  <2>1. QuietLife(s)
    BY <1>3 DEF LeaveRoom, Disconnect, Unwind, Cleanup, Go, Finish, QuietLife, roomVars,
                BaseInv, SessionsOK, SessionTypeOK
  <2> QED
    BY <1>1, <2>1, QuietLifeStep
<1>4. CASE ToggleReady(s) \/ RegisterPlayers(s) \/ Launch(s) \/ OnMessage(s)
  <2>1. QuietLife(s)
    BY <1>4 DEF ToggleReady, RegisterPlayers, Launch, OnMessage, Go, Finish, QuietLife, roomVars,
                BaseInv, SessionsOK, SessionTypeOK
  <2> QED
    BY <1>1, <2>1, QuietLifeStep
<1>5. CASE CreateRoom(s)
  BY <1>1, <1>5, CreateLife
<1>6. CASE AddCreator(s) \/ AddJoiner(s)
  BY <1>1, <1>6, AddLife
<1>7. CASE TakeOut(s)
  BY <1>1, <1>7, TakeOutLife
<1>8. CASE CountLeft(s)
  BY <1>1, <1>8, CountLife
<1>9. CASE DropRoom(s)
  BY <1>1, <1>9, DropLife
<1>10. CASE SetPlaying(s)
  BY <1>1, <1>10, SetPlayingLife
<1> QED
  BY <1>2, <1>3, <1>4, <1>5, <1>6, <1>7, <1>8, <1>9, <1>10 DEF Request, Handler

LEMMA NextLife == BaseInv /\ LifeInv /\ [Next]_vars => LifeInv'
<1> SUFFICES ASSUME BaseInv, LifeInv, [Next]_vars PROVE LifeInv'
  OBVIOUS
<1>1. CASE \E s \in Sessions : Request(s) \/ Handler(s)
  BY <1>1, SessionLife
<1>2. CASE MatchCreate \/ MatchAdd \/ MatchNotify
  BY <1>2, MatchLife
<1>3. CASE UNCHANGED vars
  BY <1>3 DEF vars, LifeInv, ReapersInv, EmptyIsOver, EmptyRoomIsTended, DelistedIsClosed,
              Filling, Reaping
<1> QED
  BY <1>1, <1>2, <1>3 DEF Next

LEMMA InitLife == Init => LifeInv
  BY DEF Init, LifeInv, ReapersInv, EmptyIsOver, EmptyRoomIsTended, DelistedIsClosed

-----------------------------------------------------------------------------
(***************************************************************************)
(* Launching.  Only the step from waiting to playing makes a launcher, and *)
(* a room that has left waiting never comes back to it.                    *)
(***************************************************************************)

\* A step that makes no launcher, touches no instance and makes no room waiting again.
QuietLaunch ==
    /\ UNCHANGED <<inst, registered>>
    /\ \A r \in RoomIds :
           /\ Launchers(r)' \subseteq Launchers(r)
           /\ state'[r] \in {"unused", "waiting"} => state[r] \in {"unused", "waiting"}

LEMMA QuietLaunchStep ==
  ASSUME LaunchDiscipline, QuietLaunch
  PROVE  LaunchDiscipline'
  BY DEF LaunchDiscipline, QuietLaunch

\* A step of s that does not take it into a launch.
LEMMA NoNewLauncher ==
  ASSUME NEW s \in Sessions, OnlyMoves(s), pc'[s] \notin {"registering", "launching"},
         NEW r \in RoomIds
  PROVE  Launchers(r)' \subseteq Launchers(r)
  BY DEF Launchers, OnlyMoves

LEMMA SetPlayingLaunch ==
  ASSUME BaseInv, LaunchDiscipline, NEW s \in Sessions, OnlyMoves(s), SetPlaying(s)
  PROVE  LaunchDiscipline'
<1> USE DEF BaseInv, RoomsOK, RoomTypeOK, SessionsOK, SessionTypeOK
<1>1. CASE Finish(s, "starting", roomOf[s]) /\ UNCHANGED roomVars
  <2>1. pc'[s] \in {"gone", "idle"} /\ UNCHANGED <<inst, registered, state>>
    BY <1>1 DEF Finish, roomVars
  <2> QED
    BY <2>1, NoNewLauncher, QuietLaunchStep DEF QuietLaunch
<1>2. CASE Go(s, "starting", "registering", at[s]) /\ MayStart(at[s])
  <2>1. /\ pc[s] = "starting" /\ pc'[s] = "registering" /\ at'[s] = at[s]
        /\ UNCHANGED <<inst, registered>>
        /\ state[at[s]] = "waiting" /\ state' = [state EXCEPT ![at[s]] = "playing"]
    BY <1>2 DEF SetPlaying, Go, Finish, MayStart
  <2>2. at[s] \in RoomIds
    BY <2>1, InHandler DEF HasRoom, Steps
  <2>3. Launchers(at[s]) = {} /\ Launchers(at[s])' = {s} /\ inst[at[s]] = "new"
    BY <2>1, <2>2 DEF LaunchDiscipline, Launchers, OnlyMoves
  <2>4. \A r \in RoomIds \ {at[s]} : Launchers(r)' = Launchers(r) /\ state'[r] = state[r]
    BY <2>1 DEF Launchers, OnlyMoves
  <2> QED
    BY <2>1, <2>2, <2>3, <2>4 DEF LaunchDiscipline
<1> QED
  BY <1>1, <1>2 DEF SetPlaying

LEMMA LauncherStep ==
  ASSUME BaseInv, LaunchDiscipline, NEW s \in Sessions, OnlyMoves(s),
         RegisterPlayers(s) \/ Launch(s)
  PROVE  LaunchDiscipline'
<1> USE DEF BaseInv, RoomsOK, RoomTypeOK, SessionsOK, SessionTypeOK
<1>1. pc[s] \in {"registering", "launching"} /\ UNCHANGED state
  BY DEF RegisterPlayers, Launch, Go, Finish
<1>2. PICK r \in RoomIds : at[s] = r
  BY <1>1, InHandler DEF HasRoom, Steps
<1>3. Launchers(r) = {s} /\ inst[r] = "new" /\ state[r] \notin {"unused", "waiting"}
  BY <1>1, <1>2 DEF LaunchDiscipline, Launchers
<1>4. \A q \in RoomIds \ {r} :
        Launchers(q)' \subseteq Launchers(q) /\ inst'[q] = inst[q] /\ registered'[q] = registered[q]
  BY <1>2 DEF RegisterPlayers, Launch, Launchers, OnlyMoves, Go, Finish
<1>5. Launchers(r)' \subseteq Launchers(r) /\ (Launchers(r)' # {} => inst'[r] = "new")
  <2>1. CASE RegisterPlayers(s)
    <3>1. UNCHANGED inst
      BY <2>1 DEF RegisterPlayers
    <3>2. Launchers(r)' \subseteq Launchers(r)
      BY <1>1, <1>2, <2>1 DEF RegisterPlayers, Launchers, OnlyMoves, Go
    <3> QED
      BY <1>3, <3>1, <3>2
  <2>2. CASE Launch(s)
    <3>1. pc'[s] \notin {"registering", "launching"}
      BY <2>2 DEF Launch, Go, Finish
    <3>2. Launchers(r)' = {}
      BY <1>3, <3>1 DEF Launchers, OnlyMoves
    <3> QED
      BY <3>2
  <2> QED
    BY <2>1, <2>2
<1>6. ASSUME NEW q \in RoomIds
      PROVE  /\ \A u, v \in Launchers(q)' : u = v
             /\ Launchers(q)' # {} => inst'[q] = "new"
             /\ state'[q] \in {"unused", "waiting"} =>
                    Launchers(q)' = {} /\ inst'[q] = "new" /\ registered'[q] = {}
  <2>1. CASE q = r
    BY <1>1, <1>3, <1>5, <2>1
  <2>2. CASE q # r
    BY <1>1, <1>4, <2>2 DEF LaunchDiscipline
  <2> QED
    BY <2>1, <2>2
<1> QED
  BY <1>6 DEF LaunchDiscipline

LEMMA NextLaunch == BaseInv /\ LaunchDiscipline /\ [Next]_vars => LaunchDiscipline'
<1> SUFFICES ASSUME BaseInv, LaunchDiscipline, [Next]_vars PROVE LaunchDiscipline'
  OBVIOUS
<1> USE DEF BaseInv, RoomsOK, RoomTypeOK, SessionsOK, SessionTypeOK
<1>1. ASSUME NEW s \in Sessions, Request(s) \/ Handler(s) PROVE LaunchDiscipline'
  <2>1. OnlyMoves(s)
    BY <1>1, OnlyOneMoves
  <2>2. CASE SetPlaying(s)
    BY <2>1, <2>2, SetPlayingLaunch
  <2>3. CASE RegisterPlayers(s) \/ Launch(s)
    BY <2>1, <2>3, LauncherStep
  <2>4. CASE /\ pc'[s] \notin {"registering", "launching"}
             /\ UNCHANGED <<inst, registered>>
             /\ \A r \in RoomIds : state'[r] \in {"unused", "waiting"} => state[r] \in {"unused", "waiting"}
    BY <2>1, <2>4, NoNewLauncher, QuietLaunchStep DEF QuietLaunch
  <2>5. CASE Login(s) \/ JoinRoom(s) \/ LeaveRoom(s) \/ Ready(s) \/ StartGame(s) \/ GameMove(s)
    BY <2>4, <2>5 DEF Login, JoinRoom, LeaveRoom, Ready, StartGame, GameMove, Go, Finish, roomVars
  <2>6. CASE CreateRoom(s)
    BY <2>4, <2>6 DEF CreateRoom, NewRoom, Go
  <2>7. CASE AddCreator(s) \/ AddJoiner(s) \/ CountLeft(s) \/ DropRoom(s)
    BY <2>4, <2>7 DEF AddCreator, AddJoiner, CountLeft, DropRoom, AddPlayer, RemoveRoom, Go, Finish, roomVars
  <2>8. CASE TakeOut(s)
    BY <2>4, <2>8 DEF TakeOut, RemovePlayer, StateLeftWith, Go
  <2>9. CASE ToggleReady(s) \/ OnMessage(s) \/ Disconnect(s) \/ Unwind(s)
    BY <2>4, <2>9 DEF ToggleReady, OnMessage, Disconnect, Unwind, Cleanup, Go, Finish, roomVars
  <2> QED
    BY <1>1, <2>2, <2>3, <2>5, <2>6, <2>7, <2>8, <2>9 DEF Request, Handler
<1>2. CASE MatchCreate \/ MatchAdd \/ MatchNotify
  <2>1. /\ UNCHANGED <<inst, registered, pc, at>>
        /\ \A r \in RoomIds : state'[r] \in {"unused", "waiting"} => state[r] \in {"unused", "waiting"}
    BY <1>2 DEF MatchCreate, MatchAdd, MatchNotify, NewRoom, AddPlayer, roomVars, sessVars
  <2> QED
    BY <2>1, QuietLaunchStep DEF QuietLaunch, Launchers
<1>3. CASE UNCHANGED vars
  BY <1>3, QuietLaunchStep DEF vars, QuietLaunch, Launchers
<1> QED
  BY <1>1, <1>2, <1>3 DEF Next

-----------------------------------------------------------------------------
LEMMA InitIInv == Init => IInv
<1>1. Init => LaunchDiscipline
  BY DEF Init, LaunchDiscipline, Launchers
<1> QED
  BY <1>1, InitBase, InitLife DEF IInv, LifeInv

LEMMA NextIInv == IInv /\ [Next]_vars => IInv'
  BY NextBase, NextLife, NextLaunch DEF IInv, LifeInv

\* So does the inductive invariant.
THEOREM IInvHolds == Spec => []IInv
  BY InitIInv, NextIInv, PTL DEF Spec

\* No room leaks: a listed room without players is being filled or about to be removed.
THEOREM EmptyRoomsAreTended == Spec => []EmptyRoomIsTended
<1>1. IInv => EmptyRoomIsTended
  BY DEF IInv
<1> QED
  BY <1>1, IInvHolds, PTL

\* list_rooms offers no room that everybody has left.
THEOREM WaitingRoomsAreLive == Spec => []WaitingRoomIsLive
<1>1. IInv => WaitingRoomIsLive
  BY DEF IInv, EmptyIsOver, WaitingRoomIsLive
<1> QED
  BY <1>1, IInvHolds, PTL

\* No room is taken off the list before it is closed.
THEOREM DelistedRoomsAreClosed == Spec => []DelistedIsClosed
<1>1. IInv => DelistedIsClosed
  BY DEF IInv
<1> QED
  BY <1>1, IInvHolds, PTL

\* OnStart runs at most once for an instance.
THEOREM LaunchedOnce == Spec => []LaunchDiscipline
<1>1. IInv => LaunchDiscipline
  BY DEF IInv
<1> QED
  BY <1>1, IInvHolds, PTL
=============================================================================
