-------------------------- MODULE LobbyRefinement ---------------------------
(***************************************************************************)
(* Lobby implements RoomLifecycle, for any sets of connections, players,   *)
(* rooms and games: every critical section of a handler or of the match    *)
(* loop is one step of the abstract rooms, or none.  The invariant of      *)
(* LobbyProofs is what makes the late steps of a handler legal: a room     *)
(* that is dropped is closed, and whoever launches a game is alone with an *)
(* instance nobody has touched.                                            *)
(***************************************************************************)
EXTENDS LobbyProofs

AbstractInit == Lifecycle!Init
AbstractStep == [Lifecycle!Next]_(Lifecycle!lifecycle)

\* OnStart stands with every room where it stood.
LaunchStays == \A r \in RoomIds : LaunchOf(r)' = LaunchOf(r)

\* No step ends a room: the code declares the state and assigns it nowhere.
NeverEnded == \A r \in RoomIds : state[r] # "ended"

LEMMA NeverEndedNext == BaseInv /\ NeverEnded /\ [Next]_vars => NeverEnded'
<1> SUFFICES ASSUME BaseInv, NeverEnded, [Next]_vars PROVE NeverEnded'
  OBVIOUS
<1> USE DEF BaseInv, RoomsOK, RoomTypeOK, NeverEnded
<1>1. ASSUME NEW s \in Sessions, Request(s) \/ Handler(s) PROVE NeverEnded'
  <2>1. CASE Login(s) \/ JoinRoom(s) \/ LeaveRoom(s) \/ Ready(s) \/ StartGame(s) \/ GameMove(s)
    BY <2>1 DEF Login, JoinRoom, LeaveRoom, Ready, StartGame, GameMove, roomVars
  <2>2. CASE Disconnect(s) \/ Unwind(s) \/ OnMessage(s) \/ CountLeft(s) \/ DropRoom(s)
    BY <2>2 DEF Disconnect, Unwind, Cleanup, OnMessage, CountLeft, DropRoom, RemoveRoom, roomVars
  <2>3. CASE ToggleReady(s) \/ RegisterPlayers(s) \/ Launch(s) \/ AddCreator(s) \/ AddJoiner(s)
    BY <2>3 DEF ToggleReady, RegisterPlayers, Launch, AddCreator, AddJoiner, AddPlayer, roomVars
  <2>4. CASE CreateRoom(s) \/ TakeOut(s) \/ SetPlaying(s)
    BY <2>4 DEF CreateRoom, NewRoom, TakeOut, RemovePlayer, StateLeftWith, SetPlaying, roomVars
  <2> QED
    BY <1>1, <2>1, <2>2, <2>3, <2>4 DEF Request, Handler
<1>2. CASE MatchCreate \/ MatchAdd \/ MatchNotify
  BY <1>2 DEF MatchCreate, MatchAdd, MatchNotify, NewRoom, AddPlayer, roomVars
<1>3. CASE UNCHANGED vars
  BY <1>3 DEF vars
<1> QED
  BY <1>1, <1>2, <1>3 DEF Next

-----------------------------------------------------------------------------
(* One lemma per abstract step.                                            *)

LEMMA AbstractStutter ==
  ASSUME UNCHANGED <<rooms, state, game, members>>, LaunchStays
  PROVE  AbstractStep
<1>1. [r \in RoomIds |-> LaunchOf(r)]' = [r \in RoomIds |-> LaunchOf(r)]
  BY DEF LaunchStays
<1>2. UNCHANGED Lifecycle!lifecycle
  BY <1>1 DEF Lifecycle!lifecycle
<1> QED
  BY <1>2 DEF AbstractStep

LEMMA AbstractOpen ==
  ASSUME BaseInv, LaunchStays, NEW r \in RoomIds, NEW g \in Games, NEW p, NewRoom(r, g, p)
  PROVE  AbstractStep
<1>1. [q \in RoomIds |-> LaunchOf(q)]' = [q \in RoomIds |-> LaunchOf(q)]
  BY DEF LaunchStays
<1>2. Lifecycle!Open(r, g)
  BY <1>1 DEF Lifecycle!Open, NewRoom
<1> QED
  BY <1>2 DEF AbstractStep, Lifecycle!Next

LEMMA SameCardinality == \A S : Lifecycle!Cardinality(S) = Cardinality(S)
  BY Zenon DEF Lifecycle!Cardinality, Cardinality

\* AddPlayer checks the seats in the critical section that takes one.
LEMMA AbstractEnter ==
  ASSUME BaseInv, LaunchStays, NEW r \in RoomIds, NEW p \in Players, state[r] # "unused",
         ~Full(r), AddPlayer(r, p)
  PROVE  AbstractStep
<1>1. [q \in RoomIds |-> LaunchOf(q)]' = [q \in RoomIds |-> LaunchOf(q)]
  BY DEF LaunchStays
<1>2. MaxPlayers[game[r]] \in Nat /\ IsFiniteSet(members[r])
  BY SeatsAssumption DEF BaseInv, RoomsOK, RoomInv
<1>3. Cardinality(members[r]) < MaxPlayers[game[r]]
  BY <1>2, FS_CardinalityType DEF Full
<1>4. Lifecycle!Enter(r, p)
  BY <1>1, <1>3, SameCardinality DEF Lifecycle!Enter, AddPlayer
<1> QED
  BY <1>4 DEF AbstractStep, Lifecycle!Next

LEMMA AbstractLeave ==
  ASSUME BaseInv, LaunchStays, NEW r \in RoomIds, NEW p \in Players, state[r] # "unused",
         RemovePlayer(r, p)
  PROVE  AbstractStep
<1>1. [q \in RoomIds |-> LaunchOf(q)]' = [q \in RoomIds |-> LaunchOf(q)]
  BY DEF LaunchStays
<1>2. StateLeftWith(r, members[r] \ {p}) = IF members[r] \subseteq {p} THEN "closed" ELSE state[r]
  BY DEF StateLeftWith
<1>3. Lifecycle!Leave(r, p)
  BY <1>1, <1>2 DEF Lifecycle!Leave, RemovePlayer
<1> QED
  BY <1>3 DEF AbstractStep, Lifecycle!Next

LEMMA AbstractStart ==
  ASSUME IInv, NEW s \in Sessions, OnlyMoves(s), SetPlaying(s)
  PROVE  AbstractStep
<1> USE DEF IInv, BaseInv, RoomsOK, RoomTypeOK, SessionsOK, SessionTypeOK
<1>1. CASE Finish(s, "starting", roomOf[s]) /\ UNCHANGED roomVars
  <2>1. UNCHANGED <<rooms, state, game, members>> /\ LaunchStays
    BY <1>1 DEF Finish, roomVars, LaunchStays, LaunchOf, Launchers, OnlyMoves
  <2> QED
    BY <2>1, AbstractStutter
<1>2. CASE Go(s, "starting", "registering", at[s]) /\ MayStart(at[s])
  <2>1. /\ pc[s] = "starting" /\ pc'[s] = "registering" /\ at'[s] = at[s]
        /\ UNCHANGED <<rooms, game, members, inst>>
        /\ state[at[s]] = "waiting" /\ state' = [state EXCEPT ![at[s]] = "playing"]
    BY <1>2 DEF SetPlaying, Go, Finish, MayStart
  <2>2. PICK r \in RoomIds : at[s] = r
    BY <2>1, InHandler DEF HasRoom, Steps
  <2>3. inst[r] = "new"
    BY <2>1, <2>2 DEF LaunchDiscipline
  <2>4. LaunchOf(r)' = "due"
    BY <2>1, <2>2, <2>3 DEF LaunchOf, Launchers
  <2>5. \A q \in RoomIds \ {r} : LaunchOf(q)' = LaunchOf(q)
    BY <2>1, <2>2 DEF LaunchOf, Launchers, OnlyMoves
  <2>6. [q \in RoomIds |-> LaunchOf(q)]'
          = [[q \in RoomIds |-> LaunchOf(q)] EXCEPT ![r] = "due"]
    BY <2>4, <2>5
  <2>7. Lifecycle!Start(r)
    BY <2>1, <2>2, <2>6 DEF Lifecycle!Start
  <2> QED
    BY <2>7 DEF AbstractStep, Lifecycle!Next
<1> QED
  BY <1>1, <1>2 DEF SetPlaying

\* Whoever comes to OnStart is the only one, and the instance is new.
LEMMA AbstractLaunch ==
  ASSUME IInv, NeverEnded, NEW s \in Sessions, OnlyMoves(s), Launch(s)
  PROVE  AbstractStep
<1> USE DEF IInv, BaseInv, RoomsOK, RoomTypeOK, SessionsOK, SessionTypeOK
<1>1. /\ pc[s] = "launching" /\ pc'[s] \notin {"registering", "launching"}
      /\ UNCHANGED <<rooms, state, game, members>>
      /\ inst' = [inst EXCEPT ![at[s]] = IF LaunchPanics(at[s]) THEN "wedged" ELSE "running"]
  BY DEF Launch, Go, Finish
<1>2. PICK r \in RoomIds : at[s] = r
  BY <1>1, InHandler DEF HasRoom, Steps
<1>3. s \in Launchers(r)
  BY <1>1, <1>2 DEF Launchers
<1>4. inst[r] = "new" /\ state[r] \in {"playing", "closed"}
  BY <1>3 DEF LaunchDiscipline, NeverEnded, RoomStates
<1>5. LaunchOf(r) = "due" /\ LaunchOf(r)' = "done"
  BY <1>1, <1>2, <1>3, <1>4 DEF LaunchOf
<1>6. \A q \in RoomIds \ {r} : LaunchOf(q)' = LaunchOf(q)
  BY <1>1, <1>2 DEF LaunchOf, Launchers, OnlyMoves
<1>7. [q \in RoomIds |-> LaunchOf(q)]'
        = [[q \in RoomIds |-> LaunchOf(q)] EXCEPT ![r] = "done"]
  BY <1>5, <1>6
<1>8. Lifecycle!Launch(r)
  BY <1>1, <1>4, <1>5, <1>7 DEF Lifecycle!Launch
<1> QED
  BY <1>8 DEF AbstractStep, Lifecycle!Next

\* A second leaver that found the room empty drops it once more, to no effect.
LEMMA AbstractDelist ==
  ASSUME IInv, LaunchStays, NEW s \in Sessions, DropRoom(s)
  PROVE  AbstractStep
<1>1. [q \in RoomIds |-> LaunchOf(q)]' = [q \in RoomIds |-> LaunchOf(q)]
  BY DEF LaunchStays
<1>2. pc[s] = "dropping" /\ rooms' = rooms \ {at[s]} /\ UNCHANGED <<state, game, members>>
  BY DEF DropRoom, RemoveRoom, Finish
<1>3. at[s] \in RoomIds /\ state[at[s]] = "closed"
  BY <1>2, InHandler DEF IInv, ReapersInv, HasRoom, Steps
<1>4. CASE at[s] \in rooms
  <2>1. Lifecycle!Delist(at[s])
    BY <1>1, <1>2, <1>3, <1>4 DEF Lifecycle!Delist
  <2> QED
    BY <1>3, <2>1 DEF AbstractStep, Lifecycle!Next
<1>5. CASE at[s] \notin rooms
  <2>1. rooms' = rooms
    BY <1>2, <1>5
  <2> QED
    BY <1>2, <2>1, AbstractStutter
<1> QED
  BY <1>4, <1>5

-----------------------------------------------------------------------------
(* Every step of Lobby.                                                    *)

\* A step of s that touches no instance and neither makes nor takes a launcher.
LEMMA LaunchUntouched ==
  ASSUME NEW s \in Sessions, OnlyMoves(s), UNCHANGED inst,
         pc[s] \notin {"registering", "launching"}, pc'[s] \notin {"registering", "launching"}
  PROVE  LaunchStays
  BY DEF LaunchStays, LaunchOf, Launchers, OnlyMoves

LEMMA SessionRefines ==
  ASSUME IInv, NeverEnded, NEW s \in Sessions, Request(s) \/ Handler(s)
  PROVE  AbstractStep
<1> USE DEF IInv, BaseInv, RoomsOK, RoomTypeOK, SessionsOK, SessionTypeOK
<1>1. OnlyMoves(s)
  BY OnlyOneMoves
<1>2. CASE Login(s) \/ JoinRoom(s) \/ LeaveRoom(s) \/ Ready(s) \/ StartGame(s) \/ GameMove(s)
  <2>1. /\ UNCHANGED <<rooms, state, game, members, inst>>
        /\ pc[s] \notin {"registering", "launching"} /\ pc'[s] \notin {"registering", "launching"}
    BY <1>2 DEF Login, JoinRoom, LeaveRoom, Ready, StartGame, GameMove, Go, Finish, roomVars
  <2> QED
    BY <1>1, <2>1, LaunchUntouched, AbstractStutter
<1>3. CASE Disconnect(s) \/ Unwind(s) \/ OnMessage(s) \/ CountLeft(s) \/ ToggleReady(s)
  <2>1. /\ UNCHANGED <<rooms, state, game, members, inst>>
        /\ pc[s] \notin {"registering", "launching"} /\ pc'[s] \notin {"registering", "launching"}
    BY <1>3 DEF Disconnect, Unwind, Cleanup, OnMessage, CountLeft, ToggleReady, Go, Finish, roomVars
  <2> QED
    BY <1>1, <2>1, LaunchUntouched, AbstractStutter
<1>4. CASE RegisterPlayers(s)
  <2>1. /\ UNCHANGED <<rooms, state, game, members, inst>>
        /\ pc[s] = "registering" /\ pc'[s] = "launching" /\ at'[s] = at[s]
    BY <1>4 DEF RegisterPlayers, Go
  <2>2. LaunchStays
    BY <1>1, <2>1 DEF LaunchStays, LaunchOf, Launchers, OnlyMoves
  <2> QED
    BY <2>1, <2>2, AbstractStutter
<1>5. CASE CreateRoom(s)
  <2>1. PICK r \in RoomIds, g \in Games : Go(s, "idle", "creating", r) /\ NewRoom(r, g, player[s])
    BY <1>5 DEF CreateRoom
  <2>2. LaunchStays
    BY <1>1, <2>1, LaunchUntouched DEF Go, NewRoom
  <2> QED
    BY <2>1, <2>2, AbstractOpen
<1>6. CASE AddCreator(s) \/ AddJoiner(s)
  <2>1. /\ pc[s] \in {"creating", "joining"} /\ pc'[s] \in {"idle", "gone"}
        /\ \/ UNCHANGED roomVars
           \/ ~Full(at[s]) /\ AddPlayer(at[s], player[s])
    BY <1>6 DEF AddCreator, AddJoiner, Finish
  <2>2. LaunchStays
    BY <1>1, <2>1, LaunchUntouched DEF AddPlayer, roomVars
  <2>3. at[s] \in RoomIds /\ state[at[s]] # "unused" /\ player[s] \in Players
    BY <2>1, InHandler DEF HasRoom, Steps
  <2>4. CASE UNCHANGED roomVars
    BY <2>2, <2>4, AbstractStutter DEF roomVars
  <2>5. CASE ~Full(at[s]) /\ AddPlayer(at[s], player[s])
    BY <2>2, <2>3, <2>5, AbstractEnter
  <2> QED
    BY <2>1, <2>4, <2>5
<1>7. CASE TakeOut(s)
  <2>1. pc[s] = "leaving" /\ pc'[s] = "counting" /\ RemovePlayer(at[s], player[s])
    BY <1>7 DEF TakeOut, Go
  <2>2. LaunchStays
    BY <1>1, <2>1, LaunchUntouched DEF RemovePlayer
  <2>3. at[s] \in RoomIds /\ state[at[s]] # "unused" /\ player[s] \in Players
    BY <2>1, InHandler DEF HasRoom, Steps
  <2> QED
    BY <2>1, <2>2, <2>3, AbstractLeave
<1>8. CASE DropRoom(s)
  <2>1. LaunchStays
    BY <1>1, <1>8, LaunchUntouched DEF DropRoom, RemoveRoom, Finish
  <2> QED
    BY <1>8, <2>1, AbstractDelist
<1>9. CASE SetPlaying(s)
  BY <1>1, <1>9, AbstractStart
<1>10. CASE Launch(s)
  BY <1>1, <1>10, AbstractLaunch
<1> QED
  BY <1>2, <1>3, <1>4, <1>5, <1>6, <1>7, <1>8, <1>9, <1>10 DEF Request, Handler

LEMMA MatchRefines ==
  ASSUME IInv, MatchCreate \/ MatchAdd \/ MatchNotify
  PROVE  AbstractStep
<1> USE DEF IInv, BaseInv, MatchOK, MatchTypeOK
<1>1. LaunchStays
  BY DEF MatchCreate, MatchAdd, MatchNotify, NewRoom, AddPlayer, LaunchStays, LaunchOf, Launchers,
         roomVars, sessVars
<1>2. CASE MatchCreate
  <2>1. PICK r \in RoomIds, g \in Games : \E p : NewRoom(r, g, p)
    BY <1>2 DEF MatchCreate
  <2> QED
    BY <1>1, <2>1, AbstractOpen
<1>3. CASE MatchAdd
  <2>1. mmNext \in 1..Len(mmGroup) /\ mmRoom \in RoomIds /\ state[mmRoom] # "unused"
    BY <1>3 DEF MatchAdd, MatchInv
  <2>2. mmGroup[mmNext] \in Players
    BY <2>1
  <2>3. CASE UNCHANGED roomVars
    BY <1>1, <2>3, AbstractStutter DEF roomVars
  <2>4. CASE ~Full(mmRoom) /\ AddPlayer(mmRoom, mmGroup[mmNext])
    BY <1>1, <2>1, <2>2, <2>4, AbstractEnter
  <2> QED
    BY <1>3, <2>3, <2>4 DEF MatchAdd
<1>4. CASE MatchNotify
  BY <1>1, <1>4, AbstractStutter DEF MatchNotify, roomVars
<1> QED
  BY <1>2, <1>3, <1>4

LEMMA InitRefines == Init => AbstractInit
<1> SUFFICES ASSUME Init PROVE AbstractInit
  OBVIOUS
<1>1. [r \in RoomIds |-> LaunchOf(r)] = [r \in RoomIds |-> "no"]
  BY DEF Init, LaunchOf, Launchers
<1> QED
  BY <1>1 DEF Init, AbstractInit, Lifecycle!Init

LEMMA NextRefines == IInv /\ NeverEnded /\ [Next]_vars => AbstractStep
<1> SUFFICES ASSUME IInv, NeverEnded, [Next]_vars PROVE AbstractStep
  OBVIOUS
<1>1. CASE \E s \in Sessions : Request(s) \/ Handler(s)
  BY <1>1, SessionRefines
<1>2. CASE MatchCreate \/ MatchAdd \/ MatchNotify
  BY <1>2, MatchRefines
<1>3. CASE UNCHANGED vars
  BY <1>3, AbstractStutter DEF vars, LaunchStays, LaunchOf, Launchers
<1> QED
  BY <1>1, <1>2, <1>3 DEF Next

\* Whatever order the critical sections of the handlers and of the match loop come in,
\* they are a history of rooms opened, entered, left, started, launched and delisted in
\* single steps.
THEOREM ImplementsRooms == Spec => ImplementsLifecycle
<1>1. Init => NeverEnded
  BY DEF Init, NeverEnded
<1>2. IInv /\ NeverEnded /\ [Next]_vars => NeverEnded'
  BY NeverEndedNext DEF IInv
<1>3. Spec => [](IInv /\ NeverEnded)
  BY <1>1, <1>2, IInvHolds, PTL DEF Spec
<1>4. Init => Lifecycle!Init
  BY InitRefines DEF AbstractInit
<1>5. IInv /\ NeverEnded /\ [Next]_vars => [Lifecycle!Next]_(Lifecycle!lifecycle)
  BY NextRefines DEF AbstractStep
<1> QED
  BY <1>3, <1>4, <1>5, PTL DEF Spec, ImplementsLifecycle, Lifecycle!Spec
=============================================================================
