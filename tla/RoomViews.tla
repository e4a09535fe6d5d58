----------------------------- MODULE RoomViews ------------------------------
(***************************************************************************)
(* What clients know of a room: replies with a snapshot of the roster, and *)
(* the events broadcast on changes, arriving in the order they are sent.   *)
(*                                                                         *)
(* A handler changes the roster, broadcasts the event to one session after *)
(* the other, takes a snapshot and sends it, each in a critical section of *)
(* its own, beside the handlers of the other connections.  A client does   *)
(* what docs/tankbattle-api.md tells it to: the reply to create, join or   *)
(* room_info is its list, and the room's events update it.                 *)
(*                                                                         *)
(* A player may have several connections, and a connection may log in as   *)
(* another player.  Of the other rooms only this is kept: a session that   *)
(* creates one is no longer in this one.  The room's listing and life      *)
(* cycle are Lobby's part: here it can be entered at any time.  Who waits  *)
(* for whom is Broadcasts' part: here every write returns at once.         *)
(***************************************************************************)
EXTENDS Integers, FiniteSets

CONSTANTS
    Conns,      \* connections, each with a session
    Players,    \* the players they log in as
    MaxPlayers, \* seats
    None

ASSUME SeatsAssumption == MaxPlayers \in Nat \ {0}

\* What Broadcast is called with: player_joined, player_left, player_ready.
Events == {"joined", "left", "ready"}

ASSUME NoneAssumption == None \notin Conns \cup Events

\* Where a player is: not in the room, in it, in it and ready.  "stale" is not the
\* room's: it marks what a list says of a player once no message in order told it.
Marks == {"out", "in", "ready"}
Known == Marks \cup {"stale"}

VARIABLES
    roster,     \* Room.Players
    seating,    \* players tryMatch still has to add
    who,        \* Session.PlayerID
    pc,         \* the next critical section of the connection's goroutine
    inRoom,     \* connections whose Session.RoomID is the room's
    event,      \* the kind of event the handler broadcasts
    news,       \* and its player's mark in it
    todo,       \* sessions the broadcast has not looked at yet
    to,         \* the session it is about to write to
    snap,       \* the snapshot a handler has taken for its reply
    view        \* the list of the connection's client

vars == <<roster, seating, who, pc, inRoom, event, news, todo, to, snap, view>>

Steps == {"gone", "idle", "creating", "joining", "announcing", "scanning", "sending",
          "snapping", "replying", "removing"}

Nobody == [p \in Players |-> "out"]

\* The types of the state; broadcasts only look at sessions the manager knows.
TypeOK ==
    /\ roster \in [Players -> Marks]
    /\ seating \subseteq Players
    /\ who \in [Conns -> Players]
    /\ pc \in [Conns -> Steps]
    /\ inRoom \subseteq Conns
    /\ event \in [Conns -> Events \cup {None}]
    /\ news \in [Conns -> Known]
    /\ todo \in [Conns -> SUBSET Conns]
    /\ to \in [Conns -> Conns \cup {None}]
    /\ snap \in [Conns -> [Players -> Known]]
    /\ view \in [Conns -> [Players -> Known]]
    /\ \A d, c \in Conns : pc[c] = "gone" => c \notin todo[d] \cup {to[d]} \cup inRoom

\* The room has just been listed, by somebody's create_room or by the match loop.
Init ==
    /\ roster = Nobody
    /\ who \in [Conns -> Players]
    /\ \/ \E c \in Conns : pc = [d \in Conns |-> IF d = c THEN "creating" ELSE "idle"]
                           /\ seating = {}
       \/ pc = [d \in Conns |-> "idle"] /\ seating \in SUBSET Players
    /\ inRoom = {}
    /\ event = [d \in Conns |-> None]
    /\ news = [d \in Conns |-> "out"]
    /\ todo = [d \in Conns |-> {}]
    /\ to = [d \in Conns |-> None]
    /\ snap = [d \in Conns |-> Nobody]
    /\ view = [d \in Conns |-> Nobody]

Go(d, from, step) == pc[d] = from /\ pc' = [pc EXCEPT ![d] = step]

-----------------------------------------------------------------------------
(* The clients' lists.                                                     *)

\* List l after the event that p now has mark m; ready events are of listed players.
Updated(l, kind, p, m) ==
    [l EXCEPT ![p] = IF kind = "ready" /\ @ \in {"out", "stale"} THEN @ ELSE m]

\* List l once p's mark has changed and no event tells.
Outdated(l, p) == [l EXCEPT ![p] = "stale"]

\* Connections with an event of p's under way.
NewsOf(p) == {d \in Conns : event[d] # None /\ who[d] = p}

\* The events under way once p's mark has changed: what they tell of p is of before.
Overtaken(p) == [d \in Conns |-> IF d \in NewsOf(p) THEN "stale" ELSE news[d]]

\* p's mark changes silently: nobody will hear of it, and snapshots and the events of
\* p's on their way were made before.
Silently(p) ==
    /\ news' = Overtaken(p)
    /\ view' = [c \in Conns |-> Outdated(view[c], p)]
    /\ snap' = [c \in Conns |-> IF pc[c] = "replying" THEN Outdated(snap[c], p) ELSE snap[c]]

\* d has an event to broadcast: its player now has mark m.
Announce(d, kind, m) ==
    /\ event' = [event EXCEPT ![d] = kind]
    /\ news' = [(IF roster' = roster THEN news ELSE Overtaken(who[d])) EXCEPT ![d] = m]

\* Client c is sent an event: it updates its list, but not the snapshot that was taken
\* before and reaches it after.
Tell(c, kind, p, m) ==
    /\ view' = [view EXCEPT ![c] = Updated(@, kind, p, m)]
    /\ snap' = [snap EXCEPT ![c] = IF pc[c] = "replying" THEN Outdated(@, p) ELSE @]

-----------------------------------------------------------------------------
(* Rosters.                                                                *)

Full == Cardinality({p \in Players : roster[p] # "out"}) >= MaxPlayers

\* AddPlayer keeps the mark of a player who is in the room already.
Seated(p) == [roster EXCEPT ![p] = IF @ = "out" /\ ~Full THEN "in" ELSE @]

\* The first half of create_room is over: the creator is added, without an event, and
\* AddPlayer's error is ignored.
AddCreator(d) ==
    /\ Go(d, "creating", "joining")
    /\ roster' = Seated(who[d])
    /\ IF roster' = roster THEN UNCHANGED <<news, view, snap>> ELSE Silently(who[d])
    /\ UNCHANGED <<seating, who, inRoom, event, todo, to>>

\* tryMatch adds the players it has matched, without an event to the room.
MatchAdd ==
    \E p \in seating :
        /\ roster' = Seated(p)
        /\ IF roster' = roster THEN UNCHANGED <<news, view, snap>> ELSE Silently(p)
        /\ seating' = seating \ {p}
        /\ UNCHANGED <<who, pc, inRoom, event, todo, to>>

\* join_room: AddPlayer; a full room refuses.  A player_joined has no ready mark, so of
\* a ready player who was in the room already it tells clients something wrong.
Join(d) ==
    /\ d \notin inRoom /\ ~Full
    /\ Go(d, "idle", "joining")
    /\ roster' = Seated(who[d])
    /\ Announce(d, "joined", IF roster'[who[d]] = "ready" THEN "stale" ELSE "in")
    /\ UNCHANGED <<seating, who, inRoom, todo, to, snap, view>>

\* RoomID is set, before anything is sent.
Enter(d) ==
    /\ Go(d, "joining", IF event[d] = None THEN "snapping" ELSE "announcing")
    /\ inRoom' = inRoom \cup {d}
    /\ UNCHANGED <<roster, seating, who, event, news, todo, to, snap, view>>

\* leave_room: RemovePlayer.
Leave(d) ==
    /\ d \in inRoom
    /\ Go(d, "idle", "announcing")
    /\ roster' = [roster EXCEPT ![who[d]] = "out"]
    /\ Announce(d, "left", "out")
    /\ UNCHANGED <<seating, who, inRoom, todo, to, snap, view>>

\* IsReady = !IsReady, of a player in the room.
Toggled(p) ==
    [roster EXCEPT ![p] = CASE @ = "out" -> "out" [] @ = "in" -> "ready" [] @ = "ready" -> "in"]

\* Mutant: the event carries the mark from before the toggle.
MutReady(d) ==
    /\ d \in inRoom
    /\ Go(d, "idle", "announcing")
    /\ roster' = Toggled(who[d])
    /\ Announce(d, "ready", IF roster[who[d]] = "ready" THEN "ready" ELSE "in")
    /\ UNCHANGED <<seating, who, inRoom, todo, to, snap, view>>

\* room.ready: the toggle, and the mark it gave; of no member, the mark of somebody
\* who is not ready.
Ready(d) ==
    /\ d \in inRoom
    /\ Go(d, "idle", "announcing")
    /\ roster' = Toggled(who[d])
    /\ Announce(d, "ready", IF roster'[who[d]] = "ready" THEN "ready" ELSE "in")
    /\ UNCHANGED <<seating, who, inRoom, todo, to, snap, view>>

\* create_room of another room: RoomID is that room's from now on, until it is left,
\* and the player stays in this one.
Elsewhere(d) ==
    /\ d \in inRoom /\ pc[d] = "idle"
    /\ inRoom' = inRoom \ {d}
    /\ view' = [view EXCEPT ![d] = Nobody]
    /\ UNCHANGED <<roster, seating, who, pc, event, news, todo, to, snap>>

-----------------------------------------------------------------------------
(* Broadcast, under Manager.mu.                                            *)

Broadcasting == {d \in Conns : pc[d] \in {"scanning", "sending"}}

\* RLock; Manager.byID stays the same until RUnlock.
BroadcastBegins(d) ==
    /\ Go(d, "announcing", "scanning")
    /\ todo' = [todo EXCEPT ![d] = {c \in Conns : pc[c] # "gone"}]
    /\ UNCHANGED <<roster, seating, who, inRoom, event, news, to, snap, view>>

\* The loop comes to session c, and reads its RoomID.
Look(d) ==
    \E c \in todo[d] :
        /\ Go(d, "scanning", IF c \in inRoom THEN "sending" ELSE "scanning")
        /\ todo' = [todo EXCEPT ![d] = @ \ {c}]
        /\ to' = [to EXCEPT ![d] = IF c \in inRoom THEN c ELSE None]
        /\ UNCHANGED <<roster, seating, who, inRoom, event, news, snap, view>>

\* SendJSON writes to it, wherever it is by now.
Deliver(d) ==
    /\ Go(d, "sending", "scanning")
    /\ Tell(to[d], event[d], who[d], news[d])
    /\ to' = [to EXCEPT ![d] = None]
    /\ UNCHANGED <<roster, seating, who, inRoom, event, news, todo>>

\* RUnlock.  Then join_room replies with a snapshot; leave_room clears RoomID and, like
\* ready, replies without one.
BroadcastEnds(d) ==
    /\ todo[d] = {}
    /\ Go(d, "scanning", IF event[d] = "joined" THEN "snapping" ELSE "idle")
    /\ inRoom' = IF event[d] = "left" THEN inRoom \ {d} ELSE inRoom
    /\ event' = [event EXCEPT ![d] = None]
    /\ news' = [news EXCEPT ![d] = "out"]
    /\ UNCHANGED <<roster, seating, who, todo, to, snap, view>>

-----------------------------------------------------------------------------
(* Replies.                                                                *)

\* room_info of the session's room.
RoomInfo(d) ==
    /\ d \in inRoom
    /\ Go(d, "idle", "snapping")
    /\ UNCHANGED <<roster, seating, who, inRoom, event, news, todo, to, snap, view>>

\* roomToJSON, under room.mu.
Snapshot(d) ==
    /\ Go(d, "snapping", "replying")
    /\ snap' = [snap EXCEPT ![d] = roster]
    /\ UNCHANGED <<roster, seating, who, inRoom, event, news, todo, to, view>>

Reply(d) ==
    /\ Go(d, "replying", "idle")
    /\ view' = [view EXCEPT ![d] = snap[d]]
    /\ snap' = [snap EXCEPT ![d] = Nobody]
    /\ UNCHANGED <<roster, seating, who, inRoom, event, news, todo, to>>

-----------------------------------------------------------------------------
(* The end of a connection, and a new one.                                 *)

\* handleWS's cleanup removes the player and sends nothing.
Disconnect(d) ==
    /\ Go(d, "idle", "removing")
    /\ IF d \in inRoom /\ roster[who[d]] # "out"
         THEN Silently(who[d]) /\ roster' = [roster EXCEPT ![who[d]] = "out"]
         ELSE UNCHANGED <<roster, news, snap, view>>
    /\ UNCHANGED <<seating, who, inRoom, event, todo, to>>

\* Mutant: Remove does not take Manager.mu.
MutRemove(d) ==
    /\ Go(d, "removing", "gone")
    /\ inRoom' = inRoom \ {d}
    /\ view' = [view EXCEPT ![d] = Nobody]
    /\ UNCHANGED <<roster, seating, who, event, news, todo, to, snap>>

\* Manager.Remove and Manager.Add wait until no broadcast is in progress.
Remove(d) ==
    /\ Broadcasting = {}
    /\ Go(d, "removing", "gone")
    /\ inRoom' = inRoom \ {d}
    /\ view' = [view EXCEPT ![d] = Nobody]
    /\ UNCHANGED <<roster, seating, who, event, news, todo, to, snap>>

Reconnect(d) ==
    /\ Broadcasting = {}
    /\ Go(d, "gone", "idle")
    /\ UNCHANGED <<roster, seating, who, inRoom, event, news, todo, to, snap, view>>

\* auth.login, wherever the session is: BindPlayer.
Login(d) ==
    /\ Broadcasting = {}
    /\ pc[d] = "idle"
    /\ \E p \in Players : who' = [who EXCEPT ![d] = p]
    /\ UNCHANGED <<roster, seating, pc, inRoom, event, news, todo, to, snap, view>>

-----------------------------------------------------------------------------
Request(d) ==
    \/ Login(d) \/ Join(d) \/ Leave(d) \/ Ready(d) \/ RoomInfo(d) \/ Elsewhere(d)
    \/ Disconnect(d) \/ Reconnect(d)

Handler(d) ==
    \/ AddCreator(d) \/ Enter(d) \/ Snapshot(d) \/ Reply(d) \/ Remove(d)
    \/ BroadcastBegins(d) \/ Look(d) \/ Deliver(d) \/ BroadcastEnds(d)

Next == MatchAdd \/ \E d \in Conns : Request(d) \/ Handler(d)

Spec == Init /\ [][Next]_vars

-----------------------------------------------------------------------------
(* Properties.                                                             *)

\* A client in the room whose requests are answered sees every player of whom no event
\* is under way where the roster has it, although snapshots and events are taken and
\* sent in separate critical sections.  These are the ways its list can be spoilt:
\*   - a change nobody is told of (a creator or a matched player is added, a
\*     connection ends);
\*   - an event that overtakes the snapshot of a reply;
\*   - two connections logged in as one player, the events of whose changes are under
\*     way together, and so may arrive in the other order;
\*   - a ready player who joins again, having created another room or with a second
\*     connection: it stays ready, and its player_joined tells of one who is not.
ListsAgree ==
    \A c \in inRoom, p \in Players :
        pc[c] = "idle" /\ NewsOf(p) = {} => view[c][p] \in {roster[p], "stale"}
=============================================================================
