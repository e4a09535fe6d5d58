----------------------------- MODULE Broadcasts -----------------------------
(***************************************************************************)
(* Sending: who waits for whom when the server writes to its clients.      *)
(*                                                                         *)
(* Manager.Broadcast and SendToPlayer write to sockets while they hold     *)
(* Manager.mu for reading, every write holds the session's own mutex and   *)
(* has no deadline, and the match loop notifies players while it holds     *)
(* MatchQueue.mu.  A client that stops reading fills its socket; the       *)
(* writer then waits, and others wait for the writer.  Manager.mu is Go's  *)
(* RWMutex: a writer that waits keeps new readers out.                     *)
(*                                                                         *)
(* What the messages say, and what the requests do to rooms and queues, is *)
(* left to RoomViews, Lobby and MatchQueue.                                *)
(***************************************************************************)
EXTENDS Integers, FiniteSets

CONSTANTS
    Sessions,   \* connections, each with its handleWS goroutine
    Timers,     \* goroutines of authentication timeouts
    Watches,    \* Watches[t]: the session timeout t was started for
    Loop,       \* the match loop's goroutine
    Rooms,      \* room ids
    Group,      \* the most players the match loop notifies in a row
    None

ASSUME GroupAssumption == Group \in Nat
ASSUME TimersAssumption == Watches \in [Timers -> Sessions]
ASSUME DistinctAssumption ==
    /\ Sessions \cap Timers = {}
    /\ Loop \notin Sessions \cup Timers
    /\ None \notin Sessions \cup Timers \cup {Loop} \cup Rooms

Goroutines == Sessions \cup Timers \cup {Loop}

\* The session a goroutine was started for.
SessionOf(g) == IF g \in Timers THEN Watches[g] ELSE g

VARIABLES
    pc,         \* where a goroutine is
    writer,     \* the writer that holds or is next to hold Manager.mu
    readers,    \* goroutines that hold Manager.mu for reading, or were admitted to it
    sendLock,   \* Session.mu: its holder
    queueLock,  \* MatchQueue.mu: its holder
    known,      \* Manager.byID
    roomOf,     \* Session.RoomID
    authed,     \* Session.Authed
    todo,       \* sessions a broadcast has not looked at yet
    target,     \* the session a goroutine writes to
    matched,    \* players the match loop still has to notify
    open,       \* sockets that are open at both ends
    stalled,    \* those whose client has stopped reading, and whose buffers are full
    due         \* history: sessions a broadcast in progress still owes its event

locks == <<writer, readers, sendLock, queueLock>>
sess == <<known, roomOf, authed>>
work == <<todo, target, matched, due>>
net == <<open, stalled>>
vars == <<pc, writer, readers, sendLock, queueLock, known, roomOf, authed,
          todo, target, matched, open, stalled, due>>

\* Steps that want Manager.mu for writing.
Updates == {"adding", "binding", "removing"}
Steps == Updates \cup {"absent", "idle", "asking", "scanning", "sending", "writing",
                       "queueing", "armed", "closing", "ending", "done"}

\* The types of the state; the holder of Session.mu is the one that writes to it.
TypeOK ==
    /\ pc \in [Goroutines -> Steps]
    /\ writer \in {g \in Goroutines : pc[g] \in Updates} \cup {None}
    /\ readers \subseteq {g \in Goroutines : pc[g] \in {"asking", "scanning", "sending", "writing"}}
    /\ sendLock \in [Sessions -> Goroutines \cup {None}]
    /\ \A c \in Sessions, g \in Goroutines :
           sendLock[c] = g <=> pc[g] = "writing" /\ target[g] = c
    /\ queueLock \in {Loop, None}
    /\ known \subseteq Sessions /\ authed \subseteq Sessions
    /\ roomOf \in [Sessions -> Rooms \cup {None}]
    /\ todo \in [Goroutines -> SUBSET Sessions]
    /\ target \in [Goroutines -> Sessions \cup {None}]
    /\ matched \in 0..Group
    /\ open \subseteq Sessions /\ stalled \subseteq open
    /\ due \in [Sessions -> SUBSET Sessions]

Init ==
    /\ pc = [g \in Goroutines |-> IF g = Loop THEN "idle" ELSE "absent"]
    /\ writer = None /\ readers = {}
    /\ sendLock = [c \in Sessions |-> None]
    /\ queueLock = None
    /\ known = {} /\ authed = {}
    /\ roomOf = [c \in Sessions |-> None]
    /\ todo = [g \in Goroutines |-> {}]
    /\ target = [g \in Goroutines |-> None]
    /\ matched = 0
    /\ open = {} /\ stalled = {}
    /\ due = [c \in Sessions |-> {}]

Go(g, from, to) == pc[g] = from /\ pc' = [pc EXCEPT ![g] = to]

\* g goes on to write to session c.
Send(g, from, c) ==
    /\ Go(g, from, "sending")
    /\ target' = [target EXCEPT ![g] = c]

CloseSocket(c) ==
    /\ open' = open \ {c}
    /\ stalled' = stalled \ {c}

-----------------------------------------------------------------------------
(* Requests, timeouts and ticks: how an operation begins.                  *)

\* handleWS goes from one step to another, and s's timeout too if that is where it is.
GoWithTimer(s, from, to, timerFrom, timerTo) ==
    /\ pc[s] = from
    /\ pc' = [g \in Goroutines |->
                 IF g = s THEN to
                 ELSE IF g \in Timers /\ SessionOf(g) = s /\ pc[g] = timerFrom THEN timerTo
                 ELSE pc[g]]

\* The upgrade; then Manager.Add.
Connect(s) ==
    /\ Go(s, "absent", "adding")
    /\ open' = open \cup {s}
    /\ UNCHANGED <<locks, sess, work, stalled>>

\* auth.login with a good token; then BindPlayer and the reply.  A timeout that has not
\* looked at Authed yet does nothing from here on, and is stopped.
Login(s) ==
    /\ GoWithTimer(s, "idle", "binding", "armed", "done")
    /\ authed' = authed \cup {s}
    /\ UNCHANGED <<locks, known, roomOf, work, net>>

\* Whatever is only answered: a message that is not JSON or has no handler, a
\* request that is refused or only reads, and anything from a session without login.
Answer(s) ==
    /\ Send(s, "idle", s)
    /\ UNCHANGED <<locks, sess, todo, matched, due, net>>

\* RoomID becomes r; a broadcast in progress owes s nothing any more.
SetRoom(s, r) ==
    /\ roomOf' = [roomOf EXCEPT ![s] = r]
    /\ due' = [x \in Sessions |-> due[x] \ {s}]

\* join_room sets RoomID and broadcasts.
Join(s) ==
    \E r \in Rooms :
        /\ s \in authed /\ roomOf[s] = None
        /\ Go(s, "idle", "asking")
        /\ SetRoom(s, r)
        /\ UNCHANGED <<locks, known, authed, todo, target, matched, net>>

\* create_room sets RoomID, and leave_room clears it when the room is not listed any
\* more, without a broadcast.
Change(s) ==
    \E r \in (Rooms \cup {None}) \ {roomOf[s]} :
        /\ s \in authed
        /\ Send(s, "idle", s)
        /\ SetRoom(s, r)
        /\ UNCHANGED <<locks, known, authed, todo, matched, net>>

\* Every other handler that broadcasts: leave_room, ready, start_game, chat, move.
Announce(s) ==
    /\ roomOf[s] # None
    /\ Go(s, "idle", "asking")
    /\ UNCHANGED <<locks, sess, work, net>>

\* match.start and match.cancel; and a tick of the match loop.
EnterQueue(g) ==
    /\ g \in authed \cup {Loop}
    /\ Go(g, "idle", "queueing")
    /\ UNCHANGED <<locks, sess, work, net>>

\* The read fails, as the socket is closed or as the client sent a close frame or a frame
\* that is none, or a handler panics; the deferred cleanup stops the timeout, takes the
\* player out of its room and calls Manager.Remove.
Disconnect(s) ==
    /\ GoWithTimer(s, "idle", "removing", "armed", "done")
    /\ UNCHANGED <<locks, sess, work, net>>

\* The timeout finds the session without login.
TimerFires(t) ==
    /\ Go(t, "armed", "closing")
    /\ UNCHANGED <<locks, sess, work, net>>

-----------------------------------------------------------------------------
(* Manager.mu.                                                             *)

\* Lock begins: from here on no reader is admitted.
ManagerLock(g) ==
    /\ pc[g] \in Updates
    /\ writer = None
    /\ writer' = g
    /\ UNCHANGED <<pc, readers, sendLock, queueLock, sess, work, net>>

\* The readers are gone and the update is made; Unlock admits the readers that wait.
ManagerUnlock(g) ==
    /\ writer = g /\ readers = {}
    /\ writer' = None
    /\ readers' = {h \in Goroutines : pc[h] = "asking"}
    /\ UNCHANGED <<sendLock, queueLock, todo, matched, due>>

\* The session is known, and its timeout is started.
Add(s) ==
    /\ ManagerUnlock(s)
    /\ GoWithTimer(s, "adding", "idle", "absent", "armed")
    /\ known' = known \cup {s}
    /\ UNCHANGED <<roomOf, authed, target, net>>

BindPlayer(s) ==
    /\ ManagerUnlock(s)
    /\ Send(s, "binding", s)
    /\ UNCHANGED <<sess, net>>

\* A timeout is over then; handleWS, whose player is in no room any more, goes on.
Remove(g) ==
    LET s == SessionOf(g)
    IN  /\ ManagerUnlock(g)
        /\ Go(g, "removing", IF g = s THEN "ending" ELSE "done")
        /\ known' = known \ {s}
        /\ roomOf' = [roomOf EXCEPT ![s] = IF g = s THEN None ELSE @]
        /\ authed' = authed \ {g}
        /\ UNCHANGED <<target, net>>

\* handleWS closes its socket, whatever the state of Session.mu, and is over.
CloseAtEnd(s) ==
    /\ Go(s, "ending", "done")
    /\ CloseSocket(s)
    /\ UNCHANGED <<locks, sess, work>>

Removed == {c \in Sessions : pc[c] \in {"ending", "done"}}

\* RLock in Broadcast, and in SendToPlayer, which looks one player up in byPlayer: the
\* session it finds, if any.  It may have been removed: the entry of a session that
\* logged in as somebody else since stays.
ManagerRLock(g) ==
    /\ writer = None \/ g \in readers
    /\ Go(g, "asking", "scanning")
    /\ readers' = readers \cup {g}
    /\ IF g = Loop
         THEN /\ \E found \in {{}} \cup {{c} : c \in known \cup Removed} :
                     todo' = [todo EXCEPT ![g] = found]
              /\ UNCHANGED due
         ELSE /\ todo' = [todo EXCEPT ![g] = known]
              /\ due' = [due EXCEPT ![g] = {c \in open : roomOf[c] = roomOf[g]}]
    /\ UNCHANGED <<writer, sendLock, queueLock, sess, target, matched, net>>

\* The next session of Broadcast's loop, in any order: written to if its RoomID is
\* the room's at this moment.
Scan(g) ==
    \E c \in todo[g] :
        /\ pc[g] = "scanning"
        /\ todo' = [todo EXCEPT ![g] = @ \ {c}]
        /\ IF g = Loop \/ roomOf[c] = roomOf[g]
             THEN Send(g, "scanning", c)
             ELSE UNCHANGED <<pc, target>>
        /\ UNCHANGED <<locks, sess, matched, due, net>>

\* RUnlock.  A handler then is done (chat, move), or replies (join, ready, start), or
\* clears RoomID and replies (leave).  The match loop goes on to its next player.
ScanEnds(g) ==
    /\ pc[g] = "scanning" /\ todo[g] = {}
    /\ readers' = readers \ {g}
    /\ IF g = Loop
         THEN /\ Go(g, "scanning", IF matched = 1 THEN "idle" ELSE "asking")
              /\ matched' = matched - 1
              /\ queueLock' = IF matched = 1 THEN None ELSE queueLock
              /\ UNCHANGED <<roomOf, due, target>>
         ELSE /\ \/ Go(g, "scanning", "idle") /\ UNCHANGED <<roomOf, target>>
                 \/ Send(g, "scanning", g)
                    /\ roomOf' \in {roomOf, [roomOf EXCEPT ![g] = None]}
              /\ due' = [s \in Sessions |-> IF s = g THEN {}
                                            ELSE IF roomOf' = roomOf THEN due[s] ELSE due[s] \ {g}]
              /\ UNCHANGED <<matched, queueLock>>
    /\ UNCHANGED <<writer, sendLock, known, authed, todo, net>>

-----------------------------------------------------------------------------
(* Session.mu and the socket.                                              *)

\* Mutant: the session is not locked.
MutSendLock(g) ==
    /\ Go(g, "sending", "writing")
    /\ sendLock' = [sendLock EXCEPT ![target[g]] = g]
    /\ UNCHANGED <<writer, readers, queueLock, sess, work, net>>

\* SendJSON locks the session.
SendLock(g) ==
    /\ pc[g] = "sending" /\ sendLock[target[g]] = None
    /\ Go(g, "sending", "writing")
    /\ sendLock' = [sendLock EXCEPT ![target[g]] = g]
    /\ UNCHANGED <<writer, readers, queueLock, sess, work, net>>

\* WriteJSON has no deadline: it returns once the socket takes the message or is closed.
WriteReturns(g) == pc[g] = "writing" /\ target[g] \notin stalled

\* Mutant: the loop ends at the first session that cannot be written to.
MutLeftAfter(g) == IF target[g] \in open THEN todo[g] ELSE {}

\* What is left of a broadcast after a write, which may have failed.
LeftAfter(g) == todo[g]

\* Mutant: a session that cannot be written to is removed, from inside the broadcast.
MutWrite(g) ==
    LET c == target[g]
    IN  /\ WriteReturns(g)
        /\ Go(g, "writing", IF c \notin open THEN "removing"
                             ELSE IF g \in readers THEN "scanning" ELSE "idle")
        /\ sendLock' = [sendLock EXCEPT ![c] = None]
        /\ target' = [target EXCEPT ![g] = None]
        /\ UNCHANGED <<writer, readers, queueLock, sess, todo, matched, net, due>>

\* WriteJSON returns, and SendJSON unlocks the session; its error changes nothing.
Write(g) ==
    LET c == target[g]
    IN  /\ WriteReturns(g)
        /\ Go(g, "writing", IF g \in readers THEN "scanning" ELSE "idle")
        /\ sendLock' = [sendLock EXCEPT ![c] = None]
        /\ target' = [target EXCEPT ![g] = None]
        /\ todo' = [todo EXCEPT ![g] = LeftAfter(g)]
        /\ due' = [s \in Sessions |-> IF s = g THEN due[s] \ {c} ELSE due[s]]
        /\ UNCHANGED <<writer, readers, queueLock, sess, matched, net>>

\* Session.Close, called by the timeout: under Session.mu.
CloseByTimer(t) ==
    LET c == SessionOf(t)
    IN  /\ sendLock[c] = None
        /\ Go(t, "closing", "removing")
        /\ CloseSocket(c)
        /\ UNCHANGED <<locks, sess, work>>


\* MatchQueue.mu: a handler's Enqueue or Dequeue is over at once and is answered; the
\* match loop keeps it until the players of the groups it made are notified.
QueueLock(g) ==
    /\ queueLock = None
    /\ IF g = Loop
         THEN \E n \in 0..Group :
                  /\ Go(g, "queueing", IF n = 0 THEN "idle" ELSE "asking")
                  /\ matched' = n
                  /\ queueLock' = IF n = 0 THEN None ELSE g
                  /\ UNCHANGED target
         ELSE Send(g, "queueing", g) /\ UNCHANGED <<queueLock, matched>>
    /\ UNCHANGED <<writer, readers, sendLock, sess, todo, due, net>>

-----------------------------------------------------------------------------
(* The clients.                                                            *)

ClientStalls(c) ==
    /\ c \in open \ stalled
    /\ stalled' = stalled \cup {c}
    /\ UNCHANGED <<pc, locks, sess, work, open>>

\* The client closes, or the network gives the connection up.
HangUp(c) ==
    /\ c \in open
    /\ CloseSocket(c)
    /\ UNCHANGED <<pc, locks, sess, work>>

-----------------------------------------------------------------------------
Request(s) ==
    Connect(s) \/ Login(s) \/ Answer(s) \/ Join(s) \/ Change(s) \/ Announce(s) \/ EnterQueue(s) \/ Disconnect(s)

\* What a goroutine does on its own.
Proceed(g) ==
    \/ ManagerLock(g) \/ ManagerRLock(g) \/ Add(g) \/ BindPlayer(g) \/ Remove(g)
    \/ Scan(g) \/ ScanEnds(g) \/ SendLock(g) \/ Write(g) \/ QueueLock(g)
    \/ g \in Timers /\ CloseByTimer(g)
    \/ g \in Sessions /\ CloseAtEnd(g)

Client(c) == ClientStalls(c) \/ HangUp(c)

Next ==
    \/ \E s \in Sessions : Request(s) \/ Client(s)
    \/ \E g \in Goroutines : Proceed(g)
    \/ \E t \in Timers : TimerFires(t)
    \/ EnterQueue(Loop)

Spec == Init /\ [][Next]_vars

\* Goroutines are scheduled, and Go's mutexes starve nobody who waits for them.  A
\* socket whose client reads takes the message in the end.
FairSpec == Spec /\ \A g \in Goroutines : SF_vars(Proceed(g))

-----------------------------------------------------------------------------
(* Properties.                                                             *)

\* The goroutines that hold what g waits for.
WaitsFor(g) ==
    CASE pc[g] \in Updates -> IF writer = g THEN readers ELSE {writer} \ {None}
      [] pc[g] = "asking" -> IF g \in readers THEN {} ELSE {writer} \ {None}
      [] pc[g] = "sending" -> {sendLock[target[g]]} \ {None}
      [] pc[g] = "closing" -> {sendLock[SessionOf(g)]} \ {None}
      [] pc[g] = "queueing" -> {queueLock} \ {None}
      [] OTHER -> {}

\* Goroutines never wait for each other in a circle, over the three kinds of mutexes:
\* broadcasts of several rooms, logins, disconnects, timeouts and the match loop.
NoCircularWait ==
    \A G \in (SUBSET Goroutines) \ {{}} : \E g \in G : WaitsFor(g) \cap G = {}

\* A broadcast reaches everybody who was in the room when it began and has neither left
\* nor lost the connection since, whoever else leaves, hangs up or is removed meanwhile.
BroadcastReachesRoom ==
    \A s \in Sessions : pc[s] = "scanning" /\ todo[s] = {} => due[s] \cap open = {}

Busy(g) == pc[g] \notin {"idle", "absent", "armed", "done"}

\* Somebody writes to a client that has stopped reading.
HeldUpByClient == \E g \in Goroutines : pc[g] = "writing" /\ target[g] \in stalled

=============================================================================
