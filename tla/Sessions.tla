------------------------------ MODULE Sessions ------------------------------
(***************************************************************************)
(* Connections: the session manager's two maps, login, the authentication  *)
(* timeout and the end of a connection.                                    *)
(*                                                                         *)
(* Two goroutines share a session: handleWS reads its messages and runs    *)
(* the deferred cleanup, and time.AfterFunc's runs the timeout.  Neither   *)
(* Session.Authed nor Session.PlayerID is guarded by a mutex, so every     *)
(* access, and every call that takes Manager.mu, is a step of its own.     *)
(* What the cleanup does to rooms is Lobby's part.                         *)
(***************************************************************************)
EXTENDS Integers, FiniteSets

CONSTANTS
    Conns,      \* connections; each is opened at most once, under a new session id
    Players,    \* player ids of the white list
    Identities, \* Identities[c]: the players whose tokens the client of c holds
    None        \* no player, no session, a token that is not on the white list

ASSUME IdentitiesAssumption == Identities \in [Conns -> SUBSET Players]
ASSUME NoneAssumption == None \notin Players /\ None \notin Conns

VARIABLES
    byID,       \* Manager.byID: sessions the manager knows
    byPlayer,   \* Manager.byPlayer: a session or None per player
    open,       \* connections whose socket is open
    authed,     \* sessions with Authed
    playerId,   \* Session.PlayerID, None for ""
    pc,         \* where handleWS is
    token,      \* the player whose token is being checked, None for a bad token
    timer,      \* where the authentication timer is
    held        \* who is held up by a write to the client: it has stopped reading

vars == <<byID, byPlayer, open, authed, playerId, pc, token, timer, held>>

ReaderSteps == {"absent", "adding", "arming", "reading", "serving", "checking", "binding",
                "answering", "cleaning", "removing", "closing", "done"}
TimerSteps == {"off", "armed", "closing", "removing"}

\* Nobody; those who want Session.mu, for a reply; and those who want Manager.mu, too,
\* for an event of a broadcast or of the match loop.
Holds == {"nobody", "session", "manager"}

\* The types of the state; a session is known only between its Add and its Remove.
TypeOK ==
    /\ byID \subseteq {c \in Conns : pc[c] \notin {"absent", "adding", "closing", "done"}}
    /\ byPlayer \in [Players -> Conns \cup {None}]
    /\ open \subseteq Conns
    /\ authed \subseteq Conns
    /\ playerId \in [Conns -> Players \cup {None}]
    /\ pc \in [Conns -> ReaderSteps]
    /\ token \in [Conns -> Players \cup {None}]
    /\ timer \in [Conns -> TimerSteps]
    /\ held \in [Conns -> Holds]

Init ==
    /\ byID = {}
    /\ byPlayer = [p \in Players |-> None]
    /\ open = {}
    /\ authed = {}
    /\ playerId = [c \in Conns |-> None]
    /\ pc = [c \in Conns |-> "absent"]
    /\ token = [c \in Conns |-> None]
    /\ timer = [c \in Conns |-> "off"]
    /\ held = [c \in Conns |-> "nobody"]

Go(c, from, to) == pc[c] = from /\ pc' = [pc EXCEPT ![c] = to]

\* A write that has been waiting for the client then fails.
CloseSocket(c) ==
    /\ open' = open \ {c}
    /\ held' = [held EXCEPT ![c] = "nobody"]

\* A broadcast that writes to a client has Manager.mu for reading.
ManagerHeld == \E c \in Conns : held[c] = "manager"

-----------------------------------------------------------------------------
(* The session manager, each operation under Manager.mu.                   *)

\* Mutant: the player's entry outlives the session.
MutRemove(c) ==
    /\ ~ManagerHeld
    /\ byID' = byID \ {c}
    /\ UNCHANGED byPlayer

\* Remove deletes the player's entry whichever session it leads to.
Remove(c) ==
    /\ ~ManagerHeld
    /\ byPlayer' = [p \in Players |->
                       IF c \in byID /\ p = playerId[c] THEN None ELSE byPlayer[p]]
    /\ byID' = byID \ {c}

\* Mutant: a player's second session is not bound.
MutBindPlayer(c, p) ==
    /\ ~ManagerHeld
    /\ \/ /\ c \in byID /\ byPlayer[p] = None
          /\ playerId' = [playerId EXCEPT ![c] = p]
          /\ byPlayer' = [byPlayer EXCEPT ![p] = c]
       \/ /\ c \notin byID \/ byPlayer[p] # None
          /\ UNCHANGED <<playerId, byPlayer>>

\* BindPlayer does nothing for a session the manager does not know (any more).  The
\* entry of a player the session was before stays.
BindPlayer(c, p) ==
    /\ ~ManagerHeld
    /\ \/ /\ c \in byID
          /\ playerId' = [playerId EXCEPT ![c] = p]
          /\ byPlayer' = [byPlayer EXCEPT ![p] = c]
       \/ /\ c \notin byID
          /\ UNCHANGED <<playerId, byPlayer>>

-----------------------------------------------------------------------------
(* handleWS.                                                               *)

\* The upgrade: the socket is open, and the manager does not know of it.
Upgrade(c) ==
    /\ Go(c, "absent", "adding")
    /\ open' = open \cup {c}
    /\ UNCHANGED <<byID, byPlayer, authed, playerId, token, timer, held>>

Add(c) ==
    /\ ~ManagerHeld
    /\ Go(c, "adding", "arming")
    /\ byID' = byID \cup {c}
    /\ UNCHANGED <<byPlayer, open, authed, playerId, token, timer, held>>

StartTimer(c) ==
    /\ Go(c, "arming", "reading")
    /\ timer' = [timer EXCEPT ![c] = "armed"]
    /\ UNCHANGED <<byID, byPlayer, open, authed, playerId, token, held>>

\* auth.login arrives: with a token of the client's or a bad one, at any time, and
\* also from the read buffer of a socket that has just been closed.
Login(c) ==
    \E p \in Identities[c] \cup {None} :
        /\ Go(c, "reading", "checking")
        /\ token' = [token EXCEPT ![c] = p]
        /\ UNCHANGED <<byID, byPlayer, open, authed, playerId, timer, held>>

\* Any other message arrives and is handled, or refused.
Serve(c) ==
    /\ Go(c, "reading", "serving")
    /\ UNCHANGED <<byID, byPlayer, open, authed, playerId, token, timer, held>>

\* The handler returns, or panics, which ends the connection.
Served(c) ==
    /\ held[c] = "nobody"
    /\ Go(c, "serving", "reading") \/ Go(c, "serving", "cleaning")
    /\ UNCHANGED <<byID, byPlayer, open, authed, playerId, token, timer, held>>

\* CheckToken has failed: an error message, and the connection stays.
TokenRefused(c) ==
    /\ token[c] = None
    /\ Go(c, "checking", "answering")
    /\ UNCHANGED <<byID, byPlayer, open, authed, playerId, token, timer, held>>

TokenAccepted(c) ==
    /\ token[c] # None
    /\ Go(c, "checking", "binding")
    /\ authed' = authed \cup {c}
    /\ UNCHANGED <<byID, byPlayer, open, playerId, token, timer, held>>

Bind(c) ==
    /\ Go(c, "binding", "answering")
    /\ BindPlayer(c, token[c])
    /\ UNCHANGED <<byID, open, authed, token, timer, held>>

\* Stop only helps while the timer has not fired.
TimerStopped(c) == [timer EXCEPT ![c] = IF @ = "armed" THEN "off" ELSE @]

\* Mutant: any answer to auth.login stops the timer.
MutStopTimer(c) ==
    /\ held[c] = "nobody"
    /\ Go(c, "answering", "reading")
    /\ timer' = TimerStopped(c)
    /\ token' = [token EXCEPT ![c] = None]
    /\ UNCHANGED <<byID, byPlayer, open, authed, playerId, held>>

\* The answer is written, and then the timer stopped.
StopTimer(c) ==
    /\ held[c] = "nobody"
    /\ Go(c, "answering", "reading")
    /\ timer' = IF c \in authed THEN TimerStopped(c) ELSE timer
    /\ token' = [token EXCEPT ![c] = None]
    /\ UNCHANGED <<byID, byPlayer, open, authed, playerId, held>>

\* ReadMessage fails: a close frame or an error of the protocol on an open socket, or a
\* socket that is closed.
ReadFails(c) ==
    /\ Go(c, "reading", "cleaning")
    /\ UNCHANGED <<byID, byPlayer, open, authed, playerId, token, timer, held>>

\* The deferred cleanup: the timer, the room, the manager, the socket.
CleanUp(c) ==
    /\ Go(c, "cleaning", "removing")
    /\ timer' = TimerStopped(c)
    /\ UNCHANGED <<byID, byPlayer, open, authed, playerId, token, held>>

\* Mutant: the end of a session that never logged in is left to the timer.
MutRemoveAtEnd(c) ==
    /\ Go(c, "removing", "closing")
    /\ IF c \in authed THEN Remove(c) ELSE UNCHANGED <<byID, byPlayer>>
    /\ UNCHANGED <<open, authed, playerId, token, timer, held>>

RemoveAtEnd(c) ==
    /\ Go(c, "removing", "closing")
    /\ Remove(c)
    /\ UNCHANGED <<open, authed, playerId, token, timer, held>>

\* conn.Close, without Session.mu.
CloseAtEnd(c) ==
    /\ Go(c, "closing", "done")
    /\ CloseSocket(c)
    /\ UNCHANGED <<byID, byPlayer, authed, playerId, token, timer>>

-----------------------------------------------------------------------------
(* The timer's goroutine.                                                  *)

TimerGo(c, from, to) == timer[c] = from /\ timer' = [timer EXCEPT ![c] = to]

\* The check of Authed is not repeated before Close and Remove.
TimerFires(c) ==
    /\ TimerGo(c, "armed", IF c \in authed THEN "off" ELSE "closing")
    /\ UNCHANGED <<byID, byPlayer, open, authed, playerId, pc, token, held>>

\* Mutant: the session is removed first and closed after.
MutTimerCloses(c) ==
    /\ held[c] = "nobody"
    /\ TimerGo(c, "closing", "removing")
    /\ Remove(c)
    /\ UNCHANGED <<open, authed, playerId, pc, token, held>>

\* Session.Close waits for Session.mu.
TimerCloses(c) ==
    /\ held[c] = "nobody"
    /\ TimerGo(c, "closing", "removing")
    /\ CloseSocket(c)
    /\ UNCHANGED <<byID, byPlayer, authed, playerId, pc, token>>

TimerRemoves(c) ==
    /\ TimerGo(c, "removing", "off")
    /\ Remove(c)
    /\ UNCHANGED <<open, authed, playerId, pc, token, held>>

-----------------------------------------------------------------------------
(* The clients.                                                            *)

\* The client or the network closes the socket.
Hangup(c) ==
    /\ c \in open
    /\ CloseSocket(c)
    /\ UNCHANGED <<byID, byPlayer, authed, playerId, pc, token, timer>>

\* A client has stopped reading, and a write to it does not return: a reply of its own
\* handler, or an event somebody sends while holding Manager.mu.
WriteStalls(c) ==
    /\ c \in open /\ held[c] = "nobody"
    /\ \/ /\ pc[c] \in {"serving", "answering"}
          /\ held' = [held EXCEPT ![c] = "session"]
       \/ /\ c \in byID \/ \E p \in Players : byPlayer[p] = c
          /\ held' = [held EXCEPT ![c] = "manager"]
    /\ UNCHANGED <<byID, byPlayer, open, authed, playerId, pc, token, timer>>

\* The client reads on.
WriteReturns(c) ==
    /\ held[c] # "nobody"
    /\ held' = [held EXCEPT ![c] = "nobody"]
    /\ UNCHANGED <<byID, byPlayer, open, authed, playerId, pc, token, timer>>

-----------------------------------------------------------------------------
\* What the connection's goroutine does on its own.  It may stay in a handler for ever,
\* and need not get another message.
Reader(c) ==
    \/ Add(c) \/ StartTimer(c) \/ TokenRefused(c) \/ TokenAccepted(c) \/ Bind(c)
    \/ StopTimer(c) \/ CleanUp(c) \/ RemoveAtEnd(c) \/ CloseAtEnd(c)

Timer(c) == TimerFires(c) \/ TimerCloses(c) \/ TimerRemoves(c)

Client(c) ==
    \/ Upgrade(c) \/ Login(c) \/ Serve(c) \/ Served(c) \/ ReadFails(c)
    \/ Hangup(c) \/ WriteStalls(c) \/ WriteReturns(c)

Next == \E c \in Conns : Reader(c) \/ Timer(c) \/ Client(c)

Spec == Init /\ [][Next]_vars

\* Both goroutines are scheduled, the timer fires, the white list answers, and a mutex
\* that is free again and again is handed to who waits for it.  A read from a closed
\* socket fails in the end, once the read buffer is empty.
FairSpec ==
    /\ Spec
    /\ \A c \in Conns :
          /\ SF_vars(Reader(c)) /\ SF_vars(Timer(c))
          /\ SF_vars(c \notin open /\ ReadFails(c))

-----------------------------------------------------------------------------
(* Properties.                                                             *)

\* The entry of a player leads to a known session, whatever order logins, timeouts,
\* reconnects and cleanups come in, unless the client it was made for logged in as two
\* players: what others do leaves no entry behind.
EntryEndsWithSession ==
    \A p \in Players, c \in Conns :
        byPlayer[p] = c /\ Identities[c] = {p} => c \in byID

\* A broadcast, which goes by the manager, leaves no open connection out whose messages
\* are read: unknown are only those not added yet and those the cleanup is about to
\* close, since the timeout closes before it removes.
OpenIsKnown == \A c \in open : c \in byID \/ pc[c] \in {"adding", "closing"}

\* The timeout can remove a session between its Authed and its PlayerID: it then is
\* authenticated as nobody.  Its socket is closed and it is on its way out.
NobodyIsOnTheWayOut ==
    \A c \in authed :
        playerId[c] = None /\ pc[c] \notin {"binding"} => c \notin open /\ c \notin byID

\* A connection does not stay open without a login, unless for ever its client leaves a
\* write unread, for whose end Close waits, or a broadcast's write to such a client keeps
\* the manager from adding the session, so that its timer is not started, or from
\* removing it, so that its cleanup does not come to the close.
SilentIsClosed ==
    \A c \in Conns :
        \/ []<>(c \notin open \/ c \in authed)
        \/ <>[](held[c] # "nobody")
        \/ <>[](pc[c] \in {"adding", "removing"} /\ ManagerHeld)

\* The session of a closed socket is removed from the manager, unless for ever its last
\* handler does not return, or a broadcast writes to a client that has stopped reading.
ClosedIsForgotten ==
    \A c \in Conns :
        \/ []<>(c \in open \/ c \notin byID)
        \/ <>[](pc[c] = "serving")
        \/ <>[]ManagerHeld

-----------------------------------------------------------------------------
(* What the documentation says and the code does not do.                   *)

\* The manager finds every session that is online by its player id
\* (2026-07-23-game-server-design.md, the session manager).
OnlineIsFound ==
    \A c \in open :
        c \in byID /\ playerId[c] # None => byPlayer[playerId[c]] # None
=============================================================================
