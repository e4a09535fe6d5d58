-------------------------- MODULE BroadcastsProofs ---------------------------
(***************************************************************************)
(* Proofs about Broadcasts, for any number of connections, timeouts, rooms *)
(* and players to notify: waiting for mutexes is never circular, and a     *)
(* broadcast reaches the room.                                             *)
(***************************************************************************)
EXTENDS Broadcasts, TLAPS

\* The steps of a goroutine that may hold Manager.mu for reading.
Reading == {"asking", "scanning", "sending", "writing"}

\* Which steps each kind of goroutine takes.
PlacesInv ==
    /\ \A s \in Sessions : pc[s] \notin {"armed", "closing"}
    /\ \A t \in Timers : pc[t] \in {"absent", "armed", "closing", "removing", "done"}
    /\ pc[Loop] \in Reading \cup {"idle", "queueing"}

\* What a goroutine has at a step: who sends has a session to send to, the loop of a
\* broadcast is read-locked from its first session to its last, and Loop keeps
\* MatchQueue.mu as long as it has players to notify.
HoldsInv ==
    /\ \A g \in Goroutines : pc[g] \in {"sending", "writing"} => target[g] \in Sessions
    /\ \A g \in Goroutines : pc[g] = "scanning" => g \in readers
    /\ pc[Loop] \in {"sending", "writing"} => Loop \in readers
    /\ IF pc[Loop] \in Reading THEN queueLock = Loop /\ matched > 0
                               ELSE queueLock = None /\ matched = 0

LockInv == TypeOK /\ PlacesInv /\ HoldsInv

\* Whoever is in a room and connected is known to the manager, from Add to Remove; nothing
\* is owed to a session before it is there.  A timeout is started after Add, and removes
\* a session whose socket it has closed.
KnownInv ==
    \A s \in Sessions :
        /\ pc[s] = "absent" => s \notin open /\ \A x \in Sessions : s \notin due[x]
        /\ pc[s] \in {"absent", "adding"} => s \notin authed /\ roomOf[s] = None
        /\ s \in open => s \in known \/ pc[s] \in {"adding", "ending"}
        /\ pc[s] \in {"ending", "done"} => roomOf[s] = None
        /\ \A t \in Timers : Watches[t] = s =>
               /\ pc[t] # "absent" => pc[s] \notin {"absent", "adding"}
               /\ pc[t] = "removing" => s \notin open

\* What a broadcast of s still owes it is still ahead of its loop, and is owed to sessions
\* of the room.
OwesInv ==
    \A s \in Sessions :
        /\ pc[s] = "asking" => roomOf[s] # None
        /\ s \in readers /\ pc[s] # "asking" =>
               /\ \A c \in due[s] \cap open : roomOf[c] = roomOf[s]
               /\ due[s] \cap open \subseteq
                      todo[s] \cup (IF pc[s] = "scanning" THEN {} ELSE {target[s]})

IInv == LockInv /\ KnownInv /\ OwesInv

-----------------------------------------------------------------------------
(* Types, places and what is held.                                         *)

LEMMA InitLockInv == Init => LockInv
  BY GroupAssumption, DistinctAssumption
     DEF Init, LockInv, TypeOK, PlacesInv, HoldsInv, Goroutines, Steps, Updates, Reading

\* How an operation begins: no lock is taken.
LEMMA RequestKeepsLocks ==
  ASSUME LockInv, NEW s \in Sessions, Request(s)
  PROVE  LockInv'
<1> USE GroupAssumption, TimersAssumption, DistinctAssumption
    DEF LockInv, TypeOK, PlacesInv, HoldsInv, Goroutines, Steps, Updates, Reading, locks,
        sess, work, net, Go, Send, GoWithTimer
<1>1. CASE Connect(s)
  BY <1>1 DEF Connect
<1>2. CASE Login(s)
  BY <1>2 DEF Login
<1>3. CASE Answer(s)
  BY <1>3 DEF Answer
<1>4. CASE Join(s)
  BY <1>4 DEF Join, SetRoom
<1>5. CASE Change(s)
  BY <1>5 DEF Change, SetRoom
<1>6. CASE Announce(s)
  BY <1>6 DEF Announce
<1>7. CASE EnterQueue(s)
  BY <1>7 DEF EnterQueue
<1>8. CASE Disconnect(s)
  BY <1>8 DEF Disconnect
<1> QED
  BY <1>1, <1>2, <1>3, <1>4, <1>5, <1>6, <1>7, <1>8 DEF Request

\* Manager.mu: it is the writer's once the readers are gone.
LEMMA ManagerKeepsLocks ==
  ASSUME LockInv, NEW g \in Goroutines,
         ManagerLock(g) \/ ManagerRLock(g) \/ Add(g) \/ BindPlayer(g) \/ Remove(g)
  PROVE  LockInv'
<1> USE GroupAssumption, TimersAssumption, DistinctAssumption
    DEF LockInv, TypeOK, PlacesInv, HoldsInv, Goroutines, Steps, Updates, Reading, locks,
        sess, work, net, Go, Send, ManagerUnlock
<1>1. CASE ManagerLock(g)
  BY <1>1 DEF ManagerLock
<1>2. CASE ManagerRLock(g)
  <2>1. /\ pc[g] = "asking" /\ pc' = [pc EXCEPT ![g] = "scanning"]
        /\ readers' = readers \cup {g} /\ g \in Sessions \cup {Loop}
        /\ UNCHANGED <<writer, sendLock, queueLock, known, roomOf, authed, target, matched,
                       open, stalled>>
    BY <1>2 DEF ManagerRLock
  <2>2. todo' \in [Goroutines -> SUBSET Sessions] /\ due' \in [Sessions -> SUBSET Sessions]
    <3>1. Removed \subseteq Sessions
      BY DEF Removed
    <3> QED
      BY <1>2, <3>1 DEF ManagerRLock
  <2>3. TypeOK'
    BY <2>1, <2>2
  <2>4. PlacesInv' /\ HoldsInv'
    BY <2>1
  <2> QED
    BY <2>3, <2>4
<1>3. CASE Add(g)
  BY <1>3 DEF Add, GoWithTimer
<1>4. CASE BindPlayer(g)
  BY <1>4 DEF BindPlayer
<1>5. CASE Remove(g)
  BY <1>5 DEF Remove, SessionOf
<1> QED
  BY <1>1, <1>2, <1>3, <1>4, <1>5

\* The loop of a broadcast.
LEMMA ScanKeepsLocks ==
  ASSUME LockInv, NEW g \in Goroutines, Scan(g) \/ ScanEnds(g)
  PROVE  LockInv'
<1> USE GroupAssumption, TimersAssumption, DistinctAssumption
    DEF LockInv, TypeOK, PlacesInv, HoldsInv, Goroutines, Steps, Updates, Reading, locks,
        sess, work, net, Go, Send
<1>1. CASE Scan(g)
  <2>1. PICK c \in todo[g] :
          /\ pc[g] = "scanning"
          /\ todo' = [todo EXCEPT ![g] = @ \ {c}]
          /\ \/ pc' = [pc EXCEPT ![g] = "sending"] /\ target' = [target EXCEPT ![g] = c]
             \/ UNCHANGED <<pc, target>>
          /\ UNCHANGED <<locks, sess, matched, due, net>>
    BY <1>1 DEF Scan
  <2>2. CASE UNCHANGED <<pc, target>>
    BY <2>1, <2>2
  <2>3. CASE pc' = [pc EXCEPT ![g] = "sending"] /\ target' = [target EXCEPT ![g] = c]
    <3>1. g \in readers /\ c \in Sessions /\ g \in Sessions \cup {Loop}
      BY <2>1
    <3>2. TypeOK'
      BY <2>1, <2>3, <3>1
    <3>3. PlacesInv'
      BY <2>1, <2>3, <3>1
    <3>4. HoldsInv'
      BY <2>1, <2>3, <3>1
    <3> QED
      BY <3>2, <3>3, <3>4
  <2> QED
    BY <2>1, <2>2, <2>3
<1>2. CASE ScanEnds(g) /\ g = Loop
  BY <1>2 DEF ScanEnds
<1>3. CASE ScanEnds(g) /\ g # Loop
  <2>1. /\ g \in Sessions /\ pc[g] = "scanning" /\ readers' = readers \ {g}
        /\ \/ pc' = [pc EXCEPT ![g] = "idle"] /\ target' = target
           \/ pc' = [pc EXCEPT ![g] = "sending"] /\ target' = [target EXCEPT ![g] = g]
        /\ UNCHANGED <<writer, sendLock, queueLock, matched, known, authed, todo, net>>
    BY <1>3 DEF ScanEnds
  <2>2. roomOf' \in [Sessions -> Rooms \cup {None}] /\ due' \in [Sessions -> SUBSET Sessions]
    <3>1. /\ roomOf' = roomOf \/ roomOf' = [roomOf EXCEPT ![g] = None]
          /\ due' = [s \in Sessions |-> IF s = g THEN {}
                                        ELSE IF roomOf' = roomOf THEN due[s] ELSE due[s] \ {g}]
      BY <1>3 DEF ScanEnds
    <3> QED
      BY <3>1
  <2>3. TypeOK'
    BY <2>1, <2>2
  <2>4. PlacesInv'
    BY <2>1
  <2>5. HoldsInv'
    <3>1. CASE pc' = [pc EXCEPT ![g] = "idle"] /\ target' = target
      BY <2>1, <3>1
    <3>2. CASE pc' = [pc EXCEPT ![g] = "sending"] /\ target' = [target EXCEPT ![g] = g]
      BY <2>1, <3>2
    <3> QED
      BY <2>1, <3>1, <3>2
  <2> QED
    BY <2>3, <2>4, <2>5
<1> QED
  BY <1>1, <1>2, <1>3

\* Session.mu, MatchQueue.mu and the sockets.
LEMMA OthersKeepLocks ==
  ASSUME LockInv
  PROVE  /\ \A g \in Goroutines : SendLock(g) \/ Write(g) \/ QueueLock(g) => LockInv'
         /\ \A t \in Timers : CloseByTimer(t) \/ TimerFires(t) => LockInv'
         /\ \A s \in Sessions : CloseAtEnd(s) \/ Client(s) => LockInv'
         /\ EnterQueue(Loop) => LockInv'
         /\ UNCHANGED vars => LockInv'
<1> USE GroupAssumption, TimersAssumption, DistinctAssumption
    DEF LockInv, TypeOK, PlacesInv, HoldsInv, Goroutines, Steps, Updates, Reading, locks,
        sess, work, net, Go, Send, CloseSocket
<1>1. ASSUME NEW g \in Goroutines, SendLock(g) PROVE LockInv'
  BY <1>1 DEF SendLock
<1>2. ASSUME NEW g \in Goroutines, Write(g) PROVE LockInv'
  BY <1>2 DEF Write, WriteReturns, LeftAfter
<1>3. ASSUME NEW g \in Goroutines, QueueLock(g) PROVE LockInv'
  <2>1. CASE g = Loop
    BY <1>3, <2>1 DEF QueueLock
  <2>2. CASE g # Loop
    <3>1. /\ g \in Sessions /\ queueLock = None /\ pc[g] = "queueing"
          /\ pc' = [pc EXCEPT ![g] = "sending"] /\ target' = [target EXCEPT ![g] = g]
          /\ UNCHANGED <<writer, readers, sendLock, queueLock, sess, todo, matched, due, net>>
      BY <1>3, <2>2 DEF QueueLock
    <3>2. TypeOK'
      BY <3>1
    <3>3. PlacesInv' /\ HoldsInv'
      BY <3>1
    <3> QED
      BY <3>2, <3>3
  <2> QED
    BY <2>1, <2>2
<1>4. ASSUME NEW t \in Timers, CloseByTimer(t) PROVE LockInv'
  BY <1>4 DEF CloseByTimer, SessionOf
<1>5. ASSUME NEW t \in Timers, TimerFires(t) PROVE LockInv'
  BY <1>5 DEF TimerFires
<1>6. ASSUME NEW s \in Sessions, CloseAtEnd(s) PROVE LockInv'
  BY <1>6 DEF CloseAtEnd
<1>7. ASSUME NEW c \in Sessions, Client(c) PROVE LockInv'
  BY <1>7 DEF Client, ClientStalls, HangUp
<1>8. CASE EnterQueue(Loop)
  BY <1>8 DEF EnterQueue
<1>9. CASE UNCHANGED vars
  BY <1>9 DEF vars
<1> QED
  BY <1>1, <1>2, <1>3, <1>4, <1>5, <1>6, <1>7, <1>8, <1>9

LEMMA NextLockInv == LockInv /\ [Next]_vars => LockInv'
  BY RequestKeepsLocks, ManagerKeepsLocks, ScanKeepsLocks, OthersKeepLocks
     DEF Next, Proceed

-----------------------------------------------------------------------------
(* Who is known, and what is owed.                                         *)

LEMMA InitKnowsAndOwes == Init => KnownInv /\ OwesInv
  BY DistinctAssumption DEF Init, KnownInv, OwesInv, Goroutines

LEMMA RequestKnowsAndOwes ==
  ASSUME IInv, NEW s \in Sessions, Request(s)
  PROVE  KnownInv' /\ OwesInv'
<1> USE DistinctAssumption
    DEF IInv, LockInv, TypeOK, KnownInv, OwesInv, Goroutines, locks, sess, work, net, Go, Send,
        GoWithTimer
<1>1. CASE Connect(s)
  BY <1>1 DEF Connect
<1>2. CASE Login(s)
  BY <1>2 DEF Login
<1>3. CASE Answer(s)
  BY <1>3 DEF Answer
<1>4. CASE Join(s)
  BY <1>4 DEF Join, SetRoom
<1>5. CASE Change(s)
  BY <1>5 DEF Change, SetRoom
<1>6. CASE Announce(s)
  BY <1>6 DEF Announce
<1>7. CASE EnterQueue(s)
  BY <1>7 DEF EnterQueue
<1>8. CASE Disconnect(s)
  BY <1>8 DEF Disconnect
<1> QED
  BY <1>1, <1>2, <1>3, <1>4, <1>5, <1>6, <1>7, <1>8 DEF Request

LEMMA ManagerKnowsAndOwes ==
  ASSUME IInv, NEW g \in Goroutines,
         ManagerLock(g) \/ ManagerRLock(g) \/ Add(g) \/ BindPlayer(g) \/ Remove(g)
  PROVE  KnownInv' /\ OwesInv'
<1> USE DistinctAssumption, TimersAssumption
    DEF IInv, LockInv, TypeOK, PlacesInv, KnownInv, OwesInv, Goroutines, locks, sess, work, net,
        Go, Send, ManagerUnlock, Updates, Reading
<1>1. CASE ManagerLock(g)
  BY <1>1 DEF ManagerLock
<1>2. CASE ManagerRLock(g)
  <2>1. KnownInv'
    <3>1. /\ pc[g] = "asking" /\ pc' = [pc EXCEPT ![g] = "scanning"]
          /\ UNCHANGED <<known, roomOf, authed, open>>
          /\ \A x \in Sessions : due'[x] \in {due[x], {c \in open : roomOf[c] = roomOf[g]}}
      BY <1>2 DEF ManagerRLock
    <3> QED
      BY <3>1
  <2>2. OwesInv'
    BY <1>2 DEF ManagerRLock
  <2> QED
    BY <2>1, <2>2
<1>3. CASE Add(g)
  <2>1. /\ g \in Sessions /\ pc[g] = "adding" /\ readers = {}
        /\ pc'[g] = "idle" /\ \A h \in Sessions \ {g} : pc'[h] = pc[h]
        /\ \A t \in Timers : pc'[t] = pc[t] \/ (Watches[t] = g /\ pc'[t] = "armed")
        /\ known' = known \cup {g}
        /\ readers' = {h \in Goroutines : pc[h] = "asking"}
        /\ UNCHANGED <<roomOf, authed, todo, target, due, open>>
    BY <1>3 DEF Add, GoWithTimer, SessionOf
  <2>2. KnownInv'
    BY <2>1
  <2>3. OwesInv'
    BY <2>1
  <2> QED
    BY <2>2, <2>3
<1>4. CASE BindPlayer(g)
  BY <1>4 DEF BindPlayer
<1>5. CASE Remove(g)
  <2>1. /\ readers = {} /\ SessionOf(g) \in Sessions /\ pc[g] = "removing"
        /\ pc' = [pc EXCEPT ![g] = IF g = SessionOf(g) THEN "ending" ELSE "done"]
        /\ readers' = {h \in Goroutines : pc[h] = "asking"}
        /\ known' = known \ {SessionOf(g)}
        /\ roomOf' = [roomOf EXCEPT ![SessionOf(g)] = IF g = SessionOf(g) THEN None ELSE @]
        /\ authed' = authed \ {g}
        /\ UNCHANGED <<todo, target, due, open>>
    BY <1>5 DEF Remove, SessionOf
  <2>2. CASE g \in Sessions
    <3>1. SessionOf(g) = g
      BY <2>2 DEF SessionOf
    <3>2. KnownInv'
      BY <2>1, <2>2, <3>1
    <3>3. OwesInv'
      BY <2>1, <2>2, <3>1
    <3> QED
      BY <3>2, <3>3
  <2>3. CASE g \in Timers
    <3>1. SessionOf(g) \notin open
      BY <2>1, <2>3 DEF SessionOf
    <3> QED
      BY <2>1, <2>3, <3>1
  <2> QED
    BY <2>1, <2>2, <2>3
<1> QED
  BY <1>1, <1>2, <1>3, <1>4, <1>5

LEMMA ScanKnowsAndOwes ==
  ASSUME IInv, NEW g \in Goroutines, Scan(g) \/ ScanEnds(g)
  PROVE  KnownInv' /\ OwesInv'
<1> USE DistinctAssumption
    DEF IInv, LockInv, TypeOK, PlacesInv, HoldsInv, KnownInv, OwesInv, Goroutines, locks, sess,
        work, net, Go, Send, Reading
<1>1. CASE Scan(g)
  <2>1. PICK c \in todo[g] :
          /\ pc[g] = "scanning"
          /\ todo' = [todo EXCEPT ![g] = @ \ {c}]
          /\ \/ /\ g = Loop \/ roomOf[c] = roomOf[g]
                /\ pc' = [pc EXCEPT ![g] = "sending"] /\ target' = [target EXCEPT ![g] = c]
             \/ g # Loop /\ roomOf[c] # roomOf[g] /\ UNCHANGED <<pc, target>>
          /\ UNCHANGED <<locks, sess, matched, due, net>>
    BY <1>1 DEF Scan
  <2> QED
    BY <2>1
<1>2. CASE ScanEnds(g)
  <2>1. KnownInv'
    BY <1>2 DEF ScanEnds
  <2>2. OwesInv'
    BY <1>2 DEF ScanEnds
  <2> QED
    BY <2>1, <2>2
<1> QED
  BY <1>1, <1>2

LEMMA OthersKnowAndOwe ==
  ASSUME IInv
  PROVE  /\ \A g \in Goroutines :
                SendLock(g) \/ Write(g) \/ QueueLock(g) => KnownInv' /\ OwesInv'
         /\ \A t \in Timers : CloseByTimer(t) \/ TimerFires(t) => KnownInv' /\ OwesInv'
         /\ \A s \in Sessions : CloseAtEnd(s) \/ Client(s) => KnownInv' /\ OwesInv'
         /\ EnterQueue(Loop) => KnownInv' /\ OwesInv'
         /\ UNCHANGED vars => KnownInv' /\ OwesInv'
<1> USE DistinctAssumption, TimersAssumption
    DEF IInv, LockInv, TypeOK, PlacesInv, HoldsInv, KnownInv, OwesInv, Goroutines, locks, sess,
        work, net, Go, Send, CloseSocket
<1>1. ASSUME NEW g \in Goroutines, SendLock(g) PROVE KnownInv' /\ OwesInv'
  BY <1>1 DEF SendLock
<1>2. ASSUME NEW g \in Goroutines, Write(g) PROVE KnownInv' /\ OwesInv'
  BY <1>2 DEF Write, WriteReturns, LeftAfter
<1>3. ASSUME NEW g \in Goroutines, QueueLock(g) PROVE KnownInv' /\ OwesInv'
  BY <1>3 DEF QueueLock
<1>4. ASSUME NEW t \in Timers, CloseByTimer(t) PROVE KnownInv' /\ OwesInv'
  BY <1>4 DEF CloseByTimer, SessionOf
<1>5. ASSUME NEW t \in Timers, TimerFires(t) PROVE KnownInv' /\ OwesInv'
  BY <1>5 DEF TimerFires
<1>6. ASSUME NEW s \in Sessions, CloseAtEnd(s) PROVE KnownInv' /\ OwesInv'
  BY <1>6 DEF CloseAtEnd
<1>7. ASSUME NEW c \in Sessions, Client(c) PROVE KnownInv' /\ OwesInv'
  BY <1>7 DEF Client, ClientStalls, HangUp
<1>8. CASE EnterQueue(Loop)
  BY <1>8 DEF EnterQueue
<1>9. CASE UNCHANGED vars
  BY <1>9 DEF vars
<1> QED
  BY <1>1, <1>2, <1>3, <1>4, <1>5, <1>6, <1>7, <1>8, <1>9

LEMMA NextIInv == IInv /\ [Next]_vars => IInv'
<1> SUFFICES ASSUME IInv, [Next]_vars PROVE IInv'
  OBVIOUS
<1>1. LockInv'
  BY NextLockInv DEF IInv
<1>2. KnownInv' /\ OwesInv'
  BY RequestKnowsAndOwes, ManagerKnowsAndOwes, ScanKnowsAndOwes, OthersKnowAndOwe
     DEF Next, Proceed
<1> QED
  BY <1>1, <1>2 DEF IInv

LEMMA Invariance == Spec => []IInv
<1>1. Init => IInv
  BY InitLockInv, InitKnowsAndOwes DEF IInv
<1> QED
  BY <1>1, NextIInv, PTL DEF Spec

-----------------------------------------------------------------------------
(* The theorems.                                                           *)

\* The types of the state: mutexes are held by the goroutines that use what they guard.
THEOREM TypeCorrect == Spec => []TypeOK
<1>1. IInv => TypeOK
  BY DEF IInv, LockInv
<1> QED
  BY <1>1, Invariance, PTL

\* What a goroutine waits for, by the step it is at.
LEMMA LockOrder ==
  ASSUME LockInv, NEW g \in Goroutines
  PROVE  /\ pc[g] \in {"sending", "closing"} => \A h \in WaitsFor(g) : pc[h] = "writing"
         /\ pc[g] \in Updates /\ writer = g => WaitsFor(g) \subseteq readers
         /\ pc[g] \in Updates /\ writer # g => WaitsFor(g) \subseteq {writer}
         /\ pc[g] = "asking" => WaitsFor(g) \subseteq (IF g \in readers THEN {} ELSE {writer})
         /\ pc[g] = "queueing" => \A h \in WaitsFor(g) : h = Loop /\ pc[h] \in Reading
         /\ pc[g] \notin Updates \cup {"asking", "sending", "closing", "queueing"} =>
                WaitsFor(g) = {}
  BY DistinctAssumption, TimersAssumption
     DEF LockInv, TypeOK, PlacesInv, HoldsInv, WaitsFor, Updates, Reading, Goroutines, SessionOf

\* Locks are taken in one order: MatchQueue.mu, then Manager.mu, then a session's, whose
\* holder only writes.  So of any set of goroutines one that is farthest in this order
\* waits for nobody in the set.
LEMMA SomebodyProceeds ==
  ASSUME LockInv, NEW G \in SUBSET Goroutines, G # {}
  PROVE  \E g \in G : WaitsFor(g) \cap G = {}
<1> SUFFICES ASSUME \A g \in G : WaitsFor(g) \cap G # {}
             PROVE  FALSE
  OBVIOUS
<1>1. \A g \in G : /\ pc[g] \in Updates \cup {"asking", "sending", "closing", "queueing"}
                   /\ ~(pc[g] = "asking" /\ g \in readers)
  BY LockOrder
<1>2. \A g \in G : pc[g] \notin {"sending", "closing"}
  <2>1. \A g \in G : pc[g] # "writing"
    BY <1>1 DEF Updates
  <2> QED
    BY <2>1, LockOrder
<1>3. writer \notin G
  <2>1. readers \cap G = {}
    BY <1>1, <1>2 DEF LockInv, TypeOK, Updates
  <2>2. ASSUME writer \in G PROVE pc[writer] \in Updates
    BY <2>2, DistinctAssumption DEF LockInv, TypeOK, Goroutines
  <2> QED
    BY <2>1, <2>2, LockOrder
<1>4. \A g \in G : pc[g] = "queueing"
  BY <1>1, <1>2, <1>3, LockOrder
<1> QED
  BY <1>4, LockOrder DEF Reading

\* No set of goroutines waits for itself, whatever broadcasts, logins, disconnects,
\* timeouts and notifications are under way, and whoever has stopped reading.
THEOREM NobodyWaitsInACircle == Spec => []NoCircularWait
<1>1. IInv => NoCircularWait
  BY SomebodyProceeds DEF IInv, NoCircularWait
<1> QED
  BY <1>1, Invariance, PTL

\* When the loop of a broadcast has come to its end, it owes nobody its event who is
\* still connected and has been in the room all along.
THEOREM BroadcastsReachRooms == Spec => []BroadcastReachesRoom
<1>1. IInv => BroadcastReachesRoom
  BY DEF IInv, LockInv, HoldsInv, OwesInv, BroadcastReachesRoom, Goroutines
<1> QED
  BY <1>1, Invariance, PTL
=============================================================================
