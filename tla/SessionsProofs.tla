--------------------------- MODULE SessionsProofs ---------------------------
(***************************************************************************)
(* Proofs about Sessions, for any number of connections and players: what  *)
(* the two maps of the session manager may and may not hold while logins,  *)
(* timeouts, reconnects and cleanups overtake each other.                  *)
(***************************************************************************)
EXTENDS Sessions, TLAPS

\* What the steps of the two goroutines know: a session has neither a timer nor a login
\* before its reader starts them, the timer closes before it removes, and whatever a
\* session is bound to is a player its client has a token of.
StepInv ==
    \A c \in Conns :
        /\ pc[c] \in {"absent", "adding"} => timer[c] = "off" /\ c \notin authed
        /\ timer[c] = "removing" => c \notin open
        /\ token[c] \in Identities[c] \cup {None}
        /\ pc[c] = "binding" => token[c] # None
        /\ playerId[c] \in Identities[c] \cup {None}
        /\ \A p \in Players : byPlayer[p] = c => playerId[c] # None

IInv == TypeOK /\ StepInv /\ EntryEndsWithSession /\ OpenIsKnown /\ NobodyIsOnTheWayOut

LEMMA InitIInv == Init => IInv
  BY NoneAssumption DEF Init, IInv, TypeOK, StepInv, EntryEndsWithSession, OpenIsKnown,
                        NobodyIsOnTheWayOut, ReaderSteps, TimerSteps, Holds

\* Removing c leaves no entry of a client with one token behind: the entry that leads to
\* c is that of c's player id.
LEMMA RemoveLeavesNone ==
  ASSUME IInv, NEW c \in Conns, Remove(c)
  PROVE  EntryEndsWithSession'
<1> SUFFICES ASSUME NEW p \in Players, NEW d \in Conns, byPlayer'[p] = d, Identities[d] = {p}
             PROVE  d \in byID'
  BY DEF EntryEndsWithSession
<1>1. byPlayer[p] = d /\ ~(c \in byID /\ p = playerId[c])
  BY NoneAssumption DEF Remove
<1>2. d \in byID /\ playerId[d] = p
  BY <1>1 DEF IInv, EntryEndsWithSession, StepInv
<1> QED
  BY <1>1, <1>2 DEF Remove

LEMMA RemoveTypes ==
  ASSUME TypeOK, NEW c \in Conns, Remove(c)
  PROVE  /\ byPlayer' \in [Players -> Conns \cup {None}]
         /\ \A p \in Players : byPlayer'[p] \in {byPlayer[p], None}
         /\ byID' = byID \ {c}
  BY DEF TypeOK, Remove

LEMMA BindKeeps == ASSUME IInv, NEW c \in Conns, Bind(c) PROVE IInv'
<1> USE DEF IInv, TypeOK, Bind, Go
<1>1. token[c] \in Players /\ token[c] \in Identities[c]
  BY IdentitiesAssumption DEF StepInv
<1>2. TypeOK'
  BY <1>1 DEF BindPlayer, ReaderSteps
<1>3. StepInv'
  BY <1>1, NoneAssumption DEF StepInv, BindPlayer
<1>4. EntryEndsWithSession'
  BY <1>1 DEF EntryEndsWithSession, BindPlayer
<1>5. OpenIsKnown'
  BY DEF OpenIsKnown
<1>6. NobodyIsOnTheWayOut'
  BY <1>1, NoneAssumption DEF NobodyIsOnTheWayOut, BindPlayer, OpenIsKnown
<1> QED
  BY <1>2, <1>3, <1>4, <1>5, <1>6

\* The reader removes a session it is about to close, the timer one it has closed.
LEMMA RemovalKeeps ==
  ASSUME IInv, NEW c \in Conns, RemoveAtEnd(c) \/ TimerRemoves(c)
  PROVE  IInv'
<1> USE DEF IInv
<1>1. Remove(c) /\ UNCHANGED <<open, authed, playerId, token, held>>
  BY DEF RemoveAtEnd, TimerRemoves
<1>2. TypeOK'
  BY <1>1, RemoveTypes DEF TypeOK, RemoveAtEnd, TimerRemoves, Go, TimerGo, ReaderSteps, TimerSteps
<1>3. StepInv'
  BY <1>1, RemoveTypes, NoneAssumption
     DEF StepInv, TypeOK, RemoveAtEnd, TimerRemoves, Go, TimerGo
<1>4. EntryEndsWithSession'
  BY <1>1, RemoveLeavesNone
<1>5. OpenIsKnown'
  BY <1>1, RemoveTypes DEF OpenIsKnown, StepInv, TypeOK, RemoveAtEnd, TimerRemoves, Go, TimerGo
<1>6. NobodyIsOnTheWayOut'
  BY <1>1, RemoveTypes DEF NobodyIsOnTheWayOut, TypeOK, RemoveAtEnd, TimerRemoves, Go
<1> QED
  BY <1>2, <1>3, <1>4, <1>5, <1>6

\* The steps that bind nothing and remove nothing.
LEMMA OthersKeep ==
  ASSUME IInv, NEW c \in Conns,
         \/ Upgrade(c) \/ Add(c) \/ StartTimer(c) \/ Login(c) \/ Serve(c) \/ Served(c)
         \/ TokenRefused(c) \/ TokenAccepted(c) \/ StopTimer(c) \/ ReadFails(c) \/ CleanUp(c)
         \/ CloseAtEnd(c) \/ TimerFires(c) \/ TimerCloses(c) \/ Hangup(c)
         \/ WriteStalls(c) \/ WriteReturns(c)
  PROVE  IInv'
<1> USE NoneAssumption DEF IInv, TypeOK, StepInv, EntryEndsWithSession, OpenIsKnown,
        NobodyIsOnTheWayOut, ReaderSteps, TimerSteps, Holds, Go, TimerGo, TimerStopped, CloseSocket
<1>1. CASE Upgrade(c) \/ Add(c) \/ StartTimer(c)
  <2>1. CASE Upgrade(c)
    BY <2>1 DEF Upgrade
  <2>2. CASE Add(c)
    BY <2>2 DEF Add
  <2>3. CASE StartTimer(c)
    BY <2>3 DEF StartTimer
  <2> QED
    BY <1>1, <2>1, <2>2, <2>3
<1>2. CASE Login(c)
  <2>1. PICK p \in Identities[c] \cup {None} :
          /\ pc[c] = "reading" /\ pc' = [pc EXCEPT ![c] = "checking"]
          /\ token' = [token EXCEPT ![c] = p]
          /\ UNCHANGED <<byID, byPlayer, open, authed, playerId, timer, held>>
    BY <1>2 DEF Login
  <2>2. p \in Players \cup {None}
    BY IdentitiesAssumption
  <2> QED
    BY <2>1, <2>2
<1>3. CASE Serve(c) \/ Served(c) \/ ReadFails(c)
  BY <1>3 DEF Serve, Served, ReadFails
<1>4. CASE TokenRefused(c) \/ TokenAccepted(c)
  BY <1>4 DEF TokenRefused, TokenAccepted
<1>5. CASE StopTimer(c) \/ CleanUp(c)
  BY <1>5 DEF StopTimer, CleanUp
<1>6. CASE CloseAtEnd(c)
  BY <1>6 DEF CloseAtEnd
<1>7. CASE TimerFires(c) \/ TimerCloses(c)
  BY <1>7 DEF TimerFires, TimerCloses
<1>8. CASE Hangup(c) \/ WriteStalls(c) \/ WriteReturns(c)
  BY <1>8 DEF Hangup, WriteStalls, WriteReturns
<1> QED
  BY <1>1, <1>2, <1>3, <1>4, <1>5, <1>6, <1>7, <1>8

LEMMA NextIInv == IInv /\ [Next]_vars => IInv'
<1> SUFFICES ASSUME IInv, [Next]_vars PROVE IInv'
  OBVIOUS
<1>1. ASSUME NEW c \in Conns, Reader(c) \/ Timer(c) \/ Client(c) PROVE IInv'
  BY <1>1, BindKeeps, RemovalKeeps, OthersKeep DEF Reader, Timer, Client
<1>2. CASE UNCHANGED vars
  BY <1>2 DEF vars, IInv, TypeOK, StepInv, EntryEndsWithSession, OpenIsKnown, NobodyIsOnTheWayOut
<1> QED
  BY <1>1, <1>2 DEF Next

\* The inductive invariant holds, in whatever order reader and timer take their steps.
THEOREM IInvHolds == Spec => []IInv
  BY InitIInv, NextIInv, PTL DEF Spec

\* The types of Sessions' state.
THEOREM TypeCorrect == Spec => []TypeOK
<1>1. IInv => TypeOK
  BY DEF IInv
<1> QED
  BY <1>1, IInvHolds, PTL

\* The entry of a player whose client logs in as nobody else ends with its session.
THEOREM EntriesEnd == Spec => []EntryEndsWithSession
<1>1. IInv => EntryEndsWithSession
  BY DEF IInv
<1> QED
  BY <1>1, IInvHolds, PTL

\* The manager knows every open connection whose messages are read.
THEOREM OpenConnectionsKnown == Spec => []OpenIsKnown
<1>1. IInv => OpenIsKnown
  BY DEF IInv
<1> QED
  BY <1>1, IInvHolds, PTL

\* A session authenticated as nobody is closed and removed.
THEOREM NobodyIsDoomed == Spec => []NobodyIsOnTheWayOut
<1>1. IInv => NobodyIsOnTheWayOut
  BY DEF IInv
<1> QED
  BY <1>1, IInvHolds, PTL
=============================================================================
