--------------------------- MODULE RoomViewsProofs ---------------------------
(***************************************************************************)
(* Proofs about RoomViews, for any number of connections, players and      *)
(* seats: the lists clients build from snapshots and events agree with the *)
(* roster.                                                                 *)
(***************************************************************************)
EXTENDS RoomViews, TLAPS

Announcing == {"announcing", "scanning", "sending"}

\* What a goroutine has at a step: an event while it broadcasts, a session while it
\* sends, sessions to look at while its loop runs, the room once it has entered it.
StepInv ==
    \A d \in Conns :
        /\ event[d] # None => pc[d] \in Announcing \cup {"joining"}
        /\ event[d] # None /\ pc[d] = "joining" => event[d] = "joined"
        /\ pc[d] \in Announcing => event[d] # None
        /\ pc[d] \in Announcing \cup {"snapping", "replying"} => d \in inRoom
        /\ pc[d] = "sending" <=> to[d] # None
        /\ pc[d] \notin {"scanning", "sending"} => todo[d] = {}

\* Event kind tells where p is, or that this has changed since.  Of a ready event of no
\* member nothing is known, as lists do not use it.
Tells(kind, p, m) == m \in {roster[p], "stale"} \/ (kind = "ready" /\ roster[p] = "out")

\* An event under way tells where its player is.
NewsInv == \A d \in Conns : event[d] # None => Tells(event[d], who[d], news[d])

\* c's connection has not been sent d's event under way.
Untold(c, d) ==
    /\ event[d] # None
    /\ pc[d] \in {"joining", "announcing"} \/ c \in todo[d] \cup {to[d]}

\* d's event, still under way to c, will mend x as what c's list says of p: if it is that
\* p came or went, whatever x is; if it is of p's ready mark, who is in the room is right.
Mends(c, d, p, x) ==
    /\ Untold(c, d) /\ who[d] = p
    /\ event[d] = "ready" => (x = "out" <=> roster[p] = "out")

\* c's list may say x of p: where p is, that it does not know, or what will be mended.
MaySay(c, p, x) == x \in {roster[p], "stale"} \/ \E d \in Conns : Mends(c, d, p, x)

\* c's list is that of a member who has had the reply to its join.
HasList(c) ==
    /\ c \in inRoom
    /\ pc[c] = "idle" \/ (pc[c] \in Announcing /\ event[c] # "joined")

\* A list, and a snapshot on its way to become one, says of p what it may.
ListRight(c, p) ==
    /\ HasList(c) => MaySay(c, p, view[c][p])
    /\ pc[c] = "replying" => MaySay(c, p, snap[c][p])

ListsInv == \A c \in Conns, p \in Players : ListRight(c, p)

IInv == TypeOK /\ StepInv /\ NewsInv /\ ListsInv

-----------------------------------------------------------------------------
(* Types and steps.                                                        *)

LEMMA InitIInv == Init => IInv
<1> SUFFICES ASSUME Init PROVE IInv
  OBVIOUS
<1> USE NoneAssumption DEF Init, Nobody, Marks, Known, Steps, Events, Announcing
<1>1. TypeOK
  BY DEF TypeOK
<1>2. StepInv
  BY DEF StepInv
<1>3. NewsInv
  BY DEF NewsInv
<1>4. ListsInv
  BY DEF ListsInv, ListRight, HasList, MaySay
<1> QED
  BY <1>1, <1>2, <1>3, <1>4 DEF IInv

\* A player already seated keeps its mark, and one who was not is "in" or still out.
LEMMA SeatedIs ==
  ASSUME TypeOK, NEW p \in Players
  PROVE  /\ Seated(p) \in [Players -> Marks]
         /\ \A q \in Players \ {p} : Seated(p)[q] = roster[q]
         /\ Seated(p)[p] = IF roster[p] = "out" /\ ~Full THEN "in" ELSE roster[p]
  BY DEF TypeOK, Seated, Marks

\* A toggle leaves a member in the room, and who is not a member out.
LEMMA ToggledIs ==
  ASSUME TypeOK, NEW p \in Players
  PROVE  /\ Toggled(p) \in [Players -> Marks]
         /\ \A q \in Players \ {p} : Toggled(p)[q] = roster[q]
         /\ Toggled(p)[p] = "out" <=> roster[p] = "out"
  BY DEF TypeOK, Toggled, Marks

\* A change nobody is told of makes the lists that may know p stale, and no others.
LEMMA SilentlyIs ==
  ASSUME TypeOK, NEW p \in Players, Silently(p)
  PROVE  /\ news' \in [Conns -> Known]
         /\ snap' \in [Conns -> [Players -> Known]]
         /\ view' \in [Conns -> [Players -> Known]]
         /\ \A c \in Conns : /\ view'[c][p] = "stale"
                             /\ pc[c] = "replying" => snap'[c][p] = "stale"
         /\ \A c \in Conns, q \in Players \ {p} :
                view'[c][q] = view[c][q] /\ snap'[c][q] = snap[c][q]
         /\ \A d \in Conns : /\ who[d] # p => news'[d] = news[d]
                             /\ who[d] = p /\ event[d] # None => news'[d] = "stale"
  BY DEF TypeOK, Silently, Outdated, Overtaken, NewsOf, Known

\* A change d tells of overtakes the other events of its player.
LEMMA AnnounceIs ==
  ASSUME TypeOK, NEW d \in Conns, NEW kind \in Events, NEW m \in Known, Announce(d, kind, m),
         event[d] = None
  PROVE  /\ event' = [event EXCEPT ![d] = kind]
         /\ news' \in [Conns -> Known]
         /\ news'[d] = m
         /\ \A e \in Conns \ {d} :
                /\ who[e] # who[d] \/ roster' = roster => news'[e] = news[e]
                /\ who[e] = who[d] /\ roster' # roster /\ event[e] # None => news'[e] = "stale"
<1>1. Overtaken(who[d]) \in [Conns -> Known]
  BY DEF TypeOK, Overtaken, Known
<1> QED
  BY <1>1 DEF TypeOK, Announce, Overtaken, NewsOf, Known

\* join_room, leave_room and room.ready change the mark of the session's player, and
\* tell of it.
LEMMA ChangeIs ==
  ASSUME IInv, NEW d \in Conns, Join(d) \/ Leave(d) \/ Ready(d)
  PROVE  /\ pc[d] = "idle" /\ event[d] = None
         /\ pc' = [pc EXCEPT ![d] = IF event'[d] = "joined" THEN "joining" ELSE "announcing"]
         /\ event'[d] # "joined" => d \in inRoom
         /\ event'[d] \in Events
         /\ event' = [event EXCEPT ![d] = event'[d]]
         /\ roster' \in [Players -> Marks]
         /\ \A p \in Players \ {who[d]} : roster'[p] = roster[p]
         /\ event'[d] = "ready" => (roster'[who[d]] = "out" <=> roster[who[d]] = "out")
         /\ Tells(event[d], who[d], news[d])'
         /\ news' \in [Conns -> Known]
         /\ \A e \in Conns \ {d} :
                /\ who[e] # who[d] \/ roster' = roster => news'[e] = news[e]
                /\ who[e] = who[d] /\ roster' # roster /\ event[e] # None => news'[e] = "stale"
         /\ UNCHANGED <<seating, who, inRoom, todo, to, snap, view>>
<1> USE NoneAssumption DEF Events, Known, Marks
<1>1. TypeOK /\ who[d] \in Players /\ pc[d] = "idle" /\ event[d] = None
  BY DEF IInv, TypeOK, StepInv, Go, Announcing, Join, Leave, Ready
<1> USE <1>1
<1>2. CASE Join(d)
  <2>1. PICK m \in Known : /\ Announce(d, "joined", m)
                           /\ m = IF roster'[who[d]] = "ready" THEN "stale" ELSE "in"
    BY <1>2 DEF Join
  <2>2. event' = [event EXCEPT ![d] = "joined"] /\ news'[d] = m
    BY <2>1, AnnounceIs
  <2>3. roster' = Seated(who[d]) /\ ~Full
    BY <1>2 DEF Join
  <2>4. Tells(event[d], who[d], news[d])'
    BY <1>2, <2>1, <2>2, <2>3, SeatedIs DEF Tells, TypeOK, Join
  <2>5. event'[d] = "joined"
    BY <2>2 DEF TypeOK
  <2>6. /\ news' \in [Conns -> Known]
        /\ \A e \in Conns \ {d} :
               /\ who[e] # who[d] \/ roster' = roster => news'[e] = news[e]
               /\ who[e] = who[d] /\ roster' # roster /\ event[e] # None => news'[e] = "stale"
    BY <2>1, AnnounceIs
  <2>7. /\ roster' \in [Players -> Marks]
        /\ \A p \in Players \ {who[d]} : roster'[p] = roster[p]
    BY <2>3, SeatedIs
  <2>8. /\ pc' = [pc EXCEPT ![d] = "joining"]
        /\ UNCHANGED <<seating, who, inRoom, todo, to, snap, view>>
    BY <1>2 DEF Join, Go
  <2> QED
    BY ONLY <1>1, <2>2, <2>4, <2>5, <2>6, <2>7, <2>8 DEF Events
<1>3. CASE Leave(d)
  <2>1. Announce(d, "left", "out") /\ roster' = [roster EXCEPT ![who[d]] = "out"]
    BY <1>3 DEF Leave
  <2>2. event' = [event EXCEPT ![d] = "left"] /\ news'[d] = "out" /\ event'[d] = "left"
    BY <2>1, AnnounceIs DEF TypeOK
  <2>3. Tells(event[d], who[d], news[d])'
    BY <1>3, <2>1, <2>2 DEF Tells, TypeOK, Leave
  <2>4. /\ news' \in [Conns -> Known]
        /\ \A e \in Conns \ {d} :
               /\ who[e] # who[d] \/ roster' = roster => news'[e] = news[e]
               /\ who[e] = who[d] /\ roster' # roster /\ event[e] # None => news'[e] = "stale"
    BY <2>1, AnnounceIs
  <2>5. /\ roster' \in [Players -> Marks]
        /\ \A p \in Players \ {who[d]} : roster'[p] = roster[p]
    BY <2>1 DEF TypeOK
  <2>6. /\ pc' = [pc EXCEPT ![d] = "announcing"] /\ d \in inRoom
        /\ UNCHANGED <<seating, who, inRoom, todo, to, snap, view>>
    BY <1>3 DEF Leave, Go
  <2> QED
    BY ONLY <1>1, <2>2, <2>3, <2>4, <2>5, <2>6 DEF Events
<1>4. CASE Ready(d)
  <2>1. PICK m \in Known : /\ Announce(d, "ready", m)
                           /\ m = IF roster'[who[d]] = "ready" THEN "ready" ELSE "in"
    BY <1>4 DEF Ready
  <2>2. event' = [event EXCEPT ![d] = "ready"] /\ news'[d] = m /\ event'[d] = "ready"
    BY <2>1, AnnounceIs DEF TypeOK
  <2>3. roster' = Toggled(who[d])
    BY <1>4 DEF Ready
  <2>4. Tells(event[d], who[d], news[d])'
    BY <1>4, <2>1, <2>2, <2>3, ToggledIs DEF Tells, Ready
  <2>5. /\ news' \in [Conns -> Known]
        /\ \A e \in Conns \ {d} :
               /\ who[e] # who[d] \/ roster' = roster => news'[e] = news[e]
               /\ who[e] = who[d] /\ roster' # roster /\ event[e] # None => news'[e] = "stale"
    BY <2>1, AnnounceIs
  <2>6. /\ roster' \in [Players -> Marks]
        /\ \A p \in Players \ {who[d]} : roster'[p] = roster[p]
        /\ roster'[who[d]] = "out" <=> roster[who[d]] = "out"
    BY <2>3, ToggledIs
  <2>7. /\ pc' = [pc EXCEPT ![d] = "announcing"] /\ d \in inRoom
        /\ UNCHANGED <<seating, who, inRoom, todo, to, snap, view>>
    BY <1>4 DEF Ready, Go
  <2> QED
    BY ONLY <1>1, <2>2, <2>4, <2>5, <2>6, <2>7 DEF Events
<1> QED
  BY <1>2, <1>3, <1>4

LEMMA RosterKeepsSteps ==
  ASSUME IInv, NEW d \in Conns, AddCreator(d) \/ Join(d) \/ Enter(d) \/ Leave(d) \/ Ready(d)
  PROVE  TypeOK' /\ StepInv'
<1> USE NoneAssumption DEF IInv, TypeOK, StepInv, Go, Marks, Known, Steps, Events, Announcing
<1>1. CASE AddCreator(d)
  <2>1. /\ news' \in [Conns -> Known]
        /\ snap' \in [Conns -> [Players -> Known]]
        /\ view' \in [Conns -> [Players -> Known]]
    BY <1>1, SilentlyIs DEF AddCreator
  <2>2. /\ pc[d] = "creating" /\ pc' = [pc EXCEPT ![d] = "joining"]
        /\ roster' \in [Players -> Marks]
        /\ UNCHANGED <<seating, who, inRoom, event, todo, to>>
    BY <1>1, SeatedIs DEF AddCreator
  <2> QED
    BY <2>1, <2>2
<1>2. CASE Enter(d)
  BY <1>2 DEF Enter
<1>3. CASE Join(d) \/ Leave(d) \/ Ready(d)
  <2>1. /\ pc[d] = "idle" /\ event[d] = None
        /\ pc' = [pc EXCEPT ![d] = IF event'[d] = "joined" THEN "joining" ELSE "announcing"]
        /\ event'[d] # "joined" => d \in inRoom
        /\ event'[d] \in {"joined", "left", "ready"}
        /\ event' = [event EXCEPT ![d] = event'[d]]
        /\ roster' \in [Players -> Marks]
        /\ news' \in [Conns -> Known]
        /\ UNCHANGED <<seating, who, inRoom, todo, to, snap, view>>
    BY <1>3, ChangeIs
  <2> QED
    BY <2>1
<1> QED
  BY <1>1, <1>2, <1>3

LEMMA BroadcastKeepsSteps ==
  ASSUME IInv, NEW d \in Conns,
         BroadcastBegins(d) \/ Look(d) \/ Deliver(d) \/ BroadcastEnds(d)
  PROVE  TypeOK' /\ StepInv'
<1> USE NoneAssumption DEF IInv, TypeOK, StepInv, Go, Marks, Known, Steps, Events, Announcing
<1>1. CASE BroadcastBegins(d)
  BY <1>1 DEF BroadcastBegins
<1>2. CASE Look(d)
  BY <1>2 DEF Look
<1>3. CASE Deliver(d)
  BY <1>3 DEF Deliver, Tell, Updated, Outdated
<1>4. CASE BroadcastEnds(d)
  BY <1>4 DEF BroadcastEnds
<1> QED
  BY <1>1, <1>2, <1>3, <1>4

\* What the room and the sessions do besides: replies, other rooms, logins, ends.
Other(d) ==
    \/ RoomInfo(d) \/ Snapshot(d) \/ Reply(d) \/ Elsewhere(d)
    \/ Login(d) \/ Disconnect(d) \/ Remove(d) \/ Reconnect(d)

LEMMA OthersKeepSteps ==
  ASSUME IInv, NEW d \in Conns, Other(d)
  PROVE  TypeOK' /\ StepInv'
<1> USE NoneAssumption DEF IInv, TypeOK, StepInv, Go, Nobody, Marks, Known, Steps, Events,
        Announcing
<1>1. CASE RoomInfo(d)
  BY <1>1 DEF RoomInfo
<1>2. CASE Snapshot(d)
  BY <1>2 DEF Snapshot
<1>3. CASE Reply(d)
  BY <1>3 DEF Reply
<1>4. CASE Elsewhere(d)
  BY <1>4 DEF Elsewhere
<1>5. CASE Login(d)
  BY <1>5 DEF Login
<1>6. CASE Disconnect(d)
  <2>1. /\ news' \in [Conns -> Known]
        /\ snap' \in [Conns -> [Players -> Known]]
        /\ view' \in [Conns -> [Players -> Known]]
    BY <1>6, SilentlyIs DEF Disconnect
  <2>2. /\ pc[d] = "idle" /\ pc' = [pc EXCEPT ![d] = "removing"]
        /\ roster' \in [Players -> Marks]
        /\ UNCHANGED <<seating, who, inRoom, event, todo, to>>
    BY <1>6 DEF Disconnect
  <2> QED
    BY <2>1, <2>2
<1>7. CASE Remove(d)
  BY <1>7 DEF Remove, Broadcasting
<1>8. CASE Reconnect(d)
  BY <1>8 DEF Reconnect
<1> QED
  BY <1>1, <1>2, <1>3, <1>4, <1>5, <1>6, <1>7, <1>8 DEF Other

LEMMA MatchKeepsSteps ==
  ASSUME IInv, MatchAdd
  PROVE  TypeOK' /\ StepInv'
<1>1. PICK p \in seating :
        /\ roster' = Seated(p)
        /\ IF roster' = roster THEN UNCHANGED <<news, view, snap>> ELSE Silently(p)
        /\ seating' = seating \ {p}
        /\ UNCHANGED <<who, pc, inRoom, event, todo, to>>
  BY DEF MatchAdd
<1>2. /\ news' \in [Conns -> Known]
      /\ snap' \in [Conns -> [Players -> Known]]
      /\ view' \in [Conns -> [Players -> Known]]
  BY <1>1, SilentlyIs DEF IInv, TypeOK
<1>3. roster' \in [Players -> Marks]
  BY <1>1, SeatedIs DEF IInv, TypeOK
<1> QED
  BY <1>1, <1>2, <1>3 DEF IInv, TypeOK, StepInv

-----------------------------------------------------------------------------
(* Events and lists.                                                       *)

\* A silent change of p's makes what events tell of p stale.
LEMMA SilenceKeepsNews ==
  ASSUME IInv, NEW p \in Players, Silently(p), UNCHANGED <<who, event>>,
         \A q \in Players \ {p} : roster'[q] = roster[q]
  PROVE  NewsInv'
  BY SilentlyIs DEF IInv, TypeOK, NewsInv, Tells

LEMMA RosterKeepsNews ==
  ASSUME IInv, NEW d \in Conns, AddCreator(d) \/ Join(d) \/ Enter(d) \/ Leave(d) \/ Ready(d)
  PROVE  NewsInv'
<1>1. CASE AddCreator(d)
  <2>1. /\ who[d] \in Players /\ UNCHANGED <<who, event>>
        /\ \A q \in Players \ {who[d]} : roster'[q] = roster[q]
    BY <1>1, SeatedIs DEF AddCreator, IInv, TypeOK
  <2>2. CASE roster' = roster
    BY <1>1, <2>1, <2>2 DEF AddCreator, IInv, NewsInv, Tells
  <2>3. CASE roster' # roster
    BY <1>1, <2>1, <2>3, SilenceKeepsNews DEF AddCreator
  <2> QED
    BY <2>2, <2>3
<1>2. CASE Enter(d)
  BY <1>2 DEF Enter, IInv, NewsInv, Tells
<1>3. CASE Join(d) \/ Leave(d) \/ Ready(d)
  <2>1. /\ Tells(event[d], who[d], news[d])' /\ UNCHANGED who
        /\ event' = [event EXCEPT ![d] = event'[d]]
        /\ \A q \in Players \ {who[d]} : roster'[q] = roster[q]
        /\ \A e \in Conns \ {d} :
               /\ who[e] # who[d] \/ roster' = roster => news'[e] = news[e]
               /\ who[e] = who[d] /\ roster' # roster /\ event[e] # None => news'[e] = "stale"
    BY <1>3, ChangeIs
  <2>2. ASSUME NEW e \in Conns \ {d}, event'[e] # None
        PROVE  Tells(event[e], who[e], news[e])'
    <3>1. event'[e] = event[e] /\ Tells(event[e], who[e], news[e]) /\ who[e] \in Players
      BY <2>1, <2>2 DEF IInv, TypeOK, NewsInv
    <3> QED
      BY <2>1, <2>2, <3>1 DEF Tells
  <2> QED
    BY <2>1, <2>2 DEF NewsInv, Tells
<1> QED
  BY <1>1, <1>2, <1>3

LEMMA BroadcastKeepsNews ==
  ASSUME IInv, NEW d \in Conns,
         BroadcastBegins(d) \/ Look(d) \/ Deliver(d) \/ BroadcastEnds(d)
  PROVE  NewsInv'
<1> USE NoneAssumption DEF IInv, TypeOK, NewsInv, Tells
<1>1. CASE BroadcastBegins(d) \/ Look(d) \/ Deliver(d)
  BY <1>1 DEF BroadcastBegins, Look, Deliver
<1>2. CASE BroadcastEnds(d)
  BY <1>2 DEF BroadcastEnds
<1> QED
  BY <1>1, <1>2

LEMMA OthersKeepNews ==
  ASSUME IInv, NEW d \in Conns, Other(d)
  PROVE  NewsInv'
<1>1. CASE RoomInfo(d) \/ Snapshot(d) \/ Reply(d) \/ Elsewhere(d) \/ Remove(d) \/ Reconnect(d)
  BY <1>1 DEF RoomInfo, Snapshot, Reply, Elsewhere, Remove, Reconnect, IInv, NewsInv, Tells
<1>2. CASE Login(d)
  <2>1. event[d] = None /\ UNCHANGED <<roster, event, news>>
    BY <1>2 DEF Login, IInv, StepInv, Announcing
  <2>2. \A e \in Conns \ {d} : who'[e] = who[e]
    BY <1>2 DEF Login, IInv, TypeOK
  <2> QED
    BY <2>1, <2>2 DEF IInv, NewsInv, Tells
<1>3. CASE Disconnect(d)
  <2>1. CASE Silently(who[d]) /\ roster' = [roster EXCEPT ![who[d]] = "out"]
    BY <1>3, <2>1, SilenceKeepsNews DEF Disconnect, IInv, TypeOK
  <2>2. CASE UNCHANGED <<roster, news>>
    BY <1>3, <2>2 DEF Disconnect, IInv, NewsInv, Tells
  <2> QED
    BY <1>3, <2>1, <2>2 DEF Disconnect
<1> QED
  BY <1>1, <1>2, <1>3 DEF Other

LEMMA MatchKeepsNews ==
  ASSUME IInv, MatchAdd
  PROVE  NewsInv'
<1>1. PICK p \in Players :
        /\ roster' = Seated(p)
        /\ IF roster' = roster THEN UNCHANGED <<news, view, snap>> ELSE Silently(p)
        /\ UNCHANGED <<who, event>>
  BY DEF MatchAdd, IInv, TypeOK
<1>2. CASE roster' = roster
  BY <1>1, <1>2 DEF IInv, NewsInv, Tells
<1>3. CASE roster' # roster
  BY <1>1, <1>3, SeatedIs, SilenceKeepsNews DEF IInv
<1> QED
  BY <1>2, <1>3

\* What c's list says of p stays right as long as neither p moves nor c gets a list, and
\* the events of p that c has not been told stay on their way.
LEMMA ListStays ==
  ASSUME ListsInv, NEW c \in Conns, NEW p \in Players,
         HasList(c)' => HasList(c) /\ view'[c][p] = view[c][p],
         pc'[c] = "replying" => pc[c] = "replying" /\ snap'[c][p] = snap[c][p],
         roster'[p] = roster[p],
         \A d \in Conns : Untold(c, d) /\ who[d] = p =>
             Untold(c, d)' /\ event'[d] = event[d] /\ who'[d] = who[d]
  PROVE  ListRight(c, p)'
<1>1. \A x : \A d \in Conns : Mends(c, d, p, x) => Mends(c, d, p, x)'
  BY DEF Mends
<1>2. \A x : MaySay(c, p, x) => MaySay(c, p, x)'
  BY <1>1 DEF MaySay
<1>3. ListRight(c, p)
  BY DEF ListsInv
<1> QED
  BY <1>2, <1>3 DEF ListRight

\* A silent change of p's spoils what lists say of p, and nothing else.
LEMMA SilenceIsRight ==
  ASSUME IInv, NEW p \in Players, Silently(p), \A q \in Players \ {p} : roster'[q] = roster[q],
         \A c \in Conns : /\ HasList(c)' => HasList(c)
                          /\ pc'[c] = "replying" => pc[c] = "replying",
         \A c, d \in Conns : Untold(c, d) => Untold(c, d)',
         UNCHANGED <<who, event>>
  PROVE  ListsInv'
<1>1. TypeOK
  BY DEF IInv
<1>2. ASSUME NEW c \in Conns PROVE ListRight(c, p)'
  BY <1>1, SilentlyIs DEF ListRight, MaySay
<1>3. ASSUME NEW c \in Conns, NEW q \in Players \ {p} PROVE ListRight(c, q)'
  <2>1. view'[c][q] = view[c][q] /\ snap'[c][q] = snap[c][q]
    BY <1>1, <1>3, SilentlyIs
  <2> QED
    BY <1>3, <2>1, ListStays DEF IInv
<1> QED
  BY <1>2, <1>3 DEF ListsInv

LEMMA RosterKeepsLists ==
  ASSUME IInv, NEW d \in Conns, AddCreator(d) \/ Join(d) \/ Enter(d) \/ Leave(d) \/ Ready(d)
  PROVE  ListsInv'
<1>1. CASE AddCreator(d)
  <2>1. /\ pc[d] = "creating" /\ pc' = [pc EXCEPT ![d] = "joining"] /\ event[d] = None
        /\ UNCHANGED <<who, inRoom, event, todo, to>>
        /\ who[d] \in Players /\ \A q \in Players \ {who[d]} : roster'[q] = roster[q]
    BY <1>1, SeatedIs DEF AddCreator, Go, IInv, TypeOK, StepInv, Announcing
  <2>2. \A c \in Conns : /\ HasList(c)' => HasList(c)
                         /\ pc'[c] = "replying" => pc[c] = "replying"
    BY <2>1 DEF HasList, Announcing, IInv, TypeOK
  <2>3. \A c, e \in Conns : Untold(c, e) => Untold(c, e)'
    BY <2>1 DEF Untold, IInv, TypeOK
  <2>4. CASE roster' = roster
    <3>1. UNCHANGED <<view, snap>>
      BY <1>1, <2>4 DEF AddCreator
    <3> QED
      BY <2>1, <2>2, <2>3, <2>4, <3>1, ListStays DEF IInv, ListsInv
  <2>5. CASE roster' # roster
    BY <1>1, <2>1, <2>2, <2>3, <2>5, SilenceIsRight DEF AddCreator
  <2> QED
    BY <2>4, <2>5
<1>2. CASE Enter(d)
  <2>1. /\ pc[d] = "joining" /\ UNCHANGED <<roster, who, event, todo, to, snap, view>>
        /\ pc' = [pc EXCEPT ![d] = IF event[d] = None THEN "snapping" ELSE "announcing"]
        /\ inRoom' = inRoom \cup {d} /\ (event[d] # None => event[d] = "joined")
    BY <1>2 DEF Enter, Go, IInv, StepInv
  <2>2. \A c \in Conns : /\ HasList(c)' => HasList(c)
                         /\ pc'[c] = "replying" => pc[c] = "replying"
    BY <2>1 DEF HasList, Announcing, IInv, TypeOK
  <2>3. \A c, e \in Conns : Untold(c, e) => Untold(c, e)'
    BY <2>1 DEF Untold, IInv, TypeOK
  <2> QED
    BY <2>1, <2>2, <2>3, ListStays DEF IInv, ListsInv
<1>3. CASE Join(d) \/ Leave(d) \/ Ready(d)
  <2>1. /\ pc[d] = "idle" /\ event[d] = None
        /\ pc' = [pc EXCEPT ![d] = IF event'[d] = "joined" THEN "joining" ELSE "announcing"]
        /\ event'[d] \in Events
        /\ event' = [event EXCEPT ![d] = event'[d]]
        /\ who[d] \in Players /\ \A p \in Players \ {who[d]} : roster'[p] = roster[p]
        /\ event'[d] = "ready" => (roster'[who[d]] = "out" <=> roster[who[d]] = "out")
        /\ UNCHANGED <<who, inRoom, todo, to, snap, view>>
    BY <1>3, ChangeIs DEF IInv, TypeOK
  <2>2. \A c \in Conns : /\ HasList(c)' => HasList(c)
                         /\ pc'[c] = "replying" => pc[c] = "replying"
    BY <2>1 DEF HasList, Announcing, IInv, TypeOK
  <2>3. \A c, e \in Conns : Untold(c, e) => e # d /\ Untold(c, e)' /\ event'[e] = event[e]
    BY <2>1 DEF Untold, IInv, TypeOK
  <2>4. ASSUME NEW c \in Conns, NEW q \in Players \ {who[d]} PROVE ListRight(c, q)'
    BY <2>1, <2>2, <2>3, <2>4, ListStays DEF IInv
  <2>5. ASSUME NEW c \in Conns PROVE ListRight(c, who[d])'
    <3>1. Untold(c, d)'
      BY <2>1, NoneAssumption DEF Untold, IInv, TypeOK, Events
    <3>2. CASE event'[d] # "ready"
      <4>1. \A x : MaySay(c, who[d], x)'
        BY <2>1, <3>1, <3>2 DEF MaySay, Mends
      <4> QED
        BY <2>1, <4>1 DEF ListRight
    <3>3. CASE event'[d] = "ready"
      <4>1. ASSUME NEW x, x \in {roster[who[d]], "stale"} PROVE MaySay(c, who[d], x)'
        <5>1. CASE x = "stale"
          BY <5>1 DEF MaySay
        <5>2. CASE x = roster[who[d]]
          <6>1. x = "out" <=> roster'[who'[d]] = "out"
            BY <2>1, <3>3, <5>2
          <6> QED
            BY <2>1, <3>1, <6>1 DEF MaySay, Mends
        <5> QED
          BY <4>1, <5>1, <5>2
      <4>2. ASSUME NEW x, NEW e \in Conns, Mends(c, e, who[d], x) PROVE MaySay(c, who[d], x)'
        <5>1. e # d /\ Untold(c, e)' /\ event'[e] = event[e]
          BY <2>3, <4>2 DEF Mends
        <5>2. Mends(c, e, who[d], x)'
          BY <2>1, <3>3, <4>2, <5>1 DEF Mends
        <5> QED
          BY <5>2 DEF MaySay
      <4>3. \A x : MaySay(c, who[d], x) => MaySay(c, who[d], x)'
        BY <4>1, <4>2 DEF MaySay
      <4>4. ListRight(c, who[d])
        BY <2>1 DEF IInv, ListsInv
      <4> QED
        BY <2>1, <2>2, <4>3, <4>4 DEF ListRight
    <3> QED
      BY <3>2, <3>3
  <2>6. UNCHANGED who
    BY <2>1
  <2> QED
    BY <2>4, <2>5, <2>6 DEF ListsInv
<1> QED
  BY <1>1, <1>2, <1>3

\* What Deliver does to the list of the session it writes to: the event makes it right, or
\* leaves what another event will mend.
LEMMA ToldIsRight ==
  ASSUME IInv, NEW d \in Conns, NEW c \in Conns, Deliver(d), c = to[d], HasList(c)
  PROVE  MaySay(c, who[d], view[c][who[d]])'
<1> DEFINE p == who[d]
           x == view[c][p]
<1> USE NoneAssumption
<1>1. /\ p \in Players /\ event[d] \in Events /\ Tells(event[d], p, news[d])
      /\ MaySay(c, p, x)
  BY DEF IInv, TypeOK, StepInv, NewsInv, ListsInv, ListRight, Deliver, Go, Announcing
<1>2. /\ pc' = [pc EXCEPT ![d] = "scanning"] /\ to' = [to EXCEPT ![d] = None]
      /\ UNCHANGED <<roster, who, event, todo>>
      /\ view'[c][p] = IF event[d] = "ready" /\ x \in {"out", "stale"} THEN x ELSE news[d]
  BY <1>1 DEF Deliver, Go, Tell, Updated, IInv, TypeOK
<1>3. \A y : \A e \in Conns \ {d} : Mends(c, e, p, y) => Mends(c, e, p, y)'
  BY <1>2 DEF Mends, Untold, IInv, TypeOK
<1>4. CASE news[d] \in {roster[p], "stale"} /\ view'[c][p] = news[d]
  BY <1>2, <1>4 DEF MaySay
<1>5. CASE x \in {roster[p], "stale"} /\ view'[c][p] = x
  BY <1>2, <1>5 DEF MaySay
<1>6. CASE event[d] = "ready" /\ x \notin {roster[p], "stale"}
  <2>1. PICK e \in Conns : Mends(c, e, p, x)
    BY <1>1, <1>6 DEF MaySay
  <2>2. CASE event[e] = "ready"
    <3>1. x # "out" /\ roster[p] # "out"
      BY <1>6, <2>1, <2>2 DEF Mends
    <3> QED
      BY <1>1, <1>2, <1>4, <1>6, <3>1 DEF Tells
  <2>3. CASE event[e] # "ready"
    <3>1. e # d /\ \A y : Mends(c, e, p, y)
      BY <1>6, <2>1, <2>3 DEF Mends
    <3>2. \A y : Mends(c, e, p, y)'
      BY <1>3, <3>1
    <3> QED
      BY <1>2, <3>2 DEF MaySay
  <2> QED
    BY <2>2, <2>3
<1>7. CASE event[d] = "ready" /\ x \in {roster[p], "stale"}
  <2>1. x \in {"out", "stale"} => view'[c][p] = x
    BY <1>2, <1>7
  <2>2. x \notin {"out", "stale"} => news[d] \in {roster[p], "stale"} /\ view'[c][p] = news[d]
    BY <1>1, <1>2, <1>7 DEF Tells
  <2> QED
    BY <1>4, <1>5, <1>7, <2>1, <2>2
<1>8. CASE event[d] # "ready"
  BY <1>1, <1>2, <1>4, <1>8 DEF Tells
<1> QED
  BY <1>6, <1>7, <1>8

\* A broadcast of d's: a session the loop passes by has no list, one that is written to
\* has the right one afterwards, and nobody is left when it ends.
LEMMA BroadcastKeepsLists ==
  ASSUME IInv, NEW d \in Conns,
         BroadcastBegins(d) \/ Look(d) \/ Deliver(d) \/ BroadcastEnds(d)
  PROVE  ListsInv'
<1> USE NoneAssumption DEF IInv, TypeOK, StepInv, Go, Announcing
<1>1. CASE BroadcastBegins(d)
  <2>1. /\ pc[d] = "announcing" /\ pc' = [pc EXCEPT ![d] = "scanning"]
        /\ todo' = [todo EXCEPT ![d] = {c \in Conns : pc[c] # "gone"}]
        /\ UNCHANGED <<roster, who, inRoom, event, to, snap, view>>
    BY <1>1 DEF BroadcastBegins
  <2>2. \A c \in Conns : /\ HasList(c)' => HasList(c)
                         /\ pc'[c] = "replying" => pc[c] = "replying"
                         /\ HasList(c)' \/ pc'[c] = "replying" => pc[c] # "gone"
    BY <2>1 DEF HasList
  <2>3. \A c, e \in Conns : Untold(c, e) /\ (pc[c] # "gone" \/ e # d) => Untold(c, e)'
    BY <2>1 DEF Untold
  <2>4. ASSUME NEW c \in Conns, NEW q \in Players PROVE ListRight(c, q)'
    <3>1. CASE pc[c] = "gone"
      BY <2>2, <3>1 DEF ListRight
    <3>2. CASE pc[c] # "gone"
      <4>1. ListsInv /\ UNCHANGED <<roster, who, event, snap, view>>
        BY <2>1
      <4> QED
        BY ONLY <2>2, <2>3, <2>4, <3>2, <4>1, ListStays
    <3> QED
      BY <3>1, <3>2
  <2> QED
    BY <2>4 DEF ListsInv
<1>2. CASE Look(d)
  <2>1. PICK c \in todo[d] :
          /\ pc[d] = "scanning"
          /\ pc' = [pc EXCEPT ![d] = IF c \in inRoom THEN "sending" ELSE "scanning"]
          /\ todo' = [todo EXCEPT ![d] = @ \ {c}]
          /\ to' = [to EXCEPT ![d] = IF c \in inRoom THEN c ELSE None]
          /\ UNCHANGED <<roster, who, inRoom, event, snap, view>>
    BY <1>2 DEF Look
  <2>2. \A b \in Conns : /\ HasList(b)' => HasList(b) /\ b \in inRoom
                         /\ pc'[b] = "replying" => pc[b] = "replying" /\ b \in inRoom
    BY <2>1 DEF HasList
  <2>3. \A b, e \in Conns : Untold(b, e) /\ b \in inRoom => Untold(b, e)'
    BY <2>1 DEF Untold
  <2>4. ASSUME NEW b \in Conns, NEW q \in Players PROVE ListRight(b, q)'
    <3>1. CASE b \in inRoom
      <4>1. ListsInv /\ UNCHANGED <<roster, who, event, snap, view>>
        BY <2>1
      <4> QED
        BY ONLY <2>2, <2>3, <2>4, <3>1, <4>1, ListStays
    <3>2. CASE b \notin inRoom
      BY <2>2, <3>2 DEF ListRight
    <3> QED
      BY <3>1, <3>2
  <2> QED
    BY <2>4 DEF ListsInv
<1>3. CASE Deliver(d)
  <2>1. PICK c \in Conns :
          /\ c = to[d] /\ pc[d] = "sending" /\ pc' = [pc EXCEPT ![d] = "scanning"]
          /\ view' = [view EXCEPT ![c] = Updated(@, event[d], who[d], news[d])]
          /\ snap' = [snap EXCEPT ![c] = IF pc[c] = "replying" THEN Outdated(@, who[d]) ELSE @]
          /\ to' = [to EXCEPT ![d] = None]
          /\ who[d] \in Players
          /\ UNCHANGED <<roster, who, inRoom, event, todo>>
    <3>1. to[d] \in Conns
      BY <1>3 DEF Deliver
    <3> QED
      BY <1>3, <3>1 DEF Deliver, Tell
  <2>2. \A b \in Conns : /\ HasList(b)' => HasList(b)
                         /\ pc'[b] = "replying" => pc[b] = "replying"
    BY <2>1 DEF HasList
  <2>3. \A b, e \in Conns : Untold(b, e) /\ (b # c \/ e # d) => Untold(b, e)'
    BY <2>1 DEF Untold
  <2>4. ASSUME NEW b \in Conns, NEW q \in Players, b # c \/ q # who[d]
        PROVE  view'[b][q] = view[b][q] /\ snap'[b][q] = snap[b][q]
    BY <2>1, <2>4 DEF Updated, Outdated
  <2>5. ASSUME NEW b \in Conns, NEW q \in Players, b # c \/ q # who[d]
        PROVE  ListRight(b, q)'
    <3>1. ListsInv /\ UNCHANGED <<roster, who, event>>
      BY <2>1
    <3> QED
      BY ONLY <2>2, <2>3, <2>4, <2>5, <3>1, ListStays
  <2>6. ListRight(c, who[d])'
    <3>1. pc[c] = "replying" => snap'[c][who[d]] = "stale"
      BY <2>1 DEF Outdated
    <3>2. HasList(c) => MaySay(c, who[d], view[c][who[d]])'
      BY <1>3, <2>1, ToldIsRight
    <3>3. UNCHANGED who
      BY <2>1
    <3> QED
      BY ONLY <2>2, <3>1, <3>2, <3>3 DEF ListRight, MaySay
  <2>7. UNCHANGED who
    BY <2>1
  <2> QED
    BY ONLY <2>5, <2>6, <2>7 DEF ListsInv
<1>4. CASE BroadcastEnds(d)
  <2>1. /\ pc[d] = "scanning" /\ todo[d] = {} /\ to[d] = None
        /\ pc' = [pc EXCEPT ![d] = IF event[d] = "joined" THEN "snapping" ELSE "idle"]
        /\ inRoom' = IF event[d] = "left" THEN inRoom \ {d} ELSE inRoom
        /\ event' = [event EXCEPT ![d] = None]
        /\ UNCHANGED <<roster, who, todo, to, snap, view>>
    BY <1>4 DEF BroadcastEnds
  <2>2. \A c \in Conns : /\ HasList(c)' => HasList(c)
                         /\ pc'[c] = "replying" => pc[c] = "replying"
    BY <2>1 DEF HasList
  <2>3. \A c, e \in Conns : Untold(c, e) => event'[e] = event[e] /\ Untold(c, e)'
    BY <2>1 DEF Untold
  <2>4. ListsInv /\ UNCHANGED <<roster, who, snap, view>>
    BY <2>1
  <2>5. ASSUME NEW c \in Conns, NEW q \in Players PROVE ListRight(c, q)'
    BY ONLY <2>2, <2>3, <2>4, <2>5, ListStays
  <2> QED
    BY ONLY <2>5 DEF ListsInv
<1> QED
  BY <1>1, <1>2, <1>3, <1>4

\* Replies: a snapshot is right when it is taken, and stays so until it is sent.  A
\* session that goes elsewhere or ends has no list, and one that logs in no event.
LEMMA OthersKeepLists ==
  ASSUME IInv, NEW d \in Conns, Other(d)
  PROVE  ListsInv'
<1> USE DEF IInv, TypeOK, StepInv, Go, Announcing
<1>1. CASE RoomInfo(d) \/ Reconnect(d)
  <2>1. \A c \in Conns : /\ HasList(c)' => HasList(c)
                         /\ pc'[c] = "replying" => pc[c] = "replying"
    BY <1>1 DEF HasList, RoomInfo, Reconnect
  <2>2. \A c, e \in Conns : Untold(c, e) => Untold(c, e)'
    BY <1>1 DEF Untold, RoomInfo, Reconnect
  <2> QED
    BY <1>1, <2>1, <2>2, ListStays DEF ListsInv, RoomInfo, Reconnect
<1>2. CASE Snapshot(d) \/ Reply(d)
  <2>1. \A c, e \in Conns : Untold(c, e) => Untold(c, e)'
    BY <1>2 DEF Untold, Snapshot, Reply
  <2>2. \A c \in Conns \ {d} : /\ HasList(c)' => HasList(c)
                               /\ pc'[c] = "replying" => pc[c] = "replying"
    BY <1>2 DEF HasList, Snapshot, Reply
  <2>3. ASSUME NEW c \in Conns \ {d}, NEW q \in Players PROVE ListRight(c, q)'
    <3>1. /\ ListsInv /\ UNCHANGED <<roster, who, event>>
          /\ pc'[c] = pc[c] /\ snap'[c] = snap[c] /\ view'[c] = view[c]
      BY <1>2 DEF Snapshot, Reply
    <3> QED
      BY ONLY <2>1, <2>2, <2>3, <3>1, ListStays
  <2>4. ASSUME NEW q \in Players PROVE ListRight(d, q)'
    <3>1. CASE Snapshot(d)
      BY <3>1 DEF ListRight, MaySay, HasList, Snapshot
    <3>2. CASE Reply(d)
      <4>1. MaySay(d, q, snap[d][q]) /\ UNCHANGED <<roster, who, event>>
        BY <3>2 DEF ListsInv, ListRight, Reply
      <4>2. MaySay(d, q, snap[d][q]) => MaySay(d, q, view[d][q])'
        BY <2>1, <3>2, <4>1 DEF MaySay, Mends, Reply
      <4> QED
        BY <3>2, <4>1, <4>2 DEF ListRight, Reply
    <3> QED
      BY <1>2, <3>1, <3>2
  <2> QED
    BY ONLY <2>3, <2>4 DEF ListsInv
<1>3. CASE Elsewhere(d) \/ Remove(d)
  <2>1. \A c, e \in Conns : Untold(c, e) => Untold(c, e)'
    BY <1>3 DEF Untold, Elsewhere, Remove
  <2>2. \A c \in Conns : /\ HasList(c)' => c # d /\ HasList(c)
                         /\ pc'[c] = "replying" => pc[c] = "replying"
    BY <1>3 DEF HasList, Elsewhere, Remove
  <2>3. /\ UNCHANGED <<roster, who, event, snap>>
        /\ \A c \in Conns \ {d} : view'[c] = view[c]
    BY <1>3 DEF Elsewhere, Remove
  <2>4. ASSUME NEW c \in Conns, NEW q \in Players PROVE ListRight(c, q)'
    BY ONLY ListsInv, <2>1, <2>2, <2>3, <2>4, ListStays
  <2> QED
    BY ONLY <2>4 DEF ListsInv
<1>4. CASE Login(d)
  <2>1. /\ event[d] = None /\ UNCHANGED <<roster, pc, inRoom, event, todo, to, snap, view>>
        /\ \A e \in Conns \ {d} : who'[e] = who[e]
    BY <1>4 DEF Login
  <2>2. \A c, e \in Conns : Untold(c, e) => e # d /\ Untold(c, e)'
    BY <2>1 DEF Untold
  <2>3. \A c \in Conns : HasList(c)' => HasList(c)
    BY <2>1 DEF HasList
  <2> QED
    BY <2>1, <2>2, <2>3, ListStays DEF ListsInv
<1>5. CASE Disconnect(d)
  <2>1. /\ pc[d] = "idle" /\ pc' = [pc EXCEPT ![d] = "removing"]
        /\ UNCHANGED <<who, inRoom, event, todo, to>>
        /\ who[d] \in Players /\ \A q \in Players \ {who[d]} : roster'[q] = roster[q]
    BY <1>5 DEF Disconnect
  <2>2. \A c \in Conns : /\ HasList(c)' => HasList(c)
                         /\ pc'[c] = "replying" => pc[c] = "replying"
    BY <2>1 DEF HasList
  <2>3. \A c, e \in Conns : Untold(c, e) => Untold(c, e)'
    BY <2>1 DEF Untold
  <2>4. CASE Silently(who[d])
    BY <2>1, <2>2, <2>3, <2>4, SilenceIsRight
  <2>5. CASE UNCHANGED <<roster, news, snap, view>>
    BY <2>1, <2>2, <2>3, <2>5, ListStays DEF ListsInv
  <2> QED
    BY <1>5, <2>4, <2>5 DEF Disconnect
<1> QED
  BY <1>1, <1>2, <1>3, <1>4, <1>5 DEF Other

LEMMA MatchKeepsLists ==
  ASSUME IInv, MatchAdd
  PROVE  ListsInv'
<1>1. PICK p \in Players :
        /\ roster' = Seated(p)
        /\ IF roster' = roster THEN UNCHANGED <<news, view, snap>> ELSE Silently(p)
        /\ UNCHANGED <<who, pc, inRoom, event, todo, to>>
  BY DEF MatchAdd, IInv, TypeOK
<1>2. \A c \in Conns : /\ HasList(c)' => HasList(c)
                       /\ pc'[c] = "replying" => pc[c] = "replying"
  BY <1>1 DEF HasList
<1>3. \A c, e \in Conns : Untold(c, e) => Untold(c, e)'
  BY <1>1 DEF Untold
<1>4. CASE roster' = roster
  BY <1>1, <1>2, <1>3, <1>4, ListStays DEF IInv, ListsInv
<1>5. CASE roster' # roster
  BY <1>1, <1>2, <1>3, <1>5, SeatedIs, SilenceIsRight DEF IInv
<1> QED
  BY <1>4, <1>5

LEMMA NextIInv == IInv /\ [Next]_vars => IInv'
<1> SUFFICES ASSUME IInv, [Next]_vars PROVE IInv'
  OBVIOUS
<1>1. ASSUME NEW d \in Conns, Request(d) \/ Handler(d) PROVE IInv'
  <2>1. CASE AddCreator(d) \/ Join(d) \/ Enter(d) \/ Leave(d) \/ Ready(d)
    BY <2>1, RosterKeepsSteps, RosterKeepsNews, RosterKeepsLists DEF IInv
  <2>2. CASE BroadcastBegins(d) \/ Look(d) \/ Deliver(d) \/ BroadcastEnds(d)
    BY <2>2, BroadcastKeepsSteps, BroadcastKeepsNews, BroadcastKeepsLists DEF IInv
  <2>3. CASE Other(d)
    BY <2>3, OthersKeepSteps, OthersKeepNews, OthersKeepLists DEF IInv
  <2> QED
    BY <1>1, <2>1, <2>2, <2>3 DEF Request, Handler, Other
<1>2. CASE MatchAdd
  BY <1>2, MatchKeepsSteps, MatchKeepsNews, MatchKeepsLists DEF IInv
<1>3. CASE UNCHANGED vars
  BY <1>3 DEF vars, IInv, TypeOK, StepInv, NewsInv, Tells, ListsInv, ListRight, HasList, MaySay,
              Mends, Untold
<1> QED
  BY <1>1, <1>2, <1>3 DEF Next

LEMMA Invariance == Spec => []IInv
  BY InitIInv, NextIInv, PTL DEF Spec

-----------------------------------------------------------------------------
(* The theorems.                                                           *)

\* The types of the state, and that broadcasts only look at sessions the manager knows:
\* Remove waits for those in progress.
THEOREM TypeCorrect == Spec => []TypeOK
<1>1. IInv => TypeOK
  BY DEF IInv
<1> QED
  BY <1>1, Invariance, PTL

\* A member whose requests are answered has a list that is right about every player of
\* whom no event is under way, or does not know, however many connections a player has
\* and whoever logs in on them.
THEOREM ListsAgreeWithRoster == Spec => []ListsAgree
<1>1. IInv => ListsAgree
  BY DEF IInv, TypeOK, ListsInv, ListRight, HasList, MaySay, Mends, Untold, NewsOf, ListsAgree
<1> QED
  BY <1>1, Invariance, PTL
=============================================================================
