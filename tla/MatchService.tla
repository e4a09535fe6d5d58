---------------------------- MODULE MatchService -----------------------------
(***************************************************************************)
(* What the match queue promises, whatever it stores and whenever its      *)
(* ticker fires: requests are filed and numbered, a player's oldest        *)
(* request for a game is withdrawn first, and a game's oldest requests are *)
(* served together, in a group that fits and is as large as the game       *)
(* allows once there are enough.  MatchQueue implements this with slices   *)
(* it appends to, closes gaps in and cuts.                                 *)
(***************************************************************************)
EXTENDS Integers, FiniteSets

CONSTANTS
    Players,
    Names,                   \* game names
    Games,                   \* those a group can be made for
    MinPlayers, MaxPlayers   \* per game of Games; no maximum if it is 0

VARIABLES
    filed,      \* number of requests so far
    waiting,    \* per name: the requests neither withdrawn nor served
    served      \* the groups

service == <<filed, waiting, served>>

Init ==
    /\ filed = 0
    /\ waiting = [g \in Names |-> {}]
    /\ served = {}

\* Requests E are older than the others of S.
ComeFirst(E, S) == \A e \in E, f \in S \ E : e.ticket < f.ticket

\* A group of n out of m who wait.
Fits(n, m, g) ==
    /\ n >= MinPlayers[g]
    /\ MaxPlayers[g] > 0 => n <= MaxPlayers[g] /\ (m >= MaxPlayers[g] => n = MaxPlayers[g])

File(p, g) ==
    /\ filed' = filed + 1
    /\ waiting' = [waiting EXCEPT ![g] = @ \cup {[player |-> p, ticket |-> filed + 1]}]
    /\ UNCHANGED served

Withdraw(p, g) ==
    \E e \in waiting[g] :
        /\ e.player = p
        /\ ComeFirst({e}, {f \in waiting[g] : f.player = p})
        /\ waiting' = [waiting EXCEPT ![g] = @ \ {e}]
        /\ UNCHANGED <<filed, served>>

Serve(g) ==
    \E E \in SUBSET waiting[g] :
        /\ ComeFirst(E, waiting[g])
        /\ Fits(Cardinality(E), Cardinality(waiting[g]), g)
        /\ waiting' = [waiting EXCEPT ![g] = @ \ E]
        /\ served' = served \cup {[game |-> g, group |-> E]}
        /\ UNCHANGED filed

Next ==
    \/ \E p \in Players, g \in Names : File(p, g) \/ Withdraw(p, g)
    \/ \E g \in Games : Serve(g)

Spec == Init /\ [][Next]_service
=============================================================================
