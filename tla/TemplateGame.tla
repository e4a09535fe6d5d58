---------------------------- MODULE TemplateGame -----------------------------
(***************************************************************************)
(* The template game and its list of moves, a Go slice that nothing        *)
(* guards: every member's connection calls OnMessage from a goroutine of   *)
(* its own.  append reads the slice's header, writes the element, into the *)
(* array or, when that is full, into a larger copy, and stores the header. *)
(* The header is read and stored as a whole here; the machine may tear it, *)
(* which only adds outcomes.                                               *)
(***************************************************************************)
EXTENDS Integers, Sequences

CONSTANTS
    Players,    \* members of the room, one connection each
    MaxMoves,   \* bound on the moves that are sent
    None

VARIABLES
    status,     \* GameState.Status, "none" before OnStart
    arrays,     \* the arrays allocated for Moves; an element not written is None
    moves,      \* the header of Moves: which array, and its length
    pc,         \* where the player's call of OnMessage is
    own,        \* the header the call has read or made
    move,       \* the number of the move the call was made with
    sent,       \* moves sent
    answered    \* history: moves whose OnMessage has returned without an error

vars == <<status, arrays, moves, pc, own, move, sent, answered>>

Nil == [array |-> 0, len |-> 0]

Init ==
    /\ status = "none"
    /\ arrays = <<>>
    /\ moves = Nil
    /\ pc = [p \in Players |-> "idle"]
    /\ own = [p \in Players |-> Nil]
    /\ move = [p \in Players |-> 0]
    /\ sent = 0
    /\ answered = {}

\* start_game comes to OnStart once (Lobby); it makes a new, empty state.
OnStart ==
    /\ status = "none"
    /\ status' = "playing"
    /\ UNCHANGED <<arrays, moves, pc, own, move, sent, answered>>

\* The check of Status, and the first half of append: the header.  Before OnStart and
\* after OnEnd OnMessage returns an error.
OnMessage(p) ==
    /\ pc[p] = "idle" /\ sent < MaxMoves
    /\ status = "playing"
    /\ pc' = [pc EXCEPT ![p] = "appending"]
    /\ own' = [own EXCEPT ![p] = moves]
    /\ move' = [move EXCEPT ![p] = sent + 1]
    /\ sent' = sent + 1
    /\ UNCHANGED <<status, arrays, moves, answered>>

Capacity(array) == IF array = 0 THEN 0 ELSE Len(arrays[array])

\* A larger array with array's elements in front.
Grown(array) ==
    LET n == Capacity(array)
    IN  [i \in 1..(IF n = 0 THEN 1 ELSE 2 * n) |-> IF i <= n THEN arrays[array][i] ELSE None]

\* The element is written behind those the header counts.
WriteElement(p) ==
    LET array == own[p].array
        next == own[p].len + 1
    IN  /\ pc[p] = "appending"
        /\ pc' = [pc EXCEPT ![p] = "storing"]
        /\ IF next <= Capacity(array)
             THEN /\ arrays' = [arrays EXCEPT ![array][next] = move[p]]
                  /\ own' = [own EXCEPT ![p].len = next]
             ELSE /\ arrays' = Append(arrays, [Grown(array) EXCEPT ![next] = move[p]])
                  /\ own' = [own EXCEPT ![p] = [array |-> Len(arrays) + 1, len |-> next]]
        /\ UNCHANGED <<status, moves, move, sent, answered>>

\* The header is stored, and the move is echoed to the room.
StoreHeader(p) ==
    /\ pc[p] = "storing"
    /\ pc' = [pc EXCEPT ![p] = "idle"]
    /\ moves' = own[p]
    /\ answered' = answered \cup {move[p]}
    /\ UNCHANGED <<status, arrays, own, move, sent>>

\* OnEnd; nothing in the server calls it.
OnEnd ==
    /\ status \in {"none", "playing"}
    /\ status' = IF status = "none" THEN "none" ELSE "ended"
    /\ UNCHANGED <<arrays, moves, pc, own, move, sent, answered>>

Next == OnStart \/ OnEnd \/ \E p \in Players : OnMessage(p) \/ WriteElement(p) \/ StoreHeader(p)

Spec == Init /\ [][Next]_vars

\* What MarshalState gives out.
Recorded == {arrays[moves.array][i] : i \in 1..moves.len}

-----------------------------------------------------------------------------
(* What the code says and does not do.                                     *)

\* "Record the move" (games/template/game.go, OnMessage): a move that is answered, and
\* echoed to the room, is in the list of moves from then on.
MovesAreRecorded == answered \subseteq Recorded
=============================================================================
