------------------------------ MODULE MCLobby ------------------------------
(***************************************************************************)
(* Small instances of Lobby: two connections, two players, one room, one   *)
(* game per registered kind.                                               *)
(***************************************************************************)
EXTENDS Lobby, TLC

CONSTANTS s1, s2, alice, bob, template, tankbattle

\* One player fills the template's room, two the tank battle's.
OneEach == [g \in Games |-> 1]
OneOrTwo == [g \in Games |-> IF g \in TankGames THEN 2 ELSE 1]

\* One player per connection.
Distinct == s1 :> {alice} @@ s2 :> {bob}

\* A client that holds two tokens and may change its player in mid-connection.
TwoTokens == s1 :> {alice, bob} @@ s2 :> {bob}
=============================================================================
