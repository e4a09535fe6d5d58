----------------------------- MODULE MCSessions -----------------------------
(***************************************************************************)
(* Small instances of Sessions: a player who connects twice, and a client  *)
(* that holds one token beside one that holds two.                         *)
(***************************************************************************)
EXTENDS Sessions, TLC

CONSTANTS c1, c2, alice, bob

\* Every client is the same player's.
Reconnect == [c \in Conns |-> {alice}]

\* One client is always alice, the other logs in as alice and as bob.
OneChanges == [c \in Conns |-> IF c = c1 THEN {alice} ELSE Players]
=============================================================================
