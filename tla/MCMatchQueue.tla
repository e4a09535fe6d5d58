---------------------------- MODULE MCMatchQueue ----------------------------
(***************************************************************************)
(* Small instances of MatchQueue: groups of two or three, a game without a *)
(* maximum, a name nobody registered.                                      *)
(***************************************************************************)
EXTENDS MatchQueue, TLC

CONSTANTS template, duel

MCMin == [g \in Games |-> IF g = template THEN 2 ELSE 1]
MCMax == [g \in Games |-> IF g = template THEN 3 ELSE 0]
=============================================================================
