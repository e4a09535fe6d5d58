---------------------------- MODULE MCTankBattle ----------------------------
(***************************************************************************)
(* A small instance of TankBattle: two players, any registration, limits   *)
(* that a few shots can reach or pass.                                     *)
(***************************************************************************)
EXTENDS TankBattle
=============================================================================
