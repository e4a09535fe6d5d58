--------------------------- MODULE MCTemplateGame ---------------------------
(***************************************************************************)
(* A small instance of TemplateGame: two members, three moves.             *)
(***************************************************************************)
EXTENDS TemplateGame
=============================================================================
