------------------------------ MODULE MCArena ------------------------------
(***************************************************************************)
(* Model-checking instances of Arena.tla.                                  *)
(***************************************************************************)
EXTENDS Arena
=============================================================================
