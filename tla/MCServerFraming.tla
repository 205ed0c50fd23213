--------------------------- MODULE MCServerFraming ---------------------------
(***************************************************************************)
(* Model-checking instance of ServerFraming.tla.                           *)
(***************************************************************************)
EXTENDS ServerFraming, TLC

SocketSymmetry == Permutations(Sockets)
=============================================================================
