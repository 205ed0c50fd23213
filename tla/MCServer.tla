------------------------------ MODULE MCServer ------------------------------
(***************************************************************************)
(* Model-checking instances of Server.tla.  Sockets are interchangeable:   *)
(* nothing in the specification orders or names them.                      *)
(***************************************************************************)
EXTENDS Server, TLC

SocketSymmetry == Permutations(Sockets)
=============================================================================
