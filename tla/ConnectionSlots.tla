-------------------------- MODULE ConnectionSlots --------------------------
(***************************************************************************)
(* The connection slots that server.cc hands out and that login_server.cc  *)
(* and game_server.cc index their own arrays with.                         *)
(***************************************************************************)
EXTENDS Integers

CONSTANT MaxConnections     \* ServerParams.max_connections

(* The code never checks this: with 0 slots server_init writes to          *)
(* connections[-1].  main configures 10 and 100.                           *)
ASSUME MaxConnectionsAssumption == MaxConnections \in Nat \ {0}

Slots == 0 .. MaxConnections - 1
=============================================================================
