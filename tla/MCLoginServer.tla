--------------------------- MODULE MCLoginServer ---------------------------
(***************************************************************************)
(* Model-checking instances of LoginServer.tla.                            *)
(***************************************************************************)
EXTENDS LoginServer

(* send_charlist, and send_disconnect with its two messages of 41 and 33   *)
(* characters.                                                             *)
RealSizes == [charlist |-> 37, bad_version |-> 44, bad_account |-> 36]
=============================================================================
