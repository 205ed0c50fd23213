------------------------------ MODULE Callbacks ------------------------------
(***************************************************************************)
(* The promise that server.hh makes to the code behind its five callbacks  *)
(* (login_server.cc and game_server.cc): in which order and under which    *)
(* conditions on_accept, on_read, request_output, request_status and       *)
(* on_drop are called for a connection slot.  Nothing of the socket layer  *)
(* is visible here.  Server.tla is shown to implement this specification;  *)
(* LoginServer.tla and GameServer.tla are built on top of it by conjoining *)
(* each of its actions with the body of the callback.                      *)
(***************************************************************************)
EXTENDS ConnectionSlots

CONSTANT ObserveCalls   \* whether `call' records the callbacks; it is part of
                        \* the promise, and a burden to those who rely on it

ASSUME ObserveCallsAssumption == ObserveCalls \in BOOLEAN

VARIABLES
  open,      \* open[c]: slot c is between its on_accept and its on_drop
  writing,   \* writing[c]: output handed over by request_output is not fully sent
  doomed,    \* doomed[c]: request_status has answered CLOSING
  call       \* the latest callback and its slot, if ObserveCalls

cbVars == <<open, writing, doomed, call>>

NoCall == [cb |-> "none", slot |-> 0]
Called(name, c) ==
  call' = IF ObserveCalls THEN [cb |-> name, slot |-> c] ELSE NoCall

(***************************************************************************)
(* A newly accepted connection takes a slot that is not in use.            *)
(***************************************************************************)
OnAccept(c) ==
  /\ ~open[c]
  /\ open' = [open EXCEPT ![c] = TRUE]
  /\ writing' = [writing EXCEPT ![c] = FALSE]
  /\ doomed' = [doomed EXCEPT ![c] = FALSE]
  /\ Called("on_accept", c)

(***************************************************************************)
(* A message is delivered only to an open slot, and never once the owner   *)
(* asked for the connection to be closed and its output is drained.        *)
(***************************************************************************)
OnRead(c) ==
  /\ open[c]
  /\ doomed[c] => writing[c]
  /\ Called("on_read", c)
  /\ UNCHANGED <<open, writing, doomed>>

(***************************************************************************)
(* Output is requested only when all earlier output has left the slot, so  *)
(* the owner may recycle the buffer it handed over before.  `some' tells   *)
(* whether the callback produced output.                                   *)
(***************************************************************************)
RequestOutput(c, some) ==
  /\ open[c]
  /\ ~writing[c]
  /\ writing' = [writing EXCEPT ![c] = some]
  /\ Called("request_output", c)
  /\ UNCHANGED <<open, doomed>>

OutputSent(c) ==
  /\ open[c]
  /\ writing[c]
  /\ writing' = [writing EXCEPT ![c] = FALSE]
  /\ UNCHANGED <<open, doomed, call>>

(***************************************************************************)
(* The status is asked until the answer is CLOSING, and not after that.    *)
(***************************************************************************)
RequestStatus(c, closing) ==
  /\ open[c]
  /\ ~doomed[c]
  /\ doomed' = [doomed EXCEPT ![c] = closing]
  /\ Called("request_status", c)
  /\ UNCHANGED <<open, writing>>

(***************************************************************************)
(* Every accepted slot is dropped once; its output may be cut short, since *)
(* the peer can go away at any time.                                       *)
(***************************************************************************)
OnDrop(c) ==
  /\ open[c]
  /\ open' = [open EXCEPT ![c] = FALSE]
  /\ writing' = [writing EXCEPT ![c] = FALSE]
  /\ doomed' = [doomed EXCEPT ![c] = FALSE]
  /\ Called("on_drop", c)

CbInit ==
  /\ open = [c \in Slots |-> FALSE]
  /\ writing = [c \in Slots |-> FALSE]
  /\ doomed = [c \in Slots |-> FALSE]
  /\ call = NoCall

CbNext ==
  \E c \in Slots :
    \/ OnAccept(c)
    \/ OnRead(c)
    \/ \E some \in BOOLEAN : RequestOutput(c, some)
    \/ OutputSent(c)
    \/ \E closing \in BOOLEAN : RequestStatus(c, closing)
    \/ OnDrop(c)

CbSpec == CbInit /\ [][CbNext]_cbVars
=============================================================================
