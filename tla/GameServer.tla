----------------------------- MODULE GameServer -----------------------------
(***************************************************************************)
(* game_server.cc: the state of each game client and what its five         *)
(* callbacks do to it and to the output packets of OutPackets.tla.  An     *)
(* action is a callback: the conjunction of the promise Callbacks.tla      *)
(* makes about when it is called and of its whole body.  Messages are      *)
(* abstracted to what the handlers tell apart, and to the number of bytes  *)
(* the answers take.                                                       *)
(***************************************************************************)
EXTENDS Callbacks, OutPackets

(* The messages of a client in the game: packet_unwrap fails; no payload;  *)
(* logout; a say of a mode other than 1; a say that is an item number, the *)
(* number 14, the number 15 or anything else; and every other message.     *)
AllGameMessages ==
  {"garbled", "empty", "logout", "bad_say", "item", "say_14", "say_15", "say", "other"}

CONSTANTS
  GameMessages,   \* the messages clients in the game send
  LoginSize,      \* bytes written by send_login
  NoticeSize,     \* bytes written by send_disconnect
  NoticeRequest   \* bytes send_disconnect asks for (256)

ASSUME GameServerAssumption ==
  /\ GameMessages \subseteq AllGameMessages
  /\ LoginSize \in 1 .. BufSize - HeaderSize - 7
  /\ NoticeRequest \in 1 .. BufSize - HeaderSize - 7
  /\ NoticeSize \in 1 .. NoticeRequest

VARIABLE state    \* Client.state

gameVars == <<cbVars, packetVars, state>>

ClientState ==
  {"HANDSHAKE_WRITING", "HANDSHAKE_WAITING_WRITE", "HANDSHAKE_READING",
   "NORMAL", "DISCONNECT_WRITING", "DISCONNECT_WAITING_WRITE", "DISCONNECTING"}

(* The login messages game_on_read tells apart: with a wrong length,       *)
(* checksum, id or RSA block; of another version; of an unknown account;   *)
(* and a good one.                                                         *)
LoginMessages == {"malformed", "old_version", "wrong_account", "login"}

SetState(c, st) == state' = [state EXCEPT ![c] = st]

-----------------------------------------------------------------------------
(* memset(client, 0) leaves the first state of the enumeration.            *)
GameOnAccept(c) ==
  /\ OnAccept(c)
  /\ SetState(c, "HANDSHAKE_WRITING")
  /\ ForgetPackets(c)

GameOnDrop(c) ==
  /\ OnDrop(c)
  /\ SetState(c, "HANDSHAKE_WRITING")
  /\ ReleaseClient(c)

-----------------------------------------------------------------------------
(***************************************************************************)
(* game_on_read.                                                           *)
(***************************************************************************)

Disconnect(c) == SetState(c, "DISCONNECTING") /\ UNCHANGED packetVars

SendDisconnect(c) ==
  SetState(c, "DISCONNECT_WRITING") /\ PutMessage(c, NoticeRequest, NoticeSize)

SendLogin(c) == SetState(c, "NORMAL") /\ PutMessage(c, 0, LoginSize)

SendInventoryItem(c) == PutMessage(c, 4, 4) /\ UNCHANGED state
SendReloginWindow(c) == PutMessage(c, 1, 1) /\ UNCHANGED state

(* Two bytes are written, one is asked for.                                *)
SendCancelWalk(c) == PutMessage(c, 1, 2) /\ UNCHANGED state

ReadLogin(c, m) ==
  /\ OnRead(c)
  /\ state[c] = "HANDSHAKE_READING"
  /\ \/ m = "malformed" /\ Disconnect(c)
     \/ m \in {"old_version", "wrong_account"} /\ SendDisconnect(c)
     \/ m = "login" /\ SendLogin(c)

ReadMessage(c, m) ==
  /\ OnRead(c)
  /\ state[c] = "NORMAL"
  /\ \/ m \in {"garbled", "logout", "bad_say"} /\ Disconnect(c)
     \/ m \in {"empty", "say"} /\ UNCHANGED <<packetVars, state>>
     \/ m = "item" /\ SendInventoryItem(c)
     \/ m = "say_14" /\ SendDisconnect(c)
     \/ m = "say_15" /\ SendReloginWindow(c)
     \/ m = "other" /\ SendCancelWalk(c)

ReadUnexpected(c) ==
  /\ OnRead(c)
  /\ state[c] \notin {"HANDSHAKE_READING", "NORMAL"}
  /\ Disconnect(c)

-----------------------------------------------------------------------------
(***************************************************************************)
(* game_request_output.                                                    *)
(***************************************************************************)

GiveChallenge(c) ==
  /\ RequestOutput(c, TRUE)
  /\ state[c] = "HANDSHAKE_WRITING"
  /\ SetState(c, "HANDSHAKE_WAITING_WRITE")
  /\ UNCHANGED packetVars

ChallengeWritten(c) ==
  /\ RequestOutput(c, FALSE)
  /\ state[c] = "HANDSHAKE_WAITING_WRITE"
  /\ SetState(c, "HANDSHAKE_READING")
  /\ UNCHANGED packetVars

WritesQueue(c) == state[c] \in {"NORMAL", "DISCONNECT_WRITING"}

GivePacket(c) ==
  /\ RequestOutput(c, TRUE)
  /\ WritesQueue(c)
  /\ WriteHead(c)
  /\ SetState(c, IF state[c] = "NORMAL" THEN "NORMAL" ELSE "DISCONNECT_WAITING_WRITE")

(* The queue is empty, or its head cannot be wrapped.                      *)
GiveNothing(c) ==
  /\ RequestOutput(c, FALSE)
  /\ WritesQueue(c)
  /\ out_queue_head[c] # NULL => ~WrapFits(out_queue_head[c])
  /\ WriteNothing(c)
  /\ SetState(c, IF out_queue_head[c] = NULL THEN state[c] ELSE "DISCONNECTING")

(* Mutant: nothing follows the last packet of a disconnect.                *)
NoticeWrittenIgnored(c) ==
  /\ RequestOutput(c, FALSE)
  /\ state[c] = "DISCONNECT_WAITING_WRITE"
  /\ UNCHANGED <<packetVars, state>>

NoticeWritten(c) ==
  /\ RequestOutput(c, FALSE)
  /\ state[c] = "DISCONNECT_WAITING_WRITE"
  /\ Disconnect(c)

StayQuiet(c) ==
  /\ RequestOutput(c, FALSE)
  /\ state[c] \in {"HANDSHAKE_READING", "DISCONNECTING"}
  /\ UNCHANGED <<packetVars, state>>

GameRequestOutput(c) ==
  \/ GiveChallenge(c) \/ ChallengeWritten(c)
  \/ GivePacket(c) \/ GiveNothing(c)
  \/ NoticeWritten(c) \/ StayQuiet(c)

GameRequestStatus(c) ==
  /\ RequestStatus(c, state[c] = "DISCONNECTING")
  /\ UNCHANGED <<packetVars, state>>

(* What the server does by itself: the rest of the output is sent.         *)
GameOutputSent(c) ==
  /\ OutputSent(c)
  /\ UNCHANGED <<packetVars, state>>

-----------------------------------------------------------------------------
GameInit ==
  /\ CbInit
  /\ PacketsInit
  /\ state = [c \in Slots |-> "HANDSHAKE_WRITING"]

GameOnRead(c) ==
  \/ \E m \in LoginMessages : ReadLogin(c, m)
  \/ \E m \in GameMessages : ReadMessage(c, m)
  \/ ReadUnexpected(c)

GameNext ==
  \E c \in Slots :
    \/ GameOnAccept(c) \/ GameOnRead(c) \/ GameRequestOutput(c)
    \/ GameRequestStatus(c) \/ GameOutputSent(c) \/ GameOnDrop(c)

GameSpec == GameInit /\ [][GameNext]_gameVars

(* What server_poll does for every connection, pass after pass: output is  *)
(* sent as the peer reads, the next output and the status are asked for,   *)
(* and a connection given up with nothing left to write is dropped.        *)
(* Server.tla shows it, for peers that read (DoomedIsDropped).             *)
GameFairSpec ==
  /\ GameSpec
  /\ \A c \in Slots :
       /\ WF_gameVars(GameOutputSent(c))
       /\ WF_gameVars(GameRequestOutput(c))
       /\ WF_gameVars(GameRequestStatus(c))
       /\ WF_gameVars(doomed[c] /\ ~writing[c] /\ GameOnDrop(c))

-----------------------------------------------------------------------------
(* Type correctness of the clients, their packets and the callbacks.       *)
GameTypeOK ==
  /\ PacketsTypeOK
  /\ state \in [Slots -> ClientState]
  /\ open \in [Slots -> BOOLEAN]
  /\ writing \in [Slots -> BOOLEAN]
  /\ doomed \in [Slots -> BOOLEAN]

(* While the server still writes a packet nobody changes it, recycles it   *)
(* or puts it in a queue, whatever messages arrive meanwhile.              *)
WriteBufferStable ==
  [][\A c \in Slots :
       LET p == out_writing[c]
       IN  writing[c] /\ writing'[c] /\ p # NULL =>
             /\ out_writing'[c] = p
             /\ bufpos'[p] = bufpos[p]
             /\ p \notin Recycled' \union UNION {Queued(d)' : d \in Slots}]_gameVars

(* A client the game gave up (DISCONNECTING) stays so until it is dropped, *)
(* and gets no new output; a dropped one leaves no packet behind in its    *)
(* slot for the next connection.                                           *)
GivenUpIsFinal ==
  [][\A c \in Slots :
       /\ state[c] = "DISCONNECTING" /\ open'[c] =>
            state'[c] = "DISCONNECTING" /\ (writing'[c] => writing[c])
       /\ ~open[c] /\ open'[c] =>
            out_writing[c] = NULL /\ out_queue_head[c] = NULL /\ out_queue_tail[c] = NULL
    ]_gameVars

(* Packets get lost when a client is dropped, all of its queue but the     *)
(* last one, and at no other time: no mixture of messages, of packets      *)
(* written and recycled and of clients that come loses one, and none that  *)
(* is lost is ever used again.                                             *)
LossesAreDrops ==
  [][Lost' = Lost \union
       UNION {Queued(c) \ {out_queue_tail[c]} : c \in {d \in Slots : open[d] /\ ~open'[d]}}
    ]_gameVars

(* A client told to disconnect is dropped in the end.                      *)
ToldIsDropped ==
  \A c \in Slots :
    (open[c] /\ state[c] \in {"DISCONNECT_WRITING", "DISCONNECT_WAITING_WRITE",
                              "DISCONNECTING"}) ~> ~open[c]
=============================================================================
