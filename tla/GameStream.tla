----------------------------- MODULE GameStream -----------------------------
(***************************************************************************)
(* What a game client is sent.  GameServer.tla is extended by the contents *)
(* of the output packets: every message put into one is numbered, per      *)
(* client and since its on_accept, and the packets handed to the server    *)
(* are accounted for.                                                      *)
(***************************************************************************)
EXTENDS GameServer

CONSTANT MaxMessages   \* bound: messages put for one client

VARIABLES
  contents,   \* contents[p]: the numbers of the messages in packet p
  put,        \* put[c]: number of messages put for c since its on_accept
  handed      \* handed[c]: the numbers handed over by request_output

streamVars == <<contents, put, handed>>

(* The messages that wait in the queue of c, in the order of its links.    *)
Waiting(c) ==
  LET q == Chain(out_queue_head[c])
  IN  FlattenSeq([i \in DOMAIN q |-> contents[q[i]]])

StreamInit ==
  /\ GameInit
  /\ contents = [p \in Packets |-> <<>>]
  /\ put = [c \in Slots |-> 0]
  /\ handed = [c \in Slots |-> <<>>]

StreamAccept(c) ==
  /\ GameOnAccept(c)
  /\ put' = [put EXCEPT ![c] = 0]
  /\ handed' = [handed EXCEPT ![c] = <<>>]
  /\ UNCHANGED contents

(* A message goes into the packet that is the tail afterwards, behind what *)
(* is in there, or at its start when the packet is a fresh one.            *)
StreamRead(c) ==
  /\ GameOnRead(c)
  /\ IF out_queue_tail' = out_queue_tail /\ bufpos' = bufpos
       THEN UNCHANGED streamVars
       ELSE LET p == out_queue_tail'[c]
            IN  /\ put[c] < MaxMessages
                /\ put' = [put EXCEPT ![c] = @ + 1]
                /\ contents' = [contents EXCEPT ![p] =
                     IF p = out_queue_tail[c] THEN Append(@, put[c] + 1)
                                              ELSE <<put[c] + 1>>]
                /\ UNCHANGED handed

StreamGive(c) ==
  /\ GivePacket(c)
  /\ handed' = [handed EXCEPT ![c] = @ \o contents[out_queue_head[c]]]
  /\ UNCHANGED <<contents, put>>

StreamOther(c) ==
  /\ \/ GiveChallenge(c) \/ ChallengeWritten(c) \/ GiveNothing(c)
     \/ NoticeWritten(c) \/ StayQuiet(c)
     \/ GameRequestStatus(c) \/ GameOutputSent(c) \/ GameOnDrop(c)
  /\ UNCHANGED streamVars

StreamNext ==
  \E c \in Slots :
    StreamAccept(c) \/ StreamRead(c) \/ StreamGive(c) \/ StreamOther(c)

StreamSpec == StreamInit /\ [][StreamNext]_<<gameVars, streamVars>>

-----------------------------------------------------------------------------
(* Nothing put for a connected client is lost, doubled, reordered or given *)
(* to another client on its way through the queue: what was handed to the  *)
(* server, followed by what waits, is message 1, 2, ... up to the last.    *)
MessagesInOrder ==
  \A c \in Slots :
    open[c] => handed[c] \o Waiting(c) = [i \in 1 .. put[c] |-> i]
=============================================================================
