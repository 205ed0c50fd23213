------------------------------- MODULE Server -------------------------------
(***************************************************************************)
(* The polled TCP server of server.cc, used once by the login server and   *)
(* once by the game server: a fixed array of connection slots threaded on  *)
(* a free list, server_poll as a sequence of steps (accept everything,     *)
(* WSAPoll, then visit slot after slot), the frame reader and the writer,  *)
(* and the operating system's sockets with a peer at the other end of each.*)
(*                                                                         *)
(* A step of the server goes from one call into the operating system to    *)
(* the next; between two of them any peer may connect, send, read, finish  *)
(* or reset.  The five callbacks are left open here: what they answer is   *)
(* chosen freely, and Callbacks.tla is what they may rely on.              *)
(***************************************************************************)
EXTENDS ConnectionSlots, Sequences

CONSTANTS
  ReadbufSize,      \* ServerParams.readbuf_size
  Sockets,          \* the handles the operating system gives out
  INVALID_SOCKET,
  Bytes,            \* the values a peer's byte takes
  ByteBase,         \* weight of the second header byte (256 in the code)
  MaxAvail,         \* bound: received bytes the system keeps for a socket
  SendRoom,         \* bound: sent bytes the system keeps for a socket
  MaxOutput,        \* bound: size of one output of the owner
  PollMayFail       \* whether WSAPoll may return SOCKET_ERROR

ASSUME ServerAssumption ==
  /\ ReadbufSize \in Nat /\ ReadbufSize >= 2
  /\ INVALID_SOCKET \notin Sockets
  /\ Bytes \subseteq Nat /\ ByteBase \in Nat
  /\ MaxAvail \in Nat /\ SendRoom \in Nat /\ MaxOutput \in Nat
  /\ PollMayFail \in BOOLEAN

NIL == -1

VARIABLES
  pc,               \* where server_poll is
  cur,              \* the slot being visited
  freelist_head,
  freelist_next,    \* Connection.freelist_next
  fd,               \* pollfds[c].fd, equal to Connection.s while it is valid
  revents,          \* pollfds[c].revents
  closed, closing,  \* Connection.closed, Connection.closing
  readbuf,          \* the bytes of Connection.readbuf before readbuf_pos
  bytes_to_read, message_length,
  bytes_to_write,
  call,             \* the latest callback and its slot
  os,               \* os[s]: what the operating system does with handle s
  peer,             \* peer[s]: what the peer has done to its end
  avail,            \* avail[s]: bytes received from the peer, not yet read
  sent              \* sent[s]: number of bytes sent, not yet read by the peer

freeVars == <<freelist_head, freelist_next, fd>>
connVars == <<closed, closing, readbuf, bytes_to_read, message_length, bytes_to_write>>
netVars  == <<os, peer, avail, sent>>
vars == <<pc, cur, freeVars, revents, connVars, call, netVars>>

Minimum(a, b) == IF a < b THEN a ELSE b
NoCall == [cb |-> "none", slot |-> 0]
Called(name, c) == call' = [cb |-> name, slot |-> c]
Goto(label) == pc' = label /\ cur' = cur

Open(c) == fd[c] # INVALID_SOCKET
Free == {c \in Slots : ~Open(c)}

-----------------------------------------------------------------------------
(***************************************************************************)
(* Sockets.                                                                *)
(***************************************************************************)

(* closesocket discards what was received; tcp_close leaves what was sent  *)
(* to the system, which still delivers it, and tcp_abort discards it.      *)
Released(s, linger) ==
  /\ os' = [os EXCEPT ![s] = IF linger THEN "lingering" ELSE "free"]
  /\ avail' = [avail EXCEPT ![s] = <<>>]
  /\ sent' = [sent EXCEPT ![s] = IF linger THEN @ ELSE 0]
  /\ peer' = [peer EXCEPT ![s] = IF linger THEN @ ELSE "up"]

TcpClose(s) == Released(s, sent[s] > 0)
TcpAbort(s) == Released(s, FALSE)

ConnectionClose(c) ==
  IF closed[c] THEN UNCHANGED <<closed, netVars>>
  ELSE TcpClose(fd[c]) /\ closed' = [closed EXCEPT ![c] = TRUE]

ConnectionAbort(c) ==
  IF closed[c] THEN UNCHANGED <<closed, netVars>>
  ELSE TcpAbort(fd[c]) /\ closed' = [closed EXCEPT ![c] = TRUE]

-----------------------------------------------------------------------------
(***************************************************************************)
(* The free list of slots.                                                 *)
(***************************************************************************)

InitialNext(c) == IF c = MaxConnections - 1 THEN NIL ELSE c + 1

AllocConnection(c) ==
  /\ freelist_head # NIL
  /\ c = freelist_head
  /\ freelist_head' = freelist_next[c]
  /\ UNCHANGED freelist_next

(* Mutant: the head is overwritten before the freed slot links to it.      *)
FreeConnectionHeadFirst(c) ==
  /\ fd' = [fd EXCEPT ![c] = INVALID_SOCKET]
  /\ freelist_next' = [freelist_next EXCEPT ![c] = c]
  /\ freelist_head' = c

(* Mutant: the descriptor of a freed slot stays in the poll set.           *)
FreeConnectionKeepsFd(c) ==
  /\ freelist_next' = [freelist_next EXCEPT ![c] = freelist_head]
  /\ freelist_head' = c
  /\ UNCHANGED fd

FreeConnection(c) ==
  /\ fd' = [fd EXCEPT ![c] = INVALID_SOCKET]
  /\ freelist_next' = [freelist_next EXCEPT ![c] = freelist_head]
  /\ freelist_head' = c

-----------------------------------------------------------------------------
(***************************************************************************)
(* server_accept_connections.                                              *)
(***************************************************************************)

(* Mutant: a reused slot keeps its closed flag.                         *)
NewConnectionStaleClosed(c, s) ==
  /\ fd' = [fd EXCEPT ![c] = s]
  /\ closing' = [closing EXCEPT ![c] = FALSE]
  /\ readbuf' = [readbuf EXCEPT ![c] = <<>>]
  /\ bytes_to_read' = [bytes_to_read EXCEPT ![c] = 2]
  /\ message_length' = [message_length EXCEPT ![c] = 0]
  /\ bytes_to_write' = [bytes_to_write EXCEPT ![c] = 0]
  /\ UNCHANGED closed

(* Mutant: a reused slot keeps its closing flag.                        *)
NewConnectionStaleClosing(c, s) ==
  /\ fd' = [fd EXCEPT ![c] = s]
  /\ closed' = [closed EXCEPT ![c] = FALSE]
  /\ readbuf' = [readbuf EXCEPT ![c] = <<>>]
  /\ bytes_to_read' = [bytes_to_read EXCEPT ![c] = 2]
  /\ message_length' = [message_length EXCEPT ![c] = 0]
  /\ bytes_to_write' = [bytes_to_write EXCEPT ![c] = 0]
  /\ UNCHANGED closing

(* Mutant: a reused slot keeps what it had to write.                    *)
NewConnectionStaleOutput(c, s) ==
  /\ fd' = [fd EXCEPT ![c] = s]
  /\ closed' = [closed EXCEPT ![c] = FALSE]
  /\ closing' = [closing EXCEPT ![c] = FALSE]
  /\ readbuf' = [readbuf EXCEPT ![c] = <<>>]
  /\ bytes_to_read' = [bytes_to_read EXCEPT ![c] = 2]
  /\ message_length' = [message_length EXCEPT ![c] = 0]
  /\ UNCHANGED bytes_to_write

NewConnection(c, s) ==
  /\ fd' = [fd EXCEPT ![c] = s]
  /\ closed' = [closed EXCEPT ![c] = FALSE]
  /\ closing' = [closing EXCEPT ![c] = FALSE]
  /\ readbuf' = [readbuf EXCEPT ![c] = <<>>]
  /\ bytes_to_read' = [bytes_to_read EXCEPT ![c] = 2]
  /\ message_length' = [message_length EXCEPT ![c] = 0]
  /\ bytes_to_write' = [bytes_to_write EXCEPT ![c] = 0]

Accepts(s) == pc = "accept" /\ os[s] = "backlog"

AcceptConnection(s) ==
  /\ Accepts(s)
  /\ os' = [os EXCEPT ![s] = "open"]
  /\ \E c \in Slots :
       /\ AllocConnection(c)
       /\ NewConnection(c, s)
       /\ Called("on_accept", c)
  /\ UNCHANGED <<pc, cur, revents, peer, avail, sent>>

(* Mutant: with every slot taken the loop neither accepts nor rejects.     *)
RejectConnectionNotFull(s) ==
  /\ Accepts(s)
  /\ freelist_head # NIL
  /\ TcpAbort(s)
  /\ UNCHANGED <<pc, cur, freeVars, revents, connVars, call>>

(* No free slot, or a fresh socket that cannot be made nonblocking.        *)
RejectConnection(s) ==
  /\ Accepts(s)
  /\ TcpAbort(s)
  /\ UNCHANGED <<pc, cur, freeVars, revents, connVars, call>>

(* accept fails: nobody is waiting, or a waiting peer is gone already.     *)
AcceptNone ==
  /\ pc = "accept"
  /\ \A s \in Sockets : os[s] # "backlog"
  /\ Goto("poll")
  /\ UNCHANGED <<freeVars, revents, connVars, call, netVars>>

AcceptError(s) ==
  /\ Accepts(s)
  /\ peer[s] = "reset"
  /\ TcpAbort(s)
  /\ Goto("poll")
  /\ UNCHANGED <<freeVars, revents, connVars, call>>

-----------------------------------------------------------------------------
(***************************************************************************)
(* WSAPoll and the visits.                                                 *)
(***************************************************************************)

(* What WSAPoll reports for an open socket: a reset hangs up; whether a peer *)
(* that has finished does is at the system's discretion.  A descriptor     *)
(* that is no open socket, INVALID_SOCKET included, gets NVAL.             *)
Events(s, hangup) ==
  IF peer[s] = "reset" THEN {"HUP"}
  ELSE {e \in {"IN", "OUT", "HUP"} :
          \/ e = "IN" /\ (avail[s] # <<>> \/ peer[s] = "fin")
          \/ e = "OUT" /\ sent[s] < SendRoom
          \/ e = "HUP" /\ hangup}

Poll ==
  /\ pc = "poll"
  /\ \E hangups \in SUBSET {c \in Slots : Open(c) /\ peer[fd[c]] = "fin"} :
       revents' = [c \in Slots |-> IF Open(c) /\ os[fd[c]] = "open"
                                     THEN Events(fd[c], c \in hangups)
                                     ELSE {"NVAL"}]
  /\ pc' = "visit" /\ cur' = 0
  /\ UNCHANGED <<freeVars, connVars, call, netVars>>

(* The return value is not looked at: a failed call leaves revents behind. *)
PollFails ==
  /\ PollMayFail
  /\ pc = "poll"
  /\ pc' = "visit" /\ cur' = 0
  /\ UNCHANGED <<freeVars, revents, connVars, call, netVars>>

(* Mutant: the visits run one slot too far.                                *)
AdvanceTooFar ==
  IF cur = MaxConnections
    THEN pc' = "accept" /\ cur' = 0
    ELSE pc' = "visit" /\ cur' = cur + 1

(* The next turn of the loop over the slots.                               *)
Advance ==
  IF cur = MaxConnections - 1
    THEN pc' = "accept" /\ cur' = 0
    ELSE pc' = "visit" /\ cur' = cur + 1

Visiting(c) == pc = "visit" /\ c = cur

VisitEmpty(c) ==
  /\ Visiting(c)
  /\ ~Open(c)
  /\ Advance
  /\ UNCHANGED <<freeVars, revents, connVars, call, netVars>>

(* ASSERT(!(revents & POLLNVAL)) stops the program.                        *)
AssertFails(c) ==
  /\ Visiting(c)
  /\ Open(c)
  /\ "NVAL" \in revents[c]
  /\ Goto("halted")
  /\ UNCHANGED <<freeVars, revents, connVars, call, netVars>>

(* Mutant: a hangup is noticed, but the connection is not closed.          *)
VisitHangupIgnored(c) ==
  /\ Visiting(c)
  /\ Open(c)
  /\ "HUP" \in revents[c]
  /\ Goto("status")
  /\ UNCHANGED <<freeVars, revents, connVars, call, netVars>>

VisitHangup(c) ==
  /\ Visiting(c)
  /\ Open(c)
  /\ "HUP" \in revents[c]
  /\ ConnectionClose(c)
  /\ Goto("status")
  /\ UNCHANGED <<freeVars, revents, closing, readbuf, bytes_to_read,
                 message_length, bytes_to_write, call>>

AfterReading(c) == IF "OUT" \in revents[c] THEN "write" ELSE "status"

VisitReady(c) ==
  /\ Visiting(c)
  /\ Open(c)
  /\ revents[c] \intersect {"NVAL", "HUP"} = {}
  /\ Goto(IF "IN" \in revents[c] THEN "read" ELSE AfterReading(c))
  /\ UNCHANGED <<freeVars, revents, connVars, call, netVars>>

-----------------------------------------------------------------------------
(***************************************************************************)
(* connection_resume_reading: one action per outcome of recv.              *)
(***************************************************************************)

Reading(c) == pc = "read" /\ c = cur

RecvError(c) ==
  /\ Reading(c)
  /\ peer[fd[c]] = "reset"
  /\ ConnectionAbort(c)
  /\ Goto(AfterReading(c))
  /\ UNCHANGED <<freeVars, revents, closing, readbuf, bytes_to_read,
                 message_length, bytes_to_write, call>>

RecvWouldBlock(c) ==
  /\ Reading(c)
  /\ peer[fd[c]] = "up"
  /\ avail[fd[c]] = <<>>
  /\ Goto(AfterReading(c))
  /\ UNCHANGED <<freeVars, revents, connVars, call, netVars>>

(* recv returns 0 at the end of the stream, and also when it is asked for  *)
(* the 0 bytes of an empty frame.                                          *)
RecvNothing(c) ==
  /\ Reading(c)
  /\ peer[fd[c]] # "reset"
  /\ \/ bytes_to_read[c] = 0
     \/ peer[fd[c]] = "fin" /\ avail[fd[c]] = <<>>
  /\ ConnectionClose(c)
  /\ Goto(AfterReading(c))
  /\ UNCHANGED <<freeVars, revents, closing, readbuf, bytes_to_read,
                 message_length, bytes_to_write, call>>

Received(c) == Minimum(bytes_to_read[c], Len(avail[fd[c]]))
Filled(c) == readbuf[c] \o SubSeq(avail[fd[c]], 1, Received(c))
HeaderLength(buf) == buf[1] + ByteBase * buf[2]

Receives(c) ==
  /\ Reading(c)
  /\ peer[fd[c]] # "reset"
  /\ Received(c) > 0

Consume(c) ==
  /\ avail' = [avail EXCEPT ![fd[c]] = SubSeq(@, Received(c) + 1, Len(@))]
  /\ UNCHANGED <<os, peer, sent>>

(* The reader's next goal: `n' more bytes of a frame of length `len'.      *)
Expect(c, n, len) ==
  /\ bytes_to_read' = [bytes_to_read EXCEPT ![c] = n]
  /\ message_length' = [message_length EXCEPT ![c] = len]

RecvPartial(c) ==
  /\ Receives(c)
  /\ Received(c) < bytes_to_read[c]
  /\ readbuf' = [readbuf EXCEPT ![c] = Filled(c)]
  /\ Expect(c, bytes_to_read[c] - Received(c), message_length[c])
  /\ Consume(c)
  /\ UNCHANGED <<pc, cur, freeVars, revents, closed, closing, bytes_to_write, call>>

(* Mutant: readbuf_pos is not reset after the header.                      *)
RecvHeaderKeepsPos(c) ==
  /\ Receives(c)
  /\ Received(c) = bytes_to_read[c]
  /\ message_length[c] = 0
  /\ HeaderLength(Filled(c)) <= ReadbufSize
  /\ readbuf' = [readbuf EXCEPT ![c] = Filled(c)]
  /\ Expect(c, HeaderLength(Filled(c)), HeaderLength(Filled(c)))
  /\ Consume(c)
  /\ UNCHANGED <<pc, cur, freeVars, revents, closed, closing, bytes_to_write, call>>

RecvHeader(c) ==
  /\ Receives(c)
  /\ Received(c) = bytes_to_read[c]
  /\ message_length[c] = 0
  /\ HeaderLength(Filled(c)) <= ReadbufSize
  /\ readbuf' = [readbuf EXCEPT ![c] = <<>>]
  /\ Expect(c, HeaderLength(Filled(c)), HeaderLength(Filled(c)))
  /\ Consume(c)
  /\ UNCHANGED <<pc, cur, freeVars, revents, closed, closing, bytes_to_write, call>>

RecvOversize(c) ==
  /\ Receives(c)
  /\ Received(c) = bytes_to_read[c]
  /\ message_length[c] = 0
  /\ HeaderLength(Filled(c)) > ReadbufSize
  /\ readbuf' = [readbuf EXCEPT ![c] = Filled(c)]
  /\ Expect(c, 0, 0)
  /\ ConnectionAbort(c)
  /\ Goto(AfterReading(c))
  /\ UNCHANGED <<freeVars, revents, closing, bytes_to_write, call>>

(* Mutant: message_length is not reset after the message.                  *)
RecvMessageKeepsLength(c) ==
  /\ Receives(c)
  /\ Received(c) = bytes_to_read[c]
  /\ message_length[c] > 0
  /\ Called("on_read", c)
  /\ readbuf' = [readbuf EXCEPT ![c] = <<>>]
  /\ Expect(c, 2, message_length[c])
  /\ Consume(c)
  /\ UNCHANGED <<pc, cur, freeVars, revents, closed, closing, bytes_to_write>>

RecvMessage(c) ==
  /\ Receives(c)
  /\ Received(c) = bytes_to_read[c]
  /\ message_length[c] > 0
  /\ Called("on_read", c)
  /\ readbuf' = [readbuf EXCEPT ![c] = <<>>]
  /\ Expect(c, 2, 0)
  /\ Consume(c)
  /\ UNCHANGED <<pc, cur, freeVars, revents, closed, closing, bytes_to_write>>

-----------------------------------------------------------------------------
(***************************************************************************)
(* connection_resume_writing.                                              *)
(***************************************************************************)

Writing(c) == pc = "write" /\ c = cur

WriteSkipped(c) ==
  /\ Writing(c)
  /\ closed[c]
  /\ Goto("status")
  /\ UNCHANGED <<freeVars, revents, connVars, call, netVars>>

RequestOutput(c, n) ==
  /\ Writing(c)
  /\ ~closed[c]
  /\ bytes_to_write[c] = 0
  /\ bytes_to_write' = [bytes_to_write EXCEPT ![c] = n]
  /\ Called("request_output", c)
  /\ Goto(IF n = 0 THEN "status" ELSE "write")
  /\ UNCHANGED <<freeVars, revents, closed, closing, readbuf, bytes_to_read,
                 message_length, netVars>>

Sends(c) == Writing(c) /\ ~closed[c] /\ bytes_to_write[c] > 0

Sendable(c) == Minimum(bytes_to_write[c], SendRoom - sent[fd[c]])

Send(c) ==
  /\ Sends(c)
  /\ peer[fd[c]] # "reset"
  /\ Sendable(c) > 0
  /\ bytes_to_write' = [bytes_to_write EXCEPT ![c] = @ - Sendable(c)]
  /\ sent' = [sent EXCEPT ![fd[c]] = @ + Sendable(c)]
  /\ UNCHANGED <<pc, cur, freeVars, revents, closed, closing, readbuf,
                 bytes_to_read, message_length, call, os, peer, avail>>

SendWouldBlock(c) ==
  /\ Sends(c)
  /\ peer[fd[c]] # "reset"
  /\ sent[fd[c]] = SendRoom
  /\ Goto("status")
  /\ UNCHANGED <<freeVars, revents, connVars, call, netVars>>

SendError(c) ==
  /\ Sends(c)
  /\ peer[fd[c]] = "reset"
  /\ ConnectionAbort(c)
  /\ Goto("status")
  /\ UNCHANGED <<freeVars, revents, closing, readbuf, bytes_to_read,
                 message_length, bytes_to_write, call>>

-----------------------------------------------------------------------------
(***************************************************************************)
(* The end of a visit: the status of the connection, then the drop.        *)
(***************************************************************************)

Settling(c) == pc = "status" /\ c = cur

(* Mutant: the connection is aborted instead.                              *)
CloseDrainedAbort(c, given_up) ==
  IF given_up /\ bytes_to_write[c] = 0
    THEN ConnectionAbort(c)
    ELSE UNCHANGED <<closed, netVars>>

(* The close of a connection whose owner gave it up, once it is drained.   *)
CloseDrained(c, given_up) ==
  IF given_up /\ bytes_to_write[c] = 0
    THEN ConnectionClose(c)
    ELSE UNCHANGED <<closed, netVars>>

RequestStatus(c, answer) ==
  /\ Settling(c)
  /\ ~closing[c]
  /\ Called("request_status", c)
  /\ closing' = [closing EXCEPT ![c] = answer]
  /\ CloseDrained(c, answer)
  /\ Goto("drop")
  /\ UNCHANGED <<freeVars, revents, readbuf, bytes_to_read, message_length,
                 bytes_to_write>>

(* Mutant: the close is tried only when the status was just asked.         *)
StatusKnownNoClose(c) ==
  /\ Settling(c)
  /\ closing[c]
  /\ Goto("drop")
  /\ UNCHANGED <<freeVars, revents, connVars, call, netVars>>

StatusKnown(c) ==
  /\ Settling(c)
  /\ closing[c]
  /\ CloseDrained(c, TRUE)
  /\ Goto("drop")
  /\ UNCHANGED <<freeVars, revents, closing, readbuf, bytes_to_read,
                 message_length, bytes_to_write, call>>

Drop(c) ==
  /\ pc = "drop" /\ c = cur
  /\ closed[c]
  /\ Called("on_drop", c)
  /\ FreeConnection(c)
  /\ Advance
  /\ UNCHANGED <<revents, connVars, netVars>>

Keep(c) ==
  /\ pc = "drop" /\ c = cur
  /\ ~closed[c]
  /\ Advance
  /\ UNCHANGED <<freeVars, revents, connVars, call, netVars>>

-----------------------------------------------------------------------------
(***************************************************************************)
(* The peers.  A handle that is not in use may be given to the next peer   *)
(* that connects, whoever had it before.                                   *)
(***************************************************************************)

serverVars == <<pc, cur, freeVars, revents, connVars, call>>

Connect(s) ==
  /\ os[s] = "free"
  /\ os' = [os EXCEPT ![s] = "backlog"]
  /\ UNCHANGED <<serverVars, peer, avail, sent>>

Connected(s) == os[s] \in {"backlog", "open"}

PeerSend(s, b) ==
  /\ Connected(s)
  /\ peer[s] = "up"
  /\ Len(avail[s]) < MaxAvail
  /\ avail' = [avail EXCEPT ![s] = Append(@, b)]
  /\ UNCHANGED <<serverVars, os, peer, sent>>

PeerFin(s) ==
  /\ Connected(s)
  /\ peer[s] = "up"
  /\ peer' = [peer EXCEPT ![s] = "fin"]
  /\ UNCHANGED <<serverVars, os, avail, sent>>

PeerReset(s) ==
  /\ Connected(s)
  /\ peer[s] # "reset"
  /\ peer' = [peer EXCEPT ![s] = "reset"]
  /\ avail' = [avail EXCEPT ![s] = <<>>]
  /\ sent' = [sent EXCEPT ![s] = 0]
  /\ UNCHANGED <<serverVars, os>>

PeerRead(s) ==
  /\ os[s] = "open" /\ sent[s] > 0
  /\ sent' = [sent EXCEPT ![s] = @ - 1]
  /\ UNCHANGED <<serverVars, os, peer, avail>>

(* A peer reads the rest of a closed connection, or goes away.             *)
Lingered(s) ==
  /\ os[s] = "lingering"
  /\ TcpAbort(s)
  /\ UNCHANGED serverVars

-----------------------------------------------------------------------------
Init ==
  /\ pc = "accept"
  /\ cur = 0
  /\ freelist_head = 0
  /\ freelist_next = [c \in Slots |-> InitialNext(c)]
  /\ fd = [c \in Slots |-> INVALID_SOCKET]
  /\ revents = [c \in Slots |-> {}]
  /\ closed = [c \in Slots |-> FALSE]
  /\ closing = [c \in Slots |-> FALSE]
  /\ readbuf = [c \in Slots |-> <<>>]
  /\ bytes_to_read = [c \in Slots |-> 0]
  /\ message_length = [c \in Slots |-> 0]
  /\ bytes_to_write = [c \in Slots |-> 0]
  /\ call = NoCall
  /\ os = [s \in Sockets |-> "free"]
  /\ peer = [s \in Sockets |-> "up"]
  /\ avail = [s \in Sockets |-> <<>>]
  /\ sent = [s \in Sockets |-> 0]

Accepting ==
  \/ AcceptNone
  \/ \E s \in Sockets : AcceptConnection(s) \/ RejectConnection(s) \/ AcceptError(s)

Polling == Poll \/ PollFails

Visit(c) == VisitEmpty(c) \/ AssertFails(c) \/ VisitHangup(c) \/ VisitReady(c)

Recv(c) ==
  \/ RecvError(c) \/ RecvWouldBlock(c) \/ RecvNothing(c)
  \/ RecvPartial(c) \/ RecvHeader(c) \/ RecvOversize(c) \/ RecvMessage(c)

Write(c) ==
  \/ WriteSkipped(c)
  \/ \E n \in 0 .. MaxOutput : RequestOutput(c, n)
  \/ Send(c) \/ SendWouldBlock(c) \/ SendError(c)

Settle(c) ==
  \/ \E answer \in BOOLEAN : RequestStatus(c, answer)
  \/ StatusKnown(c) \/ Drop(c) \/ Keep(c)

ServerStep ==
  \/ Accepting
  \/ Polling
  \/ \E c \in Slots : Visit(c) \/ Recv(c) \/ Write(c) \/ Settle(c)

PeerStep ==
  \E s \in Sockets :
    \/ Connect(s)
    \/ \E b \in Bytes : PeerSend(s, b)
    \/ PeerFin(s) \/ PeerReset(s) \/ PeerRead(s) \/ Lingered(s)

Next == ServerStep \/ PeerStep

Spec == Init /\ [][Next]_vars

(* main's while(1) keeps calling server_poll, whatever the peers do.        *)
FairSpec == Spec /\ WF_vars(ServerStep)

(* FairSpec with peers that go on reading what was sent to them.           *)
ReadingSpec == FairSpec /\ \A s \in Sockets : WF_vars(PeerRead(s))

-----------------------------------------------------------------------------
(***************************************************************************)
(* Properties.                                                             *)
(***************************************************************************)

(* Type correctness: every variable of server.cc and of the sockets stays  *)
(* in the set its declaration and use give it.                             *)
TypeOK ==
  /\ pc \in {"accept", "poll", "visit", "read", "write", "status", "drop", "halted"}
  /\ cur \in Slots
  /\ freelist_head \in Slots \union {NIL}
  /\ freelist_next \in [Slots -> Slots \union {NIL}]
  /\ fd \in [Slots -> Sockets \union {INVALID_SOCKET}]
  /\ revents \in [Slots -> SUBSET {"IN", "OUT", "HUP", "NVAL"}]
  /\ closed \in [Slots -> BOOLEAN]
  /\ closing \in [Slots -> BOOLEAN]
  /\ readbuf \in [Slots -> Seq(Bytes)]
  /\ bytes_to_read \in [Slots -> Nat]
  /\ message_length \in [Slots -> Nat]
  /\ bytes_to_write \in [Slots -> Nat]
  /\ call \in [cb : {"none", "on_accept", "on_read", "request_output",
                      "request_status", "on_drop"}, slot : Slots]
  /\ os \in [Sockets -> {"free", "backlog", "open", "lingering"}]
  /\ peer \in [Sockets -> {"up", "fin", "reset"}]
  /\ avail \in [Sockets -> Seq(Bytes)]
  /\ sent \in [Sockets -> Nat]

(***************************************************************************)
(* The free list of server_alloc_connection and server_free_connection.    *)
(***************************************************************************)

(* The head and every link of a free slot are free slots or the end.       *)
FreeListClosed ==
  /\ freelist_head # NIL => freelist_head \in Free
  /\ \A c \in Free : freelist_next[c] # NIL => freelist_next[c] \in Free

(* No slot is linked twice, and nothing links to the head.                 *)
FreeListLinear ==
  /\ \A c \in Free : freelist_next[c] # NIL => freelist_next[c] # freelist_head
  /\ \A c, d \in Free :
       freelist_next[c] = freelist_next[d] /\ freelist_next[c] # NIL => c = d

(* A set that holds the head and follows the links has every free slot.    *)
FreeListReaches ==
  \A S \in SUBSET Free :
    /\ freelist_head # NIL => freelist_head \in S
    /\ \A c \in S : freelist_next[c] # NIL => freelist_next[c] \in S
    => S = Free

(* No slot is ever lost or handed out while in use: the slots reached from *)
(* freelist_head are exactly those without a connection, however accepts   *)
(* and drops interleave.                                                   *)
NoLostSlot == FreeListClosed /\ FreeListLinear /\ FreeListReaches

(* No handle is leaked, shared or closed twice: a socket the system has    *)
(* open belongs to exactly one slot, whose closed flag is clear, and a     *)
(* slot with a clear flag has an open socket, although the handle of a     *)
(* closed one may be given to another peer at once.                        *)
SocketOwned ==
  /\ \A c \in Slots : Open(c) /\ ~closed[c] => os[fd[c]] = "open"
  /\ \A s \in Sockets : os[s] = "open" => \E c \in Slots : fd[c] = s /\ ~closed[c]
  /\ \A c, d \in Slots : Open(c) /\ fd[c] = fd[d] => c = d

(* recv is never asked to write past readbuf, at any point of any frame.   *)
ReadInBounds ==
  \A c \in Slots : Open(c) => Len(readbuf[c]) + bytes_to_read[c] <= ReadbufSize

(* Outside its own visit a slot in use is never closed, and never given up *)
(* by its owner with nothing left to write: whatever ended during a visit  *)
(* was dropped in the same visit.                                          *)
NoZombie ==
  \A c \in Slots :
    Open(c) /\ (c # cur \/ pc \in {"accept", "poll", "visit"}) =>
      ~closed[c] /\ (closing[c] => bytes_to_write[c] > 0)

(* What the proofs need of the point server_poll is at: the slot it works  *)
(* on is in use, is not closed while it is read, and when it comes to the  *)
(* drop a connection that was given up and drained is closed; no other     *)
(* slot in use is closed.                                                  *)
VisitInv ==
  /\ pc \in {"read", "write", "status", "drop"} => Open(cur)
  /\ \A c \in Slots : Open(c) /\ closed[c] =>
       c = cur /\ pc \in {"write", "status", "drop"}
  /\ pc = "drop" /\ closing[cur] /\ ~closed[cur] => bytes_to_write[cur] > 0

(* What the proofs need of the reader: it is inside a header of 2 bytes,   *)
(* inside the data of a frame that fits, or at an empty frame's end.       *)
FrameInv ==
  \A c \in Slots : Open(c) =>
    \/ /\ message_length[c] = 0
       /\ Len(readbuf[c]) + bytes_to_read[c] = 2
    \/ /\ message_length[c] = 0
       /\ Len(readbuf[c]) = 0 /\ bytes_to_read[c] = 0
    \/ /\ message_length[c] \in 1 .. ReadbufSize
       /\ Len(readbuf[c]) + bytes_to_read[c] = message_length[c]

(* The assertion of server_poll that a valid descriptor is never NVAL.     *)
PollAssert == pc # "halted"

(* A connection its owner gives up is closed without losing the output the *)
(* server handed to the system (the TODO on connection_abort).             *)
GracefulDisconnect ==
  [][\A c \in Slots :
       Settling(c) /\ closed'[c] /\ ~closed[c] =>
         bytes_to_write[c] = 0 /\ sent'[fd[c]] = sent[fd[c]]]_vars

(* The order and conditions of the callbacks are those of Callbacks.tla.   *)
Contract == INSTANCE Callbacks WITH
  ObserveCalls <- TRUE,
  open <- [c \in Slots |-> Open(c)],
  writing <- [c \in Slots |-> Open(c) /\ bytes_to_write[c] > 0],
  doomed <- [c \in Slots |-> Open(c) /\ closing[c]]

CallbackContract == Contract!CbSpec

(***************************************************************************)
(* Liveness.  Each of the loops of server_poll goes on as long as others   *)
(* keep it busy, so these are stated for peers that at some time stop      *)
(* connecting and sending, and an owner that stops producing output.       *)
(***************************************************************************)
Busy ==
  \/ \E s \in Sockets : Connect(s) \/ \E b \in Bytes : PeerSend(s, b)
  \/ \E c \in Slots, n \in 1 .. MaxOutput : RequestOutput(c, n)

Calm == <>[][~Busy]_vars

(* A peer that resets or finishes has its slot dropped.                    *)
GoneIsDropped ==
  Calm => \A c \in Slots, s \in Sockets :
            (fd[c] = s /\ peer[s] # "up") ~> (fd[c] # s)

(* A connection its owner gives up is dropped, if the peer reads its rest. *)
DoomedIsDropped ==
  Calm => \A c \in Slots : (Open(c) /\ closing[c]) ~> ~Open(c)

(* A peer that connects is accepted or rejected.                           *)
NobodyWaits ==
  Calm => \A s \in Sockets : (os[s] = "backlog") ~> (os[s] # "backlog")
=============================================================================
