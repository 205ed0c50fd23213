---------------------------- MODULE Server_proofs ----------------------------
(***************************************************************************)
(* Proofs about Server.tla and ServerFraming.tla, for any number of slots  *)
(* and sockets, any buffer size and any bound: first about the slots and   *)
(* their sockets, then about the callbacks, and last about the messages    *)
(* that are cut out of the streams.                                        *)
(***************************************************************************)
EXTENDS ServerFraming, SequenceTheorems, WellFoundedInduction, TLAPS

(* The initial state of server_init satisfies the type invariant.          *)
LEMMA InitTypeOK == Init => TypeOK
  BY ServerAssumption, MaxConnectionsAssumption
     DEF Init, TypeOK, Slots, InitialNext, NIL, NoCall

LEMMA SubSeqOfBytes ==
  ASSUME NEW s \in Seq(Bytes), NEW m \in Nat, NEW n \in Nat, m >= 1, n <= Len(s)
  PROVE  /\ SubSeq(s, m, n) \in Seq(Bytes)
         /\ Len(SubSeq(s, m, n)) = IF m <= n THEN n - m + 1 ELSE 0
  OBVIOUS

(* Taking bytes off avail and adding them to readbuf keeps both sequences  *)
(* of bytes, and their lengths add up.                                     *)
LEMMA RecvBytes ==
  ASSUME TypeOK, NEW c \in Slots, Receives(c), VisitInv
  PROVE  /\ fd[c] \in Sockets
         /\ Received(c) \in 1 .. bytes_to_read[c]
         /\ Filled(c) \in Seq(Bytes)
         /\ Len(Filled(c)) = Len(readbuf[c]) + Received(c)
         /\ SubSeq(avail[fd[c]], Received(c) + 1, Len(avail[fd[c]])) \in Seq(Bytes)
<1>1. fd[c] \in Sockets
  BY DEF TypeOK, VisitInv, Receives, Reading, Open
<1>2. readbuf[c] \in Seq(Bytes) /\ avail[fd[c]] \in Seq(Bytes) /\ bytes_to_read[c] \in Nat
  BY <1>1 DEF TypeOK
<1>3. Received(c) \in Nat /\ Received(c) >= 1
      /\ Received(c) <= bytes_to_read[c] /\ Received(c) <= Len(avail[fd[c]])
  BY <1>2 DEF Receives, Received, Minimum
<1>4. /\ SubSeq(avail[fd[c]], 1, Received(c)) \in Seq(Bytes)
      /\ Len(SubSeq(avail[fd[c]], 1, Received(c))) = Received(c)
  BY <1>2, <1>3, SubSeqOfBytes
<1>5. SubSeq(avail[fd[c]], Received(c) + 1, Len(avail[fd[c]])) \in Seq(Bytes)
  BY <1>2, <1>3, SubSeqOfBytes
<1> QED
  BY <1>1, <1>2, <1>3, <1>4, <1>5 DEF Filled

LEMMA TwoBytes ==
  ASSUME NEW s \in Seq(Bytes), Len(s) = 2
  PROVE  s[1] \in Nat /\ s[2] \in Nat
<1>1. 1 \in 1 .. Len(s) /\ 2 \in 1 .. Len(s)
  OBVIOUS
<1>2. \A i \in 1 .. Len(s) : s[i] \in Bytes
  OBVIOUS
<1> QED
  BY <1>1, <1>2, ServerAssumption

LEMMA WeightedIsNat ==
  ASSUME NEW a \in Nat, NEW b \in Nat, NEW w \in Nat
  PROVE  a + w * b \in Nat
<1>1. w * b \in Nat
  OBVIOUS
<1> QED
  BY <1>1

(* A header that is complete decodes to a natural number.                  *)
LEMMA HeaderIsNat ==
  ASSUME TypeOK, VisitInv, FrameInv, NEW c \in Slots, Receives(c),
         Received(c) = bytes_to_read[c], message_length[c] = 0
  PROVE  HeaderLength(Filled(c)) \in Nat
<1>1. Open(c)
  BY DEF VisitInv, Receives, Reading
<1>0. bytes_to_read[c] \in Nat /\ readbuf[c] \in Seq(Bytes)
  BY DEF TypeOK
<1>a. Received(c) \in 1 .. bytes_to_read[c]
  BY RecvBytes
<1>2. bytes_to_read[c] \in Nat /\ bytes_to_read[c] > 0 /\ readbuf[c] \in Seq(Bytes)
  BY <1>0, <1>a
<1>3. Len(readbuf[c]) + bytes_to_read[c] = 2
  BY <1>1, <1>2 DEF FrameInv
<1>4. Filled(c) \in Seq(Bytes) /\ Len(Filled(c)) = 2
  BY <1>3, RecvBytes
<1>5. Filled(c)[1] \in Nat /\ Filled(c)[2] \in Nat
  BY <1>4, TwoBytes
<1>6. ByteBase \in Nat
  BY ServerAssumption
<1> QED
  BY <1>5, <1>6, WeightedIsNat, Zenon DEF HeaderLength

(* The socket of the slot a visit works on is one of Sockets.              *)
LEMMA VisitedSocket ==
  ASSUME TypeOK, VisitInv
  PROVE  /\ pc \in {"read", "write", "status", "drop"} => fd[cur] \in Sockets
         /\ \A c \in Slots : Open(c) => fd[c] \in Sockets
  BY DEF TypeOK, VisitInv, Open

LEMMA ReleasedTypes ==
  ASSUME TypeOK, NEW s \in Sockets, NEW linger \in BOOLEAN, Released(s, linger)
  PROVE  /\ os' \in [Sockets -> {"free", "backlog", "open", "lingering"}]
         /\ peer' \in [Sockets -> {"up", "fin", "reset"}]
         /\ avail' \in [Sockets -> Seq(Bytes)]
         /\ sent' \in [Sockets -> Nat]
<1>1. os' \in [Sockets -> {"free", "backlog", "open", "lingering"}]
  BY DEF TypeOK, Released
<1>2. peer' \in [Sockets -> {"up", "fin", "reset"}]
  BY DEF TypeOK, Released
<1>3. avail' \in [Sockets -> Seq(Bytes)]
  <2>1. <<>> \in Seq(Bytes)
    OBVIOUS
  <2> QED
    BY <2>1 DEF TypeOK, Released
<1>4. sent' \in [Sockets -> Nat]
  BY DEF TypeOK, Released
<1> QED
  BY <1>1, <1>2, <1>3, <1>4

(* Closing or aborting the connection of a slot keeps the types.           *)
LEMMA ReleaseTypes ==
  ASSUME TypeOK, NEW c \in Slots, fd[c] \in Sockets,
         ConnectionClose(c) \/ ConnectionAbort(c) \/ UNCHANGED <<closed, netVars>>
  PROVE  /\ closed' \in [Slots -> BOOLEAN]
         /\ os' \in [Sockets -> {"free", "backlog", "open", "lingering"}]
         /\ peer' \in [Sockets -> {"up", "fin", "reset"}]
         /\ avail' \in [Sockets -> Seq(Bytes)]
         /\ sent' \in [Sockets -> Nat]
<1>1. ASSUME NEW linger \in BOOLEAN, Released(fd[c], linger)
      PROVE  /\ os' \in [Sockets -> {"free", "backlog", "open", "lingering"}]
             /\ peer' \in [Sockets -> {"up", "fin", "reset"}]
             /\ avail' \in [Sockets -> Seq(Bytes)]
             /\ sent' \in [Sockets -> Nat]
  BY <1>1, ReleasedTypes
<1>2. (sent[fd[c]] > 0) \in BOOLEAN /\ FALSE \in BOOLEAN
  OBVIOUS
<1>3. CASE ConnectionClose(c) \/ ConnectionAbort(c)
  <2>1. CASE closed[c]
    BY <1>3, <2>1 DEF TypeOK, ConnectionClose, ConnectionAbort, netVars
  <2>2. CASE ~closed[c]
    <3>1. closed' \in [Slots -> BOOLEAN]
      BY <1>3, <2>2 DEF TypeOK, ConnectionClose, ConnectionAbort
    <3>2. Released(fd[c], sent[fd[c]] > 0) \/ Released(fd[c], FALSE)
      BY <1>3, <2>2 DEF ConnectionClose, ConnectionAbort, TcpClose, TcpAbort
    <3> QED
      BY <1>1, <1>2, <3>1, <3>2
  <2> QED
    BY <2>1, <2>2
<1>4. CASE UNCHANGED <<closed, netVars>>
  BY <1>4 DEF TypeOK, netVars
<1> QED
  BY <1>3, <1>4

LEMMA AbortTypes ==
  ASSUME TypeOK, NEW s \in Sockets, TcpAbort(s)
  PROVE  /\ os' \in [Sockets -> {"free", "backlog", "open", "lingering"}]
         /\ peer' \in [Sockets -> {"up", "fin", "reset"}]
         /\ avail' \in [Sockets -> Seq(Bytes)]
         /\ sent' \in [Sockets -> Nat]
  BY ReleasedTypes DEF TcpAbort

LEMMA AdvanceTypes ==
  ASSUME TypeOK, Advance
  PROVE  pc' \in {"accept", "visit"} /\ cur' \in Slots
<1>1. cur \in 0 .. MaxConnections - 1 /\ MaxConnections \in Nat \ {0}
  BY MaxConnectionsAssumption DEF TypeOK, Slots
<1>2. CASE cur = MaxConnections - 1
  BY <1>1, <1>2 DEF Advance, Slots
<1>3. CASE cur # MaxConnections - 1
  BY <1>1, <1>3 DEF Advance, Slots
<1> QED
  BY <1>2, <1>3

(* Every step of the server and of the peers keeps the types.              *)
LEMMA NextTypeOK ==
  ASSUME TypeOK, VisitInv, FrameInv, [Next]_vars
  PROVE  TypeOK'
<1> USE DEF freeVars, connVars, netVars, Goto, Called
<1>1. ASSUME NEW s \in Sockets, AcceptConnection(s)
      PROVE  TypeOK'
  <2>1. PICK c \in Slots : AllocConnection(c) /\ NewConnection(c, s) /\ Called("on_accept", c)
    BY <1>1 DEF AcceptConnection
  <2>2. freelist_head' \in Slots \union {NIL} /\ freelist_next' = freelist_next
    BY <2>1 DEF TypeOK, AllocConnection
  <2>3. <<>> \in Seq(Bytes)
    OBVIOUS
  <2>4. readbuf' \in [Slots -> Seq(Bytes)]
    BY <2>1, <2>3, Zenon DEF TypeOK, NewConnection
  <2>5. /\ fd' \in [Slots -> Sockets \union {INVALID_SOCKET}]
        /\ closed' \in [Slots -> BOOLEAN] /\ closing' \in [Slots -> BOOLEAN]
        /\ bytes_to_read' \in [Slots -> Nat] /\ message_length' \in [Slots -> Nat]
        /\ bytes_to_write' \in [Slots -> Nat]
    BY <2>1 DEF TypeOK, NewConnection
  <2>6. call' \in [cb : {"none", "on_accept", "on_read", "request_output",
                         "request_status", "on_drop"}, slot : Slots]
    BY <2>1
  <2>7. os' \in [Sockets -> {"free", "backlog", "open", "lingering"}]
    BY <1>1 DEF TypeOK, AcceptConnection
  <2> QED
    BY <1>1, <2>2, <2>4, <2>5, <2>6, <2>7 DEF TypeOK, AcceptConnection
<1>2. ASSUME NEW s \in Sockets, RejectConnection(s) \/ AcceptError(s)
      PROVE  TypeOK'
  BY <1>2, AbortTypes DEF TypeOK, RejectConnection, AcceptError
<1>0. 0 \in Slots
  BY MaxConnectionsAssumption DEF Slots
<1>3. CASE AcceptNone \/ PollFails
  BY <1>0, <1>3 DEF TypeOK, AcceptNone, PollFails
<1>4. CASE Poll
  <2>1. revents' \in [Slots -> SUBSET {"IN", "OUT", "HUP", "NVAL"}]
    BY <1>4 DEF Poll, Events
  <2> QED
    BY <1>0, <1>4, <2>1 DEF TypeOK, Poll
<1>5. ASSUME NEW c \in Slots, Visit(c)
      PROVE  TypeOK'
  <2>1. CASE VisitEmpty(c)
    BY <2>1, AdvanceTypes DEF TypeOK, VisitEmpty
  <2>2. CASE AssertFails(c)
    BY <2>2 DEF TypeOK, AssertFails
  <2>3. CASE VisitHangup(c)
    BY <2>3, VisitedSocket, ReleaseTypes DEF TypeOK, VisitHangup
  <2>4. CASE VisitReady(c)
    BY <2>4 DEF TypeOK, VisitReady, AfterReading
  <2> QED
    BY <1>5, <2>1, <2>2, <2>3, <2>4 DEF Visit
<1>6. ASSUME NEW c \in Slots, Recv(c)
      PROVE  TypeOK'
  <2>1. CASE RecvError(c) \/ RecvNothing(c)
    BY <2>1, VisitedSocket, ReleaseTypes
       DEF TypeOK, RecvError, RecvNothing, Reading, AfterReading
  <2>2. CASE RecvWouldBlock(c)
    BY <2>2 DEF TypeOK, RecvWouldBlock, AfterReading
  <2>0. <<>> \in Seq(Bytes) /\ 2 \in Nat /\ 0 \in Nat
    OBVIOUS
  <2>7. ASSUME Receives(c), Consume(c)
        PROVE  avail' \in [Sockets -> Seq(Bytes)]
    BY <2>7, RecvBytes, Zenon DEF TypeOK, Consume
  <2>8. ASSUME NEW n \in Nat, NEW m \in Nat, Expect(c, n, m)
        PROVE  /\ bytes_to_read' \in [Slots -> Nat]
               /\ message_length' \in [Slots -> Nat]
    BY <2>8, Zenon DEF TypeOK, Expect
  <2>9. ASSUME NEW bytes \in Seq(Bytes), readbuf' = [readbuf EXCEPT ![c] = bytes]
        PROVE  readbuf' \in [Slots -> Seq(Bytes)]
    BY <2>9, Zenon DEF TypeOK
  <2>3. CASE RecvPartial(c)
    <3>1. Receives(c) /\ Consume(c) /\ readbuf' = [readbuf EXCEPT ![c] = Filled(c)]
      BY <2>3 DEF RecvPartial
    <3>2. avail' \in [Sockets -> Seq(Bytes)] /\ readbuf' \in [Slots -> Seq(Bytes)]
      BY <2>7, <2>9, <3>1, RecvBytes
    <3>3. bytes_to_read[c] - Received(c) \in Nat /\ message_length[c] \in Nat
      <4>1. bytes_to_read[c] \in Nat /\ message_length[c] \in Nat
        BY DEF TypeOK
      <4> QED
        BY <3>1, <4>1, RecvBytes
    <3>4. bytes_to_read' \in [Slots -> Nat] /\ message_length' \in [Slots -> Nat]
      BY <2>3, <2>8, <3>3 DEF RecvPartial
    <3> QED
      BY <2>3, <3>2, <3>4 DEF TypeOK, RecvPartial, Consume
  <2>4. CASE RecvHeader(c)
    <3>1. Receives(c) /\ Consume(c) /\ readbuf' = [readbuf EXCEPT ![c] = <<>>]
      BY <2>4 DEF RecvHeader
    <3>2. avail' \in [Sockets -> Seq(Bytes)] /\ readbuf' \in [Slots -> Seq(Bytes)]
      BY <2>0, <2>7, <2>9, <3>1
    <3>3. HeaderLength(Filled(c)) \in Nat
      BY <2>4, HeaderIsNat DEF RecvHeader
    <3>4. bytes_to_read' \in [Slots -> Nat] /\ message_length' \in [Slots -> Nat]
      BY <2>4, <2>8, <3>3 DEF RecvHeader
    <3> QED
      BY <2>4, <3>2, <3>4 DEF TypeOK, RecvHeader, Consume
  <2>5. CASE RecvOversize(c)
    BY <2>5, RecvBytes, ReleaseTypes
       DEF TypeOK, RecvOversize, Expect, AfterReading
  <2>6. CASE RecvMessage(c)
    <3>1. Receives(c) /\ Consume(c) /\ readbuf' = [readbuf EXCEPT ![c] = <<>>]
      BY <2>6 DEF RecvMessage
    <3>2. avail' \in [Sockets -> Seq(Bytes)] /\ readbuf' \in [Slots -> Seq(Bytes)]
      BY <2>0, <2>7, <2>9, <3>1
    <3>3. bytes_to_read' \in [Slots -> Nat] /\ message_length' \in [Slots -> Nat]
      BY <2>0, <2>6, <2>8 DEF RecvMessage
    <3> QED
      BY <2>6, <3>2, <3>3 DEF TypeOK, RecvMessage, Consume
  <2> QED
    BY <1>6, <2>1, <2>2, <2>3, <2>4, <2>5, <2>6 DEF Recv
<1>7. ASSUME NEW c \in Slots, Write(c)
      PROVE  TypeOK'
  <2>1. CASE WriteSkipped(c) \/ SendWouldBlock(c)
    BY <2>1 DEF TypeOK, WriteSkipped, SendWouldBlock
  <2>2. ASSUME NEW n \in 0 .. MaxOutput, RequestOutput(c, n)
        PROVE  TypeOK'
    <3>1. n \in Nat
      BY ServerAssumption
    <3>2. bytes_to_write' \in [Slots -> Nat]
      BY <2>2, <3>1, Zenon DEF TypeOK, RequestOutput
    <3> QED
      BY <2>2, <3>2 DEF TypeOK, RequestOutput
  <2>3. CASE Send(c)
    <3>1. fd[c] \in Sockets
      BY <2>3, VisitedSocket DEF Send, Sends, Writing
    <3>2. /\ SendRoom \in Nat
          /\ sent[fd[c]] \in Nat
          /\ bytes_to_write[c] \in Nat
      BY <3>1, ServerAssumption DEF TypeOK
    <3>5. Sendable(c) > 0
      BY <2>3 DEF Send
    <3>6. Sendable(c) \in 1 .. bytes_to_write[c]
      BY <3>2, <3>5 DEF Sendable, Minimum
    <3>7. Sendable(c) \in Nat /\ bytes_to_write[c] - Sendable(c) \in Nat
      BY <3>2, <3>6
    <3>8. sent[fd[c]] + Sendable(c) \in Nat
      BY <3>2, <3>7
    <3>3. bytes_to_write' \in [Slots -> Nat]
      BY <2>3, <3>7 DEF TypeOK, Send
    <3>4. sent' \in [Sockets -> Nat]
      BY <2>3, <3>8 DEF TypeOK, Send
    <3> QED
      BY <2>3, <3>3, <3>4 DEF TypeOK, Send
  <2>4. CASE SendError(c)
    BY <2>4, VisitedSocket, ReleaseTypes DEF TypeOK, SendError, Sends, Writing
  <2> QED
    BY <1>7, <2>1, <2>2, <2>3, <2>4 DEF Write
<1>8. ASSUME NEW c \in Slots, Settle(c)
      PROVE  TypeOK'
  <2>1. ASSUME NEW answer \in BOOLEAN, RequestStatus(c, answer)
        PROVE  TypeOK'
    BY <2>1, VisitedSocket, ReleaseTypes
       DEF TypeOK, RequestStatus, CloseDrained, Settling
  <2>2. CASE StatusKnown(c)
    BY <2>2, VisitedSocket, ReleaseTypes
       DEF TypeOK, StatusKnown, CloseDrained, Settling
  <2>3. CASE Drop(c)
    BY <2>3, AdvanceTypes DEF TypeOK, Drop, FreeConnection
  <2>4. CASE Keep(c)
    BY <2>4, AdvanceTypes DEF TypeOK, Keep
  <2> QED
    BY <1>8, <2>1, <2>2, <2>3, <2>4 DEF Settle
<1>9. CASE PeerStep
  <2> USE DEF serverVars
  <2>1. ASSUME NEW s \in Sockets, Connect(s) \/ PeerFin(s)
        PROVE  TypeOK'
    BY <2>1 DEF TypeOK, Connect, PeerFin
  <2>4. ASSUME NEW s \in Sockets, PeerReset(s)
        PROVE  TypeOK'
    <3>1. <<>> \in Seq(Bytes)
      OBVIOUS
    <3>2. avail' \in [Sockets -> Seq(Bytes)]
      BY <2>4, <3>1, Zenon DEF TypeOK, PeerReset
    <3>3. sent' \in [Sockets -> Nat]
      BY <2>4 DEF TypeOK, PeerReset
    <3> QED
      BY <2>4, <3>2, <3>3 DEF TypeOK, PeerReset
  <2>5. ASSUME NEW s \in Sockets, PeerRead(s)
        PROVE  TypeOK'
    <3>1. sent' \in [Sockets -> Nat]
      <4>1. sent[s] - 1 \in Nat
        BY SMTT(40), <2>5 DEF TypeOK, PeerRead
      <4> QED
        BY <2>5, <4>1, Zenon DEF TypeOK, PeerRead
    <3> QED
      BY <2>5, <3>1 DEF TypeOK, PeerRead
  <2>2. ASSUME NEW s \in Sockets, NEW b \in Bytes, PeerSend(s, b)
        PROVE  TypeOK'
    <3>1. avail[s] \in Seq(Bytes)
      BY DEF TypeOK
    <3>2. Append(avail[s], b) \in Seq(Bytes)
      BY <3>1
    <3>3. avail' \in [Sockets -> Seq(Bytes)]
      BY <2>2, <3>2, Zenon DEF TypeOK, PeerSend
    <3> QED
      BY <2>2, <3>3 DEF TypeOK, PeerSend
  <2>3. ASSUME NEW s \in Sockets, Lingered(s)
        PROVE  TypeOK'
    BY <2>3, AbortTypes DEF TypeOK, Lingered
  <2> QED
    BY <1>9, <2>1, <2>2, <2>3, <2>4, <2>5 DEF PeerStep
<1>10. CASE UNCHANGED vars
  BY <1>10 DEF TypeOK, vars
<1> QED
  BY <1>1, <1>2, <1>3, <1>4, <1>5, <1>6, <1>7, <1>8, <1>9, <1>10
     DEF Next, ServerStep, Accepting, Polling
-----------------------------------------------------------------------------
(***************************************************************************)
(* The visits.                                                             *)
(***************************************************************************)

(* A close or an abort, whichever it is, leaves the connection closed.     *)
LEMMA ReleaseCloses ==
  ASSUME TypeOK, NEW c \in Slots, ConnectionClose(c) \/ ConnectionAbort(c)
  PROVE  closed' = [closed EXCEPT ![c] = TRUE]
<1>1. CASE closed[c]
  BY <1>1 DEF TypeOK, ConnectionClose, ConnectionAbort
<1>2. CASE ~closed[c]
  BY <1>2 DEF ConnectionClose, ConnectionAbort
<1> QED
  BY <1>1, <1>2

(* Closing a connection that was given up once it is drained leaves it     *)
(* closed or with something left to write.                                 *)
LEMMA DrainedCloses ==
  ASSUME TypeOK, NEW c \in Slots, CloseDrained(c, TRUE)
  PROVE  /\ closed' = closed \/ closed' = [closed EXCEPT ![c] = TRUE]
         /\ ~closed'[c] => bytes_to_write[c] > 0
<1>1. bytes_to_write[c] \in Nat /\ closed \in [Slots -> BOOLEAN]
  BY DEF TypeOK
<1>2. CASE bytes_to_write[c] = 0
  BY <1>1, <1>2, ReleaseCloses DEF CloseDrained
<1>3. CASE bytes_to_write[c] # 0
  BY <1>1, <1>3 DEF CloseDrained
<1> QED
  BY <1>2, <1>3

(* A visit moves on to another slot, or starts over.                       *)
LEMMA AdvanceMoves ==
  ASSUME TypeOK, Advance
  PROVE  pc' \notin {"read", "write", "status", "drop"}
  BY DEF Advance

(* The slot a visit works on is in use; a connection that was closed in    *)
(* its visit never survives it.                                            *)
LEMMA NextVisitInv ==
  ASSUME TypeOK, VisitInv, [Next]_vars
  PROVE  VisitInv'
<1> USE DEF freeVars, connVars, netVars, Goto, Called
<1>1. ASSUME NEW s \in Sockets, AcceptConnection(s)
      PROVE  VisitInv'
  BY <1>1, ServerAssumption
     DEF TypeOK, VisitInv, Open, AcceptConnection, Accepts, AllocConnection, NewConnection
<1>2. ASSUME NEW s \in Sockets, RejectConnection(s) \/ AcceptError(s)
      PROVE  VisitInv'
  BY <1>2 DEF VisitInv, Open, RejectConnection, AcceptError, Accepts
<1>3. CASE AcceptNone \/ Polling
  BY <1>3 DEF VisitInv, Open, AcceptNone, Polling, Poll, PollFails
<1>4. ASSUME NEW c \in Slots, Visit(c)
      PROVE  VisitInv'
  <2>1. CASE VisitEmpty(c)
    BY <2>1, AdvanceMoves DEF VisitInv, Open, VisitEmpty, Visiting
  <2>2. CASE AssertFails(c) \/ VisitReady(c)
    BY <2>2 DEF VisitInv, Open, AssertFails, VisitReady, Visiting, AfterReading
  <2>3. CASE VisitHangup(c)
    <3>1. closed' = [closed EXCEPT ![c] = TRUE]
      BY <2>3, ReleaseCloses DEF VisitHangup
    <3> QED
      BY <2>3, <3>1 DEF TypeOK, VisitInv, Open, VisitHangup, Visiting
  <2> QED
    BY <1>4, <2>1, <2>2, <2>3 DEF Visit
<1>5. ASSUME NEW c \in Slots, Recv(c)
      PROVE  VisitInv'
  <2>1. CASE RecvError(c) \/ RecvNothing(c) \/ RecvOversize(c)
    <3>1. closed' = [closed EXCEPT ![c] = TRUE]
      BY <2>1, ReleaseCloses DEF RecvError, RecvNothing, RecvOversize
    <3> QED
      BY <2>1, <3>1 DEF TypeOK, VisitInv, Open, RecvError, RecvNothing, RecvOversize,
                        Receives, Reading, AfterReading
  <2>2. CASE RecvWouldBlock(c)
    BY <2>2 DEF VisitInv, Open, RecvWouldBlock, Reading, AfterReading
  <2>3. CASE RecvPartial(c) \/ RecvHeader(c) \/ RecvMessage(c)
    BY <2>3 DEF VisitInv, Open, RecvPartial, RecvHeader, RecvMessage, Receives, Reading
  <2> QED
    BY <1>5, <2>1, <2>2, <2>3 DEF Recv
<1>6. ASSUME NEW c \in Slots, Write(c)
      PROVE  VisitInv'
  <2>1. CASE WriteSkipped(c) \/ SendWouldBlock(c) \/ Send(c)
    BY <2>1 DEF VisitInv, Open, WriteSkipped, SendWouldBlock, Send, Sends, Writing
  <2>2. ASSUME NEW n \in 0 .. MaxOutput, RequestOutput(c, n)
        PROVE  VisitInv'
    BY <2>2 DEF VisitInv, Open, RequestOutput, Writing
  <2>3. CASE SendError(c)
    <3>1. closed' = [closed EXCEPT ![c] = TRUE]
      BY <2>3, ReleaseCloses DEF SendError
    <3> QED
      BY <2>3, <3>1 DEF TypeOK, VisitInv, Open, SendError, Sends, Writing
  <2> QED
    BY <1>6, <2>1, <2>2, <2>3 DEF Write
<1>7. ASSUME NEW c \in Slots, Settle(c)
      PROVE  VisitInv'
  <2>1. ASSUME NEW answer \in BOOLEAN, RequestStatus(c, answer)
        PROVE  VisitInv'
    <3>1. CASE answer
      <4>1. /\ closed' = closed \/ closed' = [closed EXCEPT ![c] = TRUE]
            /\ ~closed'[c] => bytes_to_write[c] > 0
        BY <2>1, <3>1, DrainedCloses DEF RequestStatus
      <4> QED
        BY <2>1, <4>1 DEF TypeOK, VisitInv, Open, RequestStatus, Settling
    <3>2. CASE ~answer
      <4>1. closed' = closed /\ ~closing'[c]
        BY <2>1, <3>2 DEF TypeOK, RequestStatus, CloseDrained
      <4> QED
        BY <2>1, <4>1 DEF TypeOK, VisitInv, Open, RequestStatus, Settling
    <3> QED
      BY <3>1, <3>2
  <2>2. CASE StatusKnown(c)
    <3>1. /\ closed' = closed \/ closed' = [closed EXCEPT ![c] = TRUE]
          /\ ~closed'[c] => bytes_to_write[c] > 0
      BY <2>2, DrainedCloses DEF StatusKnown
    <3> QED
      BY <2>2, <3>1 DEF TypeOK, VisitInv, Open, StatusKnown, Settling
  <2>3. CASE Drop(c)
    BY <2>3, AdvanceMoves DEF TypeOK, VisitInv, Open, Drop, FreeConnection
  <2>4. CASE Keep(c)
    BY <2>4, AdvanceMoves DEF VisitInv, Open, Keep
  <2> QED
    BY <1>7, <2>1, <2>2, <2>3, <2>4 DEF Settle
<1>8. CASE PeerStep
  BY <1>8 DEF VisitInv, Open, PeerStep, Connect, PeerSend, PeerFin, PeerReset,
              PeerRead, Lingered, serverVars
<1>9. CASE UNCHANGED vars
  BY <1>9 DEF VisitInv, Open, vars
<1> QED
  BY <1>1, <1>2, <1>3, <1>4, <1>5, <1>6, <1>7, <1>8, <1>9
     DEF Next, ServerStep, Accepting
-----------------------------------------------------------------------------
(***************************************************************************)
(* The frames.                                                             *)
(***************************************************************************)

(* Steps that touch neither the slots nor the reader.                      *)
LEMMA SameFrames ==
  ASSUME FrameInv, UNCHANGED <<fd, readbuf, bytes_to_read, message_length>>
  PROVE  FrameInv'
  BY DEF FrameInv, Open

(* Reading never leaves the two bytes of a header and the bytes of a frame *)
(* that fits the buffer.                                                   *)
LEMMA NextFrameInv ==
  ASSUME TypeOK, VisitInv, FrameInv, [Next]_vars
  PROVE  FrameInv'
<1> USE DEF freeVars, connVars
<1>1. ASSUME NEW s \in Sockets, AcceptConnection(s)
      PROVE  FrameInv'
  <2>1. PICK c \in Slots : NewConnection(c, s)
    BY <1>1 DEF AcceptConnection
  <2>2. message_length'[c] = 0 /\ bytes_to_read'[c] = 2 /\ readbuf'[c] = <<>>
    BY <2>1 DEF TypeOK, NewConnection
  <2>3. Len(readbuf'[c]) = 0
    BY <2>2
  <2>4. \A d \in Slots \ {c} :
          /\ fd'[d] = fd[d] /\ readbuf'[d] = readbuf[d]
          /\ bytes_to_read'[d] = bytes_to_read[d] /\ message_length'[d] = message_length[d]
    BY <2>1 DEF TypeOK, NewConnection
  <2> QED
    BY <2>2, <2>3, <2>4 DEF FrameInv, Open
<1>2. ASSUME NEW s \in Sockets, RejectConnection(s) \/ AcceptError(s)
      PROVE  FrameInv'
  BY <1>2, SameFrames DEF RejectConnection, AcceptError
<1>3. CASE AcceptNone \/ Polling
  BY <1>3, SameFrames DEF AcceptNone, Polling, Poll, PollFails
<1>4. ASSUME NEW c \in Slots, Visit(c)
      PROVE  FrameInv'
  BY <1>4, SameFrames DEF Visit, VisitEmpty, AssertFails, VisitHangup, VisitReady
<1>5. ASSUME NEW c \in Slots, Recv(c)
      PROVE  FrameInv'
  <2>1. CASE RecvError(c) \/ RecvNothing(c) \/ RecvWouldBlock(c)
    BY <2>1, SameFrames DEF RecvError, RecvNothing, RecvWouldBlock
  <2> DEFINE Others == \A d \in Slots \ {c} :
                         /\ readbuf'[d] = readbuf[d]
                         /\ bytes_to_read'[d] = bytes_to_read[d]
                         /\ message_length'[d] = message_length[d]
  <2>2. ASSUME NEW bytes, NEW n, NEW len,
               readbuf' = [readbuf EXCEPT ![c] = bytes], Expect(c, n, len)
        PROVE  /\ Others
               /\ readbuf'[c] = bytes /\ bytes_to_read'[c] = n /\ message_length'[c] = len
    BY <2>2 DEF TypeOK, Expect
  <2>3. ASSUME Others, fd' = fd,
               \/ message_length'[c] = 0 /\ Len(readbuf'[c]) + bytes_to_read'[c] = 2
               \/ message_length'[c] = 0 /\ Len(readbuf'[c]) = 0 /\ bytes_to_read'[c] = 0
               \/ /\ message_length'[c] \in 1 .. ReadbufSize
                  /\ Len(readbuf'[c]) + bytes_to_read'[c] = message_length'[c]
        PROVE  FrameInv'
    BY <2>3 DEF FrameInv, Open
  <2> HIDE DEF Others
  <2>4. /\ bytes_to_read[c] \in Nat /\ message_length[c] \in Nat
        /\ Len(readbuf[c]) \in Nat /\ ReadbufSize \in Nat
    BY ServerAssumption DEF TypeOK
  <2>5. Reading(c) => Open(c)
    BY DEF VisitInv, Reading
  <2>6. CASE RecvPartial(c)
    <3>1. /\ Receives(c) /\ readbuf' = [readbuf EXCEPT ![c] = Filled(c)] /\ fd' = fd
          /\ Expect(c, bytes_to_read[c] - Received(c), message_length[c])
      BY <2>6 DEF RecvPartial
    <3>2. /\ Received(c) \in 1 .. bytes_to_read[c]
          /\ Len(Filled(c)) = Len(readbuf[c]) + Received(c)
      BY <3>1, RecvBytes
    <3>3. \/ message_length[c] = 0 /\ Len(readbuf[c]) + bytes_to_read[c] = 2
          \/ /\ message_length[c] \in 1 .. ReadbufSize
             /\ Len(readbuf[c]) + bytes_to_read[c] = message_length[c]
      BY <2>4, <2>5, <3>1, <3>2 DEF FrameInv, Receives
    <3>4. /\ Others /\ readbuf'[c] = Filled(c) /\ message_length'[c] = message_length[c]
          /\ bytes_to_read'[c] = bytes_to_read[c] - Received(c)
      BY <2>2, <3>1
    <3>5. Len(readbuf'[c]) + bytes_to_read'[c] = Len(readbuf[c]) + bytes_to_read[c]
      BY <2>4, <3>2, <3>4
    <3> QED
      BY <2>3, <3>1, <3>3, <3>4, <3>5
  <2>7. CASE RecvHeader(c)
    <3>1. /\ readbuf' = [readbuf EXCEPT ![c] = <<>>] /\ fd' = fd
          /\ Expect(c, HeaderLength(Filled(c)), HeaderLength(Filled(c)))
          /\ HeaderLength(Filled(c)) <= ReadbufSize
      BY <2>7 DEF RecvHeader
    <3>2. HeaderLength(Filled(c)) \in Nat
      BY <2>7, HeaderIsNat DEF RecvHeader
    <3>3. /\ Others /\ readbuf'[c] = <<>>
          /\ message_length'[c] = HeaderLength(Filled(c))
          /\ bytes_to_read'[c] = HeaderLength(Filled(c))
      BY <2>2, <3>1
    <3>4. Len(readbuf'[c]) = 0
      BY <3>3
    <3> QED
      BY <2>3, <2>4, <3>1, <3>2, <3>3, <3>4
  <2>8. CASE RecvOversize(c)
    <3>1. /\ Receives(c) /\ Received(c) = bytes_to_read[c] /\ message_length[c] = 0
          /\ readbuf' = [readbuf EXCEPT ![c] = Filled(c)] /\ Expect(c, 0, 0) /\ fd' = fd
      BY <2>8 DEF RecvOversize
    <3>2. /\ bytes_to_read[c] > 0
          /\ Len(Filled(c)) = Len(readbuf[c]) + bytes_to_read[c]
      BY <2>4, <3>1, RecvBytes
    <3>3. Len(readbuf[c]) + bytes_to_read[c] = 2
      BY <2>4, <2>5, <3>1, <3>2 DEF FrameInv, Receives
    <3>4. /\ Others /\ readbuf'[c] = Filled(c)
          /\ message_length'[c] = 0 /\ bytes_to_read'[c] = 0
      <4>1. readbuf' = [readbuf EXCEPT ![c] = Filled(c)] /\ Expect(c, 0, 0)
        BY <3>1
      <4> QED
        BY <2>2, <4>1, Zenon
    <3>5. Len(Filled(c)) = 2
      BY <3>2, <3>3
    <3>6. Len(readbuf'[c]) = 2 /\ bytes_to_read'[c] = 0
      BY <3>4, <3>5
    <3>7. Len(readbuf'[c]) + bytes_to_read'[c] = 2
      BY <3>6
    <3> QED
      BY <2>3, <3>1, <3>4, <3>7
  <2>9. CASE RecvMessage(c)
    <3>1. readbuf' = [readbuf EXCEPT ![c] = <<>>] /\ Expect(c, 2, 0) /\ fd' = fd
      BY <2>9 DEF RecvMessage
    <3>2. /\ Others /\ readbuf'[c] = <<>>
          /\ message_length'[c] = 0 /\ bytes_to_read'[c] = 2
      BY <2>2, <3>1
    <3>3. Len(readbuf'[c]) = 0
      BY <3>2
    <3> QED
      BY <2>3, <3>1, <3>2, <3>3
  <2> QED
    BY <1>5, <2>1, <2>6, <2>7, <2>8, <2>9 DEF Recv
<1>6. ASSUME NEW c \in Slots, Write(c)
      PROVE  FrameInv'
  BY <1>6, SameFrames DEF Write, WriteSkipped, RequestOutput, Send, SendWouldBlock, SendError
<1>7. ASSUME NEW c \in Slots, Settle(c)
      PROVE  FrameInv'
  <2>1. CASE Drop(c)
    BY <2>1 DEF TypeOK, FrameInv, Open, Drop, FreeConnection
  <2>2. CASE ~Drop(c)
    BY <1>7, <2>2, SameFrames DEF Settle, RequestStatus, StatusKnown, Keep
  <2> QED
    BY <2>1, <2>2
<1>8. CASE PeerStep
  BY <1>8, SameFrames DEF PeerStep, Connect, PeerSend, PeerFin, PeerReset,
                          PeerRead, Lingered, serverVars
<1>9. CASE UNCHANGED vars
  BY <1>9, SameFrames DEF vars
<1> QED
  BY <1>1, <1>2, <1>3, <1>4, <1>5, <1>6, <1>7, <1>8, <1>9
     DEF Next, ServerStep, Accepting

-----------------------------------------------------------------------------
(***************************************************************************)
(* The free list.                                                          *)
(***************************************************************************)

(* The list loses its head to the accepted connection.                     *)
LEMMA AllocNoLostSlot ==
  ASSUME TypeOK, NoLostSlot, NEW c \in Slots, NEW s \in Sockets,
         AllocConnection(c), NewConnection(c, s)
  PROVE  NoLostSlot'
<1>1. c \in Free
  BY DEF NoLostSlot, FreeListClosed, AllocConnection
<1>2. Free' = Free \ {c}
  BY ServerAssumption DEF TypeOK, Free, Open, NewConnection
<1>3. /\ freelist_next' = freelist_next /\ freelist_head' = freelist_next[c]
      /\ freelist_head = c
  BY DEF AllocConnection
<1>4. FreeListClosed'
  BY <1>1, <1>2, <1>3 DEF NoLostSlot, FreeListClosed, FreeListLinear
<1>5. FreeListLinear'
  BY <1>1, <1>2, <1>3 DEF NoLostSlot, FreeListLinear
<1>6. FreeListReaches'
  <2> SUFFICES ASSUME NEW S \in SUBSET Free',
                      freelist_head' # NIL => freelist_head' \in S,
                      \A d \in S : freelist_next'[d] # NIL => freelist_next'[d] \in S
               PROVE  S = Free'
    BY DEF FreeListReaches
  <2>1. S \union {c} \in SUBSET Free
    BY <1>1, <1>2
  <2>2. /\ freelist_head \in S \union {c}
        /\ \A d \in S \union {c} :
             freelist_next[d] # NIL => freelist_next[d] \in S \union {c}
    BY <1>3
  <2>3. S \union {c} = Free
    BY <2>1, <2>2 DEF NoLostSlot, FreeListReaches
  <2> QED
    BY <1>2, <2>3
<1> QED
  BY <1>4, <1>5, <1>6 DEF NoLostSlot

(* A dropped connection's slot becomes the head of the list.               *)
LEMMA FreeNoLostSlot ==
  ASSUME TypeOK, NoLostSlot, NEW c \in Slots, Open(c), FreeConnection(c)
  PROVE  NoLostSlot'
<1>1. Free' = Free \union {c} /\ c \notin Free
  BY SMTT(40) DEF TypeOK, Free, Open, FreeConnection
<1>2. /\ freelist_head' = c /\ freelist_next'[c] = freelist_head
      /\ \A d \in Free : freelist_next'[d] = freelist_next[d]
  BY <1>1 DEF TypeOK, Free, FreeConnection
<1>3. FreeListClosed'
  BY <1>1, <1>2 DEF NoLostSlot, FreeListClosed
<1>4. FreeListLinear'
  BY <1>1, <1>2 DEF NoLostSlot, FreeListClosed, FreeListLinear
<1>5. FreeListReaches'
  <2> SUFFICES ASSUME NEW S \in SUBSET Free',
                      freelist_head' # NIL => freelist_head' \in S,
                      \A d \in S : freelist_next'[d] # NIL => freelist_next'[d] \in S
               PROVE  S = Free'
    BY DEF FreeListReaches
  <2>1. c \in S
    BY <1>2, MaxConnectionsAssumption DEF Slots, NIL
  <2>2. S \ {c} \in SUBSET Free
    BY <1>1
  <2>3. freelist_head # NIL => freelist_head \in S \ {c}
    BY <1>1, <1>2, <2>1 DEF NoLostSlot, FreeListClosed
  <2>4. \A d \in S \ {c} : freelist_next[d] # NIL => freelist_next[d] \in S \ {c}
    BY <1>1, <1>2, <2>2 DEF NoLostSlot, FreeListClosed
  <2>5. S \ {c} = Free
    BY <2>2, <2>3, <2>4 DEF NoLostSlot, FreeListReaches
  <2> QED
    BY <1>1, <2>1, <2>5
<1> QED
  BY <1>3, <1>4, <1>5 DEF NoLostSlot

(* Only an accept and a drop touch the free list and the descriptors.      *)
LEMMA FreeVarsChange ==
  ASSUME [Next]_vars, ~UNCHANGED freeVars
  PROVE  \/ \E s \in Sockets : AcceptConnection(s)
         \/ \E c \in Slots : Drop(c)
<1> USE DEF vars
<1>1. ASSUME Accepting \/ Polling
      PROVE  \E s \in Sockets : AcceptConnection(s)
  BY <1>1 DEF Accepting, AcceptNone, RejectConnection, AcceptError, Polling, Poll, PollFails
<1>2. ASSUME NEW c \in Slots, Visit(c) \/ Recv(c)
      PROVE  FALSE
  BY <1>2 DEF Visit, VisitEmpty, AssertFails, VisitHangup, VisitReady,
              Recv, RecvError, RecvWouldBlock, RecvNothing, RecvPartial, RecvHeader,
              RecvOversize, RecvMessage
<1>3. ASSUME NEW c \in Slots, Write(c) \/ Settle(c)
      PROVE  Drop(c)
  BY <1>3 DEF Write, WriteSkipped, RequestOutput, Send, SendWouldBlock, SendError,
              Settle, RequestStatus, StatusKnown, Keep
<1>4. ~PeerStep
  BY DEF PeerStep, Connect, PeerSend, PeerFin, PeerReset, PeerRead, Lingered, serverVars
<1> QED
  BY <1>1, <1>2, <1>3, <1>4 DEF Next, ServerStep

LEMMA NextNoLostSlot ==
  ASSUME TypeOK, VisitInv, NoLostSlot, [Next]_vars
  PROVE  NoLostSlot'
<1>1. CASE UNCHANGED freeVars
  BY <1>1 DEF freeVars, NoLostSlot, FreeListClosed, FreeListLinear, FreeListReaches, Free, Open
<1>2. ASSUME NEW s \in Sockets, AcceptConnection(s)
      PROVE  NoLostSlot'
  BY <1>2, AllocNoLostSlot DEF AcceptConnection
<1>3. ASSUME NEW c \in Slots, Drop(c)
      PROVE  NoLostSlot'
  BY <1>3, FreeNoLostSlot DEF Drop, VisitInv
<1> QED
  BY <1>1, <1>2, <1>3, FreeVarsChange
-----------------------------------------------------------------------------
(***************************************************************************)
(* The sockets.                                                            *)
(***************************************************************************)

(* Whether a socket is open does not change, nor does what slots hold.     *)
LEMMA SameOwners ==
  ASSUME TypeOK, SocketOwned, UNCHANGED <<fd, closed>>,
         \A s \in Sockets : os'[s] = "open" <=> os[s] = "open"
  PROVE  SocketOwned'
<1>1. \A c \in Slots : Open(c)' <=> Open(c)
  BY DEF Open
<1>2. \A c \in Slots : Open(c)' /\ ~closed'[c] => os'[fd'[c]] = "open"
  <2> SUFFICES ASSUME NEW c \in Slots, Open(c), ~closed[c]
               PROVE  os'[fd[c]] = "open"
    BY <1>1
  <2>1. os[fd[c]] = "open" /\ fd[c] \in Sockets
    BY DEF TypeOK, SocketOwned, Open
  <2> QED
    BY <2>1
<1> QED
  BY <1>1, <1>2 DEF SocketOwned

(* A close or an abort of an open connection takes its socket, and only    *)
(* that one, from its slot; of a closed one it takes nothing.              *)
LEMMA ReleaseOwned ==
  ASSUME TypeOK, SocketOwned, NEW c \in Slots, Open(c), fd' = fd,
         ConnectionClose(c) \/ ConnectionAbort(c)
  PROVE  SocketOwned'
<1>1. fd[c] \in Sockets
  BY DEF TypeOK, Open
<1>2. CASE closed[c]
  BY <1>2, SameOwners DEF ConnectionClose, ConnectionAbort, netVars
<1>3. CASE ~closed[c]
  <2>1. closed' = [closed EXCEPT ![c] = TRUE]
    BY ReleaseCloses
  <2>2. PICK freed \in {"lingering", "free"} : os' = [os EXCEPT ![fd[c]] = freed]
    <3>1. PICK linger \in BOOLEAN : Released(fd[c], linger)
      <4>1. (sent[fd[c]] > 0) \in BOOLEAN /\ FALSE \in BOOLEAN
        OBVIOUS
      <4>2. Released(fd[c], sent[fd[c]] > 0) \/ Released(fd[c], FALSE)
        BY <1>3 DEF ConnectionClose, ConnectionAbort, TcpClose, TcpAbort
      <4> QED
        BY <4>1, <4>2
    <3>2. os' = [os EXCEPT ![fd[c]] = IF linger THEN "lingering" ELSE "free"]
      BY <3>1 DEF Released
    <3>3. CASE linger
      BY <3>2, <3>3
    <3>4. CASE ~linger
      BY <3>2, <3>4
    <3> QED
      BY <3>3, <3>4
  <2>3. \A s \in Sockets : s # fd[c] => os'[s] = os[s]
    BY <2>2 DEF TypeOK
  <2>4. os'[fd[c]] # "open"
    BY <1>1, <2>2 DEF TypeOK
  <2>5. \A d \in Slots : d # c => closed'[d] = closed[d]
    BY <2>1 DEF TypeOK
  <2>6. closed'[c] = TRUE
    BY <2>1 DEF TypeOK
  <2>7. \A d \in Slots : Open(d) /\ fd[d] = fd[c] => d = c
    BY DEF SocketOwned
  <2>8. \A d \in Slots : Open(d) => fd[d] \in Sockets
    BY DEF TypeOK, Open
  <2>9. \A d \in Slots : Open(d)' <=> Open(d)
    BY DEF Open
  <2>10. \A d \in Slots : Open(d)' /\ ~closed'[d] => os'[fd'[d]] = "open"
    BY <2>3, <2>5, <2>6, <2>7, <2>8, <2>9 DEF SocketOwned
  <2>11. \A s \in Sockets : os'[s] = "open" => \E d \in Slots : fd'[d] = s /\ ~closed'[d]
    BY <2>3, <2>4, <2>5 DEF SocketOwned
  <2> QED
    BY <2>9, <2>10, <2>11 DEF SocketOwned
<1> QED
  BY <1>2, <1>3

(* An abort of a socket that is not open.                                  *)
LEMMA AbortOwned ==
  ASSUME TypeOK, SocketOwned, NEW s \in Sockets, os[s] # "open", TcpAbort(s),
         UNCHANGED <<fd, closed>>
  PROVE  SocketOwned'
<1>1. os' = [os EXCEPT ![s] = "free"]
  BY DEF TcpAbort, Released
<1>2. \A t \in Sockets : os'[t] = "open" <=> os[t] = "open"
  BY <1>1 DEF TypeOK
<1> QED
  BY <1>2, SameOwners

LEMMA AcceptOwned ==
  ASSUME TypeOK, VisitInv, NoLostSlot, SocketOwned,
         NEW s \in Sockets, AcceptConnection(s)
  PROVE  SocketOwned'
<1>1. pc = "accept" /\ os[s] = "backlog" /\ os' = [os EXCEPT ![s] = "open"]
  BY DEF AcceptConnection, Accepts
<1>2. PICK c \in Slots : AllocConnection(c) /\ NewConnection(c, s)
  BY DEF AcceptConnection
<1>3. ~Open(c)
  BY <1>2 DEF AllocConnection, NoLostSlot, FreeListClosed, Free
<1>4. fd'[c] = s /\ ~closed'[c] /\ s # INVALID_SOCKET
  BY <1>2, ServerAssumption DEF TypeOK, NewConnection
<1>5. \A d \in Slots : d # c => fd'[d] = fd[d] /\ closed'[d] = closed[d]
  BY <1>2 DEF TypeOK, NewConnection
<1>6. \A d \in Slots : Open(d) => ~closed[d] /\ os[fd[d]] = "open" /\ fd[d] # s
  BY <1>1 DEF VisitInv, SocketOwned
<1>7. os'[s] = "open" /\ \A t \in Sockets : t # s => os'[t] = os[t]
  BY <1>1 DEF TypeOK
<1>8. \A d \in Slots : Open(d) => fd[d] \in Sockets
  BY DEF TypeOK, Open
<1>9. \A d \in Slots : d # c => (Open(d)' <=> Open(d))
  BY <1>5 DEF Open
<1>10. \A d \in Slots : Open(d)' /\ ~closed'[d] => os'[fd'[d]] = "open"
  BY <1>4, <1>5, <1>6, <1>7, <1>8, <1>9
<1>11. \A t \in Sockets : os'[t] = "open" => \E d \in Slots : fd'[d] = t /\ ~closed'[d]
  <2> SUFFICES ASSUME NEW t \in Sockets, os'[t] = "open"
               PROVE  \E d \in Slots : fd'[d] = t /\ ~closed'[d]
    OBVIOUS
  <2>1. CASE t = s
    BY <1>4, <2>1
  <2>2. CASE t # s
    <3>1. PICK d \in Slots : fd[d] = t /\ ~closed[d]
      BY <1>7, <2>2 DEF SocketOwned
    <3>2. d # c
      BY <1>3, <3>1, ServerAssumption DEF Open
    <3> QED
      BY <1>5, <3>1, <3>2
  <2> QED
    BY <2>1, <2>2
<1>12. \A d, e \in Slots : Open(d)' /\ fd'[d] = fd'[e] => d = e
  <2> SUFFICES ASSUME NEW d \in Slots, NEW e \in Slots, Open(d)', fd'[d] = fd'[e]
               PROVE  d = e
    OBVIOUS
  <2>1. Open(e)'
    BY DEF Open
  <2>2. CASE d # c /\ e # c
    BY <1>5, <1>9, <2>2 DEF SocketOwned
  <2>3. CASE d = c \/ e = c
    BY <1>4, <1>5, <1>6, <1>9, <2>1, <2>3
  <2> QED
    BY <2>2, <2>3
<1> QED
  BY <1>10, <1>11, <1>12 DEF SocketOwned

LEMMA DropOwned ==
  ASSUME TypeOK, SocketOwned, NEW c \in Slots, Drop(c)
  PROVE  SocketOwned'
<1>1. closed[c] /\ closed' = closed /\ os' = os
  BY DEF Drop, connVars, netVars
<1>2. ~Open(c)' /\ \A d \in Slots : d # c => fd'[d] = fd[d]
  BY DEF TypeOK, Drop, FreeConnection, Open
<1>3. fd'[c] = INVALID_SOCKET
  BY <1>2 DEF Open
<1>4. \A d \in Slots : d # c => (Open(d)' <=> Open(d))
  BY <1>2 DEF Open
<1>5. \A d \in Slots : Open(d)' /\ ~closed'[d] => os'[fd'[d]] = "open"
  BY <1>1, <1>2, <1>4 DEF SocketOwned
<1>6. \A s \in Sockets : os'[s] = "open" => \E d \in Slots : fd'[d] = s /\ ~closed'[d]
  BY <1>1, <1>2 DEF SocketOwned
<1>7. \A d, e \in Slots : Open(d)' /\ fd'[d] = fd'[e] => d = e
  BY <1>2, <1>3, <1>4 DEF SocketOwned, Open
<1> QED
  BY <1>5, <1>6, <1>7 DEF SocketOwned

LEMMA NextSocketOwned ==
  ASSUME TypeOK, VisitInv, NoLostSlot, SocketOwned, [Next]_vars
  PROVE  SocketOwned'
<1> USE DEF freeVars, connVars, netVars
<1>1. ASSUME NEW s \in Sockets, RejectConnection(s) \/ AcceptError(s)
      PROVE  SocketOwned'
  BY <1>1, AbortOwned DEF RejectConnection, AcceptError, Accepts
<1>2. CASE AcceptNone \/ Polling
  BY <1>2, SameOwners DEF AcceptNone, Polling, Poll, PollFails
<1>3. ASSUME NEW c \in Slots, Visit(c)
      PROVE  SocketOwned'
  <2>1. CASE VisitHangup(c)
    BY <2>1, ReleaseOwned DEF VisitHangup
  <2>2. CASE ~VisitHangup(c)
    BY <1>3, <2>2, SameOwners DEF Visit, VisitEmpty, AssertFails, VisitReady
  <2> QED
    BY <2>1, <2>2
<1>4. ASSUME NEW c \in Slots, Recv(c)
      PROVE  SocketOwned'
  <2>1. Open(c)
    BY <1>4 DEF VisitInv, Recv, RecvError, RecvWouldBlock, RecvNothing, RecvPartial,
                RecvHeader, RecvOversize, RecvMessage, Receives, Reading
  <2>2. CASE RecvError(c) \/ RecvNothing(c) \/ RecvOversize(c)
    BY <2>1, <2>2, ReleaseOwned DEF RecvError, RecvNothing, RecvOversize
  <2>3. CASE RecvWouldBlock(c) \/ RecvPartial(c) \/ RecvHeader(c) \/ RecvMessage(c)
    BY <2>3, SameOwners DEF RecvWouldBlock, RecvPartial, RecvHeader, RecvMessage, Consume
  <2> QED
    BY <1>4, <2>2, <2>3 DEF Recv
<1>5. ASSUME NEW c \in Slots, Write(c)
      PROVE  SocketOwned'
  <2>1. CASE SendError(c)
    BY <2>1, ReleaseOwned DEF VisitInv, SendError, Sends, Writing
  <2>2. CASE ~SendError(c)
    BY <1>5, <2>2, SameOwners DEF Write, WriteSkipped, RequestOutput, Send, SendWouldBlock
  <2> QED
    BY <2>1, <2>2
<1>6. ASSUME NEW c \in Slots, NEW answer \in BOOLEAN, CloseDrained(c, answer),
             pc = "status", c = cur, fd' = fd
      PROVE  SocketOwned'
  <2>1. CASE ConnectionClose(c)
    BY <1>6, <2>1, ReleaseOwned DEF VisitInv
  <2>2. CASE UNCHANGED <<closed, netVars>>
    BY <1>6, <2>2, SameOwners
  <2> QED
    BY <1>6, <2>1, <2>2 DEF CloseDrained
<1>7. ASSUME NEW c \in Slots, Settle(c)
      PROVE  SocketOwned'
  <2>1. ASSUME NEW answer \in BOOLEAN, RequestStatus(c, answer)
        PROVE  SocketOwned'
    BY <1>6, <2>1 DEF RequestStatus, Settling
  <2>2. CASE StatusKnown(c)
    BY <1>6, <2>2 DEF StatusKnown, Settling
  <2>3. CASE Drop(c)
    BY <2>3, DropOwned
  <2>4. CASE Keep(c)
    BY <2>4, SameOwners DEF Keep
  <2> QED
    BY <1>7, <2>1, <2>2, <2>3, <2>4 DEF Settle
<1>8. ASSUME NEW s \in Sockets, Connect(s)
      PROVE  SocketOwned'
  <2>1. \A t \in Sockets : os'[t] = "open" <=> os[t] = "open"
    BY <1>8 DEF TypeOK, Connect
  <2> QED
    BY <1>8, <2>1, SameOwners DEF Connect, serverVars
<1>9. ASSUME NEW s \in Sockets, Lingered(s)
      PROVE  SocketOwned'
  BY <1>9, AbortOwned DEF Lingered, serverVars
<1>11. CASE UNCHANGED vars
  BY <1>11, SameOwners DEF vars
<1>12. CASE PeerStep
  <2>1. ASSUME NEW s \in Sockets, PeerFin(s) \/ PeerReset(s) \/ PeerRead(s)
        PROVE  SocketOwned'
    BY <2>1, SameOwners DEF PeerFin, PeerReset, PeerRead, serverVars
  <2>2. ASSUME NEW s \in Sockets, NEW b \in Bytes, PeerSend(s, b)
        PROVE  SocketOwned'
    BY <2>2, SameOwners DEF PeerSend, serverVars
  <2> QED
    BY <1>8, <1>9, <1>12, <2>1, <2>2 DEF PeerStep
<1> QED
  BY <1>1, <1>2, <1>3, <1>4, <1>5, <1>7, <1>11, <1>12, AcceptOwned
     DEF Next, ServerStep, Accepting
-----------------------------------------------------------------------------
(***************************************************************************)
(* Connections that ended.                                                 *)
(***************************************************************************)

(* A connection given up with nothing left to write is in its own visit,   *)
(* past the reading.                                                       *)
GivenUpWrites ==
  \A c \in Slots :
    Open(c) /\ closing[c] /\ (c # cur \/ pc \in {"accept", "poll", "visit", "read"}) =>
      bytes_to_write[c] > 0

LEMMA NextGivenUpWrites ==
  ASSUME TypeOK, VisitInv, GivenUpWrites, [Next]_vars
  PROVE  GivenUpWrites'
<1> USE DEF freeVars, connVars, netVars, Goto, Called, Open
<1>1. ASSUME NEW s \in Sockets, AcceptConnection(s)
      PROVE  GivenUpWrites'
  BY <1>1 DEF TypeOK, GivenUpWrites, AcceptConnection, Accepts, NewConnection
<1>2. ASSUME NEW s \in Sockets, RejectConnection(s) \/ AcceptError(s)
      PROVE  GivenUpWrites'
  BY <1>2 DEF GivenUpWrites, RejectConnection, AcceptError, Accepts
<1>3. CASE AcceptNone \/ Polling
  BY <1>3 DEF GivenUpWrites, AcceptNone, Polling, Poll, PollFails
<1>4. ASSUME NEW c \in Slots, Visit(c)
      PROVE  GivenUpWrites'
  <2>1. CASE VisitEmpty(c)
    BY <2>1, AdvanceMoves DEF GivenUpWrites, VisitEmpty, Visiting
  <2>2. CASE ~VisitEmpty(c)
    BY <1>4, <2>2 DEF GivenUpWrites, Visit, AssertFails, VisitHangup, VisitReady, Visiting
  <2> QED
    BY <2>1, <2>2
<1>5. ASSUME NEW c \in Slots, Recv(c)
      PROVE  GivenUpWrites'
  <2>1. /\ UNCHANGED <<fd, closing, bytes_to_write, cur>>
        /\ c = cur /\ pc = "read"
    <3>1. CASE RecvError(c) \/ RecvNothing(c) \/ RecvOversize(c) \/ RecvWouldBlock(c)
      BY <3>1 DEF RecvError, RecvNothing, RecvOversize, RecvWouldBlock, Receives, Reading,
                  AfterReading
    <3>2. CASE RecvPartial(c) \/ RecvHeader(c) \/ RecvMessage(c)
      BY <3>2 DEF RecvPartial, RecvHeader, RecvMessage, Receives, Reading
    <3> QED
      BY <1>5, <3>1, <3>2 DEF Recv
  <2> QED
    BY <2>1 DEF GivenUpWrites
<1>6. ASSUME NEW c \in Slots, Write(c)
      PROVE  GivenUpWrites'
  <2>1. /\ UNCHANGED <<fd, closing, cur>>
        /\ c = cur /\ pc' \in {"write", "status"}
        /\ \A d \in Slots \ {c} : bytes_to_write'[d] = bytes_to_write[d]
    BY <1>6 DEF TypeOK, Write, WriteSkipped, RequestOutput, Send, SendWouldBlock,
                SendError, Sends, Writing
  <2> QED
    BY <2>1 DEF GivenUpWrites
<1>7. ASSUME NEW c \in Slots, Settle(c)
      PROVE  GivenUpWrites'
  <2>1. ASSUME NEW answer \in BOOLEAN, RequestStatus(c, answer)
        PROVE  GivenUpWrites'
    BY <2>1 DEF TypeOK, GivenUpWrites, RequestStatus, Settling
  <2>2. CASE StatusKnown(c)
    BY <2>2 DEF GivenUpWrites, StatusKnown, Settling
  <2>3. CASE Drop(c)
    BY <2>3, AdvanceMoves DEF TypeOK, GivenUpWrites, Drop, FreeConnection
  <2>4. CASE Keep(c)
    BY <2>4, AdvanceMoves DEF GivenUpWrites, VisitInv, Keep
  <2> QED
    BY <1>7, <2>1, <2>2, <2>3, <2>4 DEF Settle
<1>8. CASE PeerStep
  BY <1>8 DEF GivenUpWrites, PeerStep, Connect, PeerSend, PeerFin, PeerReset,
              PeerRead, Lingered, serverVars
<1>9. CASE UNCHANGED vars
  BY <1>9 DEF GivenUpWrites, vars
<1> QED
  BY <1>1, <1>2, <1>3, <1>4, <1>5, <1>6, <1>7, <1>8, <1>9
     DEF Next, ServerStep, Accepting

-----------------------------------------------------------------------------
(***************************************************************************)
(* The theorems.                                                           *)
(***************************************************************************)

(* The inductive invariant: the types, the point server_poll is at, the    *)
(* reader's frame, the free list, the sockets and what given-up            *)
(* connections still write.  None of its parts is inductive alone.         *)
ServerInv ==
  /\ TypeOK /\ VisitInv /\ FrameInv
  /\ NoLostSlot /\ SocketOwned /\ GivenUpWrites

(* A nonempty set of slots has a smallest one.                             *)
LEMMA SmallestSlot ==
  ASSUME NEW T \in SUBSET Slots, T # {}
  PROVE  \E n \in T : \A m \in T : n <= m
<1>1. T \subseteq Nat
  BY MaxConnectionsAssumption DEF Slots
<1>2. PICK n \in T : \A m \in T : ~(<<m, n>> \in OpToRel(<, Nat))
  BY <1>1, WFMin, NatLessThanWellFounded
<1>3. \A m \in T : ~(m < n)
  BY <1>1, <1>2 DEF OpToRel
<1> QED
  BY <1>1, <1>3

(* server_init links the slots in order, so every slot is reached from 0.  *)
LEMMA InitNoLostSlot == Init => NoLostSlot
<1> SUFFICES ASSUME Init
             PROVE  NoLostSlot
  OBVIOUS
<1>1. Free = Slots
  BY DEF Init, Free, Open
<1>2. /\ freelist_head = 0 /\ 0 \in Slots
      /\ \A c \in Slots : freelist_next[c] = IF c = MaxConnections - 1 THEN NIL ELSE c + 1
  BY MaxConnectionsAssumption DEF Init, InitialNext, Slots
<1>3. FreeListClosed
  BY <1>1, <1>2, MaxConnectionsAssumption DEF FreeListClosed, Slots, NIL
<1>4. FreeListLinear
  BY <1>1, <1>2, MaxConnectionsAssumption DEF FreeListLinear, Slots, NIL
<1>5. FreeListReaches
  <2> SUFFICES ASSUME NEW S \in SUBSET Slots, 0 \in S,
                      \A c \in S : freelist_next[c] # NIL => freelist_next[c] \in S
               PROVE  S = Slots
    BY <1>1, <1>2, MaxConnectionsAssumption DEF FreeListReaches, NIL
  <2>1. SUFFICES ASSUME Slots \ S # {}
                 PROVE  FALSE
    OBVIOUS
  <2>2. PICK n \in Slots \ S : \A m \in Slots \ S : n <= m
    BY <2>1, SmallestSlot
  <2>3. n - 1 \in S
    BY <2>2, MaxConnectionsAssumption DEF Slots
  <2>4. freelist_next[n - 1] = n
    BY <1>2, <2>2, <2>3, MaxConnectionsAssumption DEF Slots
  <2> QED
    BY <2>2, <2>3, <2>4, MaxConnectionsAssumption DEF Slots, NIL
<1> QED
  BY <1>3, <1>4, <1>5 DEF NoLostSlot

LEMMA InitServerInv == Init => ServerInv
<1> SUFFICES ASSUME Init
             PROVE  ServerInv
  OBVIOUS
<1>1. \A c \in Slots : ~Open(c)
  BY DEF Init, Open
<1>2. VisitInv /\ FrameInv /\ GivenUpWrites
  BY <1>1 DEF Init, VisitInv, FrameInv, GivenUpWrites
<1>3. SocketOwned
  BY <1>1 DEF Init, SocketOwned
<1> QED
  BY <1>2, <1>3, InitTypeOK, InitNoLostSlot DEF ServerInv

LEMMA NextServerInv == ServerInv /\ [Next]_vars => ServerInv'
  BY NextTypeOK, NextVisitInv, NextFrameInv, NextNoLostSlot, NextSocketOwned,
     NextGivenUpWrites
     DEF ServerInv

LEMMA ServerInvHolds == Spec => []ServerInv
  BY InitServerInv, NextServerInv, PTL DEF Spec

(* Every variable of server.cc keeps its type, for every number of slots   *)
(* and sockets and every buffer size of at least 2.                        *)
THEOREM TypeCorrect == Spec => []TypeOK
<1>1. ServerInv => TypeOK
  BY DEF ServerInv
<1> QED
  BY <1>1, ServerInvHolds, PTL

(* server_alloc_connection and server_free_connection never lose a slot    *)
(* and never hand out one in use.                                          *)
THEOREM FreeListSafe == Spec => []NoLostSlot
<1>1. ServerInv => NoLostSlot
  BY DEF ServerInv
<1> QED
  BY <1>1, ServerInvHolds, PTL

(* Every open handle belongs to one live slot, and the other way round.    *)
THEOREM SocketsSafe == Spec => []SocketOwned
<1>1. ServerInv => SocketOwned
  BY DEF ServerInv
<1> QED
  BY <1>1, ServerInvHolds, PTL

(* connection_resume_reading never asks recv for more than fits readbuf.   *)
THEOREM ReaderSafe == Spec => []ReadInBounds
<1>1. ServerInv => ReadInBounds
  <2> SUFFICES ASSUME ServerInv, NEW c \in Slots, Open(c)
               PROVE  Len(readbuf[c]) + bytes_to_read[c] <= ReadbufSize
    BY DEF ReadInBounds
  <2>1. Len(readbuf[c]) \in Nat /\ bytes_to_read[c] \in Nat
    BY DEF ServerInv, TypeOK
  <2> QED
    BY <2>1, ServerAssumption DEF ServerInv, FrameInv
<1> QED
  BY <1>1, ServerInvHolds, PTL

(* A connection that ended, whatever ended it, does not outlive its visit. *)
THEOREM EndedIsDropped == Spec => []NoZombie
<1>1. ServerInv => NoZombie
  BY DEF ServerInv, VisitInv, GivenUpWrites, NoZombie
<1> QED
  BY <1>1, ServerInvHolds, PTL

-----------------------------------------------------------------------------
(***************************************************************************)
(* The assertion of server_poll.                                           *)
(***************************************************************************)

(* From the poll to the end of the visits, no slot in use has NVAL.        *)
PollInv ==
  pc \notin {"accept", "poll"} =>
    pc # "halted" /\ \A c \in Slots : Open(c) => "NVAL" \notin revents[c]

(* What a poll reports: every slot in use has an open socket then.         *)
LEMMA PollReports ==
  ASSUME ServerInv, Poll
  PROVE  PollInv'
<1>1. pc = "poll" /\ fd' = fd /\ pc' = "visit"
  BY DEF Poll, freeVars
<1>2. \A c \in Slots : Open(c) => os[fd[c]] = "open"
  BY <1>1 DEF ServerInv, VisitInv, SocketOwned
<1>3. \A c \in Slots : Open(c) => "NVAL" \notin revents'[c]
  BY <1>2 DEF Poll, Events
<1> QED
  BY <1>1, <1>3 DEF PollInv, Open

LEMMA NextPollInv ==
  ASSUME ServerInv, PollInv, [Next]_vars, ~PollMayFail
  PROVE  PollInv'
<1> USE DEF freeVars, Goto, Open
<1>1. CASE Accepting
  BY <1>1 DEF PollInv, Accepting, Accepts, AcceptNone, AcceptConnection, RejectConnection,
              AcceptError
<1>2. CASE Polling
  BY <1>2, PollReports DEF Polling, PollFails
<1>3. ASSUME NEW c \in Slots, Visit(c)
      PROVE  PollInv'
  BY <1>3 DEF PollInv, Visit, VisitEmpty, AssertFails, VisitHangup, VisitReady, Visiting,
              Advance, AfterReading
<1>4. ASSUME NEW c \in Slots, Recv(c)
      PROVE  PollInv'
  <2>1. UNCHANGED <<fd, revents>> /\ pc = "read" /\ pc' \in {"read", "write", "status"}
    <3>1. CASE RecvError(c) \/ RecvNothing(c) \/ RecvOversize(c) \/ RecvWouldBlock(c)
      BY <3>1 DEF RecvError, RecvNothing, RecvOversize, RecvWouldBlock, Receives, Reading,
                  AfterReading
    <3>2. CASE RecvPartial(c) \/ RecvHeader(c) \/ RecvMessage(c)
      BY <3>2 DEF RecvPartial, RecvHeader, RecvMessage, Receives, Reading
    <3> QED
      BY <1>4, <3>1, <3>2 DEF Recv
  <2> QED
    BY <2>1 DEF PollInv
<1>5. ASSUME NEW c \in Slots, Write(c)
      PROVE  PollInv'
  <2>1. UNCHANGED <<fd, revents>> /\ pc = "write" /\ pc' \in {"write", "status"}
    BY <1>5 DEF Write, WriteSkipped, RequestOutput, Send, SendWouldBlock, SendError,
                Sends, Writing
  <2> QED
    BY <2>1 DEF PollInv
<1>6. ASSUME NEW c \in Slots, Settle(c)
      PROVE  PollInv'
  <2>1. CASE Drop(c)
    BY <2>1 DEF PollInv, ServerInv, TypeOK, Drop, FreeConnection, Advance
  <2>2. CASE ~Drop(c)
    BY <1>6, <2>2 DEF PollInv, Settle, RequestStatus, StatusKnown, Keep, Settling, Advance
  <2> QED
    BY <2>1, <2>2
<1>7. CASE PeerStep
  BY <1>7 DEF PollInv, PeerStep, Connect, PeerSend, PeerFin, PeerReset, PeerRead,
              Lingered, serverVars
<1>8. CASE UNCHANGED vars
  BY <1>8 DEF PollInv, vars
<1> QED
  BY <1>1, <1>2, <1>3, <1>4, <1>5, <1>6, <1>7, <1>8 DEF Next, ServerStep

(* As long as WSAPoll itself never fails, the assertion of server_poll     *)
(* that no valid descriptor is NVAL holds; ServerPollFailure shows that    *)
(* the premise is needed.                                                  *)
THEOREM PollAssertHolds == ASSUME ~PollMayFail PROVE Spec => []PollAssert
<1>1. Init => PollInv
  BY DEF Init, PollInv
<1>2. ServerInv /\ PollInv /\ [Next]_vars => PollInv'
  BY NextPollInv
<1>3. PollInv => PollAssert
  BY DEF PollInv, PollAssert
<1> QED
  BY <1>1, <1>2, <1>3, ServerInvHolds, PTL DEF Spec

-----------------------------------------------------------------------------
(***************************************************************************)
(* Graceful disconnects.                                                   *)
(***************************************************************************)

(* Only a drained close closes a connection when its status is settled,    *)
(* and it leaves what was sent to the system.                              *)
LEMMA DrainedIsGraceful ==
  ASSUME ServerInv, NEW c \in Slots, NEW answer \in BOOLEAN, CloseDrained(c, answer),
         fd[c] \in Sockets, closed'[c], ~closed[c], fd' = fd
  PROVE  bytes_to_write[c] = 0 /\ sent'[fd[c]] = sent[fd[c]]
<1>1. bytes_to_write[c] = 0 /\ ConnectionClose(c)
  BY DEF CloseDrained
<1>2. TcpClose(fd[c])
  BY <1>1 DEF ConnectionClose
<1>3. sent \in [Sockets -> Nat]
  BY DEF ServerInv, TypeOK
<1>4. sent[fd[c]] \in Nat /\ (sent[fd[c]] > 0 \/ sent[fd[c]] = 0)
  BY <1>3
<1>5. sent'[fd[c]] = IF sent[fd[c]] > 0 THEN sent[fd[c]] ELSE 0
  BY <1>2, <1>3 DEF TcpClose, Released
<1> QED
  BY <1>1, <1>4, <1>5

(* A connection its owner gives up is closed only when everything was      *)
(* handed to the system, and nothing of that is thrown away.               *)
THEOREM DisconnectsGracefully == Spec => GracefulDisconnect
<1>1. ASSUME ServerInv, [Next]_vars
      PROVE  [\A c \in Slots : Settling(c) /\ closed'[c] /\ ~closed[c] =>
                bytes_to_write[c] = 0 /\ sent'[fd[c]] = sent[fd[c]]]_vars
  <2> SUFFICES ASSUME NEW c \in Slots, Settling(c), closed'[c], ~closed[c], Next
               PROVE  bytes_to_write[c] = 0 /\ sent'[fd[c]] = sent[fd[c]]
    BY <1>1 DEF vars, connVars
  <2> USE DEF freeVars, connVars, netVars
  <2>1. pc = "status" /\ c = cur
    BY DEF Settling
  <2>2. fd[c] \in Sockets
    BY <1>1, <2>1, VisitedSocket DEF ServerInv
  <2>3. ~Accepting /\ ~Polling /\ ~PeerStep
    BY <2>1 DEF Accepting, Accepts, AcceptNone, AcceptConnection, RejectConnection,
                AcceptError, Polling, Poll, PollFails, PeerStep, Connect, PeerSend, PeerFin,
                PeerReset, PeerRead, Lingered, serverVars
  <2>4. \A d \in Slots : ~Visit(d) /\ ~Recv(d) /\ ~Write(d)
    BY <2>1 DEF Visit, VisitEmpty, AssertFails, VisitHangup, VisitReady, Visiting,
                Recv, RecvError, RecvWouldBlock, RecvNothing, RecvPartial, RecvHeader,
                RecvOversize, RecvMessage, Receives, Reading, Write, WriteSkipped,
                RequestOutput, Send, SendWouldBlock, SendError, Sends, Writing
  <2>5. PICK d \in Slots : Settle(d)
    BY <2>3, <2>4 DEF Next, ServerStep
  <2>6. PICK answer \in BOOLEAN : CloseDrained(c, answer) /\ fd' = fd
    <3>1. ~Drop(d) /\ ~Keep(d)
      BY <2>1 DEF Drop, Keep
    <3>2. CASE StatusKnown(d)
      BY <2>1, <3>2 DEF StatusKnown, Settling
    <3>3. ASSUME NEW answer \in BOOLEAN, RequestStatus(d, answer)
          PROVE  CloseDrained(c, answer) /\ fd' = fd
      BY <2>1, <3>3 DEF RequestStatus, Settling
    <3> QED
      BY <2>5, <3>1, <3>2, <3>3 DEF Settle
  <2> QED
    BY <1>1, <2>2, <2>6, DrainedIsGraceful
<1> QED
  BY <1>1, ServerInvHolds, PTL DEF Spec, GracefulDisconnect

-----------------------------------------------------------------------------
(***************************************************************************)
(* Server.tla keeps the promise of Callbacks.tla: every step of server.cc  *)
(* is one of the five callbacks, under the condition Callbacks.tla states  *)
(* for it, or is invisible behind server.hh.                               *)
(***************************************************************************)

LEMMA SameSlots == Contract!Slots = Slots
  BY DEF Contract!Slots, Slots

LEMMA InitContract == Init => Contract!CbInit
<1> SUFFICES ASSUME Init
             PROVE  Contract!CbInit
  OBVIOUS
<1>1. \A c \in Slots : fd[c] = INVALID_SOCKET
  BY DEF Init
<1>2. [c \in Slots |-> Open(c)] = [c \in Slots |-> FALSE]
  BY <1>1 DEF Open
<1>4. [c \in Slots |-> Open(c) /\ bytes_to_write[c] > 0] = [c \in Slots |-> FALSE]
  BY <1>1 DEF Open
<1>5. [c \in Slots |-> Open(c) /\ closing[c]] = [c \in Slots |-> FALSE]
  BY <1>1 DEF Open
<1>3. call = Contract!NoCall
  BY DEF Init, NoCall, Contract!NoCall
<1> QED
  BY <1>2, <1>3, <1>4, <1>5, SameSlots DEF Contract!CbInit

(* Steps that change nothing of what the callbacks can tell.               *)
LEMMA Hidden ==
  ASSUME UNCHANGED <<fd, bytes_to_write, closing, call>>
  PROVE  UNCHANGED Contract!cbVars
  BY DEF Contract!cbVars, Open

LEMMA AcceptIsOnAccept ==
  ASSUME ServerInv, NEW s \in Sockets, AcceptConnection(s)
  PROVE  Contract!CbNext
<1>1. PICK c \in Slots : AllocConnection(c) /\ NewConnection(c, s) /\ Called("on_accept", c)
  BY DEF AcceptConnection
<1>2. ~Open(c)
  BY <1>1 DEF ServerInv, AllocConnection, NoLostSlot, FreeListClosed, Free
<1>3. s # INVALID_SOCKET
  BY ServerAssumption
<1>4. /\ fd'[c] = s /\ ~closing'[c] /\ bytes_to_write'[c] = 0
      /\ \A d \in Slots : d # c =>
           fd'[d] = fd[d] /\ closing'[d] = closing[d] /\ bytes_to_write'[d] = bytes_to_write[d]
  BY <1>1 DEF ServerInv, TypeOK, NewConnection
<1>5. /\ Open(c)' /\ \A d \in Slots : d # c => (Open(d)' <=> Open(d))
      /\ ~(bytes_to_write'[c] > 0)
  BY <1>3, <1>4 DEF Open
<1>6. [d \in Slots |-> Open(d)'] = [[d \in Slots |-> Open(d)] EXCEPT ![c] = TRUE]
  BY <1>3, <1>4 DEF Open
<1>7. [d \in Slots |-> Open(d)' /\ bytes_to_write'[d] > 0] =
        [[d \in Slots |-> Open(d) /\ bytes_to_write[d] > 0] EXCEPT ![c] = FALSE]
  BY <1>4, <1>5
<1>8. [d \in Slots |-> Open(d)' /\ closing'[d]] =
        [[d \in Slots |-> Open(d) /\ closing[d]] EXCEPT ![c] = FALSE]
  BY <1>4, <1>5
<1>9. Contract!OnAccept(c)
  BY <1>1, <1>2, <1>6, <1>7, <1>8 DEF Contract!OnAccept, Contract!Called, Called
<1> QED
  BY <1>9, SameSlots DEF Contract!CbNext

LEMMA MessageIsOnRead ==
  ASSUME ServerInv, NEW c \in Slots, RecvMessage(c)
  PROVE  Contract!CbNext
<1>1. Open(c) /\ (closing[c] => bytes_to_write[c] > 0)
  BY DEF ServerInv, VisitInv, GivenUpWrites, RecvMessage, Receives, Reading
<1>2. Contract!OnRead(c)
  BY <1>1 DEF Contract!OnRead, Contract!Called, Called, RecvMessage, freeVars, Open
<1> QED
  BY <1>2, SameSlots DEF Contract!CbNext

LEMMA OutputIsRequested ==
  ASSUME ServerInv, NEW c \in Slots, NEW n \in 0 .. MaxOutput, RequestOutput(c, n)
  PROVE  Contract!CbNext
<1>1. Open(c) /\ bytes_to_write[c] = 0
  BY DEF ServerInv, VisitInv, RequestOutput, Writing
<1>2. bytes_to_write' = [bytes_to_write EXCEPT ![c] = n]
  BY DEF RequestOutput
<1>3. /\ bytes_to_write'[c] = n
      /\ \A d \in Slots : d # c => bytes_to_write'[d] = bytes_to_write[d]
  BY <1>2 DEF ServerInv, TypeOK
<1>4. fd' = fd /\ closing' = closing /\ Called("request_output", c)
  BY DEF RequestOutput, freeVars
<1>5. \E some \in BOOLEAN : Contract!RequestOutput(c, some)
  <2>1. \A d \in Slots : Open(d)' <=> Open(d)
    BY <1>4 DEF Open
  <2>2. ASSUME NEW some \in BOOLEAN, some <=> n > 0
        PROVE  [d \in Slots |-> Open(d)' /\ bytes_to_write'[d] > 0] =
                 [[d \in Slots |-> Open(d) /\ bytes_to_write[d] > 0] EXCEPT ![c] = some]
    BY <1>1, <1>3, <2>1, <2>2
  <2>3. ASSUME NEW some \in BOOLEAN, some <=> n > 0
        PROVE  Contract!RequestOutput(c, some)
    <3>1. /\ [d \in Slots |-> Open(d)][c]
          /\ ~[d \in Slots |-> Open(d) /\ bytes_to_write[d] > 0][c]
      <4>1. fd[c] # INVALID_SOCKET /\ ~(bytes_to_write[c] > 0)
        BY <1>1 DEF Open
      <4>2. [d \in Slots |-> Open(d)][c]
        BY <4>1 DEF Open
      <4>3. ~[d \in Slots |-> Open(d) /\ bytes_to_write[d] > 0][c]
        BY <4>1, Zenon
      <4> QED
        BY <4>2, <4>3
    <3>2. /\ [d \in Slots |-> Open(d)]' = [d \in Slots |-> Open(d)]
          /\ [d \in Slots |-> Open(d) /\ closing[d]]' =
               [d \in Slots |-> Open(d) /\ closing[d]]
      BY <1>4 DEF Open
    <3>3. Contract!Called("request_output", c)
      BY <1>4 DEF Contract!Called, Called
    <3>4. [d \in Slots |-> Open(d) /\ bytes_to_write[d] > 0]' =
            [[d \in Slots |-> Open(d) /\ bytes_to_write[d] > 0] EXCEPT ![c] = some]
      BY <2>2, <2>3
    <3> QED
      BY <3>1, <3>2, <3>3, <3>4, Zenon DEF Contract!RequestOutput
  <2>4. CASE n > 0
    BY <2>3, <2>4
  <2>5. CASE ~(n > 0)
    BY <2>3, <2>5
  <2> QED
    BY <2>4, <2>5
<1> QED
  BY <1>5, SameSlots DEF Contract!CbNext

LEMMA SendIsOutputSent ==
  ASSUME ServerInv, NEW c \in Slots, Send(c)
  PROVE  Contract!CbNext \/ UNCHANGED Contract!cbVars
<1>1. Open(c) /\ bytes_to_write[c] \in Nat /\ bytes_to_write[c] > 0
  BY DEF ServerInv, TypeOK, VisitInv, Send, Sends, Writing
<1>2. fd' = fd /\ closing' = closing /\ call' = call
  BY DEF Send, freeVars
<1>3. \A d \in Slots : d # c => bytes_to_write'[d] = bytes_to_write[d]
  BY DEF ServerInv, TypeOK, Send
<1>4. CASE bytes_to_write'[c] > 0
  BY <1>1, <1>2, <1>3, <1>4 DEF Contract!cbVars, Open
<1>5. CASE ~(bytes_to_write'[c] > 0)
  <2>1. Contract!OutputSent(c)
    BY <1>1, <1>2, <1>3, <1>5 DEF Contract!OutputSent, Open
  <2> QED
    BY <2>1, SameSlots DEF Contract!CbNext
<1> QED
  BY <1>4, <1>5

LEMMA StatusIsRequested ==
  ASSUME ServerInv, NEW c \in Slots, NEW answer \in BOOLEAN, RequestStatus(c, answer)
  PROVE  Contract!CbNext
<1>1. Open(c) /\ ~closing[c]
  BY DEF ServerInv, VisitInv, RequestStatus, Settling
<1>2. /\ closing'[c] = answer
      /\ \A d \in Slots : d # c => closing'[d] = closing[d]
  BY DEF ServerInv, TypeOK, RequestStatus
<1>3. fd' = fd /\ bytes_to_write' = bytes_to_write /\ Called("request_status", c)
  BY DEF RequestStatus, freeVars
<1>4. Contract!RequestStatus(c, answer)
  BY <1>1, <1>2, <1>3 DEF Contract!RequestStatus, Contract!Called, Called, Open
<1> QED
  BY <1>4, SameSlots DEF Contract!CbNext

LEMMA DropIsOnDrop ==
  ASSUME ServerInv, NEW c \in Slots, Drop(c)
  PROVE  Contract!CbNext
<1>1. Open(c)
  BY DEF ServerInv, VisitInv, Drop
<1>2. /\ fd'[c] = INVALID_SOCKET
      /\ \A d \in Slots : d # c => fd'[d] = fd[d]
  BY DEF ServerInv, TypeOK, Drop, FreeConnection
<1>3. closing' = closing /\ bytes_to_write' = bytes_to_write /\ Called("on_drop", c)
  BY DEF Drop, connVars
<1>4. Contract!OnDrop(c)
  BY <1>1, <1>2, <1>3 DEF Contract!OnDrop, Contract!Called, Called, Open
<1> QED
  BY <1>4, SameSlots DEF Contract!CbNext

(* Every step of the server and of the peers is a callback or hidden.      *)
LEMMA NextContract ==
  ASSUME ServerInv, [Next]_vars
  PROVE  [Contract!CbNext]_(Contract!cbVars)
<1> USE DEF freeVars, connVars
<1>1. CASE Accepting
  <2>1. ASSUME NEW s \in Sockets, RejectConnection(s) \/ AcceptError(s)
        PROVE  UNCHANGED Contract!cbVars
    BY <2>1, Hidden DEF RejectConnection, AcceptError
  <2>2. CASE AcceptNone
    BY <2>2, Hidden DEF AcceptNone
  <2> QED
    BY <1>1, <2>1, <2>2, AcceptIsOnAccept DEF Accepting
<1>2. CASE Polling
  BY <1>2, Hidden DEF Polling, Poll, PollFails
<1>3. ASSUME NEW c \in Slots, Visit(c)
      PROVE  UNCHANGED Contract!cbVars
  BY <1>3, Hidden DEF Visit, VisitEmpty, AssertFails, VisitHangup, VisitReady
<1>4. ASSUME NEW c \in Slots, Recv(c)
      PROVE  Contract!CbNext \/ UNCHANGED Contract!cbVars
  <2>1. CASE RecvMessage(c)
    BY <2>1, MessageIsOnRead
  <2>2. CASE ~RecvMessage(c)
    BY <1>4, <2>2, Hidden DEF Recv, RecvError, RecvWouldBlock, RecvNothing, RecvPartial,
                              RecvHeader, RecvOversize
  <2> QED
    BY <2>1, <2>2
<1>5. ASSUME NEW c \in Slots, Write(c)
      PROVE  Contract!CbNext \/ UNCHANGED Contract!cbVars
  <2>1. CASE WriteSkipped(c) \/ SendWouldBlock(c) \/ SendError(c)
    BY <2>1, Hidden DEF WriteSkipped, SendWouldBlock, SendError
  <2> QED
    BY <1>5, <2>1, OutputIsRequested, SendIsOutputSent DEF Write
<1>6. ASSUME NEW c \in Slots, Settle(c)
      PROVE  Contract!CbNext \/ UNCHANGED Contract!cbVars
  <2>1. CASE StatusKnown(c) \/ Keep(c)
    BY <2>1, Hidden DEF StatusKnown, Keep
  <2> QED
    BY <1>6, <2>1, StatusIsRequested, DropIsOnDrop DEF Settle
<1>7. CASE PeerStep
  BY <1>7, Hidden DEF PeerStep, Connect, PeerSend, PeerFin, PeerReset, PeerRead,
                      Lingered, serverVars
<1>8. CASE UNCHANGED vars
  BY <1>8, Hidden DEF vars
<1> QED
  BY <1>1, <1>2, <1>3, <1>4, <1>5, <1>6, <1>7, <1>8 DEF Next, ServerStep

(* server.cc calls the five callbacks in the order and under the           *)
(* conditions that Callbacks.tla promises to the code behind them, for any *)
(* number of slots, any peers and any owner.                               *)
THEOREM ServerKeepsContract == Spec => CallbackContract
  BY InitContract, NextContract, ServerInvHolds, PTL
     DEF Spec, CallbackContract, Contract!CbSpec

-----------------------------------------------------------------------------
(* THE FRAME READER *)

Frame(s, i) == SubSeq(s, i + 2, i + 1 + LengthAt(s, i))
After(s, i) == i + 2 + LengthAt(s, i)

LEMMA WholeFrame ==
  ASSUME NEW s, Len(s) \in Nat, NEW i \in Nat \ {0}, WholeAt(s, i)
  PROVE  /\ LengthAt(s, i) \in Nat \ {0} /\ LengthAt(s, i) <= ReadbufSize
         /\ i + 1 <= Len(s) /\ i + 1 + LengthAt(s, i) <= Len(s)
         /\ After(s, i) \in Nat /\ i < After(s, i) /\ After(s, i) <= Len(s) + 1
<1> DEFINE n == LengthAt(s, i)
<1>1. n \in 1 .. ReadbufSize /\ i + 1 <= Len(s) /\ i + 1 + n <= Len(s)
  BY DEF WholeAt
<1> HIDE DEF n
<1>2. ReadbufSize \in Nat
  BY ServerAssumption
<1>3. /\ n \in Nat \ {0} /\ n <= ReadbufSize
      /\ i + 2 + n \in Nat /\ i < i + 2 + n /\ i + 2 + n <= Len(s) + 1
  BY <1>1, <1>2
<1> QED
  BY <1>1, <1>3 DEF n, After

LEMMA LeastNumber ==
  ASSUME NEW T \in SUBSET Nat, T # {}
  PROVE  \E n \in T : \A m \in T : n <= m
<1>1. T \subseteq Nat
  OBVIOUS
<1>2. PICK n \in T : \A m \in T : ~(<<m, n>> \in OpToRel(<, Nat))
  BY <1>1, WFMin, NatLessThanWellFounded
<1>3. \A m \in T : ~(m < n)
  BY <1>1, <1>2 DEF OpToRel
<1> QED
  BY <1>1, <1>3

-----------------------------------------------------------------------------
(***************************************************************************)
(* The recursive function of the reference parser, for the last k starting *)
(* points of a stream.                                                     *)
(***************************************************************************)
IsFrom(s, f, k) ==
  f = [i \in Len(s) + 2 - k .. Len(s) + 1 |->
         IF WholeAt(s, i) THEN <<Frame(s, i)>> \o f[After(s, i)] ELSE <<>>]

LEMMA FromExists ==
  ASSUME NEW s, Len(s) \in Nat
  PROVE  \E f : IsFrom(s, f, Len(s) + 1)
<1> DEFINE L == Len(s)
           Bad == {k \in 0 .. L + 1 : ~ \E f : IsFrom(s, f, k)}
<1> SUFFICES ASSUME Bad # {} PROVE FALSE
  <2>1. L + 1 \in 0 .. L + 1
    OBVIOUS
  <2> QED
    BY <2>1
<1>1. Bad \in SUBSET Nat
  OBVIOUS
<1> HIDE DEF Bad
<1>2. PICK k \in Bad : \A j \in Bad : k <= j
  BY <1>1, LeastNumber
<1> USE DEF Bad
<1>3. k # 0
  <2> DEFINE f == [i \in L + 2 .. L + 1 |-> <<>>]
  <2>1. f = [i \in L + 2 - 0 .. L + 1 |->
               IF WholeAt(s, i) THEN <<Frame(s, i)>> \o f[After(s, i)] ELSE <<>>]
    OBVIOUS
  <2> HIDE DEF f
  <2>2. IsFrom(s, f, 0)
    BY <2>1 DEF IsFrom
  <2> QED
    BY <1>2, <2>2
<1>4. k - 1 \in 0 .. L + 1 /\ k - 1 \notin Bad /\ k \in 1 .. L + 1
  BY <1>2, <1>3
<1>5. PICK f : IsFrom(s, f, k - 1)
  BY <1>4
<1> DEFINE i0 == L + 2 - k
           Value(i) == IF WholeAt(s, i) THEN <<Frame(s, i)>> \o f[After(s, i)] ELSE <<>>
           g == [i \in i0 .. L + 1 |-> IF i = i0 THEN Value(i) ELSE f[i]]
<1>6. \A i \in i0 + 1 .. L + 1 : f[i] = Value(i)
  <2>1. L + 2 - (k - 1) = i0 + 1
    BY <1>4
  <2> QED
    BY <1>5, <2>1 DEF IsFrom
<1>7. \A i \in i0 .. L + 1 : g[i] = Value(i)
  BY <1>4, <1>6
<1>8. \A i \in i0 .. L + 1 : WholeAt(s, i) => g[After(s, i)] = f[After(s, i)]
  <2> SUFFICES ASSUME NEW i \in i0 .. L + 1, WholeAt(s, i)
               PROVE  g[After(s, i)] = f[After(s, i)]
    OBVIOUS
  <2>1. i \in Nat \ {0}
    BY <1>4
  <2>2. After(s, i) \in Nat /\ i < After(s, i) /\ After(s, i) <= L + 1
    BY <2>1, WholeFrame
  <2>3. After(s, i) \in i0 .. L + 1 /\ After(s, i) # i0
    BY <1>4, <2>2
  <2> HIDE DEF i0
  <2> QED
    BY <2>3
<1>9. g = [i \in i0 .. L + 1 |-> g[i]]
  OBVIOUS
<1>10. \A i \in i0 .. L + 1 :
         g[i] = IF WholeAt(s, i) THEN <<Frame(s, i)>> \o g[After(s, i)] ELSE <<>>
  BY <1>7, <1>8
<1> HIDE DEF g
<1>11. IsFrom(s, g, k)
  BY <1>9, <1>10 DEF IsFrom
<1> QED
  BY <1>2, <1>11

LEMMA MessagesByTable ==
  ASSUME NEW s, Len(s) \in Nat
  PROVE  \E f : /\ Messages(s) = f[1]
                /\ \A i \in 1 .. Len(s) + 1 :
                     f[i] = IF WholeAt(s, i) THEN <<Frame(s, i)>> \o f[After(s, i)] ELSE <<>>
<1> DEFINE IsTable(f) ==
      f = [i \in 1 .. Len(s) + 1 |->
             IF WholeAt(s, i) THEN <<Frame(s, i)>> \o f[After(s, i)] ELSE <<>>]
           from == CHOOSE f : IsTable(f)
<1>1. \E f : IsTable(f)
  <2>1. Len(s) + 2 - (Len(s) + 1) = 1
    OBVIOUS
  <2> QED
    BY <2>1, FromExists DEF IsFrom
<1>2. IsTable(from)
  BY <1>1
<1>3. Messages(s) = from[1]
  BY DEF Messages, Frame, After
<1> HIDE DEF from
<1>4. \A i \in 1 .. Len(s) + 1 :
        from[i] = IF WholeAt(s, i) THEN <<Frame(s, i)>> \o from[After(s, i)] ELSE <<>>
  BY <1>2
<1> QED
  BY <1>3, <1>4

-----------------------------------------------------------------------------
(***************************************************************************)
(* A parse of a stream: the frames start at the positions ps, the last of  *)
(* which is where the next frame is to start, and hold the messages ms.    *)
(***************************************************************************)
Positions == Nat \ {0}

Parses(s, ps, ms) ==
  /\ ps \in Seq(Positions) /\ ms \in Seq(Seq(Bytes)) /\ Len(ps) = Len(ms) + 1
  /\ ps[1] = 1
  /\ \A k \in 1 .. Len(ps) : ps[k] <= Len(s) + 1
  /\ \A k \in 1 .. Len(ms) :
       WholeAt(s, ps[k]) /\ ms[k] = Frame(s, ps[k]) /\ ps[k + 1] = After(s, ps[k])

(* If no whole frame follows, its messages are all there are.              *)
LEMMA ParseIsMessages ==
  ASSUME NEW s \in Seq(Bytes), NEW ps, NEW ms, Parses(s, ps, ms),
         ~WholeAt(s, ps[Len(ps)])
  PROVE  Messages(s) = ms
<1> DEFINE m == Len(ms)
<1>1. /\ m \in Nat /\ Len(ps) = m + 1 /\ ps[1] = 1 /\ Len(s) \in Nat
      /\ ms \in Seq(Seq(Bytes)) /\ ~WholeAt(s, ps[m + 1])
  BY DEF Parses
<1>2. \A k \in 1 .. m + 1 : ps[k] \in 1 .. Len(s) + 1
  <2>1. \A k \in 1 .. Len(ps) : ps[k] \in Positions /\ ps[k] <= Len(s) + 1
    BY DEF Parses
  <2> QED
    BY <1>1, <2>1 DEF Positions
<1>3. \A k \in 1 .. m :
        WholeAt(s, ps[k]) /\ ms[k] = Frame(s, ps[k]) /\ ps[k + 1] = After(s, ps[k])
  BY DEF Parses
<1>4. PICK f : /\ Messages(s) = f[1]
               /\ \A i \in 1 .. Len(s) + 1 :
                    f[i] = IF WholeAt(s, i) THEN <<Frame(s, i)>> \o f[After(s, i)] ELSE <<>>
  BY <1>1, MessagesByTable
<1> HIDE DEF m
<1> DEFINE Rest(k) == SubSeq(ms, k, m)
           Bad == {j \in 0 .. m : f[ps[m + 1 - j]] # Rest(m + 1 - j)}
<1>5. ASSUME Bad # {} PROVE FALSE
  <2>1. Bad \in SUBSET Nat
    OBVIOUS
  <2> HIDE DEF Bad
  <2>2. PICK j \in Bad : \A i \in Bad : j <= i
    BY <1>5, <2>1, LeastNumber
  <2> USE DEF Bad
  <2> DEFINE k == m + 1 - j
  <2>3. j \in 0 .. m /\ k \in 1 .. m + 1 /\ f[ps[k]] # Rest(k)
    BY <1>1, <2>2
  <2>4. CASE j = 0
    <3>1. k = m + 1 /\ f[ps[k]] = <<>>
      <4>1. k = m + 1 /\ m + 1 \in 1 .. m + 1
        BY <1>1, <2>4
      <4>2. ps[m + 1] \in 1 .. Len(s) + 1
        BY <1>2, <4>1
      <4>3. f[ps[m + 1]] = <<>>
        BY <1>1, <1>4, <4>2
      <4> QED
        BY <4>1, <4>3
    <3>2. Rest(m + 1) = <<>>
      BY <1>1
    <3> QED
      BY <2>3, <3>1, <3>2
  <2>5. CASE j # 0
    <3>1. j - 1 \in 0 .. m /\ ~(j <= j - 1) /\ m + 1 - (j - 1) = k + 1 /\ k \in 1 .. m
      BY <1>1, <2>3, <2>5
    <3>2. f[ps[k + 1]] = Rest(k + 1)
      <4>1. j - 1 \notin Bad
        BY <2>2, <3>1
      <4> QED
        BY <3>1, <4>1
    <3>3. f[ps[k]] = <<Frame(s, ps[k])>> \o f[After(s, ps[k])]
      BY ZenonT(40), <1>2, <1>3, <1>4, <2>3, <3>1
    <3>4. f[ps[k]] = <<ms[k]>> \o Rest(k + 1)
      BY <1>3, <3>1, <3>2, <3>3
    <3>5. Rest(k) = <<ms[k]>> \o Rest(k + 1)
      <4>1. k \in 1 .. Len(ms) /\ m \in k .. Len(ms)
        BY <1>1, <3>1 DEF m
      <4> QED
        BY <1>1, <4>1, SubSeqRecursiveFirst
    <3> QED
      BY <2>3, <3>4, <3>5
  <2> QED
    BY <2>4, <2>5
<1>6. f[ps[1]] = Rest(1)
  <2>1. m \in 0 .. m /\ m + 1 - m = 1
    BY <1>1
  <2>2. m \notin Bad
    BY <1>5
  <2> QED
    BY <2>1, <2>2
<1>7. Rest(1) = ms
  BY <1>1, SubSeqFull DEF m
<1> QED
  BY <1>1, <1>4, <1>6, <1>7

(* A stream that goes on is parsed as before.                              *)
GoesOn(s, t) == Len(s) <= Len(t) /\ \A i \in 1 .. Len(s) : t[i] = s[i]

LEMMA SameSubSeq ==
  ASSUME NEW s \in Seq(Bytes), NEW t \in Seq(Bytes), GoesOn(s, t),
         NEW a \in Nat \ {0}, NEW b \in Nat, b <= Len(s)
  PROVE  SubSeq(t, a, b) = SubSeq(s, a, b)
  BY DEF GoesOn

LEMMA SameFrame ==
  ASSUME NEW s \in Seq(Bytes), NEW t \in Seq(Bytes), GoesOn(s, t),
         NEW i \in Positions, WholeAt(s, i)
  PROVE  WholeAt(t, i) /\ Frame(t, i) = Frame(s, i) /\ After(t, i) = After(s, i)
<1>1. /\ LengthAt(s, i) \in Positions /\ i + 1 <= Len(s)
      /\ i + 1 + LengthAt(s, i) <= Len(s)
  BY WholeFrame DEF Positions
<1>2. t[i] = s[i] /\ t[i + 1] = s[i + 1] /\ Len(s) <= Len(t)
  BY <1>1 DEF GoesOn, Positions
<1>3. LengthAt(t, i) = LengthAt(s, i)
  BY <1>2 DEF LengthAt
<1>4. WholeAt(t, i)
  BY <1>1, <1>2, <1>3 DEF WholeAt, Positions
<1>5. Frame(t, i) = Frame(s, i)
  <2> DEFINE a == i + 2
             b == i + 1 + LengthAt(s, i)
  <2>1. a \in Nat \ {0} /\ b \in Nat /\ b <= Len(s)
    BY <1>1 DEF Positions
  <2> HIDE DEF a, b
  <2>2. SubSeq(t, a, b) = SubSeq(s, a, b)
    BY <2>1, SameSubSeq
  <2> QED
    BY <1>3, <2>2 DEF a, b, Frame
<1> QED
  BY <1>3, <1>4, <1>5 DEF After

LEMMA ParseGoesOn ==
  ASSUME NEW s \in Seq(Bytes), NEW t \in Seq(Bytes), GoesOn(s, t),
         NEW ps, NEW ms, Parses(s, ps, ms)
  PROVE  Parses(t, ps, ms)
<1>1. \A k \in 1 .. Len(ms) :
        /\ WholeAt(s, ps[k]) /\ ms[k] = Frame(s, ps[k]) /\ ps[k + 1] = After(s, ps[k])
        /\ ps[k] \in Positions
  BY DEF Parses
<1>2. \A k \in 1 .. Len(ms) :
        WholeAt(t, ps[k]) /\ ms[k] = Frame(t, ps[k]) /\ ps[k + 1] = After(t, ps[k])
  BY <1>1, SameFrame
<1>3. \A k \in 1 .. Len(ps) : ps[k] <= Len(t) + 1
  <2>1. \A k \in 1 .. Len(ps) : ps[k] <= Len(s) + 1 /\ ps[k] \in Positions
    BY DEF Parses
  <2> QED
    BY <2>1 DEF GoesOn, Positions
<1> QED
  BY <1>2, <1>3 DEF Parses

(* A whole frame at the end of a parse is the next one of it.              *)
LEMMA ParseNext ==
  ASSUME NEW s \in Seq(Bytes), NEW ps, NEW ms, Parses(s, ps, ms),
         NEW e, e = ps[Len(ps)], WholeAt(s, e)
  PROVE  Parses(s, Append(ps, After(s, e)), Append(ms, Frame(s, e)))
<1> DEFINE n == Len(ms)
           qs == Append(ps, After(s, e))
           ns == Append(ms, Frame(s, e))
<1>1. /\ ps \in Seq(Positions) /\ ms \in Seq(Seq(Bytes)) /\ n \in Nat /\ Len(ps) = n + 1
      /\ ps[1] = 1
  BY DEF Parses
<1>2. e \in Positions
  <2>1. Len(ps) \in 1 .. Len(ps)
    BY <1>1
  <2> QED
    BY <1>1, <2>1
<1>3. /\ LengthAt(s, e) \in Nat \ {0} /\ e + 1 + LengthAt(s, e) <= Len(s)
      /\ After(s, e) \in Positions /\ After(s, e) <= Len(s) + 1
  BY <1>2, WholeFrame DEF Positions
<1>4. Frame(s, e) \in Seq(Bytes)
  BY SMTT(40), <1>2, <1>3 DEF Frame, Positions
<1>5. /\ qs \in Seq(Positions) /\ Len(qs) = n + 2 /\ qs[n + 2] = After(s, e)
      /\ \A k \in 1 .. n + 1 : qs[k] = ps[k]
  BY <1>1, <1>3, AppendProperties
<1>6. /\ ns \in Seq(Seq(Bytes)) /\ Len(ns) = n + 1 /\ ns[n + 1] = Frame(s, e)
      /\ \A k \in 1 .. n : ns[k] = ms[k]
  BY <1>1, <1>4, AppendProperties
<1> HIDE DEF qs, ns
<1>7. \A k \in 1 .. n + 2 : qs[k] <= Len(s) + 1
  <2>1. \A k \in 1 .. n + 1 : ps[k] <= Len(s) + 1
    BY <1>1 DEF Parses
  <2> QED
    BY SMTT(40), <1>1, <1>3, <1>5, <2>1
<1>8. ASSUME NEW k \in 1 .. n + 1
      PROVE  WholeAt(s, qs[k]) /\ ns[k] = Frame(s, qs[k]) /\ qs[k + 1] = After(s, qs[k])
  <2>1. CASE k = n + 1
    <3>1. qs[k] = e /\ k + 1 = n + 2
      BY <1>1, <1>5, <2>1
    <3> QED
      BY <1>5, <1>6, <2>1, <3>1
  <2>2. CASE k # n + 1
    <3>1. k \in 1 .. n /\ k + 1 \in 1 .. n + 1
      BY <1>1, <2>2
    <3>2. WholeAt(s, ps[k]) /\ ms[k] = Frame(s, ps[k]) /\ ps[k + 1] = After(s, ps[k])
      BY <3>1 DEF Parses
    <3> QED
      BY <1>5, <1>6, <3>1, <3>2
  <2> QED
    BY <2>1, <2>2
<1>9. qs[1] = 1 /\ Len(qs) = Len(ns) + 1
  BY <1>1, <1>5, <1>6
<1> QED
  BY <1>5, <1>6, <1>7, <1>8, <1>9 DEF Parses, qs, ns

-----------------------------------------------------------------------------
(***************************************************************************)
(* Where the reader stands.  s is what was received, rb what readbuf has   *)
(* of it, n is bytes_to_read and len message_length; the frame being read  *)
(* starts at e.                                                            *)
(***************************************************************************)

(* After the first o bytes s is rb.                                        *)
Ends(s, o, rb) == Len(s) = o + Len(rb) /\ \A i \in 1 .. Len(rb) : s[o + i] = rb[i]

InHeader(s, e, rb, n, len) ==
  /\ len = 0 /\ n \in Nat \ {0} /\ Len(rb) + n = 2
  /\ Ends(s, e - 1, rb)

InData(s, e, rb, n, len) ==
  /\ len \in 1 .. ReadbufSize /\ n \in Nat \ {0} /\ Len(rb) + n = len
  /\ LengthAt(s, e) = len
  /\ Ends(s, e + 1, rb)

(* An empty frame, or one that is too large, is the end of the connection. *)
AtEnd(s, e, n) ==
  n = 0 /\ Len(s) = e + 1 /\ LengthAt(s, e) \notin 1 .. ReadbufSize

Stands(s, e, rb, n, len) ==
  InHeader(s, e, rb, n, len) \/ InData(s, e, rb, n, len) \/ AtEnd(s, e, n)

(* The reader has delivered ms and got that far.                           *)
Reads(s, ms, rb, n, len) ==
  \E ps : Parses(s, ps, ms) /\ Stands(s, ps[Len(ps)], rb, n, len)

LEMMA LastPosition ==
  ASSUME NEW s, NEW ps, NEW ms, Parses(s, ps, ms)
  PROVE  ps[Len(ps)] \in Positions
<1>1. ps \in Seq(Positions) /\ Len(ps) \in 1 .. Len(ps)
  BY DEF Parses
<1> QED
  BY <1>1

(* The messages delivered are those of the stream so far.                  *)
LEMMA ReadsMessages ==
  ASSUME NEW s \in Seq(Bytes), NEW ms, NEW rb \in Seq(Bytes), NEW n, NEW len,
         Reads(s, ms, rb, n, len)
  PROVE  Messages(s) = ms
<1>1. PICK ps : Parses(s, ps, ms) /\ Stands(s, ps[Len(ps)], rb, n, len)
  BY DEF Reads
<1> DEFINE e == ps[Len(ps)]
<1>2. e \in Nat \ {0}
  BY <1>1, LastPosition DEF Positions
<1>3. Stands(s, e, rb, n, len)
  BY <1>1
<1> HIDE DEF e
<1>4. ~WholeAt(s, e)
  <2>1. CASE InHeader(s, e, rb, n, len)
    BY <1>2, <2>1 DEF InHeader, Ends, WholeAt
  <2>2. CASE InData(s, e, rb, n, len)
    BY <1>2, <2>2, ServerAssumption DEF InData, Ends, WholeAt
  <2>3. CASE AtEnd(s, e, n)
    BY <2>3 DEF AtEnd, WholeAt
  <2> QED
    BY <1>3, <2>1, <2>2, <2>3 DEF Stands
<1> QED
  BY <1>1, <1>4, ParseIsMessages DEF e

LEMMA ReadsFirst == Reads(<<>>, <<>>, <<>>, 2, 0)
<1>1. Parses(<<>>, <<1>>, <<>>)
  BY DEF Parses, Positions
<1>2. Stands(<<>>, 1, <<>>, 2, 0)
  BY DEF Stands, InHeader, Ends
<1>3. <<1>>[Len(<<1>>)] = 1
  OBVIOUS
<1> QED
  BY <1>1, <1>2, <1>3 DEF Reads

(* Bytes that are received go to the end of both.                          *)
LEMMA EndsMore ==
  ASSUME NEW s \in Seq(Bytes), NEW rb \in Seq(Bytes), NEW o \in Nat, Ends(s, o, rb),
         NEW x \in Seq(Bytes)
  PROVE  /\ Ends(s \o x, o, rb \o x)
         /\ GoesOn(s, s \o x)
         /\ s \o x \in Seq(Bytes) /\ rb \o x \in Seq(Bytes)
         /\ Len(rb \o x) = Len(rb) + Len(x)
<1> DEFINE t == s \o x
           fb == rb \o x
           S == Len(s)
           R == Len(rb)
           X == Len(x)
<1>1. /\ t \in Seq(Bytes) /\ Len(t) = S + X /\ fb \in Seq(Bytes) /\ Len(fb) = R + X
      /\ \A i \in 1 .. S + X : t[i] = IF i <= S THEN s[i] ELSE x[i - S]
      /\ \A i \in 1 .. R + X : fb[i] = IF i <= R THEN rb[i] ELSE x[i - R]
  BY ConcatProperties
<1>2. S \in Nat /\ R \in Nat /\ X \in Nat /\ S = o + R /\ \A i \in 1 .. R : s[o + i] = rb[i]
  BY DEF Ends
<1> HIDE DEF t, fb, S, R, X
<1>3. \A i \in 1 .. R + X : t[o + i] = fb[i]
  <2> SUFFICES ASSUME NEW i \in 1 .. R + X PROVE t[o + i] = fb[i]
    OBVIOUS
  <2>1. o + i \in 1 .. S + X /\ (o + i <= S <=> i <= R) /\ o + i - S = i - R
    BY <1>2
  <2>2. CASE i <= R
    <3>1. i \in 1 .. R
      BY <1>2, <2>2
    <3>2. t[o + i] = s[o + i] /\ fb[i] = rb[i]
      BY <1>1, <2>1, <2>2
    <3> QED
      BY <1>2, <3>1, <3>2
  <2>3. CASE ~(i <= R)
    <3>1. fb[i] = x[i - R]
      BY <1>1, <2>3
    <3>0. ~(o + i <= S)
      BY <1>2, <2>1, <2>3
    <3> DEFINE j == o + i
    <3>2. j \in 1 .. S + X /\ ~(j <= S) /\ j - S = i - R
      BY <1>2, <2>1, <3>0
    <3> HIDE DEF j
    <3>3. t[j] = x[j - S]
      BY <1>1, <3>2
    <3> QED
      BY <3>1, <3>2, <3>3 DEF j
  <2> QED
    BY <2>2, <2>3
<1>4. Len(t) = o + Len(fb) /\ \A i \in 1 .. Len(fb) : t[o + i] = fb[i]
  BY <1>1, <1>2, <1>3
<1>5. S <= Len(t) /\ \A i \in 1 .. S : t[i] = s[i]
  BY SMTT(40), <1>1, <1>2
<1> QED
  BY <1>1, <1>4, <1>5 DEF t, fb, S, R, X, Ends, GoesOn

(* A frame's length is in its first two bytes.                             *)
LEMMA LengthOfHeader ==
  ASSUME NEW s, NEW e \in Nat \ {0}, NEW rb, Len(rb) = 2, Ends(s, e - 1, rb)
  PROVE  LengthAt(s, e) = HeaderLength(rb)
<1>1. e - 1 + 1 = e /\ e - 1 + 2 = e + 1 /\ 1 \in 1 .. Len(rb) /\ 2 \in 1 .. Len(rb)
  OBVIOUS
<1>2. s[e] = rb[1] /\ s[e + 1] = rb[2]
  BY <1>1 DEF Ends
<1> QED
  BY <1>2 DEF LengthAt, HeaderLength

(* It stays the same when more is received.                                *)
LEMMA SameLength ==
  ASSUME NEW s \in Seq(Bytes), NEW t \in Seq(Bytes), GoesOn(s, t), NEW e \in Nat \ {0},
         e + 1 <= Len(s)
  PROVE  LengthAt(t, e) = LengthAt(s, e)
<1>1. t[e] = s[e] /\ t[e + 1] = s[e + 1]
  BY DEF GoesOn
<1> QED
  BY <1>1 DEF LengthAt

(***************************************************************************)
(* What recv may do, one lemma per action.                                 *)
(***************************************************************************)
LEMMA ReadsPart ==
  ASSUME NEW s \in Seq(Bytes), NEW ms, NEW rb \in Seq(Bytes), NEW n, NEW len,
         Reads(s, ms, rb, n, len), NEW x \in Seq(Bytes), Len(x) > 0, Len(x) < n
  PROVE  Reads(s \o x, ms, rb \o x, n - Len(x), len)
<1>1. PICK ps : Parses(s, ps, ms) /\ Stands(s, ps[Len(ps)], rb, n, len)
  BY DEF Reads
<1> DEFINE e == ps[Len(ps)]
           t == s \o x
           fb == rb \o x
<1>2. e \in Nat \ {0}
  BY <1>1, LastPosition DEF Positions
<1>3. Stands(s, e, rb, n, len)
  BY <1>1
<1>4. Len(x) \in Nat \ {0} /\ Len(rb) \in Nat /\ Len(s) \in Nat
  OBVIOUS
<1> HIDE DEF e
<1>5. CASE InHeader(s, e, rb, n, len)
  <2>1. Ends(s, e - 1, rb) /\ e - 1 \in Nat /\ n \in Nat /\ Len(rb) + n = 2 /\ len = 0
    BY <1>2, <1>5 DEF InHeader
  <2>2. Ends(t, e - 1, fb) /\ GoesOn(s, t) /\ t \in Seq(Bytes) /\ Len(fb) = Len(rb) + Len(x)
    BY <2>1, EndsMore
  <2> HIDE DEF t, fb
  <2>3. n - Len(x) \in Nat \ {0} /\ Len(fb) + (n - Len(x)) = 2
    BY <1>4, <2>1, <2>2
  <2>4. Stands(t, e, fb, n - Len(x), len)
    BY <2>1, <2>2, <2>3 DEF Stands, InHeader
  <2>5. Parses(t, ps, ms)
    BY <1>1, <2>2, ParseGoesOn
  <2> QED
    BY <2>4, <2>5 DEF Reads, e, t, fb
<1>6. CASE InData(s, e, rb, n, len)
  <2>1. /\ Ends(s, e + 1, rb) /\ e + 1 \in Nat /\ n \in Nat /\ Len(rb) + n = len
        /\ len \in 1 .. ReadbufSize /\ LengthAt(s, e) = len /\ e + 1 <= Len(s)
    BY <1>2, <1>4, <1>6 DEF InData, Ends
  <2>2. Ends(t, e + 1, fb) /\ GoesOn(s, t) /\ t \in Seq(Bytes) /\ Len(fb) = Len(rb) + Len(x)
    BY <2>1, EndsMore
  <2> HIDE DEF t, fb
  <2>3. n - Len(x) \in Nat \ {0} /\ Len(fb) + (n - Len(x)) = len
    <3> DEFINE X == Len(x)
               R == Len(rb)
               F == Len(fb)
    <3>1. X \in Nat \ {0} /\ X < n /\ n \in Nat /\ R \in Nat /\ R + n = len /\ F = R + X
      BY <1>4, <2>1, <2>2
    <3> HIDE DEF X, R, F
    <3>2. n - X \in Nat \ {0} /\ F + (n - X) = len
      BY <3>1
    <3> QED
      BY <3>2 DEF X, F
  <2>4. LengthAt(t, e) = len
    BY <1>2, <2>1, <2>2, SameLength
  <2>5. Stands(t, e, fb, n - Len(x), len)
    BY <2>1, <2>2, <2>3, <2>4 DEF Stands, InData
  <2>6. Parses(t, ps, ms)
    BY <1>1, <2>2, ParseGoesOn
  <2> QED
    BY <2>5, <2>6 DEF Reads, e, t, fb
<1>7. CASE AtEnd(s, e, n)
  BY <1>4, <1>7 DEF AtEnd
<1> QED
  BY <1>3, <1>5, <1>6, <1>7 DEF Stands

(* The rest of a header: the frame starts behind what was delivered.       *)
LEMMA HeaderRead ==
  ASSUME NEW s \in Seq(Bytes), NEW ms, NEW rb \in Seq(Bytes), NEW n,
         Reads(s, ms, rb, n, 0), NEW x \in Seq(Bytes), Len(x) > 0, Len(x) = n
  PROVE  \E ps : /\ Parses(s \o x, ps, ms) /\ ps[Len(ps)] \in Nat \ {0}
                 /\ Len(s \o x) = ps[Len(ps)] + 1
                 /\ LengthAt(s \o x, ps[Len(ps)]) = HeaderLength(rb \o x)
<1>1. PICK ps : Parses(s, ps, ms) /\ Stands(s, ps[Len(ps)], rb, n, 0)
  BY DEF Reads
<1> DEFINE e == ps[Len(ps)]
           t == s \o x
           fb == rb \o x
<1>2. e \in Nat \ {0}
  BY <1>1, LastPosition DEF Positions
<1>3. InHeader(s, e, rb, n, 0)
  <2>1. Stands(s, e, rb, n, 0) /\ n # 0
    BY <1>1
  <2>2. 0 \notin 1 .. ReadbufSize
    BY ServerAssumption
  <2> HIDE DEF e
  <2> QED
    BY <2>1, <2>2 DEF Stands, InData, AtEnd
<1> HIDE DEF e
<1>4. Ends(s, e - 1, rb) /\ e - 1 \in Nat /\ Len(rb) + n = 2
  BY <1>2, <1>3 DEF InHeader
<1>5. Ends(t, e - 1, fb) /\ GoesOn(s, t) /\ t \in Seq(Bytes) /\ Len(fb) = 2
  BY <1>4, EndsMore
<1> HIDE DEF t, fb
<1>6. Len(t) = e + 1 /\ LengthAt(t, e) = HeaderLength(fb)
  <2>1. Len(t) = e - 1 + 2
    BY <1>5 DEF Ends
  <2>2. LengthAt(t, e) = HeaderLength(fb)
    BY <1>2, <1>5, LengthOfHeader
  <2> QED
    BY <1>2, <2>1, <2>2
<1>7. Parses(t, ps, ms)
  BY <1>1, <1>5, ParseGoesOn
<1> QED
  BY <1>2, <1>6, <1>7 DEF e, t, fb

LEMMA ReadsHeader ==
  ASSUME NEW s \in Seq(Bytes), NEW ms, NEW rb \in Seq(Bytes), NEW n,
         Reads(s, ms, rb, n, 0), NEW x \in Seq(Bytes), Len(x) > 0, Len(x) = n,
         NEW h \in Nat, h = HeaderLength(rb \o x), h <= ReadbufSize
  PROVE  Reads(s \o x, ms, <<>>, h, h)
<1> DEFINE t == s \o x
<1>1. PICK ps : /\ Parses(t, ps, ms) /\ ps[Len(ps)] \in Nat \ {0}
                /\ Len(t) = ps[Len(ps)] + 1 /\ LengthAt(t, ps[Len(ps)]) = h
  BY HeaderRead
<1> DEFINE e == ps[Len(ps)]
<1> HIDE DEF t
<1>2. e \in Nat \ {0} /\ Len(t) = e + 1 /\ LengthAt(t, e) = h
  BY <1>1
<1> HIDE DEF e
<1>3. Len(<<>>) = 0 /\ 1 .. 0 = {}
  OBVIOUS
<1>4. Ends(t, e + 1, <<>>)
  BY <1>2, <1>3 DEF Ends
<1>5. CASE h = 0
  BY <1>1, <1>2, <1>5, ServerAssumption DEF Reads, Stands, AtEnd, e, t
<1>6. CASE h # 0
  <2>1. h \in 1 .. ReadbufSize /\ h \in Nat \ {0} /\ Len(<<>>) + h = h
    BY <1>3, <1>6, ServerAssumption
  <2>2. Stands(t, e, <<>>, h, h)
    BY <1>2, <1>4, <2>1 DEF Stands, InData
  <2> QED
    BY <1>1, <2>2 DEF Reads, e, t
<1> QED
  BY <1>5, <1>6

LEMMA ReadsOversize ==
  ASSUME NEW s \in Seq(Bytes), NEW ms, NEW rb \in Seq(Bytes), NEW n,
         Reads(s, ms, rb, n, 0), NEW x \in Seq(Bytes), Len(x) > 0, Len(x) = n,
         HeaderLength(rb \o x) > ReadbufSize, HeaderLength(rb \o x) \in Nat
  PROVE  Reads(s \o x, ms, rb \o x, 0, 0)
<1> DEFINE t == s \o x
           h == HeaderLength(rb \o x)
<1>1. PICK ps : /\ Parses(t, ps, ms) /\ ps[Len(ps)] \in Nat \ {0}
                /\ Len(t) = ps[Len(ps)] + 1 /\ LengthAt(t, ps[Len(ps)]) = h
  BY HeaderRead
<1>2. h \notin 1 .. ReadbufSize
  <2>1. h \in Nat /\ h > ReadbufSize
    OBVIOUS
  <2> HIDE DEF h
  <2> QED
    BY <2>1, ServerAssumption
<1> HIDE DEF t, h
<1> QED
  BY <1>1, <1>2 DEF Reads, Stands, AtEnd, t

LEMMA ReadsMessage ==
  ASSUME NEW s \in Seq(Bytes), NEW ms, NEW rb \in Seq(Bytes), NEW n, NEW len,
         Reads(s, ms, rb, n, len), len > 0, NEW x \in Seq(Bytes), Len(x) > 0, Len(x) = n
  PROVE  Reads(s \o x, Append(ms, SubSeq(rb \o x, 1, len)), <<>>, 2, 0)
<1>1. PICK ps : Parses(s, ps, ms) /\ Stands(s, ps[Len(ps)], rb, n, len)
  BY DEF Reads
<1> DEFINE e == ps[Len(ps)]
           t == s \o x
           fb == rb \o x
<1>2. e \in Nat \ {0}
  BY <1>1, LastPosition DEF Positions
<1>3. InData(s, e, rb, n, len)
  <2>1. Stands(s, e, rb, n, len) /\ n # 0 /\ len # 0
    BY <1>1
  <2> HIDE DEF e
  <2> QED
    BY <2>1 DEF Stands, InHeader, AtEnd
<1> HIDE DEF e
<1>4. /\ Ends(s, e + 1, rb) /\ e + 1 \in Nat /\ Len(rb) + n = len
      /\ len \in 1 .. ReadbufSize /\ LengthAt(s, e) = len /\ e + 1 <= Len(s)
  BY <1>2, <1>3 DEF InData, Ends
<1>5. /\ Ends(t, e + 1, fb) /\ GoesOn(s, t) /\ t \in Seq(Bytes) /\ fb \in Seq(Bytes)
      /\ Len(fb) = len
  BY SMTT(40), <1>4, EndsMore
<1> HIDE DEF t, fb
<1>6. LengthAt(t, e) = len /\ Len(t) = e + 1 + len
  BY <1>2, <1>4, <1>5, SameLength DEF Ends
<1>7. WholeAt(t, e) /\ After(t, e) = e + 2 + len
  BY <1>2, <1>4, <1>6, ServerAssumption DEF WholeAt, After
<1>8. Frame(t, e) = SubSeq(fb, 1, len)
  <2> DEFINE u == SubSeq(t, e + 2, e + 1 + len)
             v == SubSeq(fb, 1, len)
  <2>1. len \in Nat \ {0}
    BY <1>4, ServerAssumption
  <2>2. u \in Seq(Bytes) /\ Len(u) = len /\ \A i \in 1 .. len : u[i] = t[e + 1 + i]
    BY <1>2, <1>5, <1>6, <2>1
  <2>3. v \in Seq(Bytes) /\ Len(v) = len /\ \A i \in 1 .. len : v[i] = fb[i]
    BY <1>5, <2>1
  <2>4. \A i \in 1 .. len : t[e + 1 + i] = fb[i]
    BY <1>5 DEF Ends
  <2> HIDE DEF u, v
  <2>5. u = v
    BY <2>2, <2>3, <2>4, SeqEqual
  <2> QED
    BY <1>6, <2>5 DEF u, v, Frame
<1> DEFINE qs == Append(ps, After(t, e))
           ns == Append(ms, Frame(t, e))
<1>9. Parses(t, ps, ms)
  BY <1>1, <1>5, ParseGoesOn
<1>10. Parses(t, qs, ns)
  <2>1. e = ps[Len(ps)]
    BY DEF e
  <2> QED
    BY <1>5, <1>7, <1>9, <2>1, ParseNext
<1>11. qs[Len(qs)] = e + 2 + len
  <2>1. ps \in Seq(Positions) /\ After(t, e) \in Positions
    BY <1>2, <1>4, <1>7, ServerAssumption, <1>1 DEF Parses, Positions
  <2> HIDE DEF e
  <2>2. Len(qs) = Len(ps) + 1 /\ qs[Len(ps) + 1] = After(t, e)
    BY <2>1, AppendProperties
  <2> QED
    BY <1>7, <2>2
<1> HIDE DEF qs
<1>12. Stands(t, e + 2 + len, <<>>, 2, 0)
  <2>1. Len(<<>>) = 0 /\ 1 .. 0 = {} /\ e + 2 + len - 1 = e + 1 + len /\ len \in Nat
    BY <1>2, <1>4, ServerAssumption
  <2> QED
    BY <1>2, <1>6, <2>1 DEF Stands, InHeader, Ends
<1> QED
  BY <1>8, <1>10, <1>11, <1>12 DEF Reads, t, fb

-----------------------------------------------------------------------------
(***************************************************************************)
(* The invariant, and the steps of the specification.                      *)
(***************************************************************************)
ReadsStream(c) ==
  Open(c) => Reads(received[c], delivered[c], readbuf[c], bytes_to_read[c], message_length[c])

FramingInv ==
  /\ ServerInv
  /\ received \in [Slots -> Seq(Bytes)] /\ delivered \in [Slots -> Seq(Seq(Bytes))]
  /\ \A c \in Slots : ReadsStream(c)

LEMMA FramingIsServer == [FramingNext]_<<vars, framingVars>> => [Next]_vars
<1>1. ASSUME NEW s \in Sockets, FramingAccept(s) PROVE Next
  BY <1>1 DEF FramingAccept, Next, ServerStep, Accepting
<1>2. ASSUME NEW c \in Slots, FramingRecv(c) \/ FramingMessage(c) PROVE Next
  BY <1>2 DEF FramingRecv, FramingMessage, Next, ServerStep, Recv
<1>3. ASSUME FramingOther PROVE Next
  BY <1>3 DEF FramingOther, Next, ServerStep, PeerStep, Accepting, Recv
<1> QED
  BY <1>1, <1>2, <1>3 DEF FramingNext, vars, framingVars

(* Steps that leave the reader and what it read alone.                     *)
LEMMA SameReads ==
  ASSUME TypeOK, NEW c \in Slots, ReadsStream(c),
         UNCHANGED <<framingVars, readbuf, bytes_to_read, message_length>>,
         Open(c)' => Open(c)
  PROVE  ReadsStream(c)'
  BY DEF ReadsStream, framingVars

(* Receiving for another slot.                                             *)
LEMMA OtherReads ==
  ASSUME NEW d \in Slots, ReadsStream(d), fd'[d] = fd[d],
         received'[d] = received[d], delivered'[d] = delivered[d], readbuf'[d] = readbuf[d],
         bytes_to_read'[d] = bytes_to_read[d], message_length'[d] = message_length[d]
  PROVE  ReadsStream(d)'
  BY DEF ReadsStream, Open

LEMMA FirstReads ==
  ASSUME NEW c \in Slots,
         received'[c] = <<>>, delivered'[c] = <<>>, readbuf'[c] = <<>>,
         bytes_to_read'[c] = 2, message_length'[c] = 0
  PROVE  ReadsStream(c)'
  BY ReadsFirst DEF ReadsStream

(* What recv is about to return for c.                                     *)
Incoming(c) == SubSeq(avail[fd[c]], 1, Received(c))

LEMMA IncomingBytes ==
  ASSUME TypeOK, VisitInv, NEW c \in Slots, Receives(c)
  PROVE  /\ Open(c)
         /\ Incoming(c) \in Seq(Bytes) /\ Len(Incoming(c)) = Received(c)
         /\ Received(c) \in Nat /\ Received(c) > 0 /\ Received(c) <= bytes_to_read[c]
         /\ Filled(c) = readbuf[c] \o Incoming(c)
         /\ readbuf[c] \in Seq(Bytes)
<1>1. Open(c)
  BY DEF VisitInv, Receives, Reading
<1>2. fd[c] \in Sockets /\ bytes_to_read[c] \in Nat /\ readbuf[c] \in Seq(Bytes)
  BY RecvBytes DEF TypeOK
<1>3. avail[fd[c]] \in Seq(Bytes)
  BY <1>2 DEF TypeOK
<1>4. Received(c) \in Nat /\ Received(c) >= 1
      /\ Received(c) <= bytes_to_read[c] /\ Received(c) <= Len(avail[fd[c]])
  BY <1>2, <1>3 DEF Receives, Received, Minimum
<1>5. Incoming(c) \in Seq(Bytes) /\ Len(Incoming(c)) = Received(c)
  BY <1>3, <1>4, SubSeqOfBytes DEF Incoming
<1> QED
  BY <1>1, <1>2, <1>4, <1>5 DEF Filled, Incoming

(* The reader of c goes from readbuf[c], n and len to others.              *)
Turns(c, rb, n, len) ==
  /\ readbuf' = [readbuf EXCEPT ![c] = rb]
  /\ Expect(c, n, len)
  /\ fd' = fd

LEMMA TurnReads ==
  ASSUME FramingInv, NEW c \in Slots, NEW s \in Seq(Bytes), NEW ms,
         NEW rb, NEW n, NEW len, Turns(c, rb, n, len), Reads(s, ms, rb, n, len),
         received' = [received EXCEPT ![c] = s], delivered' = [delivered EXCEPT ![c] = ms]
  PROVE  /\ received' \in [Slots -> Seq(Bytes)]
         /\ delivered' \in [Slots -> Seq(Seq(Bytes))]
         /\ \A d \in Slots : ReadsStream(d)'
<1>1. /\ TypeOK /\ received \in [Slots -> Seq(Bytes)]
      /\ delivered \in [Slots -> Seq(Seq(Bytes))]
  BY DEF FramingInv, ServerInv
<1>2. received' \in [Slots -> Seq(Bytes)] /\ delivered' \in [Slots -> Seq(Seq(Bytes))]
  <2>1. ms \in Seq(Seq(Bytes))
    BY DEF Reads, Parses
  <2> QED
    BY <1>1, <2>1, Zenon
<1>3. ReadsStream(c)'
  <2>1. received'[c] = s /\ delivered'[c] = ms
    BY <1>1
  <2>2. readbuf'[c] = rb /\ bytes_to_read'[c] = n /\ message_length'[c] = len
    BY <1>1 DEF TypeOK, Turns, Expect
  <2> QED
    BY <2>1, <2>2 DEF ReadsStream
<1>4. ASSUME NEW d \in Slots, d # c PROVE ReadsStream(d)'
  <2>1. received'[d] = received[d] /\ delivered'[d] = delivered[d] /\ fd'[d] = fd[d]
    BY <1>1, <1>4 DEF Turns
  <2>2. /\ readbuf'[d] = readbuf[d] /\ bytes_to_read'[d] = bytes_to_read[d]
        /\ message_length'[d] = message_length[d]
    BY <1>1, <1>4 DEF TypeOK, Turns, Expect
  <2>3. ReadsStream(d)
    BY DEF FramingInv
  <2> QED
    BY <2>1, <2>2, <2>3, OtherReads
<1> QED
  BY <1>2, <1>3, <1>4

LEMMA InitFraming == FramingInit => FramingInv
<1> SUFFICES ASSUME FramingInit PROVE FramingInv
  OBVIOUS
<1>1. ServerInv
  BY InitServerInv DEF FramingInit
<1>2. received \in [Slots -> Seq(Bytes)] /\ delivered \in [Slots -> Seq(Seq(Bytes))]
  BY DEF FramingInit
<1>3. \A c \in Slots : ~Open(c)
  BY DEF FramingInit, Init, Open
<1> QED
  BY <1>1, <1>2, <1>3 DEF FramingInv, ReadsStream

(* Everything recv may return data for.                                    *)
LEMMA RecvReads ==
  ASSUME FramingInv, NEW c \in Slots, FramingRecv(c)
  PROVE  /\ received' \in [Slots -> Seq(Bytes)]
         /\ delivered' \in [Slots -> Seq(Seq(Bytes))]
         /\ \A d \in Slots : ReadsStream(d)'
<1> DEFINE x == Incoming(c)
           n == bytes_to_read[c]
           h == HeaderLength(Filled(c))
<1>1. TypeOK /\ VisitInv /\ FrameInv
  BY DEF FramingInv, ServerInv
<1>2. Receives(c)
  BY DEF FramingRecv, RecvPartial, RecvHeader, RecvOversize
<1>3. /\ Open(c) /\ x \in Seq(Bytes) /\ Len(x) = Received(c)
      /\ Received(c) \in Nat /\ Received(c) > 0 /\ Received(c) <= n
      /\ Filled(c) = readbuf[c] \o x /\ readbuf[c] \in Seq(Bytes)
  BY <1>1, <1>2, IncomingBytes
<1>4. /\ received[c] \in Seq(Bytes) /\ received[c] \o x \in Seq(Bytes)
      /\ delivered \in [Slots -> Seq(Seq(Bytes))]
  BY <1>3 DEF FramingInv
<1>5. Reads(received[c], delivered[c], readbuf[c], n, message_length[c])
  BY <1>3 DEF FramingInv, ReadsStream
<1>6. /\ received' = [received EXCEPT ![c] = received[c] \o x]
      /\ delivered' = [delivered EXCEPT ![c] = delivered[c]]
  BY <1>4 DEF FramingRecv, Incoming
<1> HIDE DEF x
<1>7. CASE RecvPartial(c)
  <2>1. Turns(c, readbuf[c] \o x, n - Len(x), message_length[c])
    BY <1>3, <1>7 DEF RecvPartial, Turns, freeVars
  <2>2. Len(x) > 0 /\ Len(x) < n
    BY <1>3, <1>7 DEF RecvPartial
  <2>3. Reads(received[c] \o x, delivered[c], readbuf[c] \o x, n - Len(x), message_length[c])
    BY <1>3, <1>4, <1>5, <2>2, ReadsPart
  <2> QED
    BY <1>4, <1>6, <2>1, <2>3, TurnReads
<1>8. CASE RecvHeader(c)
  <2>1. Turns(c, <<>>, h, h) /\ h <= ReadbufSize /\ message_length[c] = 0 /\ Len(x) = n
    BY <1>3, <1>8 DEF RecvHeader, Turns, freeVars
  <2>2. h \in Nat
    BY <1>1, <1>2, <1>8, HeaderIsNat DEF RecvHeader
  <2>3. h = HeaderLength(readbuf[c] \o x) /\ Len(x) > 0
    BY <1>3
  <2> HIDE DEF h
  <2>4. Reads(received[c] \o x, delivered[c], <<>>, h, h)
    BY <1>3, <1>4, <1>5, <2>1, <2>2, <2>3, ReadsHeader
  <2> QED
    BY <1>4, <1>6, <2>1, <2>4, TurnReads
<1>9. CASE RecvOversize(c)
  <2>1. /\ Turns(c, readbuf[c] \o x, 0, 0) /\ h > ReadbufSize /\ message_length[c] = 0
        /\ Len(x) = n
    BY <1>3, <1>9 DEF RecvOversize, Turns, freeVars
  <2>2. h \in Nat
    BY <1>1, <1>2, <1>9, HeaderIsNat DEF RecvOversize
  <2>3. h = HeaderLength(readbuf[c] \o x) /\ Len(x) > 0
    BY <1>3
  <2> HIDE DEF h
  <2>4. Reads(received[c] \o x, delivered[c], readbuf[c] \o x, 0, 0)
    BY <1>3, <1>4, <1>5, <2>1, <2>2, <2>3, ReadsOversize
  <2> QED
    BY <1>4, <1>6, <2>1, <2>4, TurnReads
<1> QED
  BY <1>7, <1>8, <1>9 DEF FramingRecv

(* The last bytes of a frame: it is delivered.                             *)
LEMMA MessageReads ==
  ASSUME FramingInv, NEW c \in Slots, FramingMessage(c)
  PROVE  /\ received' \in [Slots -> Seq(Bytes)]
         /\ delivered' \in [Slots -> Seq(Seq(Bytes))]
         /\ \A d \in Slots : ReadsStream(d)'
<1> DEFINE x == Incoming(c)
           n == bytes_to_read[c]
           len == message_length[c]
<1>1. TypeOK /\ VisitInv
  BY DEF FramingInv, ServerInv
<1>2. Receives(c) /\ RecvMessage(c)
  BY DEF FramingMessage, RecvMessage
<1>3. /\ Open(c) /\ x \in Seq(Bytes) /\ Len(x) = Received(c)
      /\ Received(c) \in Nat /\ Received(c) > 0
      /\ Filled(c) = readbuf[c] \o x /\ readbuf[c] \in Seq(Bytes)
  BY <1>1, <1>2, IncomingBytes
<1>4. /\ received[c] \in Seq(Bytes) /\ received[c] \o x \in Seq(Bytes)
      /\ delivered[c] \in Seq(Seq(Bytes))
  BY <1>3 DEF FramingInv
<1> DEFINE ms == Append(delivered[c], SubSeq(readbuf[c] \o x, 1, len))
<1>5. Reads(received[c], delivered[c], readbuf[c], n, len)
  BY <1>3 DEF FramingInv, ReadsStream
<1>6. /\ received' = [received EXCEPT ![c] = received[c] \o x]
      /\ delivered' = [delivered EXCEPT ![c] = ms]
  BY <1>3 DEF FramingMessage, Incoming
<1> HIDE DEF x
<1>7. Turns(c, <<>>, 2, 0) /\ len > 0 /\ Len(x) = n /\ Len(x) > 0
  BY <1>2, <1>3 DEF RecvMessage, Turns, freeVars
<1>8. Reads(received[c] \o x, ms, <<>>, 2, 0)
  BY <1>3, <1>4, <1>5, <1>7, ReadsMessage
<1> HIDE DEF ms
<1> QED
  BY <1>4, <1>6, <1>7, <1>8, TurnReads

(* A connection starts with an empty stream, whoever had its slot before.  *)
LEMMA AcceptReads ==
  ASSUME FramingInv, NEW s \in Sockets, FramingAccept(s)
  PROVE  /\ received' \in [Slots -> Seq(Bytes)]
         /\ delivered' \in [Slots -> Seq(Seq(Bytes))]
         /\ \A d \in Slots : ReadsStream(d)'
<1>1. /\ TypeOK /\ received \in [Slots -> Seq(Bytes)]
      /\ delivered \in [Slots -> Seq(Seq(Bytes))]
  BY DEF FramingInv, ServerInv
<1>2. PICK c \in Slots : c = freelist_head /\ NewConnection(c, s)
  BY DEF FramingAccept, AcceptConnection, AllocConnection
<1>3. /\ received' = [received EXCEPT ![c] = <<>>]
      /\ delivered' = [delivered EXCEPT ![c] = <<>>]
  BY <1>2 DEF FramingAccept
<1>4. received' \in [Slots -> Seq(Bytes)] /\ delivered' \in [Slots -> Seq(Seq(Bytes))]
  <2>1. <<>> \in Seq(Bytes) /\ <<>> \in Seq(Seq(Bytes))
    OBVIOUS
  <2> QED
    BY <1>1, <1>3, <2>1, Zenon
<1>5. ReadsStream(c)'
  <2>1. received'[c] = <<>> /\ delivered'[c] = <<>>
    BY <1>1, <1>3
  <2>2. readbuf'[c] = <<>> /\ bytes_to_read'[c] = 2 /\ message_length'[c] = 0
    BY <1>1, <1>2 DEF TypeOK, NewConnection
  <2> QED
    BY <2>1, <2>2, FirstReads
<1>6. ASSUME NEW d \in Slots, d # c PROVE ReadsStream(d)'
  <2>1. received'[d] = received[d] /\ delivered'[d] = delivered[d]
    BY <1>1, <1>3, <1>6
  <2>2. /\ fd'[d] = fd[d] /\ readbuf'[d] = readbuf[d]
        /\ bytes_to_read'[d] = bytes_to_read[d] /\ message_length'[d] = message_length[d]
    BY <1>1, <1>2, <1>6 DEF TypeOK, NewConnection
  <2>3. ReadsStream(d)
    BY DEF FramingInv
  <2> QED
    BY <2>1, <2>2, <2>3, OtherReads
<1> QED
  BY <1>4, <1>5, <1>6

(* Every other step leaves the reader alone; it may only drop connections. *)
LEMMA OtherStays ==
  ASSUME FramingOther
  PROVE  /\ UNCHANGED <<framingVars, readbuf, bytes_to_read, message_length>>
         /\ UNCHANGED fd \/ \E c \in Slots : FreeConnection(c)
<1> USE DEF freeVars, connVars
<1>1. CASE \/ AcceptNone \/ Polling
           \/ \E s \in Sockets : RejectConnection(s) \/ AcceptError(s)
  BY <1>1 DEF FramingOther, AcceptNone, RejectConnection, AcceptError,
              Polling, Poll, PollFails
<1>2. CASE \E c \in Slots : Visit(c) \/ Write(c)
  BY <1>2 DEF FramingOther, Visit, VisitEmpty, AssertFails, VisitHangup, VisitReady,
              Write, WriteSkipped, RequestOutput, Send, SendWouldBlock, SendError
<1>3. CASE \E c \in Slots : Settle(c)
  BY <1>3 DEF FramingOther, Settle, RequestStatus, StatusKnown, Drop, Keep
<1>4. CASE \E c \in Slots : RecvError(c) \/ RecvWouldBlock(c) \/ RecvNothing(c)
  BY <1>4 DEF FramingOther, RecvError, RecvWouldBlock, RecvNothing
<1>5. CASE PeerStep
  BY <1>5 DEF FramingOther, PeerStep, Connect, PeerSend, PeerFin, PeerReset, PeerRead,
              Lingered, serverVars
<1> QED
  BY <1>1, <1>2, <1>3, <1>4, <1>5 DEF FramingOther, PeerStep

LEMMA OtherFramingReads ==
  ASSUME FramingInv, FramingOther
  PROVE  /\ received' \in [Slots -> Seq(Bytes)]
         /\ delivered' \in [Slots -> Seq(Seq(Bytes))]
         /\ \A d \in Slots : ReadsStream(d)'
<1>1. /\ TypeOK /\ received \in [Slots -> Seq(Bytes)]
      /\ delivered \in [Slots -> Seq(Seq(Bytes))]
  BY DEF FramingInv, ServerInv
<1>2. received' = received /\ delivered' = delivered
  BY OtherStays DEF framingVars
<1>3. ASSUME NEW d \in Slots PROVE ReadsStream(d)'
  <2>1. Open(d)' => Open(d)
    BY <1>1, OtherStays DEF TypeOK, Open, FreeConnection
  <2>2. ReadsStream(d)
    BY DEF FramingInv
  <2> QED
    BY <1>1, <2>1, <2>2, OtherStays, SameReads
<1> QED
  BY <1>1, <1>2, <1>3

LEMMA NextFraming == FramingInv /\ [FramingNext]_<<vars, framingVars>> => FramingInv'
<1> SUFFICES ASSUME FramingInv, [FramingNext]_<<vars, framingVars>> PROVE FramingInv'
  OBVIOUS
<1>1. ServerInv'
  BY FramingIsServer, NextServerInv DEF FramingInv
<1>2. CASE UNCHANGED <<vars, framingVars>>
  <2>1. \A d \in Slots : ReadsStream(d)'
    BY <1>2, SameReads DEF FramingInv, ServerInv, vars, connVars, freeVars, Open
  <2> QED
    BY <1>1, <1>2, <2>1 DEF FramingInv, framingVars
<1>3. CASE FramingNext
  <2>1. /\ received' \in [Slots -> Seq(Bytes)]
        /\ delivered' \in [Slots -> Seq(Seq(Bytes))]
        /\ \A d \in Slots : ReadsStream(d)'
    BY <1>3, AcceptReads, RecvReads, MessageReads, OtherFramingReads DEF FramingNext
  <2> QED
    BY <1>1, <2>1 DEF FramingInv
<1> QED
  BY <1>2, <1>3

LEMMA FramingInvHolds == FramingSpec => []FramingInv
  BY InitFraming, NextFraming, PTL DEF FramingSpec

(* At every moment on_read has been given exactly the messages of the      *)
(* whole frames received on the connection, in order, however recv cut     *)
(* them up and whoever used the slot and its readbuf before.               *)
THEOREM DeliversTheStream == FramingSpec => []MessagesOfStream
<1>1. FramingInv => MessagesOfStream
  <2> SUFFICES ASSUME FramingInv, NEW c \in Slots, Open(c)
               PROVE  delivered[c] = Messages(received[c])
    BY DEF MessagesOfStream
  <2>1. received[c] \in Seq(Bytes) /\ readbuf[c] \in Seq(Bytes)
    BY DEF FramingInv, ServerInv, TypeOK
  <2>2. Reads(received[c], delivered[c], readbuf[c], bytes_to_read[c], message_length[c])
    BY DEF FramingInv, ReadsStream
  <2> QED
    BY <2>1, <2>2, ReadsMessages
<1> QED
  BY <1>1, FramingInvHolds, PTL
=============================================================================
