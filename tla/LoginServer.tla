----------------------------- MODULE LoginServer -----------------------------
(***************************************************************************)
(* login_server.cc: one login per connection slot, answered with the       *)
(* character list or with a reason to disconnect, and closed when the      *)
(* answer is written.  An action is a callback: the promise Callbacks.tla  *)
(* makes about it and its whole body.                                      *)
(***************************************************************************)
EXTENDS Callbacks

CONSTANTS
  Keys,            \* XTEA keys, one or more for every client
  Nothing,         \* what memset leaves of a key or a buffer
  WriteBufSize,    \* sizeof(Login.writebuf)
  AnswerSizes      \* bytes of each answer, without its header

Answers == {"charlist", "bad_version", "bad_account"}

ASSUME LoginServerAssumption ==
  /\ Nothing \notin Keys
  /\ WriteBufSize \in Nat
  /\ AnswerSizes \in [Answers -> Nat \ {0}]

VARIABLES
  state,       \* Login.state
  secret,      \* Login.xtea, accname and password: the key stands for them
  writebuf,    \* Login.writebuf: an answer and the key it is encoded with
  writelen     \* Login.writelen

loginVars == <<state, secret, writebuf, writelen>>
lsVars == <<cbVars, loginVars>>

LoginState == {"READING", "WRITING", "WAITING_WRITE", "DISCONNECTING"}

(* What login_server_on_read tells apart: the message fails one of the     *)
(* checks of length, checksum, id and RSA block, or it carries a key and   *)
(* leads to one of the answers.                                            *)
Messages == [ok : {FALSE}] \union [ok : {TRUE}, key : Keys, answer : Answers]

-----------------------------------------------------------------------------
(* packet_prepare reserves 8 bytes; packet_wrap pads everything behind the *)
(* first 6 to a multiple of 8, and fails if the padding does not fit.      *)
AnswerLength(a) == 8 + AnswerSizes[a]

(* Mutant: the header is padded too.                                       *)
PaddingOfAll(a) == -AnswerLength(a) % 8
Padding(a) == (6 - AnswerLength(a)) % 8
WrapFits(a) == AnswerLength(a) + Padding(a) <= WriteBufSize

SetState(c, st) == state' = [state EXCEPT ![c] = st]
Disconnect(c) == SetState(c, "DISCONNECTING") /\ UNCHANGED <<writebuf, writelen>>

(* send_charlist and send_disconnect: the answer is laid out in writebuf   *)
(* and encoded there, if the padding fits.                                 *)
Answer(c, a, key) ==
  IF WrapFits(a)
    THEN /\ SetState(c, "WRITING")
         /\ writebuf' = [writebuf EXCEPT ![c] = [answer |-> a, key |-> key]]
         /\ writelen' = [writelen EXCEPT ![c] = AnswerLength(a) + Padding(a)]
    ELSE /\ SetState(c, "DISCONNECTING")
         /\ writebuf' = [writebuf EXCEPT ![c] = [answer |-> a, key |-> Nothing]]
         /\ UNCHANGED writelen

-----------------------------------------------------------------------------
LoginOnAccept(c) ==
  /\ OnAccept(c)
  /\ SetState(c, "READING")
  /\ UNCHANGED <<secret, writebuf, writelen>>

(* Mutant: only the key and the state are wiped.                           *)
LoginOnDropKeepsBuffer(c) ==
  /\ OnDrop(c)
  /\ SetState(c, "READING")
  /\ secret' = [secret EXCEPT ![c] = Nothing]
  /\ UNCHANGED <<writebuf, writelen>>

(* memset zeroes the whole login; READING is the first of the states.      *)
LoginOnDrop(c) ==
  /\ OnDrop(c)
  /\ SetState(c, "READING")
  /\ secret' = [secret EXCEPT ![c] = Nothing]
  /\ writebuf' = [writebuf EXCEPT ![c] = Nothing]
  /\ writelen' = [writelen EXCEPT ![c] = 0]

ReadLogin(c, m) ==
  /\ OnRead(c)
  /\ state[c] = "READING"
  /\ IF m.ok
       THEN /\ secret' = [secret EXCEPT ![c] = m.key]
            /\ Answer(c, m.answer, m.key)
       ELSE /\ Disconnect(c)
            /\ UNCHANGED secret

(* Mutant: a second message is answered with a reason to disconnect.       *)
ReadUnexpectedAnswered(c) ==
  /\ OnRead(c)
  /\ state[c] # "READING"
  /\ Answer(c, "bad_version", secret[c])
  /\ UNCHANGED secret

ReadUnexpected(c) ==
  /\ OnRead(c)
  /\ state[c] # "READING"
  /\ Disconnect(c)
  /\ UNCHANGED secret

GiveAnswer(c) ==
  /\ RequestOutput(c, TRUE)
  /\ state[c] = "WRITING"
  /\ SetState(c, "WAITING_WRITE")
  /\ UNCHANGED <<secret, writebuf, writelen>>

(* Mutant: the login waits on after its answer is written.                 *)
AnswerWrittenIgnored(c) ==
  /\ RequestOutput(c, FALSE)
  /\ state[c] = "WAITING_WRITE"
  /\ UNCHANGED loginVars

AnswerWritten(c) ==
  /\ RequestOutput(c, FALSE)
  /\ state[c] = "WAITING_WRITE"
  /\ Disconnect(c)
  /\ UNCHANGED secret

StayQuiet(c) ==
  /\ RequestOutput(c, FALSE)
  /\ state[c] \in {"READING", "DISCONNECTING"}
  /\ UNCHANGED loginVars

LoginRequestOutput(c) == GiveAnswer(c) \/ AnswerWritten(c) \/ StayQuiet(c)

LoginRequestStatus(c) ==
  /\ RequestStatus(c, state[c] = "DISCONNECTING")
  /\ UNCHANGED loginVars

(* What the server does by itself: the rest of the output is sent.         *)
LoginOutputSent(c) ==
  /\ OutputSent(c)
  /\ UNCHANGED loginVars

-----------------------------------------------------------------------------
LoginInit ==
  /\ CbInit
  /\ state = [c \in Slots |-> "READING"]
  /\ secret = [c \in Slots |-> Nothing]
  /\ writebuf = [c \in Slots |-> Nothing]
  /\ writelen = [c \in Slots |-> 0]

LoginOnRead(c) == (\E m \in Messages : ReadLogin(c, m)) \/ ReadUnexpected(c)

LoginNext ==
  \E c \in Slots :
    \/ LoginOnAccept(c) \/ LoginOnRead(c) \/ LoginRequestOutput(c)
    \/ LoginRequestStatus(c) \/ LoginOutputSent(c) \/ LoginOnDrop(c)

LoginSpec == LoginInit /\ [][LoginNext]_lsVars

(* What server_poll does for every connection, pass after pass: output is  *)
(* sent as the peer reads, the next output and the status are asked for,   *)
(* and a connection given up with nothing left to write is dropped.        *)
(* Server.tla shows it, for peers that read (DoomedIsDropped).             *)
LoginFairSpec ==
  /\ LoginSpec
  /\ \A c \in Slots :
       /\ WF_lsVars(LoginOutputSent(c))
       /\ WF_lsVars(LoginRequestOutput(c))
       /\ WF_lsVars(LoginRequestStatus(c))
       /\ WF_lsVars(doomed[c] /\ ~writing[c] /\ LoginOnDrop(c))

-----------------------------------------------------------------------------
(* Type correctness of the logins and the callbacks; what is handed over   *)
(* fits writebuf, and behind its first 6 bytes are whole blocks of XTEA.   *)
LoginTypeOK ==
  /\ open \in [Slots -> BOOLEAN]
  /\ writing \in [Slots -> BOOLEAN]
  /\ doomed \in [Slots -> BOOLEAN]
  /\ state \in [Slots -> LoginState]
  /\ secret \in [Slots -> Keys \union {Nothing}]
  /\ writebuf \in [Slots -> [answer : Answers, key : Keys \union {Nothing}] \union {Nothing}]
  /\ writelen \in [Slots -> {0} \union {n \in 1 .. WriteBufSize : n % 8 = 6}]

(* The NOTE of login_server_on_drop: nothing of a client stays in its slot *)
(* once it is gone, so no later client of the slot can be answered with    *)
(* it; and what is written, or is about to be, is an answer encoded with   *)
(* the key of the client it is written to.                                 *)
NoSecretLeft ==
  \A c \in Slots :
    /\ ~open[c] => secret[c] = Nothing /\ writebuf[c] = Nothing /\ writelen[c] = 0
    /\ writing[c] \/ state[c] \in {"WRITING", "WAITING_WRITE"} =>
         /\ open[c] /\ secret[c] \in Keys
         /\ writebuf[c] \in [answer : Answers, key : {secret[c]}]
         /\ writelen[c] # 0

(* A client gets one answer at most: it does not change while the server   *)
(* writes it, however many more messages the client sends meanwhile, and   *)
(* no other is handed over before the connection is dropped.               *)
OneAnswer ==
  [][\A c \in Slots :
       /\ writing[c] /\ open'[c] =>
            writebuf'[c] = writebuf[c] /\ writelen'[c] = writelen[c]
       /\ open'[c] /\ (writing[c] \/ state[c] \in {"WAITING_WRITE", "DISCONNECTING"}) =>
            /\ state'[c] \in {"WAITING_WRITE", "DISCONNECTING"}
            /\ writing'[c] => writing[c]]_lsVars

(* A client that has sent its login, whatever it sent, is dropped in the   *)
(* end: no login keeps its slot forever.                                   *)
LoginEnds ==
  \A c \in Slots : (open[c] /\ state[c] # "READING") ~> ~open[c]
=============================================================================
