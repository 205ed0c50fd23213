------------------------- MODULE LoginServer_proofs -------------------------
(***************************************************************************)
(* Proofs about LoginServer.tla, for any number of slots, any keys and any *)
(* sizes of the answers and of the buffer they are written from.           *)
(***************************************************************************)
EXTENDS LoginServer, TLAPS

(* What a step relies on besides the types and what is written: a free     *)
(* slot is as it was at the start, and output is on its way only for a     *)
(* login that has handed it over.                                          *)
SlotInv ==
  \A c \in Slots :
    /\ ~open[c] => state[c] = "READING" /\ ~writing[c] /\ ~doomed[c]
    /\ writing[c] => state[c] \in {"WAITING_WRITE", "DISCONNECTING"}

LoginInv == LoginTypeOK /\ NoSecretLeft /\ SlotInv

-----------------------------------------------------------------------------
(* The padding of packet_wrap makes whole blocks of what follows the first *)
(* 6 bytes.                                                                *)
LEMMA PaddingMakesBlocks ==
  ASSUME NEW a \in Answers
  PROVE  /\ AnswerLength(a) + Padding(a) \in Nat \ {0}
         /\ (AnswerLength(a) + Padding(a)) % 8 = 6
<1>1. AnswerLength(a) \in Nat \ {0}
  BY LoginServerAssumption DEF AnswerLength
<1> QED
  BY <1>1 DEF Padding

LEMMA LoginInitInv == LoginInit => LoginInv
  BY LoginServerAssumption
     DEF LoginInit, CbInit, LoginInv, LoginTypeOK, NoSecretLeft, SlotInv, LoginState

-----------------------------------------------------------------------------
(* One lemma for every callback.                                           *)
LEMMA OnAcceptInv ==
  ASSUME LoginInv, NEW c \in Slots, LoginOnAccept(c)
  PROVE  LoginInv'
<1> USE DEF LoginInv, LoginOnAccept, OnAccept, SetState
<1>1. LoginTypeOK'
  BY DEF LoginTypeOK, LoginState
<1>2. NoSecretLeft'
  BY DEF LoginTypeOK, NoSecretLeft
<1>3. SlotInv'
  BY DEF LoginTypeOK, SlotInv
<1> QED
  BY <1>1, <1>2, <1>3

(* The first message: the only step that fills a buffer.                   *)
LEMMA ReadLoginInv ==
  ASSUME LoginInv, NEW c \in Slots, NEW m \in Messages, ReadLogin(c, m)
  PROVE  LoginInv'
<1> USE DEF LoginInv
<1>1. /\ open[c] /\ state[c] = "READING" /\ ~writing[c]
      /\ UNCHANGED <<open, writing, doomed>>
  BY DEF ReadLogin, OnRead, SlotInv
<1>2. CASE m.ok
  <2>1. m.key \in Keys /\ m.answer \in Answers
    BY <1>2 DEF Messages
  <2>2. secret' = [secret EXCEPT ![c] = m.key] /\ Answer(c, m.answer, m.key)
    BY <1>2 DEF ReadLogin
  <2> DEFINE n == AnswerLength(m.answer) + Padding(m.answer)
  <2>3. n \in Nat \ {0} /\ n % 8 = 6
    BY <2>1, PaddingMakesBlocks
  <2> HIDE DEF n
  <2>4. CASE WrapFits(m.answer)
    <3>1. /\ state' = [state EXCEPT ![c] = "WRITING"]
          /\ writebuf' = [writebuf EXCEPT ![c] = [answer |-> m.answer, key |-> m.key]]
          /\ writelen' = [writelen EXCEPT ![c] = n]
      BY <2>2, <2>4 DEF Answer, SetState, n
    <3>2. n \in {k \in 1 .. WriteBufSize : k % 8 = 6}
      BY <2>3, <2>4, LoginServerAssumption DEF WrapFits, n
    <3>3. LoginTypeOK'
      BY <1>1, <2>1, <2>2, <3>1, <3>2 DEF LoginTypeOK, LoginState
    <3>4. NoSecretLeft'
      BY <1>1, <2>1, <2>2, <2>3, <3>1 DEF LoginTypeOK, NoSecretLeft
    <3>5. SlotInv'
      BY <1>1, <3>1 DEF LoginTypeOK, SlotInv
    <3> QED
      BY <3>3, <3>4, <3>5
  <2>5. CASE ~WrapFits(m.answer)
    <3>1. /\ state' = [state EXCEPT ![c] = "DISCONNECTING"]
          /\ writebuf' = [writebuf EXCEPT ![c] = [answer |-> m.answer, key |-> Nothing]]
          /\ writelen' = writelen
      BY <2>2, <2>5 DEF Answer, SetState
    <3>2. LoginTypeOK'
      BY <1>1, <2>1, <2>2, <3>1 DEF LoginTypeOK, LoginState
    <3>3. NoSecretLeft'
      BY <1>1, <2>1, <2>2, <3>1 DEF LoginTypeOK, NoSecretLeft
    <3>4. SlotInv'
      BY <1>1, <3>1 DEF LoginTypeOK, SlotInv
    <3> QED
      BY <3>2, <3>3, <3>4
  <2> QED
    BY <2>4, <2>5
<1>3. CASE ~m.ok
  <2>1. /\ state' = [state EXCEPT ![c] = "DISCONNECTING"]
        /\ UNCHANGED <<secret, writebuf, writelen>>
    BY <1>3 DEF ReadLogin, Disconnect, SetState
  <2>2. LoginTypeOK'
    BY <1>1, <2>1 DEF LoginTypeOK, LoginState
  <2>3. NoSecretLeft'
    BY <1>1, <2>1 DEF LoginTypeOK, NoSecretLeft
  <2>4. SlotInv'
    BY <1>1, <2>1 DEF LoginTypeOK, SlotInv
  <2> QED
    BY <2>2, <2>3, <2>4
<1> QED
  BY <1>2, <1>3

LEMMA ReadUnexpectedInv ==
  ASSUME LoginInv, NEW c \in Slots, ReadUnexpected(c)
  PROVE  LoginInv'
<1> USE DEF LoginInv, ReadUnexpected, OnRead, Disconnect, SetState
<1>1. LoginTypeOK'
  BY DEF LoginTypeOK, LoginState
<1>2. NoSecretLeft'
  BY DEF LoginTypeOK, NoSecretLeft
<1>3. SlotInv'
  BY DEF LoginTypeOK, SlotInv
<1> QED
  BY <1>1, <1>2, <1>3

LEMMA RequestOutputInv ==
  ASSUME LoginInv, NEW c \in Slots, LoginRequestOutput(c)
  PROVE  LoginInv'
<1> USE DEF LoginInv, RequestOutput
<1>1. CASE GiveAnswer(c)
  <2>1. LoginTypeOK'
    BY <1>1 DEF GiveAnswer, SetState, LoginTypeOK, LoginState
  <2>2. NoSecretLeft'
    BY <1>1 DEF GiveAnswer, SetState, LoginTypeOK, NoSecretLeft
  <2>3. SlotInv'
    BY <1>1 DEF GiveAnswer, SetState, LoginTypeOK, SlotInv
  <2> QED
    BY <2>1, <2>2, <2>3
<1>2. CASE AnswerWritten(c)
  <2>1. LoginTypeOK'
    BY <1>2 DEF AnswerWritten, Disconnect, SetState, LoginTypeOK, LoginState
  <2>2. NoSecretLeft'
    BY <1>2 DEF AnswerWritten, Disconnect, SetState, LoginTypeOK, NoSecretLeft
  <2>3. SlotInv'
    BY <1>2 DEF AnswerWritten, Disconnect, SetState, LoginTypeOK, SlotInv
  <2> QED
    BY <2>1, <2>2, <2>3
<1>3. CASE StayQuiet(c)
  BY <1>3 DEF StayQuiet, loginVars, LoginTypeOK, NoSecretLeft, SlotInv
<1> QED
  BY <1>1, <1>2, <1>3 DEF LoginRequestOutput

LEMMA RequestStatusInv ==
  ASSUME LoginInv, NEW c \in Slots, LoginRequestStatus(c)
  PROVE  LoginInv'
<1> USE DEF LoginInv, LoginRequestStatus, RequestStatus, loginVars
<1>1. LoginTypeOK'
  BY DEF LoginTypeOK
<1>2. NoSecretLeft' /\ SlotInv'
  BY DEF LoginTypeOK, NoSecretLeft, SlotInv
<1> QED
  BY <1>1, <1>2

LEMMA OutputSentInv ==
  ASSUME LoginInv, NEW c \in Slots, LoginOutputSent(c)
  PROVE  LoginInv'
  BY DEF LoginInv, LoginOutputSent, OutputSent, loginVars, LoginTypeOK, NoSecretLeft,
         SlotInv

LEMMA OnDropInv ==
  ASSUME LoginInv, NEW c \in Slots, LoginOnDrop(c)
  PROVE  LoginInv'
<1> USE DEF LoginInv, LoginOnDrop, OnDrop, SetState
<1>1. LoginTypeOK'
  BY LoginServerAssumption DEF LoginTypeOK, LoginState
<1>2. NoSecretLeft'
  BY DEF LoginTypeOK, NoSecretLeft
<1>3. SlotInv'
  BY DEF LoginTypeOK, SlotInv
<1> QED
  BY <1>1, <1>2, <1>3

LEMMA LoginStepInv == LoginInv /\ [LoginNext]_lsVars => LoginInv'
<1> SUFFICES ASSUME LoginInv, [LoginNext]_lsVars PROVE LoginInv'
  OBVIOUS
<1>1. CASE UNCHANGED lsVars
  BY <1>1 DEF lsVars, cbVars, loginVars, LoginInv, LoginTypeOK, NoSecretLeft, SlotInv
<1>2. ASSUME NEW c \in Slots,
             LoginOnAccept(c) \/ LoginOnRead(c) \/ LoginRequestOutput(c)
             \/ LoginRequestStatus(c) \/ LoginOutputSent(c) \/ LoginOnDrop(c)
      PROVE  LoginInv'
  BY <1>2, OnAcceptInv, ReadLoginInv, ReadUnexpectedInv, RequestOutputInv,
     RequestStatusInv, OutputSentInv, OnDropInv DEF LoginOnRead
<1> QED
  BY <1>1, <1>2 DEF LoginNext

(* The inductive invariant holds of every login server.                    *)
THEOREM LoginInvariant == LoginSpec => []LoginInv
<1> QED
  BY LoginInitInv, LoginStepInv, PTL DEF LoginSpec

(* The logins keep their types, and what one hands over fits its buffer.   *)
THEOREM LoginTypeCorrect == LoginSpec => []LoginTypeOK
<1>1. LoginInv => LoginTypeOK
  BY DEF LoginInv
<1> QED
  BY <1>1, LoginInvariant, PTL

(* login_server_on_drop leaves nothing of a client in its slot, and a      *)
(* client is only ever written an answer encoded with its own key.         *)
THEOREM SecretsAreWiped == LoginSpec => []NoSecretLeft
<1>1. LoginInv => NoSecretLeft
  BY DEF LoginInv
<1> QED
  BY <1>1, LoginInvariant, PTL

-----------------------------------------------------------------------------
(* What no step does to an answer, and to a login that has given one.      *)
OneAnswerStep ==
  \A c \in Slots :
    /\ writing[c] /\ open'[c] =>
         writebuf'[c] = writebuf[c] /\ writelen'[c] = writelen[c]
    /\ open'[c] /\ (writing[c] \/ state[c] \in {"WAITING_WRITE", "DISCONNECTING"}) =>
         /\ state'[c] \in {"WAITING_WRITE", "DISCONNECTING"}
         /\ writing'[c] => writing[c]

LEMMA StepKeepsAnswer ==
  ASSUME LoginInv, NEW c \in Slots,
         LoginOnAccept(c) \/ LoginOnRead(c) \/ LoginRequestOutput(c)
         \/ LoginRequestStatus(c) \/ LoginOutputSent(c) \/ LoginOnDrop(c)
  PROVE  OneAnswerStep
<1> USE DEF LoginInv, LoginTypeOK, SlotInv, OneAnswerStep, SetState,
            Disconnect, loginVars
<1>1. CASE LoginOnAccept(c)
  BY <1>1 DEF LoginOnAccept, OnAccept
<1>2. ASSUME NEW m \in Messages, ReadLogin(c, m)
      PROVE  OneAnswerStep
  <2>1. /\ ~writing[c] /\ state[c] = "READING" /\ UNCHANGED <<open, writing>>
        /\ \A d \in Slots \ {c} : /\ state'[d] = state[d]
                                  /\ writebuf'[d] = writebuf[d]
                                  /\ writelen'[d] = writelen[d]
    BY <1>2 DEF ReadLogin, OnRead, Answer
  <2> QED
    BY <2>1
<1>3. CASE ReadUnexpected(c)
  BY <1>3 DEF ReadUnexpected, OnRead
<1>4. CASE LoginRequestOutput(c)
  BY <1>4 DEF LoginRequestOutput, GiveAnswer, AnswerWritten, StayQuiet, RequestOutput
<1>5. CASE LoginRequestStatus(c)
  BY <1>5 DEF LoginRequestStatus, RequestStatus
<1>6. CASE LoginOutputSent(c)
  BY <1>6 DEF LoginOutputSent, OutputSent
<1>7. CASE LoginOnDrop(c)
  BY <1>7 DEF LoginOnDrop, OnDrop
<1> QED
  BY <1>1, <1>2, <1>3, <1>4, <1>5, <1>6, <1>7 DEF LoginOnRead

LEMMA EveryStepKeepsAnswer ==
  LoginInv /\ [LoginNext]_lsVars => [OneAnswerStep]_lsVars
  BY StepKeepsAnswer DEF LoginNext

(* A login is answered once at most, and what is handed over stays as it   *)
(* is until it is written, whatever the client sends meanwhile.            *)
THEOREM AnswersOnce == LoginSpec => OneAnswer
  BY LoginInvariant, EveryStepKeepsAnswer, PTL DEF LoginSpec, OneAnswer, OneAnswerStep
=============================================================================
