------------------------- MODULE ChatSessionProofs -------------------------
(***************************************************************************)
(* Proofs of the safety properties of ChatSession for every set of names   *)
(* and passwords, every login table and every bound.                       *)
(***************************************************************************)
EXTENDS ChatSession, TLAPS

-----------------------------------------------------------------------------
(* What appending to a sequence and taking its head do to InStream,        *)
(* Has and Once.                                                           *)

\* A message appended to a stream is in it, beside what was in it before.
LEMMA InStreamAppend ==
    ASSUME NEW T, NEW s \in Seq(T), NEW x \in T, NEW S
    PROVE  InStream(S, Append(s, x)) <=> InStream(S, s) \/ x \in S
<1>1. /\ DOMAIN Append(s, x) = DOMAIN s \cup {Len(s) + 1}
      /\ \A i \in DOMAIN s : Append(s, x)[i] = s[i]
      /\ Append(s, x)[Len(s) + 1] = x
  OBVIOUS
<1> QED
  BY <1>1, Zenon DEF InStream

\* A message in a stream is its head or stays in it when the head is taken.
LEMMA InStreamTail ==
    ASSUME NEW T, NEW s \in Seq(T), s # << >>, NEW S
    PROVE  InStream(S, s) <=> Head(s) \in S \/ InStream(S, Tail(s))
<1>1. ASSUME InStream(S, s), Head(s) \notin S
      PROVE  InStream(S, Tail(s))
  <2>1. PICK i \in DOMAIN s : s[i] \in S
    BY <1>1 DEF InStream
  <2>2. i - 1 \in DOMAIN Tail(s) /\ Tail(s)[i - 1] = s[i]
    BY <1>1, <2>1
  <2> QED
    BY <2>1, <2>2 DEF InStream
<1>2. ASSUME InStream(S, Tail(s))
      PROVE  InStream(S, s)
  <2>1. PICK i \in DOMAIN Tail(s) : Tail(s)[i] \in S
    BY <1>2 DEF InStream
  <2>2. i + 1 \in DOMAIN s /\ s[i + 1] = Tail(s)[i]
    BY <2>1
  <2> QED
    BY <2>1, <2>2 DEF InStream
<1>3. Head(s) \in S => InStream(S, s)
  BY DEF InStream
<1> QED
  BY <1>1, <1>2, <1>3

\* The same two facts about a single message.
LEMMA HasAppend ==
    ASSUME NEW T, NEW s \in Seq(T), NEW x \in T, NEW y
    PROVE  Has(y, Append(s, x)) <=> Has(y, s) \/ x = y
<1>1. Has(y, Append(s, x)) <=> InStream({y}, Append(s, x))
  BY DEF Has, InStream
<1>2. Has(y, s) <=> InStream({y}, s)
  BY DEF Has, InStream
<1>3. InStream({y}, Append(s, x)) <=> InStream({y}, s) \/ x \in {y}
  BY InStreamAppend, Zenon
<1> QED
  BY <1>1, <1>2, <1>3

\* Likewise when the head is taken.
LEMMA HasTail ==
    ASSUME NEW T, NEW s \in Seq(T), s # << >>, NEW y
    PROVE  Has(y, s) <=> Head(s) = y \/ Has(y, Tail(s))
<1>1. Has(y, Tail(s)) <=> InStream({y}, Tail(s))
  BY DEF Has, InStream
<1>2. Has(y, s) <=> InStream({y}, s)
  BY DEF Has, InStream
<1>3. InStream({y}, s) <=> Head(s) \in {y} \/ InStream({y}, Tail(s))
  BY InStreamTail, Zenon
<1> QED
  BY <1>1, <1>2, <1>3

\* A message sent for the first time, or another one, leaves x unrepeated.
LEMMA OnceAppend ==
    ASSUME NEW T, NEW s \in Seq(T), NEW y \in T, NEW x, Once(x, s),
           y # x \/ ~Has(x, s)
    PROVE  Once(x, Append(s, y))
<1>1. /\ DOMAIN Append(s, y) = DOMAIN s \cup {Len(s) + 1}
      /\ \A i \in DOMAIN s : Append(s, y)[i] = s[i]
      /\ Append(s, y)[Len(s) + 1] = y
  OBVIOUS
<1> QED
  BY <1>1, Zenon DEF Once, Has

\* An unrepeated x stays so, and is gone once it has been taken.
LEMMA OnceTail ==
    ASSUME NEW T, NEW s \in Seq(T), s # << >>, NEW x, Once(x, s)
    PROVE  /\ Once(x, Tail(s))
           /\ Head(s) = x => ~Has(x, Tail(s))
<1>1. \A i \in DOMAIN Tail(s) : i + 1 \in DOMAIN s /\ Tail(s)[i] = s[i + 1]
  OBVIOUS
<1>2. 1 \in DOMAIN s /\ Head(s) = s[1]
  OBVIOUS
<1>3. Once(x, Tail(s))
  <2> SUFFICES ASSUME NEW i \in DOMAIN Tail(s), NEW j \in DOMAIN Tail(s),
                      Tail(s)[i] = x, Tail(s)[j] = x
               PROVE  i = j
    BY DEF Once
  <2>1. i + 1 = j + 1
    BY <1>1 DEF Once
  <2> QED
    BY <2>1
<1>4. ASSUME Head(s) = x, Has(x, Tail(s))
      PROVE  FALSE
  <2>1. PICK i \in DOMAIN Tail(s) : Tail(s)[i] = x
    BY <1>4 DEF Has
  <2>2. i + 1 = 1
    BY <1>1, <1>2, <1>4, <2>1 DEF Once
  <2> QED
    BY <2>1, <2>2
<1> QED
  BY <1>3, <1>4

-----------------------------------------------------------------------------
(* The messages of the client.                                             *)

\* A Login is in the classes its type and key say, and hashes nothing.
LEMMA LoginFacts ==
    ASSUME NEW u \in Names, NEW k \in KeyTypes
    PROVE  /\ Login(u, k) \in Messages /\ Login(u, k) \in LoginMsgs
           /\ Login(u, k) \notin ResponseMsgs /\ Login(u, k) \notin PollMsgs
           /\ Login(u, k) \in SymKeyMsgs <=> k = "SYMMETRIC"
           /\ Login(u, k).hash = NoPass
BY DEF Login, Messages, MsgTypes, Inputs, LoginMsgs, ResponseMsgs, PollMsgs,
       SymKeyMsgs

\* A Response is only that, and carries what was hashed.
LEMMA ResponseFacts ==
    ASSUME NEW u \in Names, NEW h \in Inputs
    PROVE  /\ Response(u, h) \in Messages /\ Response(u, h) \in ResponseMsgs
           /\ Response(u, h) \notin LoginMsgs /\ Response(u, h) \notin PollMsgs
           /\ Response(u, h) \notin SymKeyMsgs
           /\ Response(u, h).hash = h
BY DEF Response, Messages, MsgTypes, KeyTypes, LoginMsgs, ResponseMsgs,
       PollMsgs, SymKeyMsgs

\* A Poll and a PollResponse are no messages of the handshake.
LEMMA RequestFacts ==
    ASSUME NEW u \in Names, NEW m \in {PollOf(u), PollResponse(u)}
    PROVE  /\ m \in Messages
           /\ m \notin LoginMsgs /\ m \notin ResponseMsgs /\ m \notin SymKeyMsgs
           /\ PollOf(u) \in PollMsgs /\ PollResponse(u) \notin PollMsgs
           /\ m.hash = NoPass
BY DEF PollOf, PollResponse, Messages, MsgTypes, KeyTypes, Inputs, LoginMsgs,
       ResponseMsgs, PollMsgs, SymKeyMsgs

-----------------------------------------------------------------------------
(* The four ways in which the stream changes.                              *)

\* The client has put m into the stream.
Added(m) ==
    /\ toServer' \in Seq(Messages)
    /\ \A S : InStream(S, toServer') <=> InStream(S, toServer) \/ m \in S
    /\ \A i \in DOMAIN toServer' :
         toServer'[i] = m \/ \E j \in DOMAIN toServer : toServer'[i] = toServer[j]

\* The server has taken m out of it.
Consumed(m) ==
    /\ toServer' \in Seq(Messages)
    /\ m \in Messages
    /\ \E j \in DOMAIN toServer : m = toServer[j]
    /\ \A S : InStream(S, toServer) <=> m \in S \/ InStream(S, toServer')
    /\ \A i \in DOMAIN toServer' :
         \E j \in DOMAIN toServer : toServer'[i] = toServer[j]

\* The server has sent r, if the client is there to get it.
Replied(r) ==
    /\ toClient' \in Seq(Replies)
    /\ \A x : Has(x, toClient') => Has(x, toClient) \/ r = x
    /\ clientOpen => Has(r, toClient')
    /\ clientOpen => \A x : Has(x, toClient) => Has(x, toClient')
    /\ \A x : Once(x, toClient) /\ (r # x \/ ~Has(x, toClient))
                => Once(x, toClient')

\* The reader has taken r.
Taken(r) ==
    /\ toClient' \in Seq(Replies)
    /\ \A x : Has(x, toClient) <=> r = x \/ Has(x, toClient')
    /\ \A x : Once(x, toClient) => Once(x, toClient')
    /\ \A x : Once(x, toClient) /\ r = x => ~Has(x, toClient')

\* encode(out) adds its message and nothing else.
LEMMA SentFacts ==
    ASSUME TypeOK, NEW m \in Messages, Sent(m)
    PROVE  Added(m)
<1>1. toServer \in Seq(Messages) /\ toServer' = Append(toServer, m)
  BY DEF TypeOK, Sent
<1>2. \A S : InStream(S, toServer') <=> InStream(S, toServer) \/ m \in S
  BY <1>1, InStreamAppend, Zenon
<1>3. /\ DOMAIN Append(toServer, m) = DOMAIN toServer \cup {Len(toServer) + 1}
      /\ \A i \in DOMAIN toServer : Append(toServer, m)[i] = toServer[i]
      /\ Append(toServer, m)[Len(toServer) + 1] = m
      /\ Append(toServer, m) \in Seq(Messages)
  BY <1>1
<1> QED
  BY <1>1, <1>2, <1>3, Zenon DEF Added

\* decode takes the first message out of the stream and nothing else.
LEMMA DecodeFacts ==
    ASSUME TypeOK, NEW m \in Incoming, Decode
    PROVE  Consumed(m)
<1>1. /\ toServer \in Seq(Messages) /\ toServer # << >>
      /\ m = Head(toServer) /\ toServer' = Tail(toServer)
  BY DEF TypeOK, Incoming, Decode
<1>2. \A S : InStream(S, toServer) <=> m \in S \/ InStream(S, toServer')
  BY <1>1, InStreamTail, Zenon
<1>3. /\ 1 \in DOMAIN toServer /\ m = toServer[1] /\ m \in Messages
      /\ toServer' \in Seq(Messages)
  BY <1>1
<1>4. \A i \in DOMAIN toServer' :
         i + 1 \in DOMAIN toServer /\ toServer'[i] = toServer[i + 1]
  BY <1>1
<1> QED
  BY <1>2, <1>3, <1>4, Zenon DEF Consumed

\* sock->send adds its message, or the client has exited.
LEMMA ReplyFacts ==
    ASSUME TypeOK, NEW r \in Replies, NEW next, Reply(r, next)
    PROVE  /\ Replied(r)
           /\ stage' \in {next, "closed"}
           /\ clientOpen => stage' = next
<1>1. toClient \in Seq(Replies)
  BY DEF TypeOK
<1>2. CASE toClient' = Append(toClient, r) /\ stage' = next
  <2>1. toClient' \in Seq(Replies)
    BY <1>1, <1>2
  <2>2. \A x : Has(x, toClient') <=> Has(x, toClient) \/ r = x
    BY <1>1, <1>2, HasAppend, Zenon
  <2>3. \A x : Once(x, toClient) /\ (r # x \/ ~Has(x, toClient))
                 => Once(x, toClient')
    BY <1>1, <1>2, OnceAppend, Zenon
  <2> QED
    BY <1>2, <2>1, <2>2, <2>3, Zenon DEF Replied
<1>3. CASE ~clientOpen /\ UNCHANGED toClient /\ stage' \in {next, "closed"}
  BY <1>1, <1>3 DEF Replied
<1> QED
  BY <1>2, <1>3 DEF Reply

\* The reader takes the first message out of the stream and nothing else.
LEMMA ReceiveFacts ==
    ASSUME TypeOK, NEW R, Receive(R)
    PROVE  Head(toClient) \in R /\ Taken(Head(toClient))
<1>1. /\ toClient \in Seq(Replies) /\ toClient # << >>
      /\ Head(toClient) \in R /\ toClient' = Tail(toClient)
  BY DEF TypeOK, Receive
<1>2. toClient' \in Seq(Replies)
  BY <1>1
<1> QED
  BY <1>1, <1>2, HasTail, OnceTail, Zenon DEF Taken

-----------------------------------------------------------------------------
(* The inductive step: steps that leave the stream alone.                  *)

\* Steps of all threads that neither send nor receive preserve the invariant.
LEMMA QuietStep ==
    ASSUME IndInv, \/ FillInput \/ SetUsername \/ DismissInvalid \/ DismissDialog
                   \/ WindowClosing \/ HashInput \/ ZeroInput \/ HidePane
                   \/ SetExchanged \/ ReaderEnd \/ CheckTime \/ DeliverDone
                   \/ ServerEnd \/ Expire \/ NameReplaced
    PROVE  IndInv'
<1> USE NamesAssumption, PasswordsAssumption, AccountAssumption,
        BoundsAssumption
    DEF IndInv, client, window, login, progress, server, stream, ghosts
<1>1. CASE FillInput
  BY <1>1 DEF TypeOK, NameInv, AuthInv, AuthSound, AckInv, PollInv, TurnInv,
     LateInv, EdtStates, ReaderStates, Inputs, Handshake, Opened, Stages,
     FillInput
<1>2. CASE SetUsername
  BY <1>2 DEF TypeOK, NameInv, AuthInv, AuthSound, AckInv, PollInv, TurnInv,
     LateInv, EdtStates, ReaderStates, Inputs, Handshake, Opened, Stages,
     SetUsername
<1>3. CASE DismissInvalid
  BY <1>3 DEF TypeOK, NameInv, AuthInv, AuthSound, AckInv, PollInv, TurnInv,
     LateInv, EdtStates, ReaderStates, Inputs, Handshake, Opened, Stages,
     DismissInvalid
<1>4. CASE DismissDialog
  BY <1>4 DEF TypeOK, NameInv, AuthInv, AuthSound, AckInv, PollInv, TurnInv,
     LateInv, EdtStates, ReaderStates, Inputs, Handshake, Opened, Stages,
     DismissDialog
<1>5. CASE WindowClosing
  <2>1. TypeOK'
    BY <1>5 DEF TypeOK, WindowClosing, UserMayAct
  <2>2. NameInv'
    BY <1>5 DEF TypeOK, NameInv, WindowClosing, UserMayAct
  <2>3. AuthInv'
    BY <1>5 DEF TypeOK, NameInv, AuthInv, AuthSound, WindowClosing, UserMayAct
  <2>4. AckInv'
    BY <1>5 DEF AckInv, WindowClosing, UserMayAct
  <2>5. PollInv'
    BY <1>5 DEF TypeOK, NameInv, PollInv, WindowClosing, UserMayAct
  <2>6. TurnInv'
    BY <1>5 DEF AckInv, TurnInv, WindowClosing, UserMayAct
  <2>7. LateInv'
    BY <1>5 DEF TypeOK, LateInv, WindowClosing, UserMayAct
  <2> QED
    BY <2>1, <2>2, <2>3, <2>4, <2>5, <2>6, <2>7
<1>6. CASE HashInput
  BY <1>6 DEF TypeOK, NameInv, AuthInv, AuthSound, AckInv, PollInv, TurnInv,
     LateInv, EdtStates, ReaderStates, Inputs, Handshake, Opened, Stages,
     HashInput, At
<1>7. CASE ZeroInput
  BY <1>7 DEF TypeOK, NameInv, AuthInv, AuthSound, AckInv, PollInv, TurnInv,
     LateInv, EdtStates, ReaderStates, Inputs, Handshake, Opened, Stages,
     ZeroInput, At
<1>8. CASE HidePane
  <2>1. TypeOK'
    BY <1>8 DEF TypeOK, AckInv, ReaderStates, HidePane, At
  <2>2. NameInv'
    BY <1>8 DEF TypeOK, NameInv, HidePane, At
  <2>3. AuthInv'
    BY <1>8 DEF TypeOK, NameInv, AuthInv, AuthSound, HidePane, At
  <2>4. AckInv'
    BY <1>8 DEF AckInv, HidePane, At
  <2>5. PollInv'
    BY <1>8 DEF TypeOK, NameInv, PollInv, HidePane, At
  <2>6. TurnInv'
    BY <1>8 DEF AckInv, TurnInv, HidePane, At
  <2>7. LateInv'
    BY <1>8 DEF TypeOK, LateInv, HidePane, At
  <2> QED
    BY <2>1, <2>2, <2>3, <2>4, <2>5, <2>6, <2>7
<1>9. CASE SetExchanged
  BY <1>9 DEF TypeOK, NameInv, AuthInv, AuthSound, AckInv, PollInv, TurnInv,
     LateInv, EdtStates, ReaderStates, Inputs, Handshake, Opened, Stages,
     SetExchanged, At
<1>10. CASE ReaderEnd
  BY <1>10 DEF TypeOK, NameInv, AuthInv, AuthSound, AckInv, PollInv, TurnInv,
     LateInv, EdtStates, ReaderStates, Inputs, Handshake, Opened, Stages,
     ReaderEnd
<1>11. CASE CheckTime
  BY <1>11 DEF TypeOK, NameInv, AuthInv, AuthSound, AckInv, PollInv, TurnInv,
     LateInv, EdtStates, ReaderStates, Inputs, Handshake, Opened, Stages,
     CheckTime
<1>12. CASE DeliverDone
  BY <1>12 DEF TypeOK, NameInv, AuthInv, AuthSound, AckInv, PollInv, TurnInv,
     LateInv, EdtStates, ReaderStates, Inputs, Handshake, Opened, Stages,
     DeliverDone
<1>13. CASE ServerEnd
  BY <1>13 DEF TypeOK, NameInv, AuthInv, AuthSound, AckInv, PollInv, TurnInv,
     LateInv, EdtStates, ReaderStates, Inputs, Handshake, Opened, Stages,
     ServerEnd
<1>14. CASE Expire
  BY <1>14 DEF TypeOK, NameInv, AuthInv, AuthSound, AckInv, PollInv, TurnInv,
     LateInv, EdtStates, ReaderStates, Inputs, Handshake, Opened, Stages,
     Expire
<1>15. CASE NameReplaced
  <2>1. TypeOK'
    BY <1>15 DEF TypeOK, NameInv, EdtStates, ReaderStates, NameReplaced, Replaced
  <2>2. NameInv'
    BY <1>15 DEF TypeOK, NameInv, NameReplaced, Replaced
  <2>3. AuthInv'
    BY <1>15 DEF TypeOK, AuthInv, AuthSound, NameReplaced, Replaced
  <2>4. AckInv'
    BY <1>15 DEF AckInv, NameReplaced, Replaced
  <2>5. PollInv'
    BY <1>15 DEF TypeOK, PollInv, NameReplaced, Replaced
  <2>6. TurnInv'
    BY <1>15 DEF TurnInv, NameReplaced, Replaced
  <2>7. LateInv'
    BY <1>15 DEF TypeOK, LateInv, NameReplaced, Replaced
  <2> QED
    BY <2>1, <2>2, <2>3, <2>4, <2>5, <2>6, <2>7
<1> QED
  BY <1>1, <1>2, <1>3, <1>4, <1>5, <1>6, <1>7, <1>8, <1>9, <1>10, <1>11,
     <1>12, <1>13, <1>14, <1>15

\* A press of the OK button preserves the invariant.
LEMMA PressStep ==
    ASSUME IndInv, Press
    PROVE  IndInv'
<1> USE NamesAssumption, PasswordsAssumption, AccountAssumption,
        BoundsAssumption
    DEF IndInv, client, window, login, progress, server, stream, ghosts
<1>1. PICK n \in Names \cup {NoName}, p \in Passwords \cup {NoPass} : PressOK(n, p)
  BY DEF Press
<1>2. TypeOK'
  BY <1>1 DEF TypeOK, EdtStates, Inputs, PressOK, UserMayAct
<1>3. NameInv'
  BY <1>1 DEF TypeOK, NameInv, PressOK, UserMayAct
<1>4. AuthInv'
  BY <1>1 DEF TypeOK, NameInv, AuthInv, AuthSound, PressOK, UserMayAct
<1>5. AckInv'
  BY <1>1 DEF AckInv, PressOK, UserMayAct
<1>6. PollInv'
  BY <1>1 DEF TypeOK, NameInv, PollInv, PressOK, UserMayAct
<1>7. TurnInv'
  BY <1>1 DEF AckInv, TurnInv, PressOK, UserMayAct
<1>8. LateInv'
  BY <1>1 DEF TypeOK, LateInv, PressOK, UserMayAct
<1> QED
  BY <1>2, <1>3, <1>4, <1>5, <1>6, <1>7, <1>8

-----------------------------------------------------------------------------
(* The inductive step: the client sends.                                   *)

\* The Login of a press.
LEMMA ValidateStep ==
    ASSUME IndInv, Validate
    PROVE  IndInv'
<1> USE NamesAssumption, PasswordsAssumption, AccountAssumption,
        BoundsAssumption
    DEF IndInv, client, window, login, progress, server, stream, ghosts
<1>1. CASE form.name \in WellFormed /\ Sent(Login(form.name, "NONE"))
  <2>1. form.name \in Names
    BY <1>1 DEF TypeOK, NameInv, Validate
  <2>2. Added(Login(form.name, "NONE"))
    BY <1>1, <2>1, SentFacts, LoginFacts DEF KeyTypes
  <2>3. TypeOK'
    BY <1>1, <2>1, <2>2, LoginFacts DEF TypeOK, EdtStates, Added, KeyTypes,
       Validate
  <2>4. NameInv'
    BY <1>1, <2>1, <2>2, LoginFacts DEF TypeOK, NameInv, Added, KeyTypes,
       Validate
  <2>5. AuthInv'
    BY <1>1, <2>1, <2>2, LoginFacts DEF TypeOK, NameInv, AuthInv, AuthSound,
       Added, KeyTypes, Validate
  <2>6. AckInv'
    BY <1>1, <2>1, <2>2, LoginFacts DEF AckInv, Added, KeyTypes, Validate
  <2>7. PollInv'
    BY <1>1, <2>1, <2>2, LoginFacts DEF TypeOK, NameInv, PollInv, Added,
       KeyTypes, Validate
  <2>8. TurnInv'
    BY <1>1, <2>1, <2>2, LoginFacts DEF AckInv, TurnInv, Added, KeyTypes,
       Validate
  <2>9. LateInv'
    BY <1>1, <2>1, <2>2, LoginFacts DEF TypeOK, LateInv, Added, KeyTypes,
       Validate
  <2> QED
    BY <2>3, <2>4, <2>5, <2>6, <2>7, <2>8, <2>9
<1>2. CASE UNCHANGED toServer
  <2>1. TypeOK'
    BY <1>2 DEF TypeOK, EdtStates, Validate
  <2>2. NameInv'
    BY <1>2 DEF TypeOK, NameInv, Validate
  <2>3. AuthInv'
    BY <1>2 DEF TypeOK, NameInv, AuthInv, AuthSound, Validate
  <2>4. AckInv'
    BY <1>2 DEF AckInv, Validate
  <2>5. PollInv'
    BY <1>2 DEF TypeOK, NameInv, PollInv, Validate
  <2>6. TurnInv'
    BY <1>2 DEF AckInv, TurnInv, Validate
  <2>7. LateInv'
    BY <1>2 DEF TypeOK, LateInv, Validate
  <2> QED
    BY <2>1, <2>2, <2>3, <2>4, <2>5, <2>6, <2>7
<1> QED
  BY <1>1, <1>2 DEF Validate, Throws, Refused, WriteFails

\* A text of the user.
LEMMA SendClickStep ==
    ASSUME IndInv, SendClick
    PROVE  IndInv'
<1> USE NamesAssumption, PasswordsAssumption, AccountAssumption,
        BoundsAssumption
    DEF IndInv, client, window, login, progress, server, stream, ghosts
<1>1. CASE Sent(PollResponse(username))
  <2>1. username \in Names
    BY <1>1 DEF TypeOK, NameInv, SendClick, UserMayAct
  <2>2. Added(PollResponse(username))
    BY <1>1, <2>1, SentFacts, RequestFacts
  <2>3. TypeOK'
    BY <1>1, <2>1, <2>2, RequestFacts DEF TypeOK, Added, SendClick, UserMayAct
  <2>4. NameInv'
    BY <1>1, <2>1, <2>2, RequestFacts DEF TypeOK, NameInv, Added, SendClick,
       UserMayAct
  <2>5. AuthInv'
    BY <1>1, <2>1, <2>2, RequestFacts DEF TypeOK, NameInv, AuthInv, AuthSound,
       Added, SendClick, UserMayAct
  <2>6. AckInv'
    BY <1>1, <2>1, <2>2, RequestFacts DEF AckInv, Added, SendClick, UserMayAct
  <2>7. PollInv'
    BY <1>1, <2>1, <2>2, RequestFacts DEF TypeOK, NameInv, PollInv, Added,
       SendClick, UserMayAct
  <2>8. TurnInv'
    BY <1>1, <2>1, <2>2, RequestFacts DEF AckInv, TurnInv, Added, SendClick,
       UserMayAct
  <2>9. LateInv'
    BY <1>1, <2>1, <2>2, RequestFacts DEF TypeOK, LateInv, Added, SendClick,
       UserMayAct
  <2> QED
    BY <2>3, <2>4, <2>5, <2>6, <2>7, <2>8, <2>9
<1>2. CASE UNCHANGED toServer
  <2>1. TypeOK'
    BY <1>2 DEF TypeOK, SendClick, UserMayAct
  <2>2. NameInv'
    BY <1>2 DEF TypeOK, NameInv, SendClick, UserMayAct
  <2>3. AuthInv'
    BY <1>2 DEF TypeOK, NameInv, AuthInv, AuthSound, SendClick, UserMayAct
  <2>4. AckInv'
    BY <1>2 DEF AckInv, SendClick, UserMayAct
  <2>5. PollInv'
    BY <1>2 DEF TypeOK, NameInv, PollInv, SendClick, UserMayAct
  <2>6. TurnInv'
    BY <1>2 DEF AckInv, TurnInv, SendClick, UserMayAct
  <2>7. LateInv'
    BY <1>2 DEF TypeOK, LateInv, SendClick, UserMayAct
  <2> QED
    BY <2>1, <2>2, <2>3, <2>4, <2>5, <2>6, <2>7
<1> QED
  BY <1>1, <1>2 DEF SendClick, Throws, Refused, WriteFails

\* A Poll of the PollThread.
LEMMA PollStep ==
    ASSUME IndInv, Poll
    PROVE  IndInv'
<1> USE NamesAssumption, PasswordsAssumption, AccountAssumption,
        BoundsAssumption
    DEF IndInv, client, window, login, progress, server, stream, ghosts
<1>1. CASE Sent(PollOf(username))
  <2>1. username \in Names
    BY <1>1 DEF TypeOK, NameInv, Poll
  <2>2. Added(PollOf(username))
    BY <1>1, <2>1, SentFacts, RequestFacts
  <2>3. TypeOK'
    BY <1>1, <2>1, <2>2, RequestFacts DEF TypeOK, Added, Poll
  <2>4. NameInv'
    BY <1>1, <2>1, <2>2, RequestFacts DEF TypeOK, NameInv, Added, Poll
  <2>5. AuthInv'
    BY <1>1, <2>1, <2>2, RequestFacts DEF TypeOK, NameInv, AuthInv, AuthSound,
       Added, Poll
  <2>6. AckInv'
    BY <1>1, <2>1, <2>2, RequestFacts DEF AckInv, Added, Poll
  <2>7. PollInv'
    BY <1>1, <2>1, <2>2, RequestFacts DEF TypeOK, NameInv, PollInv, Handshake,
       Added, Poll
  <2>8. TurnInv'
    BY <1>1, <2>1, <2>2, RequestFacts DEF AckInv, TurnInv, Added, Poll
  <2>9. LateInv'
    BY <1>1, <2>1, <2>2, RequestFacts DEF TypeOK, LateInv, Added, Poll
  <2> QED
    BY <2>3, <2>4, <2>5, <2>6, <2>7, <2>8, <2>9
<1> QED
  BY <1>1 DEF Poll

\* The answer to the challenge.
LEMMA RespondStep ==
    ASSUME IndInv, Respond
    PROVE  IndInv'
<1> USE NamesAssumption, PasswordsAssumption, AccountAssumption,
        BoundsAssumption
    DEF IndInv, client, window, login, progress, server, stream, ghosts
<1>1. CASE username \in Names /\ Sent(Response(username, digest)) /\ reader' = "zero"
  <2>1. username \in Names
    BY <1>1 DEF TypeOK, NameInv, Respond, At
  <2>2. Added(Response(username, digest))
    BY <1>1, <2>1, SentFacts, ResponseFacts DEF TypeOK
  <2>3. TypeOK'
    BY <1>1, <2>1, <2>2, ResponseFacts DEF TypeOK, ReaderStates, Added,
       Respond, At
  <2>4. NameInv'
    BY <1>1, <2>1, <2>2, ResponseFacts DEF TypeOK, NameInv, Added, Respond, At
  <2>5. AuthInv'
    BY <1>1, <2>1, <2>2, ResponseFacts, SMTT(30) DEF TypeOK, NameInv, AuthInv,
       AuthSound, Added, Respond, At
  <2>6. AckInv'
    BY <1>1, <2>1, <2>2, ResponseFacts DEF AckInv, Added, Respond, At
  <2>7. PollInv'
    BY <1>1, <2>1, <2>2, ResponseFacts DEF TypeOK, NameInv, PollInv, Added,
       Respond, At
  <2>8. TurnInv'
    BY <1>1, <2>1, <2>2, ResponseFacts DEF AckInv, TurnInv, TypeOK, Added,
       Respond, At
  <2>9. LateInv'
    BY <1>1, <2>1, <2>2, ResponseFacts DEF TypeOK, LateInv, Added, Respond, At
  <2> QED
    BY <2>3, <2>4, <2>5, <2>6, <2>7, <2>8, <2>9
<1>2. CASE UNCHANGED toServer /\ reader' \in {"stuck", "dead"}
  <2>1. TypeOK'
    BY <1>2 DEF TypeOK, ReaderStates, Respond, At
  <2>2. NameInv'
    BY <1>2 DEF TypeOK, NameInv, Respond, At
  <2>3. AuthInv'
    BY <1>2 DEF TypeOK, NameInv, AuthInv, AuthSound, Respond, At
  <2>4. AckInv'
    BY <1>2 DEF AckInv, Respond, At
  <2>5. PollInv'
    BY <1>2 DEF TypeOK, NameInv, PollInv, Respond, At
  <2>6. TurnInv'
    BY <1>2 DEF AckInv, TurnInv, TypeOK, Respond, At
  <2>7. LateInv'
    BY <1>2 DEF TypeOK, LateInv, Respond, At
  <2> QED
    BY <2>1, <2>2, <2>3, <2>4, <2>5, <2>6, <2>7
<1> QED
  BY <1>1, <1>2 DEF Respond, Throws, Refused, WriteFails

\* The client's public key.
LEMMA SendAsymStep ==
    ASSUME IndInv, SendAsym
    PROVE  IndInv'
<1> USE NamesAssumption, PasswordsAssumption, AccountAssumption,
        BoundsAssumption
    DEF IndInv, client, window, login, progress, server, stream, ghosts
<1>1. CASE Sent(Login(username, "ASYMMETRIC")) /\ UNCHANGED excuses
  <2>1. username \in Names
    BY <1>1 DEF TypeOK, NameInv, SendAsym, At
  <2>2. Added(Login(username, "ASYMMETRIC"))
    BY <1>1, <2>1, SentFacts, LoginFacts DEF KeyTypes
  <2>3. TypeOK'
    BY <1>1, <2>1, <2>2, LoginFacts DEF TypeOK, ReaderStates, Added, KeyTypes,
       SendAsym, At
  <2>4. NameInv'
    BY <1>1, <2>1, <2>2, LoginFacts DEF TypeOK, NameInv, Added, KeyTypes,
       SendAsym, At
  <2>5. AuthInv'
    BY <1>1, <2>1, <2>2, LoginFacts DEF TypeOK, NameInv, AuthInv, AuthSound,
       Added, KeyTypes, SendAsym, At
  <2>6. AckInv'
    BY <1>1, <2>1, <2>2, LoginFacts DEF AckInv, Added, KeyTypes, SendAsym, At
  <2>7. PollInv'
    BY <1>1, <2>1, <2>2, LoginFacts DEF TypeOK, NameInv, PollInv, Added,
       KeyTypes, SendAsym, At
  <2>8. TurnInv'
    BY <1>1, <2>1, <2>2, LoginFacts DEF AckInv, TurnInv, Added, KeyTypes,
       SendAsym, At
  <2>9. LateInv'
    BY <1>1, <2>1, <2>2, LoginFacts DEF TypeOK, LateInv, Added, KeyTypes,
       SendAsym, At
  <2> QED
    BY <2>3, <2>4, <2>5, <2>6, <2>7, <2>8, <2>9
<1>2. CASE UNCHANGED toServer /\ excuses' = excuses \cup {"noKey"}
  <2>1. TypeOK'
    BY <1>2 DEF TypeOK, ReaderStates, SendAsym, At
  <2>2. NameInv'
    BY <1>2 DEF TypeOK, NameInv, SendAsym, At
  <2>3. AuthInv'
    BY <1>2 DEF TypeOK, NameInv, AuthInv, AuthSound, SendAsym, At
  <2>4. AckInv'
    BY <1>2 DEF AckInv, SendAsym, At
  <2>5. PollInv'
    BY <1>2 DEF TypeOK, NameInv, PollInv, SendAsym, At
  <2>6. TurnInv'
    BY <1>2 DEF AckInv, TurnInv, SendAsym, At
  <2>7. LateInv'
    BY <1>2 DEF TypeOK, LateInv, SendAsym, At
  <2> QED
    BY <2>1, <2>2, <2>3, <2>4, <2>5, <2>6, <2>7
<1> QED
  BY <1>1, <1>2 DEF SendAsym, Throws, Refused, WriteFails

\* The session key.
LEMMA SendSymStep ==
    ASSUME IndInv, SendSym
    PROVE  IndInv'
<1> USE NamesAssumption, PasswordsAssumption, AccountAssumption,
        BoundsAssumption
    DEF IndInv, client, window, login, progress, server, stream, ghosts
<1>1. CASE Sent(Login(username, "SYMMETRIC")) /\ reader' = "flag" /\ UNCHANGED excuses
  <2>1. username \in Names
    BY <1>1 DEF TypeOK, NameInv, SendSym, At
  <2>2. Added(Login(username, "SYMMETRIC"))
    BY <1>1, <2>1, SentFacts, LoginFacts DEF KeyTypes
  <2>3. TypeOK'
    BY <1>1, <2>1, <2>2, LoginFacts DEF TypeOK, ReaderStates, Added, KeyTypes,
       SendSym, At
  <2>4. NameInv'
    BY <1>1, <2>1, <2>2, LoginFacts DEF TypeOK, NameInv, Added, KeyTypes,
       SendSym, At
  <2>5. AuthInv'
    BY <1>1, <2>1, <2>2, LoginFacts DEF TypeOK, NameInv, AuthInv, AuthSound,
       Added, KeyTypes, SendSym, At
  <2>6. AckInv'
    BY <1>1, <2>1, <2>2, LoginFacts DEF AckInv, Added, KeyTypes, SendSym, At
  <2>7. PollInv'
    BY <1>1, <2>1, <2>2, LoginFacts DEF TypeOK, NameInv, PollInv, Added,
       KeyTypes, SendSym, At
  <2>8. TurnInv'
    BY <1>1, <2>1, <2>2, LoginFacts DEF AckInv, TurnInv, Added, KeyTypes,
       SendSym, At
  <2>9. LateInv'
    BY <1>1, <2>1, <2>2, LoginFacts DEF TypeOK, LateInv, Added, KeyTypes,
       SendSym, At
  <2> QED
    BY <2>3, <2>4, <2>5, <2>6, <2>7, <2>8, <2>9
<1>2. CASE /\ UNCHANGED toServer /\ reader' = "reading"
           /\ excuses' = excuses \cup {"noKey"}
  <2>1. TypeOK'
    BY <1>2 DEF TypeOK, ReaderStates, SendSym, At
  <2>2. NameInv'
    BY <1>2 DEF TypeOK, NameInv, SendSym, At
  <2>3. AuthInv'
    BY <1>2 DEF TypeOK, NameInv, AuthInv, AuthSound, SendSym, At
  <2>4. AckInv'
    BY <1>2 DEF AckInv, SendSym, At
  <2>5. PollInv'
    BY <1>2 DEF TypeOK, NameInv, PollInv, SendSym, At
  <2>6. TurnInv'
    BY <1>2 DEF AckInv, TurnInv, SendSym, At
  <2>7. LateInv'
    BY <1>2 DEF TypeOK, LateInv, SendSym, At
  <2> QED
    BY <2>1, <2>2, <2>3, <2>4, <2>5, <2>6, <2>7
<1> QED
  BY <1>1, <1>2 DEF SendSym, Throws, Refused, WriteFails

-----------------------------------------------------------------------------
(* The inductive step: the reader receives.                                *)

\* Each handler of the reader preserves the invariant as it takes its message.
LEMMA ReceiveStep ==
    ASSUME IndInv, \/ RecvChallenge \/ RecvAckAuth \/ RecvAckError
                   \/ RecvPubKey \/ RecvAckSuccess \/ RecvPollResponse
    PROVE  IndInv'
<1> USE NamesAssumption, PasswordsAssumption, AccountAssumption,
        BoundsAssumption
    DEF IndInv, client, window, login, progress, server, stream, ghosts
<1>0. clientOpen /\ reader = "reading"
  BY DEF RecvChallenge, RecvAckAuth, RecvAckError, RecvPubKey, RecvAckSuccess,
     RecvPollResponse, Receive
<1>1. CASE RecvChallenge
  <2>1. Taken("Challenge")
    BY <1>1, ReceiveFacts DEF RecvChallenge
  <2>2. TypeOK'
    BY <1>0, <1>1, <2>1 DEF TypeOK, ReaderStates, Taken, RecvChallenge
  <2>3. NameInv'
    BY <1>0, <1>1, <2>1 DEF TypeOK, NameInv, Taken, RecvChallenge
  <2>4. AuthInv'
    BY <1>0, <1>1, <2>1 DEF TypeOK, NameInv, AuthInv, AuthSound, Taken,
       RecvChallenge
  <2>5. AckInv'
    BY <1>0, <1>1, <2>1 DEF AckInv, Taken, RecvChallenge
  <2>6. PollInv'
    BY <1>0, <1>1, <2>1 DEF TypeOK, NameInv, PollInv, Taken, RecvChallenge
  <2>7. TurnInv'
    BY <1>0, <1>1, <2>1 DEF AckInv, TurnInv, Taken, RecvChallenge
  <2>8. LateInv'
    BY <1>0, <1>1, <2>1 DEF TypeOK, LateInv, Taken, RecvChallenge
  <2> QED
    BY <2>2, <2>3, <2>4, <2>5, <2>6, <2>7, <2>8
<1>2. CASE RecvAckAuth
  <2>1. Taken("AckAuth")
    BY <1>2, ReceiveFacts DEF RecvAckAuth
  <2>2. TypeOK'
    BY <1>0, <1>2, <2>1 DEF TypeOK, ReaderStates, Taken, RecvAckAuth
  <2>3. NameInv'
    BY <1>0, <1>2, <2>1 DEF TypeOK, NameInv, Taken, RecvAckAuth
  <2>4. AuthInv'
    BY <1>0, <1>2, <2>1 DEF TypeOK, NameInv, AuthInv, AuthSound, Taken,
       RecvAckAuth
  <2>5. AckInv'
    BY <1>0, <1>2, <2>1 DEF AckInv, Taken, RecvAckAuth
  <2>6. PollInv'
    BY <1>0, <1>2, <2>1 DEF TypeOK, NameInv, PollInv, Taken, RecvAckAuth
  <2>7. TurnInv'
    BY <1>0, <1>2, <2>1 DEF AckInv, TurnInv, Taken, RecvAckAuth
  <2>8. LateInv'
    BY <1>0, <1>2, <2>1 DEF TypeOK, LateInv, Taken, RecvAckAuth
  <2> QED
    BY <2>2, <2>3, <2>4, <2>5, <2>6, <2>7, <2>8
<1>3. CASE RecvPubKey
  <2>1. Taken("PubKey")
    BY <1>3, ReceiveFacts DEF RecvPubKey
  <2>2. TypeOK'
    BY <1>0, <1>3, <2>1 DEF TypeOK, ReaderStates, Taken, RecvPubKey
  <2>3. NameInv'
    BY <1>0, <1>3, <2>1 DEF TypeOK, NameInv, Taken, RecvPubKey
  <2>4. AuthInv'
    BY <1>0, <1>3, <2>1 DEF TypeOK, NameInv, AuthInv, AuthSound, Taken,
       RecvPubKey
  <2>5. AckInv'
    BY <1>0, <1>3, <2>1 DEF AckInv, Taken, RecvPubKey
  <2>6. PollInv'
    BY <1>0, <1>3, <2>1 DEF TypeOK, NameInv, PollInv, Taken, RecvPubKey
  <2>7. TurnInv'
    BY <1>0, <1>3, <2>1 DEF AckInv, TurnInv, Taken, RecvPubKey
  <2>8. LateInv'
    BY <1>0, <1>3, <2>1 DEF TypeOK, LateInv, Taken, RecvPubKey
  <2> QED
    BY <2>2, <2>3, <2>4, <2>5, <2>6, <2>7, <2>8
<1>4. CASE RecvAckSuccess
  <2>1. Taken("AckSuccess")
    BY <1>4, ReceiveFacts DEF RecvAckSuccess
  <2>2. TypeOK'
    BY <1>0, <1>4, <2>1 DEF TypeOK, Taken, RecvAckSuccess
  <2>3. NameInv'
    BY <1>0, <1>4, <2>1 DEF TypeOK, NameInv, Taken, RecvAckSuccess
  <2>4. AuthInv'
    BY <1>0, <1>4, <2>1 DEF TypeOK, NameInv, AuthInv, AuthSound, Taken,
       RecvAckSuccess
  <2>5. AckInv'
    BY <1>0, <1>4, <2>1 DEF AckInv, Taken, RecvAckSuccess
  <2>6. PollInv'
    BY <1>0, <1>4, <2>1 DEF TypeOK, NameInv, PollInv, Taken, RecvAckSuccess
  <2>7. TurnInv'
    BY <1>0, <1>4, <2>1 DEF AckInv, TurnInv, Taken, RecvAckSuccess
  <2>8. LateInv'
    BY <1>0, <1>4, <2>1 DEF TypeOK, LateInv, Taken, RecvAckSuccess
  <2> QED
    BY <2>2, <2>3, <2>4, <2>5, <2>6, <2>7, <2>8
<1>5. CASE RecvPollResponse
  <2>1. Taken("PollResponse")
    BY <1>5, ReceiveFacts DEF RecvPollResponse
  <2>2. TypeOK'
    BY <1>0, <1>5, <2>1 DEF TypeOK, ReaderStates, Taken, RecvPollResponse
  <2>3. NameInv'
    BY <1>0, <1>5, <2>1 DEF TypeOK, NameInv, Taken, RecvPollResponse
  <2>4. AuthInv'
    BY <1>0, <1>5, <2>1 DEF TypeOK, NameInv, AuthInv, AuthSound, Taken,
       RecvPollResponse
  <2>5. AckInv'
    BY <1>0, <1>5, <2>1 DEF AckInv, Taken, RecvPollResponse
  <2>6. PollInv'
    BY <1>0, <1>5, <2>1 DEF TypeOK, NameInv, PollInv, Taken, RecvPollResponse
  <2>7. TurnInv'
    BY <1>0, <1>5, <2>1 DEF AckInv, TurnInv, Taken, RecvPollResponse
  <2>8. LateInv'
    BY <1>0, <1>5, <2>1 DEF TypeOK, LateInv, Taken, RecvPollResponse
  <2> QED
    BY <2>2, <2>3, <2>4, <2>5, <2>6, <2>7, <2>8
<1>6. CASE RecvAckError
  <2>1. \/ Taken("AckError")
        \/ Taken("AckAuth") /\ authenticated
    BY <1>6, ReceiveFacts DEF RecvAckError
  <2>2. TypeOK'
    BY <1>0, <1>6, <2>1 DEF TypeOK, Taken, RecvAckError
  <2>3. NameInv'
    BY <1>0, <1>6, <2>1 DEF TypeOK, NameInv, Taken, RecvAckError
  <2>4. AuthInv'
    BY <1>0, <1>6, <2>1 DEF TypeOK, NameInv, AuthInv, AuthSound, Taken,
       RecvAckError
  <2>5. AckInv'
    BY <1>0, <1>6, <2>1 DEF AckInv, Taken, RecvAckError
  <2>6. PollInv'
    BY <1>0, <1>6, <2>1 DEF TypeOK, NameInv, PollInv, Taken, RecvAckError
  <2>7. TurnInv'
    BY <1>0, <1>6, <2>1 DEF AckInv, TurnInv, Taken, RecvAckError
  <2>8. LateInv'
    BY <1>0, <1>6, <2>1 DEF TypeOK, LateInv, Taken, RecvAckError
  <2> QED
    BY <2>2, <2>3, <2>4, <2>5, <2>6, <2>7, <2>8
<1> QED
  BY <1>1, <1>2, <1>3, <1>4, <1>5, <1>6

-----------------------------------------------------------------------------
(* The inductive step: the server serves.                                  *)

\* Closing the connection preserves the invariant, whatever is under way.
LEMMA CloseStep ==
    ASSUME IndInv, stage' = "closed", batch' \in 0 .. MaxBatch,
           UNCHANGED <<client, originalUser, expired, toClient, ghosts>>,
           \/ UNCHANGED toServer
           \/ \E m \in Incoming : Decode
    PROVE  IndInv'
<1> USE NamesAssumption, PasswordsAssumption, AccountAssumption,
        BoundsAssumption
    DEF IndInv, client, window, login, progress, server, stream, ghosts
<1>1. /\ toServer' \in Seq(Messages)
      /\ \A S : InStream(S, toServer') => InStream(S, toServer)
      /\ \A i \in DOMAIN toServer' :
           \E j \in DOMAIN toServer : toServer'[i] = toServer[j]
  <2>1. CASE UNCHANGED toServer
    BY <2>1 DEF TypeOK
  <2>2. CASE \E m \in Incoming : Decode
    BY <2>2, DecodeFacts DEF Consumed
  <2> QED
    BY <2>1, <2>2
<1>2. TypeOK'
  BY <1>1 DEF TypeOK, Stages, Opened
<1>3. NameInv'
  BY <1>1 DEF TypeOK, NameInv
<1>4. AuthInv'
  BY <1>1 DEF TypeOK, NameInv, AuthInv, AuthSound, Opened
<1>5. AckInv'
  BY <1>1 DEF AckInv
<1>6. PollInv'
  BY <1>1 DEF TypeOK, NameInv, PollInv, Handshake
<1>7. TurnInv'
  BY <1>1 DEF AckInv, TurnInv
<1>8. LateInv'
  BY <1>1 DEF TypeOK, LateInv
<1> QED
  BY <1>2, <1>3, <1>4, <1>5, <1>6, <1>7, <1>8

\* The first Login is answered with a challenge.
LEMMA ServeLoginStep ==
    ASSUME IndInv, ServeLogin
    PROVE  IndInv'
<1> USE NamesAssumption, PasswordsAssumption, AccountAssumption,
        BoundsAssumption
    DEF IndInv, client, window, login, progress, server, stream, ghosts
<1>1. PICK m \in Incoming : Decode /\ 
            \/ /\ m.type = "Login" /\ m.user \in Names
               /\ originalUser' = m.user /\ Reply("Challenge", "awaitResponse")
            \/ Close /\ UNCHANGED originalUser
  BY DEF ServeLogin, Decodable
<1>2. Consumed(m)
  BY <1>1, DecodeFacts
<1>3. CASE Close /\ UNCHANGED originalUser
  BY <1>1, <1>3, CloseStep DEF TypeOK, Close, ServeLogin
<1>4. CASE m.type = "Login" /\ m.user \in Names /\ originalUser' = m.user
           /\ Reply("Challenge", "awaitResponse")
  <2>1. Replied("Challenge") /\ stage' \in {"awaitResponse", "closed"} /\ (clientOpen => stage' = "awaitResponse")
    BY <1>4, ReplyFacts DEF Replies
  <2>2. m \in LoginMsgs
    BY <1>2, <1>4 DEF Consumed, LoginMsgs
  <2>3. TypeOK'
    BY <1>1, <1>2, <1>4, <2>1, <2>2 DEF TypeOK, Stages, Handshake, Consumed,
       Replied, ServeLogin
  <2>4. NameInv'
    BY <1>1, <1>2, <1>4, <2>1, <2>2 DEF TypeOK, NameInv, Consumed, Replied,
       ServeLogin
  <2>5. AuthInv'
    BY <1>1, <1>2, <1>4, <2>1, <2>2 DEF TypeOK, NameInv, AuthInv, AuthSound,
       Opened, Consumed, Replied, ServeLogin
  <2>6. AckInv'
    BY <1>1, <1>2, <1>4, <2>1, <2>2 DEF AckInv, Consumed, Replied, ServeLogin
  <2>7. PollInv'
    BY <1>1, <1>2, <1>4, <2>1, <2>2 DEF TypeOK, NameInv, PollInv, Handshake,
       Consumed, Replied, ServeLogin
  <2>8. TurnInv'
    BY <1>1, <1>2, <1>4, <2>1, <2>2 DEF AckInv, TurnInv, Consumed, Replied,
       ServeLogin
  <2>9. LateInv'
    BY <1>1, <1>2, <1>4, <2>1, <2>2 DEF TypeOK, LateInv, Consumed, Replied,
       ServeLogin
  <2> QED
    BY <2>3, <2>4, <2>5, <2>6, <2>7, <2>8, <2>9
<1> QED
  BY <1>1, <1>3, <1>4

\* The password check.
LEMMA ServeResponseStep ==
    ASSUME IndInv, ServeResponse
    PROVE  IndInv'
<1> USE NamesAssumption, PasswordsAssumption, AccountAssumption,
        BoundsAssumption
    DEF IndInv, client, window, login, progress, server, stream, ghosts
<1>1. PICK m \in Incoming : Decode /\ 
            \/ m.type = "Response" /\ CheckPassword(m)
            \/ Close
  BY DEF ServeResponse
<1>2. Consumed(m)
  BY <1>1, DecodeFacts
<1>3. CASE Close
  BY <1>1, <1>3, CloseStep DEF TypeOK, Close, ServeResponse
<1>4. CASE m.type = "Response" /\ Reply("AckError", "closed")
  <2>1. Replied("AckError") /\ stage' = "closed"
    BY <1>4, ReplyFacts DEF Replies
  <2>2. m \in ResponseMsgs
    BY <1>2, <1>4 DEF Consumed, ResponseMsgs
  <2>3. TypeOK'
    BY <1>1, <1>2, <1>4, <2>1, <2>2 DEF TypeOK, Stages, Handshake, Consumed,
       Replied, ServeResponse
  <2>4. NameInv'
    BY <1>1, <1>2, <1>4, <2>1, <2>2 DEF TypeOK, NameInv, Consumed, Replied,
       ServeResponse
  <2>5. AuthInv'
    BY <1>1, <1>2, <1>4, <2>1, <2>2 DEF TypeOK, NameInv, AuthInv, AuthSound,
       Opened, Consumed, Replied, ServeResponse
  <2>6. AckInv'
    BY <1>1, <1>2, <1>4, <2>1, <2>2 DEF AckInv, Consumed, Replied,
       ServeResponse
  <2>7. PollInv'
    BY <1>1, <1>2, <1>4, <2>1, <2>2 DEF TypeOK, NameInv, PollInv, Handshake,
       Consumed, Replied, ServeResponse
  <2>8. TurnInv'
    BY <1>1, <1>2, <1>4, <2>1, <2>2 DEF AckInv, TurnInv, Consumed, Replied,
       ServeResponse
  <2>9. LateInv'
    BY <1>1, <1>2, <1>4, <2>1, <2>2 DEF TypeOK, LateInv, Consumed, Replied,
       ServeResponse
  <2> QED
    BY <2>3, <2>4, <2>5, <2>6, <2>7, <2>8, <2>9
<1>5. CASE /\ m.type = "Response" /\ m.hash = account[originalUser]
           /\ account[originalUser] # NoPass /\ Reply("AckAuth", "awaitLogin2")
  <2>1. Replied("AckAuth") /\ stage' \in {"awaitLogin2", "closed"} /\ (clientOpen => stage' = "awaitLogin2")
    BY <1>5, ReplyFacts DEF Replies
  <2>2. m \in ResponseMsgs
    BY <1>2, <1>5 DEF Consumed, ResponseMsgs
  <2>3. originalUser \in Names /\ account[originalUser] \in Passwords
    BY <1>5 DEF AuthInv, ServeResponse
  <2>4. account[originalUser] \in typed
    BY <1>2, <1>5, <2>3 DEF AuthInv, Consumed
  <2>5. TypeOK'
    BY <1>1, <1>2, <1>5, <2>1, <2>2, <2>3, <2>4 DEF TypeOK, Stages, Handshake,
       Consumed, Replied, ServeResponse
  <2>6. NameInv'
    BY <1>1, <1>2, <1>5, <2>1, <2>2, <2>3, <2>4 DEF TypeOK, NameInv, Consumed,
       Replied, ServeResponse
  <2>7. AuthInv'
    BY <1>1, <1>2, <1>5, <2>1, <2>2, <2>3, <2>4 DEF TypeOK, NameInv, AuthInv,
       AuthSound, Opened, Consumed, Replied, ServeResponse
  <2>8. AckInv'
    BY <1>1, <1>2, <1>5, <2>1, <2>2, <2>3, <2>4 DEF AckInv, Consumed, Replied,
       ServeResponse
  <2>9. PollInv'
    BY <1>1, <1>2, <1>5, <2>1, <2>2, <2>3, <2>4 DEF TypeOK, NameInv, PollInv,
       Handshake, Consumed, Replied, ServeResponse
  <2>10. TurnInv'
    BY <1>1, <1>2, <1>5, <2>1, <2>2, <2>3, <2>4 DEF AckInv, TurnInv, Consumed,
       Replied, ServeResponse
  <2>11. LateInv'
    BY <1>1, <1>2, <1>5, <2>1, <2>2, <2>3, <2>4 DEF TypeOK, LateInv, Consumed,
       Replied, ServeResponse
  <2> QED
    BY <2>5, <2>6, <2>7, <2>8, <2>9, <2>10, <2>11
<1> QED
  BY <1>1, <1>3, <1>4, <1>5 DEF CheckPassword

\* The client's public key is answered with the server's.
LEMMA ServeLogin2Step ==
    ASSUME IndInv, ServeLogin2
    PROVE  IndInv'
<1> USE NamesAssumption, PasswordsAssumption, AccountAssumption,
        BoundsAssumption
    DEF IndInv, client, window, login, progress, server, stream, ghosts
<1>1. PICK m \in Incoming : Decode /\ 
            \/ m.type = "Login" /\ Reply("PubKey", "awaitKey")
            \/ Close
  BY DEF ServeLogin2
<1>2. Consumed(m)
  BY <1>1, DecodeFacts
<1>3. CASE Close
  BY <1>1, <1>3, CloseStep DEF TypeOK, Close, ServeLogin2
<1>4. CASE m.type = "Login" /\ Reply("PubKey", "awaitKey")
  <2>1. Replied("PubKey") /\ stage' \in {"awaitKey", "closed"} /\ (clientOpen => stage' = "awaitKey")
    BY <1>4, ReplyFacts DEF Replies
  <2>2. m \in LoginMsgs
    BY <1>2, <1>4 DEF Consumed, LoginMsgs
  <2>3. TypeOK'
    BY <1>1, <1>2, <1>4, <2>1, <2>2 DEF TypeOK, Stages, Handshake, Consumed,
       Replied, ServeLogin2
  <2>4. NameInv'
    BY <1>1, <1>2, <1>4, <2>1, <2>2 DEF TypeOK, NameInv, Consumed, Replied,
       ServeLogin2
  <2>5. AuthInv'
    BY <1>1, <1>2, <1>4, <2>1, <2>2 DEF TypeOK, NameInv, AuthInv, AuthSound,
       Opened, Consumed, Replied, ServeLogin2
  <2>6. AckInv'
    BY <1>1, <1>2, <1>4, <2>1, <2>2 DEF AckInv, Consumed, Replied, ServeLogin2
  <2>7. PollInv'
    BY <1>1, <1>2, <1>4, <2>1, <2>2 DEF TypeOK, NameInv, PollInv, Handshake,
       Consumed, Replied, ServeLogin2
  <2>8. TurnInv'
    BY <1>1, <1>2, <1>4, <2>1, <2>2 DEF AckInv, TurnInv, Consumed, Replied,
       ServeLogin2
  <2>9. LateInv'
    BY <1>1, <1>2, <1>4, <2>1, <2>2 DEF TypeOK, LateInv, Consumed, Replied,
       ServeLogin2
  <2> QED
    BY <2>3, <2>4, <2>5, <2>6, <2>7, <2>8, <2>9
<1> QED
  BY <1>1, <1>3, <1>4

\* The session key is acknowledged.
LEMMA ServeKeyStep ==
    ASSUME IndInv, ServeKey
    PROVE  IndInv'
<1> USE NamesAssumption, PasswordsAssumption, AccountAssumption,
        BoundsAssumption
    DEF IndInv, client, window, login, progress, server, stream, ghosts
<1>1. PICK m \in Incoming : Decode /\ 
            \/ /\ m.type = "Login" /\ m.key = "SYMMETRIC"
               /\ Reply("AckSuccess", "service")
            \/ Close
  BY DEF ServeKey
<1>2. Consumed(m)
  BY <1>1, DecodeFacts
<1>3. CASE Close
  BY <1>1, <1>3, CloseStep DEF TypeOK, Close, ServeKey
<1>4. CASE m.type = "Login" /\ m.key = "SYMMETRIC" /\ Reply("AckSuccess", "service")
  <2>1. Replied("AckSuccess") /\ stage' \in {"service", "closed"} /\ (clientOpen => stage' = "service")
    BY <1>4, ReplyFacts DEF Replies
  <2>2. m \in SymKeyMsgs
    BY <1>2, <1>4 DEF Consumed, SymKeyMsgs
  <2>3. TypeOK'
    BY <1>1, <1>2, <1>4, <2>1, <2>2 DEF TypeOK, Stages, Opened, Consumed,
       Replied, ServeKey
  <2>4. NameInv'
    BY <1>1, <1>2, <1>4, <2>1, <2>2 DEF TypeOK, NameInv, Consumed, Replied,
       ServeKey
  <2>5. AuthInv'
    BY <1>1, <1>2, <1>4, <2>1, <2>2 DEF TypeOK, NameInv, AuthInv, AuthSound,
       Opened, Consumed, Replied, ServeKey
  <2>6. AckInv'
    BY <1>1, <1>2, <1>4, <2>1, <2>2 DEF AckInv, Consumed, Replied, ServeKey
  <2>7. PollInv'
    BY <1>1, <1>2, <1>4, <2>1, <2>2 DEF TypeOK, NameInv, PollInv, Handshake,
       Consumed, Replied, ServeKey
  <2>8. TurnInv'
    BY <1>1, <1>2, <1>4, <2>1, <2>2 DEF AckInv, TurnInv, Consumed, Replied,
       ServeKey
  <2>9. LateInv'
    BY <1>1, <1>2, <1>4, <2>1, <2>2 DEF TypeOK, LateInv, Consumed, Replied,
       ServeKey
  <2> QED
    BY <2>3, <2>4, <2>5, <2>6, <2>7, <2>8, <2>9
<1> QED
  BY <1>1, <1>3, <1>4

\* A request of the service loop.
LEMMA ServeRequestStep ==
    ASSUME IndInv, ServeRequest
    PROVE  IndInv'
<1> USE NamesAssumption, PasswordsAssumption, AccountAssumption,
        BoundsAssumption
    DEF IndInv, client, window, login, progress, server, stream, ghosts
<1>1. PICK m \in Incoming :
         Decode /\ (ServePoll(m) \/ ServeStore(m) \/ ServeOther(m))
  BY DEF ServeRequest
<1>2. Consumed(m)
  BY <1>1, DecodeFacts
<1>3. stage = "receive"
  BY DEF ServeRequest
<1>4. /\ UNCHANGED toClient
      /\ stage' \in {"service", "deliver", "closed"} /\ batch' \in 0 .. MaxBatch
  BY <1>1 DEF ServePoll, ServeStore, ServeOther, Close, Decodable, TypeOK
<1>5. \/ late' = late
      \/ late' = late + 1 /\ expired /\ stage' \in {"service", "deliver"}
  <2>1. CASE ServePoll(m)
    BY <2>1 DEF ServePoll
  <2>2. CASE ServeStore(m)
    BY <2>2 DEF ServeStore
  <2>3. CASE ServeOther(m)
    BY <2>3 DEF ServeOther
  <2> QED
    BY <1>1, <2>1, <2>2, <2>3
<1>6. TypeOK'
  BY <1>1, <1>2, <1>3, <1>4, <1>5 DEF TypeOK, Stages, Opened, Consumed,
     ServeRequest
<1>7. NameInv'
  BY <1>1, <1>2, <1>3, <1>4, <1>5 DEF TypeOK, NameInv, Consumed, ServeRequest
<1>8. AuthInv'
  BY <1>1, <1>2, <1>3, <1>4, <1>5 DEF TypeOK, NameInv, AuthInv, AuthSound,
     Opened, Consumed, ServeRequest
<1>9. AckInv'
  BY <1>1, <1>2, <1>3, <1>4, <1>5 DEF AckInv, Consumed, ServeRequest
<1>10. PollInv'
  BY <1>1, <1>2, <1>3, <1>4, <1>5 DEF TypeOK, NameInv, PollInv, Handshake,
     Consumed, ServeRequest
<1>11. TurnInv'
  BY <1>1, <1>2, <1>3, <1>4, <1>5 DEF AckInv, TurnInv, Consumed, ServeRequest
<1>12. LateInv'
  BY <1>1, <1>2, <1>3, <1>4, <1>5 DEF TypeOK, LateInv, Consumed, ServeRequest
<1> QED
  BY <1>6, <1>7, <1>8, <1>9, <1>10, <1>11, <1>12

\* A row of a poll.
LEMMA DeliverRowStep ==
    ASSUME IndInv, DeliverRow
    PROVE  IndInv'
<1> USE NamesAssumption, PasswordsAssumption, AccountAssumption,
        BoundsAssumption
    DEF IndInv, client, window, login, progress, server, stream, ghosts
<1>1. CASE Close /\ batch' = 0
  BY <1>1, CloseStep DEF Close, DeliverRow
<1>2. CASE Reply("PollResponse", "deliver") /\ batch' = batch - 1
  <2>1. Replied("PollResponse") /\ stage' \in {"deliver", "closed"}
    BY <1>2, ReplyFacts DEF Replies
  <2>2. TypeOK'
    BY <1>2, <2>1 DEF TypeOK, Stages, Opened, Replied, DeliverRow
  <2>3. NameInv'
    BY <1>2, <2>1 DEF TypeOK, NameInv, Replied, DeliverRow
  <2>4. AuthInv'
    BY <1>2, <2>1 DEF TypeOK, NameInv, AuthInv, AuthSound, Opened, Replied,
       DeliverRow
  <2>5. AckInv'
    BY <1>2, <2>1 DEF AckInv, Replied, DeliverRow
  <2>6. PollInv'
    BY <1>2, <2>1 DEF TypeOK, NameInv, PollInv, Handshake, Replied, DeliverRow
  <2>7. TurnInv'
    BY <1>2, <2>1 DEF AckInv, TurnInv, Replied, DeliverRow
  <2>8. LateInv'
    BY <1>2, <2>1 DEF TypeOK, LateInv, Replied, DeliverRow
  <2> QED
    BY <2>2, <2>3, <2>4, <2>5, <2>6, <2>7, <2>8
<1> QED
  BY <1>1, <1>2 DEF DeliverRow

-----------------------------------------------------------------------------
(* The theorems.                                                           *)

\* The invariant holds when the connection has just been accepted.
LEMMA InitInv == Init => IndInv
<1> SUFFICES ASSUME Init
             PROVE  IndInv
  OBVIOUS
<1> USE NamesAssumption, BoundsAssumption DEF Init, IndInv
<1>1. /\ \A S : ~InStream(S, toServer)
      /\ \A x : ~Has(x, toClient) /\ Once(x, toClient)
  BY DEF InStream, Has, Once
<1>2. TypeOK
  <2>1. 0 \in Nat /\ 0 \in 0 .. MaxBatch /\ 0 \in 0 .. MaxPress /\ 0 \in 0 .. MaxSends
    OBVIOUS
  <2>2. toServer \in Seq(Messages) /\ toClient \in Seq(Replies)
    OBVIOUS
  <2>3. form \in [name : Names \cup {NoName}, pass : Passwords \cup {NoPass}]
    OBVIOUS
  <2> QED
    BY <2>1, <2>2, <2>3, Zenon
    DEF TypeOK, EdtStates, ReaderStates, Stages, Handshake, Inputs
<1>3. NameInv
  BY <1>1 DEF NameInv
<1>4. AuthInv
  BY <1>1 DEF AuthInv, AuthSound, Opened
<1>5. AckInv
  BY <1>1 DEF AckInv
<1>6. PollInv
  BY <1>1 DEF PollInv, Handshake
<1>7. TurnInv
  BY <1>1 DEF TurnInv
<1>8. LateInv
  BY <1>1 DEF LateInv
<1> QED
  BY <1>2, <1>3, <1>4, <1>5, <1>6, <1>7, <1>8

\* Every step of every thread preserves it.
LEMMA NextInv == IndInv /\ [Next]_vars => IndInv'
<1> SUFFICES ASSUME IndInv, [Next]_vars
             PROVE  IndInv'
  OBVIOUS
<1>1. CASE Press \/ Edt \/ Dismiss \/ SendClick \/ WindowClosing \/ Poll
  BY <1>1, PressStep, ValidateStep, SendClickStep, PollStep, QuietStep
     DEF Edt, Dismiss
<1>2. CASE Reader \/ NameReplaced
  BY <1>2, RespondStep, SendAsymStep, SendSymStep, ReceiveStep, QuietStep
     DEF Reader
<1>3. CASE Server \/ Expire
  BY <1>3, ServeLoginStep, ServeResponseStep, ServeLogin2Step, ServeKeyStep,
     ServeRequestStep, DeliverRowStep, QuietStep
     DEF Server
<1>4. CASE UNCHANGED vars
  BY <1>4 DEF vars, client, window, login, progress, server, stream, ghosts,
              IndInv, TypeOK, NameInv, AuthInv, AuthSound, AckInv, PollInv,
              TurnInv, LateInv
<1> QED
  BY <1>1, <1>2, <1>3, <1>4 DEF Next

\* The inductive invariant holds in every state of a connection.
THEOREM Invariance == Spec => []IndInv
<1>1. Init => IndInv
  BY InitInv
<1>2. IndInv /\ [Next]_vars => IndInv'
  BY NextInv
<1> QED
  BY <1>1, <1>2, PTL DEF Spec

\* The types of all variables, for every instance: in particular every
\* message of the client carries a name, never the null the field starts as.
THEOREM TypeCorrect == Spec => []TypeOK
<1>1. IndInv => TypeOK
  BY DEF IndInv
<1> QED
  BY <1>1, Invariance, PTL

\* clientConnectStart gets past its password check only on a password the
\* user typed that is the one stored for the user it serves.
THEOREM AuthenticationSound == Spec => []AuthSound
<1>1. IndInv => AuthSound
  BY DEF IndInv, AuthInv
<1> QED
  BY <1>1, Invariance, PTL

\* handleACK finds hasExchangedKeys set at every SUCCESS it handles.
THEOREM SuccessStartsPolling == Spec => []SuccessNotDropped
<1>1. IndInv => SuccessNotDropped
  BY DEF IndInv, PollInv, SuccessNotDropped
<1> QED
  BY <1>1, Invariance, PTL

\* handleACK never starts a second PollThread.
THEOREM OnePoller == Spec => []PollerOnce
<1>1. IndInv => PollerOnce
  BY DEF IndInv, PollInv, PollerOnce
<1> QED
  BY <1>1, Invariance, PTL

\* The server never reads a Poll where it expects a message of the handshake.
THEOREM PollsAfterHandshake == Spec => []PollAfterHandshake
<1>1. ASSUME IndInv
      PROVE  PollAfterHandshake
  <2>1. {PollOf(n) : n \in Names} \subseteq PollMsgs
    BY RequestFacts
  <2>2. InStream({PollOf(n) : n \in Names}, toServer) => InStream(PollMsgs, toServer)
    BY <2>1 DEF InStream
  <2> QED
    BY <1>1, <2>2 DEF IndInv, PollInv, PollAfterHandshake
<1> QED
  BY <1>1, Invariance, PTL

\* Both sides wait for each other in the handshake only for a reason the
\* client's code gave: the dialog of handleChallenge, or the exceptions that
\* handleACK and sendSymmetricKey swallow.
THEOREM HandshakeNeverWaits == Spec => []NoMutualWait
<1>1. ASSUME IndInv
      PROVE  NoMutualWait
  <2>1. toServer = << >> => \A S : ~InStream(S, toServer)
    BY DEF InStream
  <2>2. toClient = << >> => \A x : ~Has(x, toClient)
    BY DEF Has
  <2> QED
    BY <1>1, <2>1, <2>2 DEF IndInv, TurnInv, NoMutualWait
<1> QED
  BY <1>1, Invariance, PTL

\* The service loop serves at most one request after its time limit.
THEOREM OneLateRequest == Spec => []AtMostOneLate
<1>1. IndInv => AtMostOneLate
  BY DEF IndInv, LateInv, AtMostOneLate
<1> QED
  BY <1>1, Invariance, PTL

-----------------------------------------------------------------------------
(* The refinement.                                                         *)

\* A connection starts as the contract says.
LEMMA ContractInit == Init => Contract!Init
BY DEF Init, Contract!Init, phaseOf, Opened

\* Steps of the client's threads and of the clock leave the name and the phase
\* of the connection alone; only a press changes the passwords typed.
LEMMA ClientSteps ==
    ASSUME IndInv,
           Press \/ Edt \/ Dismiss \/ SendClick \/ WindowClosing \/ Reader
             \/ NameReplaced \/ Poll \/ Expire \/ UNCHANGED vars
    PROVE  [Contract!Next]_(Contract!vars)
<1> USE DEF vars, client, window, login, progress, server, stream, ghosts
<1>1. UNCHANGED <<stage, originalUser>>
  <2>1. CASE Press
    BY <2>1 DEF Press, PressOK
  <2>2. CASE Edt \/ Dismiss \/ SendClick \/ WindowClosing
    BY <2>2 DEF Edt, FillInput, SetUsername, Validate, Dismiss, DismissInvalid,
       DismissDialog, SendClick, WindowClosing
  <2>3. CASE Reader
    BY <2>3 DEF Reader, RecvChallenge, HashInput, Respond, ZeroInput,
       RecvAckAuth, RecvAckError, HidePane, SendAsym, RecvPubKey, SendSym,
       SetExchanged, RecvAckSuccess, RecvPollResponse, ReaderEnd
  <2>4. CASE NameReplaced \/ Poll \/ Expire \/ UNCHANGED vars
    BY <2>4 DEF NameReplaced, Replaced, Poll, Expire
  <2> QED
    BY <2>1, <2>2, <2>3, <2>4
<1>2. \/ UNCHANGED typed
      \/ \E p \in Passwords : typed' = typed \cup {p}
  <2>1. CASE Press
    BY <2>1 DEF Press, PressOK
  <2>2. CASE Edt \/ Dismiss \/ SendClick \/ WindowClosing
    BY <2>2 DEF Edt, FillInput, SetUsername, Validate, Dismiss, DismissInvalid,
       DismissDialog, SendClick, WindowClosing
  <2>3. CASE Reader
    BY <2>3 DEF Reader, RecvChallenge, HashInput, Respond, ZeroInput,
       RecvAckAuth, RecvAckError, HidePane, SendAsym, RecvPubKey, SendSym,
       SetExchanged, RecvAckSuccess, RecvPollResponse, ReaderEnd
  <2>4. CASE NameReplaced \/ Poll \/ Expire \/ UNCHANGED vars
    BY <2>4 DEF NameReplaced, Replaced, Poll, Expire
  <2> QED
    BY <2>1, <2>2, <2>3, <2>4
<1>3. UNCHANGED phaseOf
  BY <1>1 DEF phaseOf
<1> QED
  BY <1>1, <1>2, <1>3 DEF Contract!Next, Contract!Type, Contract!vars

\* A step of the server thread that keeps the name either ends the connection,
\* keeps its phase, or takes the one step forward the contract allows.
LEMMA ServerMoves ==
    ASSUME IndInv, IndInv', UNCHANGED <<originalUser, typed>>,
           \/ stage' = "closed"
           \/ stage' = stage
           \/ stage = "awaitResponse" /\ stage' = "awaitLogin2"
           \/ stage = "awaitLogin2" /\ stage' = "awaitKey"
           \/ stage = "awaitKey" /\ stage' = "service"
           \/ stage \in Opened /\ stage' \in Opened
    PROVE  [Contract!Next]_(Contract!vars)
<1>1. stage \in Stages /\ stage' \in Stages
  BY DEF IndInv, TypeOK
<1>2. CASE phaseOf' = phaseOf
  BY <1>2 DEF Contract!vars
<1>3. CASE phaseOf # "closed" /\ phaseOf' = "closed"
  BY <1>3 DEF Contract!Next, Contract!End
<1>4. CASE stage = "awaitResponse" /\ stage' = "awaitLogin2"
  <2>1. originalUser' \in Names /\ account[originalUser'] \in typed'
    BY <1>4 DEF IndInv, AuthInv, AuthSound
  <2>2. phaseOf = "connecting" /\ phaseOf' = "proven"
    BY <1>4 DEF phaseOf, Opened
  <2> QED
    BY <2>1, <2>2 DEF Contract!Next, Contract!Prove
<1>5. CASE stage = "awaitKey" /\ stage' = "service"
  BY <1>5 DEF phaseOf, Opened, Contract!Next, Contract!Open
<1>6. CASE stage = "awaitLogin2" /\ stage' = "awaitKey"
  BY <1>6 DEF phaseOf, Opened, Contract!vars
<1>7. CASE stage \in Opened /\ stage' \in Opened
  BY <1>7 DEF phaseOf, Opened, Contract!vars
<1>8. CASE stage' = "closed" \/ stage' = stage
  BY <1>1, <1>2, <1>3, <1>8 DEF phaseOf, Stages, Handshake, Opened
<1> QED
  BY <1>4, <1>5, <1>6, <1>7, <1>8

\* The steps of the server thread.
LEMMA ServerSteps ==
    ASSUME IndInv, IndInv', Server
    PROVE  [Contract!Next]_(Contract!vars)
<1> USE DEF client, window, login, progress, server, stream, ghosts
<1>1. CASE ServeLogin
  <2>1. PICK m \in Incoming : Decode /\
            \/ originalUser' = m.user /\ Reply("Challenge", "awaitResponse")
            \/ Close /\ UNCHANGED originalUser
    BY <1>1 DEF ServeLogin
  <2>2. stage = "awaitLogin" /\ UNCHANGED typed
    BY <1>1 DEF ServeLogin
  <2>3. CASE Close /\ UNCHANGED originalUser
    BY <2>2, <2>3, ServerMoves DEF Close
  <2>4. CASE originalUser' = m.user /\ Reply("Challenge", "awaitResponse")
    <3>1. m \in Messages
      BY <2>1, DecodeFacts DEF IndInv, Consumed
    <3>2. m.user \in Names
      BY <3>1 DEF Messages
    <3>3. stage' \in {"awaitResponse", "closed"}
      BY <2>4, ReplyFacts DEF IndInv, Replies
    <3>4. phaseOf = "connecting" /\ phaseOf' \in {"connecting", "closed"}
      BY <2>2, <3>3 DEF phaseOf, Opened
    <3>5. originalUser = NoName
      BY <2>2 DEF IndInv, AuthInv
    <3> QED
      BY <2>2, <2>4, <3>2, <3>4, <3>5 DEF Contract!Next, Contract!Name
  <2> QED
    BY <2>1, <2>3, <2>4
<1>2. CASE ServeResponse
  <2>1. /\ stage = "awaitResponse" /\ UNCHANGED <<originalUser, typed>>
        /\ Close \/ Reply("AckError", "closed") \/ Reply("AckAuth", "awaitLogin2")
    BY <1>2 DEF ServeResponse, CheckPassword
  <2>2. stage' \in {"closed", "awaitLogin2"}
    BY <2>1, ReplyFacts DEF IndInv, Replies, Close
  <2> QED
    BY <2>1, <2>2, ServerMoves
<1>3. CASE ServeLogin2
  <2>1. /\ stage = "awaitLogin2" /\ UNCHANGED <<originalUser, typed>>
        /\ Close \/ Reply("PubKey", "awaitKey")
    BY <1>3 DEF ServeLogin2
  <2>2. stage' \in {"closed", "awaitKey"}
    BY <2>1, ReplyFacts DEF IndInv, Replies, Close
  <2> QED
    BY <2>1, <2>2, ServerMoves
<1>4. CASE ServeKey
  <2>1. /\ stage = "awaitKey" /\ UNCHANGED <<originalUser, typed>>
        /\ Close \/ Reply("AckSuccess", "service")
    BY <1>4 DEF ServeKey
  <2>2. stage' \in {"closed", "service"}
    BY <2>1, ReplyFacts DEF IndInv, Replies, Close
  <2> QED
    BY <2>1, <2>2, ServerMoves
<1>5. CASE CheckTime \/ DeliverDone \/ ServerEnd
  BY <1>5, ServerMoves DEF CheckTime, DeliverDone, ServerEnd, Opened
<1>6. CASE ServeRequest
  BY <1>6, ServerMoves DEF ServeRequest, ServePoll, ServeStore, ServeOther,
     Close, Opened
<1>7. CASE DeliverRow
  <2>1. /\ stage = "deliver" /\ UNCHANGED <<originalUser, typed>>
        /\ Close \/ Reply("PollResponse", "deliver")
    BY <1>7 DEF DeliverRow
  <2>2. stage' \in {"closed", "deliver"}
    BY <2>1, ReplyFacts DEF IndInv, Replies, Close
  <2> QED
    BY <2>1, <2>2, ServerMoves DEF Opened
<1> QED
  BY <1>1, <1>2, <1>3, <1>4, <1>5, <1>6, <1>7 DEF Server

\* Every connection, with all its threads and races, implements the contract:
\* clientConnectStart names it once, opens it only behind the right password
\* and never leaves the closed state.
THEOREM ContractKept == Spec => KeepsContract
<1>1. Init => Contract!Init
  BY ContractInit
<1>2. IndInv /\ IndInv' /\ [Next]_vars => [Contract!Next]_(Contract!vars)
  BY ClientSteps, ServerSteps DEF Next
<1> QED
  BY <1>1, <1>2, Invariance, PTL DEF Spec, KeepsContract, Contract!Spec
=============================================================================
