---------------------------- MODULE ChatSession ----------------------------
(***************************************************************************)
(* One BabbleOn connection: the threads of the Java client (the Swing      *)
(* event thread "edt", ReaderThread, PollThread) and the server thread     *)
(* clientConnectStart that serves it, joined by the two directions of a    *)
(* TCP stream.                                                             *)
(*                                                                         *)
(* Whole protocol messages are the unit of transfer, and a bounded queue   *)
(* stands for the socket buffers: a full queue blocks the writer.          *)
(* Passwords stand for the hash over challenge, nonce and password: both   *)
(* sides hash the only challenge of the connection with the nonce of the   *)
(* response, so the digests agree exactly when the passwords do.           *)
(***************************************************************************)
EXTENDS Naturals, Sequences

CONSTANTS
    Names,        \* what can be typed into the user name field
    WellFormed,   \* the names that match the name pattern of both sides
    Overlong,     \* the names longer than MAX_UNAME_LEN
    Passwords,    \* what can be typed into the password field
    account,      \* the login table: a password, or NoPass, for each name
    NoName,       \* username before the first complete press (null)
    NoPass,       \* an empty password field, a missing row, input = null
    Partial,      \* input between its allocation and its last byte
    Zeroed,       \* input after Arrays.fill(input, '0')
    EagerSend,    \* may the user click Send before polling has started?
    MaxPress,     \* bound: presses of the OK button
    MaxSends,     \* bound: clicks of the Send button
    MaxQueue,     \* bound: messages a direction of the stream can hold
    MaxBatch      \* bound: rows one poll can find

ASSUME NamesAssumption ==
    /\ WellFormed \subseteq Names
    /\ Overlong \subseteq Names
    /\ NoName \notin Names

ASSUME PasswordsAssumption ==
    /\ NoPass \notin Passwords
    /\ Partial \notin Passwords
    /\ Zeroed \notin Passwords
    /\ Zeroed # Partial
    /\ NoPass \notin {Partial, Zeroed}

ASSUME AccountAssumption == account \in [Names -> Passwords \cup {NoPass}]

ASSUME BoundsAssumption ==
    /\ EagerSend \in BOOLEAN
    /\ MaxPress \in Nat
    /\ MaxSends \in Nat
    /\ MaxQueue \in Nat \ {0}
    /\ MaxBatch \in Nat

VARIABLES
    \* the client
    edt,              \* where the event thread is in actionPerformed
    form,             \* name and password of the press being handled
    paneVisible,      \* is the login pane shown, rather than the Send button?
    input,            \* BabbleOnClient.input
    username,         \* BabbleOnClient.username
    authenticated,    \* BabbleOnClient.authenticated
    hasExchangedKeys, \* BabbleOnClient.hasExchangedKeys
    reader,           \* where ReaderThread is
    digest,           \* the password hashed by the running handleChallenge
    pollers,          \* number of PollThreads started
    clientOpen,       \* has the window not been closed?
    \* the server thread
    stage,            \* where clientConnectStart is
    originalUser,     \* the name of the first Login
    batch,            \* rows of the current poll not yet sent
    expired,          \* endTime < time(0)
    \* the stream
    toServer,
    toClient,
    \* history and bounds
    typed,            \* every password the user has entered with a name
    excuses,          \* why the client left a message of the server unanswered
    late,             \* requests served after the session expired
    presses,
    sends

window   == <<edt, form, paneVisible, clientOpen>>
login    == <<input, username, digest>>
progress == <<authenticated, hasExchangedKeys, pollers>>
client   == <<window, login, progress, reader>>
server   == <<stage, originalUser, batch, expired>>
stream   == <<toServer, toClient>>
ghosts   == <<typed, excuses, late, presses, sends>>
vars     == <<client, server, stream, ghosts>>

-----------------------------------------------------------------------------
(* Messages.                                                               *)

MsgTypes == {"Login", "Response", "Poll", "PollResponse"}
KeyTypes == {"NONE", "ASYMMETRIC", "SYMMETRIC"}
Inputs   == Passwords \cup {NoPass, Partial, Zeroed}

\* A message of the client.  key matters in a Login and hash in a Response.
Messages == [type : MsgTypes, user : Names, key : KeyTypes, hash : Inputs]

Login(u, k)     == [type |-> "Login",        user |-> u, key |-> k,      hash |-> NoPass]
Response(u, h)  == [type |-> "Response",     user |-> u, key |-> "NONE", hash |-> h]
PollOf(u)       == [type |-> "Poll",         user |-> u, key |-> "NONE", hash |-> NoPass]
PollResponse(u) == [type |-> "PollResponse", user |-> u, key |-> "NONE", hash |-> NoPass]

\* The messages of the server: its ACKs are told apart by their error code.
Replies == {"Challenge", "AckAuth", "AckError", "PubKey", "AckSuccess",
            "PollResponse"}

EdtStates    == {"idle", "filling", "naming", "validate", "invalid"}
ReaderStates == {"reading", "hash", "respond", "zero", "alert", "success",
                 "hide", "asym", "sym", "flag", "stuck", "dead"}
Handshake    == {"awaitLogin", "awaitResponse", "awaitLogin2", "awaitKey"}
Opened       == {"service", "receive", "deliver"}
Stages       == Handshake \cup Opened \cup {"closed"}

-----------------------------------------------------------------------------
(* The stream as the client's threads use it.                              *)

\* encode(out): the message is in the stream, or waits until there is room.
Sent(m) == /\ Len(toServer) < MaxQueue
           /\ toServer' = Append(toServer, m)

\* encode(out) throws: the server has closed the connection.
WriteFails == stage = "closed" /\ UNCHANGED toServer

\* A message constructor throws on a name longer than MAX_UNAME_LEN.
Refused(u) == u \in Overlong /\ UNCHANGED toServer

Throws(u) == Refused(u) \/ WriteFails

-----------------------------------------------------------------------------
(* The event thread: PasswordPane and the buttons of BabbleOnClient.       *)

\* A modal dialog takes every event until it is dismissed.
UserMayAct == clientOpen /\ edt = "idle" /\ reader \notin {"alert", "success"}

\* The OK button; NoName and NoPass are empty fields.  checkPassword keeps a
\* password only beside a name, and setInput first allocates the array it
\* then fills.
PressOK(n, p) ==
    /\ UserMayAct
    /\ paneVisible
    /\ presses < MaxPress
    /\ presses' = presses + 1
    /\ form' = [name |-> n, pass |-> p]
    /\ IF p # NoPass /\ n # NoName
       THEN /\ input' = Partial
            /\ typed' = typed \cup {p}
            /\ edt' = "filling"
       ELSE /\ edt' = "validate"
            /\ UNCHANGED <<input, typed>>
    /\ UNCHANGED <<paneVisible, clientOpen, username, digest, progress,
                   reader, server, stream, excuses, late, sends>>

\* setInput copies the characters; if the reader zeroed the array meanwhile,
\* the array may keep some of its zeros.
FillInput ==
    /\ clientOpen /\ edt = "filling"
    /\ edt' = "naming"
    /\ input' \in IF input = Zeroed THEN {form.pass, Partial} ELSE {form.pass}
    /\ UNCHANGED <<form, paneVisible, clientOpen, username, digest, progress,
                   reader, server, stream, ghosts>>

SetUsername ==
    /\ clientOpen /\ edt = "naming"
    /\ edt' = "validate"
    /\ username' = form.name
    /\ UNCHANGED <<form, paneVisible, clientOpen, input, digest, progress,
                   reader, server, stream, ghosts>>

\* isValidUsername: a well-formed name goes to the server, whether or not a
\* password came with it.
Validate ==
    /\ clientOpen /\ edt = "validate"
    /\ \/ /\ form.name \in WellFormed \ Overlong
          /\ Sent(Login(form.name, "NONE"))
          /\ edt' = "idle"
       \/ /\ form.name \notin WellFormed \/ Throws(form.name)
          /\ edt' = "invalid"
          /\ UNCHANGED toServer
    /\ UNCHANGED <<form, paneVisible, clientOpen, login, progress, reader,
                   server, toClient, ghosts>>

\* The user dismisses "Invalid username. Try again."
DismissInvalid ==
    /\ clientOpen /\ edt = "invalid"
    /\ edt' = "idle"
    /\ UNCHANGED <<form, paneVisible, clientOpen, login, progress, reader,
                   server, stream, ghosts>>

\* The user dismisses the dialog the reader waits for.
DismissDialog ==
    /\ clientOpen /\ edt \in {"idle", "invalid"}
    /\ \/ reader = "alert"   /\ reader' = "reading"
       \/ reader = "success" /\ reader' = "hide"
    /\ UNCHANGED <<window, login, progress, server, stream, ghosts>>

\* The Send button with a text and one recipient.
SendClick ==
    /\ UserMayAct
    /\ ~paneVisible
    /\ EagerSend \/ pollers > 0
    /\ sends < MaxSends
    /\ sends' = sends + 1
    /\ \/ username \notin Overlong /\ Sent(PollResponse(username))
       \/ Throws(username)
    /\ UNCHANGED <<client, server, toClient, typed, excuses, late, presses>>

\* windowClosing: the socket is closed and System.exit ends every thread.
WindowClosing ==
    /\ UserMayAct
    /\ clientOpen' = FALSE
    /\ UNCHANGED <<edt, form, paneVisible, login, progress, reader, server,
                   stream, ghosts>>

-----------------------------------------------------------------------------
(* ReaderThread and the handlers it calls.                                 *)

\* The reader takes the next message, which is a member of S.
Receive(S) ==
    /\ clientOpen /\ reader = "reading"
    /\ toClient # << >> /\ Head(toClient) \in S
    /\ toClient' = Tail(toClient)

\* The reader takes a step of a handler it is running.
At(pc) == clientOpen /\ reader = pc

\* handleChallenge: without a password only a dialog is shown.
RecvChallenge ==
    /\ Receive({"Challenge"})
    /\ \/ /\ input # NoPass
          /\ reader' = "hash"
          /\ UNCHANGED excuses
       \/ /\ input = NoPass
          /\ reader' = "alert"
          /\ excuses' = excuses \cup {"noPassword"}
    /\ UNCHANGED <<window, login, progress, server, toServer, typed, late,
                   presses, sends>>

HashInput ==
    /\ At("hash")
    /\ digest' = input
    /\ reader' = "respond"
    /\ UNCHANGED <<window, input, username, progress, server, stream, ghosts>>

\* username.length() on null ends the thread; a BabbleException leaves the
\* reader's hold in place for good.
Respond ==
    /\ At("respond")
    /\ \/ /\ username = NoName
          /\ reader' = "dead"
          /\ UNCHANGED toServer
       \/ /\ username \in Names \ Overlong
          /\ Sent(Response(username, digest))
          /\ reader' = "zero"
       \/ /\ username # NoName
          /\ Throws(username)
          /\ reader' = "stuck"
    /\ UNCHANGED <<window, login, progress, server, toClient, ghosts>>

\* Arrays.fill on whatever array the field holds by now.
ZeroInput ==
    /\ At("zero")
    /\ input' = Zeroed
    /\ reader' = "reading"
    /\ UNCHANGED <<window, username, digest, progress, server, stream,
                   ghosts>>

\* handleACK, first branch: PASSWORD_AUTH raises the "Success!" dialog.
RecvAckAuth ==
    /\ ~authenticated
    /\ Receive({"AckAuth"})
    /\ authenticated' = TRUE
    /\ reader' = "success"
    /\ UNCHANGED <<window, login, hasExchangedKeys, pollers, server, toServer,
                   ghosts>>

\* handleACK, error branch: DEFAULT_ERROR, or a repeated PASSWORD_AUTH, is
\* only printed.
RecvAckError ==
    /\ Receive({"AckError"} \cup IF authenticated THEN {"AckAuth"} ELSE {})
    /\ UNCHANGED <<client, server, toServer, ghosts>>

\* setPanes: the login pane gives way to the message boxes.
HidePane ==
    /\ At("hide")
    /\ paneVisible' = FALSE
    /\ reader' = "asym"
    /\ UNCHANGED <<edt, form, clientOpen, login, progress, server, stream,
                   ghosts>>

\* The rest of handleACK; a BabbleException is caught and the key not sent.
SendAsym ==
    /\ At("asym")
    /\ \/ /\ username \notin Overlong
          /\ Sent(Login(username, "ASYMMETRIC"))
          /\ UNCHANGED excuses
       \/ /\ Throws(username)
          /\ excuses' = excuses \cup {"noKey"}
    /\ reader' = "reading"
    /\ UNCHANGED <<window, login, progress, server, toClient, typed, late,
                   presses, sends>>

\* handleLogin: readServerPublic accepts the key of the server.
RecvPubKey ==
    /\ Receive({"PubKey"})
    /\ reader' = "sym"
    /\ UNCHANGED <<window, login, progress, server, toServer, ghosts>>

\* sendSymmetricKey; its exceptions are caught.
SendSym ==
    /\ At("sym")
    /\ \/ /\ username \notin Overlong
          /\ Sent(Login(username, "SYMMETRIC"))
          /\ reader' = "flag"
          /\ UNCHANGED excuses
       \/ /\ Throws(username)
          /\ reader' = "reading"
          /\ excuses' = excuses \cup {"noKey"}
    /\ UNCHANGED <<window, login, progress, server, toClient, typed, late,
                   presses, sends>>

\* Fault: the flag is forgotten.
SetExchangedNever ==
    /\ At("flag")
    /\ reader' = "reading"
    /\ UNCHANGED <<window, login, progress, server, stream, ghosts>>

\* Fault: polling starts with the key instead of with its ACK.
SetExchangedPolling ==
    /\ At("flag")
    /\ hasExchangedKeys' = TRUE
    /\ reader' = "reading"
    /\ pollers' = pollers + 1
    /\ UNCHANGED <<window, login, authenticated, server, stream, ghosts>>

SetExchanged ==
    /\ At("flag")
    /\ hasExchangedKeys' = TRUE
    /\ reader' = "reading"
    /\ UNCHANGED <<window, login, authenticated, pollers, server, stream,
                   ghosts>>

\* handleACK, last branch: SUCCESS starts a PollThread.
RecvAckSuccess ==
    /\ Receive({"AckSuccess"})
    /\ pollers' = IF hasExchangedKeys THEN pollers + 1 ELSE pollers
    /\ UNCHANGED <<window, login, authenticated, hasExchangedKeys, reader,
                   server, toServer, ghosts>>

\* handlePollResponse: shown, or a read comes back short and the decoding of
\* the message fails with the hold in place.
RecvPollResponse ==
    /\ Receive({"PollResponse"})
    /\ reader' \in {"reading", "stuck"}
    /\ UNCHANGED <<window, login, progress, server, toServer, ghosts>>

\* End of the stream; data the server never read makes its close a reset,
\* which can discard what the reader has not read yet.
ReaderEnd ==
    /\ clientOpen /\ reader = "reading"
    /\ stage = "closed"
    /\ toClient = << >> \/ toServer # << >>
    /\ reader' = "stuck"
    /\ UNCHANGED <<window, login, progress, server, stream, ghosts>>

\* A message constructor is given the length of the name and the name, and
\* username is read for each.  A press may replace it between the two; when the
\* names are of different lengths the constructor throws.
Replaced ==
    /\ clientOpen /\ edt = "naming" /\ username \notin {NoName, form.name}
    /\ edt' = "validate" /\ username' = form.name

\* In handleChallenge the exception leaves the reader's hold in place, in
\* handleACK and sendSymmetricKey it is caught.
NameReplaced ==
    /\ Replaced
    /\ \/ reader = "respond" /\ reader' = "stuck" /\ UNCHANGED excuses
       \/ /\ reader \in {"asym", "sym"} /\ reader' = "reading"
          /\ excuses' = excuses \cup {"noKey"}
    /\ UNCHANGED <<form, paneVisible, clientOpen, input, digest, progress, server, stream,
                   typed, late, presses, sends>>

-----------------------------------------------------------------------------
(* PollThread.                                                             *)

\* An exception, also for a name replaced meanwhile, is logged and the loop goes
\* on.
Poll ==
    /\ clientOpen /\ pollers > 0
    /\ username \notin Overlong /\ Sent(PollOf(username))
    /\ UNCHANGED <<client, server, toClient, ghosts>>

-----------------------------------------------------------------------------
(* The server thread, clientConnectStart.                                  *)

\* SPChatMessage::decode returns the next message, once there is one.
Incoming == IF toServer = << >> THEN {} ELSE {Head(toServer)}
Decode   == toServer' = Tail(toServer)

\* The constructors of the server's messages throw on a bad user name.
Decodable(m) == m.user \in WellFormed

\* sock->send, then go on to next.  Sending to a client that has exited may
\* fail; otherwise it waits for room.
Reply(r, next) ==
    \/ /\ clientOpen /\ Len(toClient) < MaxQueue
       /\ toClient' = Append(toClient, r)
       /\ stage' = next
    \/ /\ ~clientOpen
       /\ UNCHANGED toClient
       /\ stage' \in {next, "closed"}

Close == stage' = "closed" /\ UNCHANGED toClient

\* First stage: any Login names the user of the connection.
ServeLogin ==
    /\ stage = "awaitLogin"
    /\ \E m \in Incoming :
         /\ Decode
         /\ IF Decodable(m) /\ m.type = "Login"
            THEN originalUser' = m.user /\ Reply("Challenge", "awaitResponse")
            ELSE Close /\ UNCHANGED originalUser
    /\ UNCHANGED <<client, batch, expired, ghosts>>

\* Fault: the password is looked up for the name in the Response.
CheckPasswordOfResponder(m) ==
    \E stored \in {account[m.user], NoPass} :
       \/ stored = NoPass  /\ Reply("AckError", "closed")
       \/ /\ stored # NoPass /\ m.hash = stored
          /\ Reply("AckAuth", "awaitLogin2")
       \/ stored # NoPass /\ m.hash # stored /\ Close

\* Fault: after a wrong password the server waits for another Response.
CheckPasswordAgain(m) ==
    \E stored \in {account[originalUser], NoPass} :
       \/ stored = NoPass  /\ Reply("AckError", "closed")
       \/ /\ stored # NoPass /\ m.hash = stored
          /\ Reply("AckAuth", "awaitLogin2")
       \/ stored # NoPass /\ m.hash # stored /\ UNCHANGED <<stage, toClient>>

\* Fault: after a wrong password the server waits for another Login.
CheckPasswordAnew(m) ==
    \E stored \in {account[originalUser], NoPass} :
       \/ stored = NoPass  /\ Reply("AckError", "closed")
       \/ /\ stored # NoPass /\ m.hash = stored
          /\ Reply("AckAuth", "awaitLogin2")
       \/ stored # NoPass /\ m.hash # stored /\ stage' = "awaitLogin" /\ UNCHANGED toClient

\* The password stored for the Login's name; NoPass also when the database
\* cannot be asked.
CheckPassword(m) ==
    \E stored \in {account[originalUser], NoPass} :
       \/ stored = NoPass  /\ Reply("AckError", "closed")
       \/ /\ stored # NoPass /\ m.hash = stored
          /\ Reply("AckAuth", "awaitLogin2")
       \/ stored # NoPass /\ m.hash # stored /\ Close

\* Second stage.  The name in the Response is not looked at.  The lookup
\* ends in deleting a pointer that was never set, which may end the process.
ServeResponse ==
    /\ stage = "awaitResponse"
    /\ \E m \in Incoming :
         /\ Decode
         /\ \/ Decodable(m) /\ m.type = "Response" /\ CheckPassword(m)
            \/ Close
    /\ UNCHANGED <<client, originalUser, batch, expired, ghosts>>

\* Third stage: any Login is answered with the server's public key.
ServeLogin2 ==
    /\ stage = "awaitLogin2"
    /\ \E m \in Incoming :
         /\ Decode
         /\ IF Decodable(m) /\ m.type = "Login"
            THEN Reply("PubKey", "awaitKey")
            ELSE Close
    /\ UNCHANGED <<client, originalUser, batch, expired, ghosts>>

\* Fault: the key is taken without an ACK.
ServeKeySilent ==
    /\ stage = "awaitKey"
    /\ \E m \in Incoming :
         /\ Decode
         /\ stage' = IF Decodable(m) /\ m.type = "Login" /\ m.key = "SYMMETRIC"
                     THEN "service" ELSE "closed"
    /\ UNCHANGED <<client, originalUser, batch, expired, toClient, ghosts>>

\* Fourth stage: without a key to decrypt, or one of the wrong length, the
\* connection is closed.
ServeKey ==
    /\ stage = "awaitKey"
    /\ \E m \in Incoming :
         /\ Decode
         /\ IF Decodable(m) /\ m.type = "Login" /\ m.key = "SYMMETRIC"
            THEN Reply("AckSuccess", "service")
            ELSE Close
    /\ UNCHANGED <<client, originalUser, batch, expired, ghosts>>

\* Fault: the time is not looked at.
CheckTimeNever ==
    /\ stage = "service"
    /\ stage' = "receive"
    /\ UNCHANGED <<client, originalUser, batch, expired, stream, ghosts>>

\* Top of the service loop: the only place where the time is looked at.
CheckTime ==
    /\ stage = "service"
    /\ stage' = IF expired THEN "closed" ELSE "receive"
    /\ UNCHANGED <<client, originalUser, batch, expired, stream, ghosts>>

\* Fault: a Poll that comes too late is skipped without a look at the time.
ServePollSkipped(m) ==
    /\ m.type = "Poll"
    /\ \/ /\ expired
          /\ UNCHANGED <<stage, batch, late, toClient>>
       \/ /\ ~expired
          /\ stage' = "deliver"
          /\ batch' \in 0 .. MaxBatch
          /\ UNCHANGED <<late, toClient>>

\* A Poll of the connection's user; the rows it finds are sent one by one.
ServePoll(m) ==
    /\ m.type = "Poll"
    /\ IF Decodable(m) /\ m.user = originalUser
       THEN /\ stage' = "deliver"
            /\ batch' \in 0 .. MaxBatch
            /\ late' = IF expired THEN late + 1 ELSE late
            /\ UNCHANGED toClient
       ELSE Close /\ UNCHANGED <<batch, late>>

\* Fault: a stored text is acknowledged with the SUCCESS of the key exchange.
ServeStoreAcked(m) ==
    /\ m.type = "PollResponse"
    /\ \/ /\ Decodable(m) /\ m.user = originalUser
          /\ late' = IF expired THEN late + 1 ELSE late
          /\ Reply("AckSuccess", "service")
       \/ Close /\ UNCHANGED late
    /\ UNCHANGED batch

\* A PollResponse carries a text to store.  Its constructor tests a field
\* that is not set yet, so decoding it may fail.
ServeStore(m) ==
    /\ m.type = "PollResponse"
    /\ \/ /\ Decodable(m) /\ m.user = originalUser
          /\ stage' = "service"
          /\ late' = IF expired THEN late + 1 ELSE late
          /\ UNCHANGED toClient
       \/ Close /\ UNCHANGED late
    /\ UNCHANGED batch

\* Any other message is read and forgotten.
ServeOther(m) ==
    /\ m.type \in {"Login", "Response"}
    /\ stage' = IF Decodable(m) THEN "service" ELSE "closed"
    /\ UNCHANGED <<batch, toClient, late>>

ServeRequest ==
    /\ stage = "receive"
    /\ \E m \in Incoming :
         /\ Decode
         /\ ServePoll(m) \/ ServeStore(m) \/ ServeOther(m)
    /\ UNCHANGED <<client, originalUser, expired, typed, excuses, presses,
                   sends>>

\* Fault: one row more than the poll has found.
DeliverRowTooMany ==
    /\ stage = "deliver"
    /\ \/ Reply("PollResponse", "deliver") /\ batch' = batch - 1
       \/ Close /\ batch' = 0
    /\ UNCHANGED <<client, originalUser, expired, toServer, ghosts>>

\* One row of a poll; building its message may throw.
DeliverRow ==
    /\ stage = "deliver" /\ batch > 0
    /\ \/ Reply("PollResponse", "deliver") /\ batch' = batch - 1
       \/ Close /\ batch' = 0
    /\ UNCHANGED <<client, originalUser, expired, toServer, ghosts>>

DeliverDone ==
    /\ stage = "deliver" /\ batch = 0
    /\ stage' = "service"
    /\ UNCHANGED <<client, originalUser, batch, expired, stream, ghosts>>

\* Fault: the end of the stream is not noticed by a waiting service loop.
ServerEndHandshake ==
    /\ stage \in Handshake
    /\ ~clientOpen
    /\ toServer = << >> \/ toClient # << >>
    /\ stage' = "closed"
    /\ UNCHANGED <<client, originalUser, batch, expired, stream, ghosts>>

\* The client is gone: a blocked decode sees the end of the stream, or a
\* reset when the client left replies unread.  The header is then whatever
\* the stack holds, and every way of reading it ends the connection.
ServerEnd ==
    /\ stage \in Handshake \cup {"receive"}
    /\ ~clientOpen
    /\ toServer = << >> \/ toClient # << >>
    /\ stage' = "closed"
    /\ UNCHANGED <<client, originalUser, batch, expired, stream, ghosts>>

\* 1000 seconds have passed since the connection was accepted.
Expire ==
    /\ ~expired
    /\ expired' = TRUE
    /\ UNCHANGED <<client, stage, originalUser, batch, stream, ghosts>>

-----------------------------------------------------------------------------
Init ==
    /\ edt = "idle"
    /\ form = [name |-> NoName, pass |-> NoPass]
    /\ paneVisible = TRUE
    /\ input = NoPass
    /\ username = NoName
    /\ authenticated = FALSE
    /\ hasExchangedKeys = FALSE
    /\ reader = "reading"
    /\ digest = NoPass
    /\ pollers = 0
    /\ clientOpen = TRUE
    /\ stage = "awaitLogin"
    /\ originalUser = NoName
    /\ batch = 0
    /\ expired = FALSE
    /\ toServer = << >>
    /\ toClient = << >>
    /\ typed = {}
    /\ excuses = {}
    /\ late = 0
    /\ presses = 0
    /\ sends = 0

Press == \E n \in Names \cup {NoName}, p \in Passwords \cup {NoPass} : PressOK(n, p)

\* What the event thread does by itself, and the dialogs a user dismisses.
Edt == FillInput \/ SetUsername \/ Validate
Dismiss == DismissInvalid \/ DismissDialog

Reader ==
    \/ RecvChallenge \/ HashInput \/ Respond \/ ZeroInput
    \/ RecvAckAuth \/ RecvAckError \/ HidePane \/ SendAsym
    \/ RecvPubKey \/ SendSym \/ SetExchanged
    \/ RecvAckSuccess \/ RecvPollResponse \/ ReaderEnd

Server ==
    \/ ServeLogin \/ ServeResponse \/ ServeLogin2 \/ ServeKey
    \/ CheckTime \/ ServeRequest \/ DeliverRow \/ DeliverDone \/ ServerEnd

Next ==
    \/ Press \/ Edt \/ Dismiss \/ SendClick \/ WindowClosing
    \/ Reader \/ NameReplaced \/ Poll \/ Server \/ Expire

Spec == Init /\ [][Next]_vars

\* The operating systems schedule every thread, and a user who is shown a
\* dialog dismisses it; nothing obliges the user to press, send or leave.
Fairness == /\ WF_vars(Edt) /\ WF_vars(Dismiss) /\ WF_vars(Reader)
            /\ WF_vars(Poll) /\ WF_vars(Server)

FairSpec == Spec /\ Fairness

-----------------------------------------------------------------------------
(* What the connection promises.                                           *)

\* Every variable keeps its type: the threads are at one of the places named
\* above, the stream holds messages.  The login pane, which the reader hides,
\* has given way only in a client that has had its PASSWORD_AUTH.
TypeOK ==
    /\ edt \in EdtStates
    /\ form \in [name : Names \cup {NoName}, pass : Passwords \cup {NoPass}]
    /\ paneVisible \in BOOLEAN /\ (~paneVisible => authenticated)
    /\ input \in Inputs
    /\ username \in Names \cup {NoName}
    /\ authenticated \in BOOLEAN
    /\ hasExchangedKeys \in BOOLEAN
    /\ reader \in ReaderStates
    /\ digest \in Inputs
    /\ pollers \in Nat
    /\ clientOpen \in BOOLEAN
    /\ stage \in Stages
    /\ originalUser \in Names \cup {NoName}
    /\ batch \in 0 .. MaxBatch
    /\ expired \in BOOLEAN
    /\ toServer \in Seq(Messages)
    /\ toClient \in Seq(Replies)
    /\ typed \subseteq Passwords
    /\ excuses \subseteq {"noPassword", "noKey"}
    /\ late \in Nat
    /\ presses \in 0 .. MaxPress
    /\ sends \in 0 .. MaxSends

InStream(S, seq) == \E i \in DOMAIN seq : seq[i] \in S
Has(x, seq)      == \E i \in DOMAIN seq : seq[i] = x

\* A connection gets past the password check only if the user has typed the
\* password of the account the server serves it for, whatever presses, partly
\* filled and zeroed input arrays the check was raced by.
AuthSound ==
    stage \in {"awaitLogin2", "awaitKey"} \cup Opened =>
        originalUser \in Names /\ account[originalUser] \in typed

\* handleACK ignores a SUCCESS unless hasExchangedKeys is set, and the flag
\* is set after the key has been sent: the ACK never finds it unset.
SuccessNotDropped ==
    /\ reader = "reading"
    /\ Has("AckSuccess", toClient)
    => hasExchangedKeys

\* handleACK starts a PollThread at every SUCCESS: there is never a second.
PollerOnce == pollers <= 1

\* A Poll reaches the server only in its service loop (or too late), never in
\* the place of a message of the handshake.
PollAfterHandshake ==
    InStream({PollOf(n) : n \in Names}, toServer) => stage \notin Handshake

\* Client and server wait for each other in the handshake, with nothing under
\* way, only if the client had a reason: the dialog that asks for a password
\* was shown instead of an answer, or the exception of a key message that
\* could not be built or sent was swallowed.
NoMutualWait ==
    /\ clientOpen /\ reader = "reading"
    /\ toServer = << >> /\ toClient = << >>
    => /\ stage = "awaitResponse" => "noPassword" \in excuses
       /\ stage \in {"awaitLogin2", "awaitKey"} => "noKey" \in excuses

\* The session limit is only looked at between two requests: the request the
\* server was waiting for when the time ran out is still served, and no other.
AtMostOneLate == late <= 1

\* A user who presses OK once, with a password, and does not send early gets
\* a polling client, or the connection ends.
LoginConcludes ==
    (stage = "awaitResponse" /\ input # NoPass) ~>
        (pollers > 0 \/ stage = "closed" \/ ~clientOpen)

\* The server thread of a client that has exited ends.
ServerThreadEnds == ~clientOpen ~> stage = "closed"

\* A polling client's session ends after its time, unless the reader is stuck
\* and the replies it no longer takes block the server.
SessionExpires ==
    (expired /\ pollers > 0) ~>
        (stage = "closed" \/ reader = "stuck" \/ ~clientOpen)

\* How far the connection is, as far as SessionContract tells it apart.
phaseOf ==
    CASE stage \in {"awaitLogin", "awaitResponse"} -> "connecting"
      [] stage \in {"awaitLogin2", "awaitKey"}     -> "proven"
      [] stage \in Opened                         -> "open"
      [] OTHER                                    -> "closed"

Contract == INSTANCE SessionContract WITH phase <- phaseOf, owner <- originalUser

\* The threads, fields and messages of a connection implement the contract:
\* it is named once and for good, no step skips the password check or goes
\* back behind it, and a closed connection stays closed.
KeepsContract == Contract!Spec

-----------------------------------------------------------------------------
(* The inductive invariant behind the safety properties.                   *)

LoginMsgs    == {m \in Messages : m.type = "Login"}
SymKeyMsgs   == {m \in Messages : m.type = "Login" /\ m.key = "SYMMETRIC"}
ResponseMsgs == {m \in Messages : m.type = "Response"}
PollMsgs     == {m \in Messages : m.type = "Poll"}

\* x is in seq at one place at most.
Once(x, seq) == \A i, j \in DOMAIN seq : seq[i] = x /\ seq[j] = x => i = j

\* Before the first complete press nothing that reads username can run: no
\* thread but a responding reader ever meets a null name.
NameInv ==
    /\ edt \in {"filling", "naming"} => form.name \in Names /\ form.pass \in typed
    /\ username = NoName =>
         /\ stage \in {"awaitLogin", "awaitResponse", "closed"}
         /\ \A r \in {"AckAuth", "PubKey", "AckSuccess"} : ~Has(r, toClient)
         /\ ~InStream(ResponseMsgs, toServer)
         /\ ~authenticated /\ paneVisible /\ pollers = 0
         /\ reader \in {"reading", "hash", "respond", "alert", "stuck", "dead"}

\* What is hashed, and so what is in a Response, was typed or is no password.
AuthInv ==
    /\ input \in typed \cup {NoPass, Partial, Zeroed}
    /\ digest \in typed \cup {NoPass, Partial, Zeroed}
    /\ \A i \in DOMAIN toServer :
         toServer[i].hash \in typed \cup {NoPass, Partial, Zeroed}
    /\ stage \notin {"awaitLogin", "closed"} => originalUser \in Names
    /\ stage = "awaitLogin" => originalUser = NoName
    /\ AuthSound

\* PASSWORD_AUTH is sent once, and found by a client not yet authenticated; only
\* then is the pane hidden.
AckInv ==
    /\ reader \in {"success", "hide"} => authenticated
    /\ authenticated \/ Has("AckAuth", toClient) =>
         stage \notin {"awaitLogin", "awaitResponse"}
    /\ Has("AckAuth", toClient) => ~authenticated
    /\ Once("AckAuth", toClient)

\* SUCCESS is sent once, after the key, and only it starts a PollThread.
PollInv ==
    /\ Has("AckSuccess", toClient) => stage \notin Handshake /\ pollers = 0
    /\ Once("AckSuccess", toClient)
    /\ pollers > 0 => stage \notin Handshake
    /\ pollers <= 1
    /\ InStream(PollMsgs, toServer) => pollers > 0
    /\ InStream(SymKeyMsgs, toServer) \/ Has("AckSuccess", toClient) =>
         hasExchangedKeys \/ reader = "flag"

\* Whoever is waited for in the handshake holds its turn: a message under
\* way, a handler at work, or an excuse.
TurnInv ==
    /\ clientOpen /\ stage = "awaitResponse" =>
         \/ Has("Challenge", toClient) \/ InStream(ResponseMsgs, toServer)
         \/ reader \in {"hash", "respond", "stuck", "dead"}
         \/ "noPassword" \in excuses
    /\ clientOpen /\ stage = "awaitLogin2" =>
         \/ Has("AckAuth", toClient) \/ InStream(LoginMsgs, toServer)
         \/ reader \in {"success", "hide", "asym", "stuck", "dead"}
         \/ "noKey" \in excuses
    /\ clientOpen /\ stage = "awaitKey" =>
         \/ Has("PubKey", toClient) \/ InStream(LoginMsgs, toServer)
         \/ reader \in {"sym", "stuck", "dead"}
         \/ "noKey" \in excuses

\* A request is served late only if the server waited for it when the time
\* ran out; from then on CheckTime closes the connection.
LateInv ==
    /\ late > 0 => expired /\ stage \in {"deliver", "service", "closed"}
    /\ late <= 1

IndInv == TypeOK /\ NameInv /\ AuthInv /\ AckInv /\ PollInv /\ TurnInv /\ LateInv
=============================================================================
