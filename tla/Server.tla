------------------------------- MODULE Server -------------------------------
(***************************************************************************)
(* The server process: main and its accept loop, one thread per accepted   *)
(* connection, the descriptors, threads and database connections they use  *)
(* up, and what the end of a client, a signal or a restart does to them.   *)
(*                                                                         *)
(* ChatSession follows one connection; here a message is only the kind of  *)
(* request it is, a reply is counted, and the checks of a session (name,   *)
(* password, key, time) may each come out either way.                      *)
(*                                                                         *)
(* The TCP connection is Linux's.  A client that closes with replies it    *)
(* has not read resets the connection, otherwise it ends its direction; a  *)
(* reply to a client that is gone is accepted and answered by a reset;     *)
(* after that, send raises SIGPIPE, which nobody handles.                  *)
(***************************************************************************)
EXTENDS Naturals, Sequences, FiniteSets

CONSTANTS
    Conns,       \* connections; one that is over can be used again
    NoConn,      \* no connection
    Talkers,     \* bound: connections whose clients send anything
    MaxFds,      \* descriptors left for connections
    MaxThreads,  \* threads the process can create without joining any
    MaxDb,       \* connections the database grants
    QueueLen,    \* connections that may wait for accept
    MaxRows,     \* bound: rows one poll can find
    MaxInbox,    \* bound: messages a client has sent and nobody has read
    MaxOutbox,   \* bound: replies in the socket buffers
    MaxFails     \* bound: SQL statements that fail in the life of a process

ASSUME ServerAssumption ==
    /\ IsFiniteSet(Conns) /\ NoConn \notin Conns
    /\ MaxFds \in Nat /\ MaxThreads \in Nat /\ MaxDb \in Nat
    /\ QueueLen \in Nat /\ MaxRows \in Nat /\ MaxInbox \in Nat
    /\ MaxOutbox \in Nat /\ MaxFails \in Nat

VARIABLES
    \* the process
    up,          \* is it running?
    main,        \* the connection main has accepted and not yet handed on
    open,        \* connections with an open descriptor
    th,          \* the thread of each connection
    started,     \* threads created, none of which is ever joined
    leaked,      \* database connections no pointer leads to any more
    \* the network
    queue,       \* connections waiting for accept
    peer,        \* the client's end of each connection
    lingering,   \* connections the server closed first, still holding the port
    \* history
    sqlFails,    \* failed statements in the life of the process
    refused,     \* has the database refused a connection for their number?
    turnedAway,  \* threads at work when the last client got none, or MaxThreads
    killer       \* the client's end of the connection that raised SIGPIPE

process == <<up, main, open, th, started, leaked>>
network == <<queue, peer, lingering>>
history == <<sqlFails, refused, turnedAway, killer>>
vars    == <<process, network, history>>

-----------------------------------------------------------------------------
(* Connections.                                                            *)

Kinds == {"login", "response", "poll", "text"}

\* What clientConnectStart wants to read before its service loop, by stage.
Greeting == <<"login", "response", "login", "login">>
Service  == Len(Greeting) + 1

\* What a client has to have read before it sends a message of a kind.
Known(m) == CASE m = "login" -> 0 [] m = "response" -> 1 [] OTHER -> Len(Greeting)

\* The replies one message can lead to.
RepliesTo(m) == CASE m = "poll" -> MaxRows [] m \in {"login", "response"} -> 1
                  [] OTHER -> 0

\* pc is "none", or "decode", "connect", "query", "send", "refuse", "refused" or
\* "check"; line is "none", "open", "fin", "reset" or "broken".
NoThread == [pc |-> "none", stage |-> 1, req |-> "none", owed |-> 0]
NoPeer   == [line |-> "none", inbox |-> << >>, outbox |-> 0, got |-> 0, debt |-> 0]

Queued(c)    == \E i \in DOMAIN queue : queue[i] = c
Connected(c) == c \in open \/ Queued(c)
Working      == {c \in Conns : th[c].pc # "none"}
Querying     == {c \in Conns : th[c].pc = "query"}

-----------------------------------------------------------------------------
(* The clients.                                                            *)

Connect(c) ==
    /\ up /\ peer[c].line = "none" /\ ~Connected(c)
    /\ Len(queue) < QueueLen
    /\ queue' = Append(queue, c)
    /\ peer' = [peer EXCEPT ![c] = [NoPeer EXCEPT !.line = "open"]]
    /\ UNCHANGED <<process, lingering, history>>

Ask(c, m) ==
    /\ c \in Talkers
    /\ peer[c].line = "open" /\ Connected(c)
    /\ Len(peer[c].inbox) < MaxInbox
    /\ peer[c].got >= Known(m)
    /\ peer' = [peer EXCEPT ![c].inbox = Append(@, m)]
    /\ UNCHANGED <<process, queue, lingering, history>>

ReadReply(c) ==
    /\ peer[c].line = "open" /\ peer[c].outbox > 0
    /\ peer' = [peer EXCEPT ![c].outbox = @ - 1,
                            ![c].got = IF @ < Len(Greeting) THEN @ + 1 ELSE @]
    /\ UNCHANGED <<process, queue, lingering, history>>

\* The replies a client that leaves now does not wait for.
Unread(c) ==
    LET polls == {i \in DOMAIN peer[c].inbox : peer[c].inbox[i] = "poll"}
        short == {i \in DOMAIN peer[c].inbox : RepliesTo(peer[c].inbox[i]) = 1} \ polls
    IN  peer[c].outbox + th[c].owed + RepliesTo(th[c].req)
          + Cardinality(polls) * MaxRows + Cardinality(short)

\* The client's exit.  Replies that reach it unread make it reset the
\* connection at once; the ones still under way make it do so a little later.
Leave(c) ==
    /\ peer[c].line = "open"
    /\ \/ /\ ~Connected(c)
          /\ peer' = [peer EXCEPT ![c] = NoPeer]
       \/ /\ Connected(c)
          /\ \E l \in IF peer[c].outbox = 0 THEN {"fin"} ELSE {"reset", "broken"} :
               peer' = [peer EXCEPT ![c].line = l, ![c].outbox = 0,
                                    ![c].debt = Unread(c)]
    /\ UNCHANGED <<process, queue, lingering, history>>

\* The last connection that the server closed first no longer holds the port.
LingerEnds ==
    /\ \E c \in lingering : lingering' = lingering \ {c}
    /\ UNCHANGED <<process, queue, peer, history>>

-----------------------------------------------------------------------------
(* What the end of a descriptor does to the connection.                    *)

\* A client that is still there finds the end of the stream; messages nobody
\* will read turn it into a reset, which leaves no connection to linger.
Dropped(C, ends) ==
    /\ peer' = [c \in Conns |->
         IF c \in C
         THEN IF ends[c].line = "open" THEN [ends[c] EXCEPT !.inbox = << >>] ELSE NoPeer
         ELSE ends[c]]
    /\ lingering' = lingering \cup
         {c \in C : ends[c].line = "open" /\ ends[c].inbox = << >>}

\* delete sock, and the thread returns.
Finish(c, ends) ==
    /\ th' = [th EXCEPT ![c] = NoThread]
    /\ open' = open \ {c}
    /\ Dropped({c}, ends)

\* The process ends: the kernel closes every descriptor.
Die(end) ==
    /\ up' = FALSE /\ main' = NoConn /\ open' = {} /\ queue' = << >>
    /\ th' = [c \in Conns |-> NoThread]
    /\ started' = 0 /\ leaked' = 0
    /\ Dropped({c \in Conns : Connected(c)}, peer)
    /\ killer' = end
    /\ UNCHANGED <<sqlFails, refused, turnedAway>>

-----------------------------------------------------------------------------
(* main.                                                                   *)

\* bind fails while the port is held, and the process ends at once.  The
\* database is tried; the connection of a try that fails is lost.
Start ==
    /\ ~up /\ lingering = {}
    /\ up' = TRUE
    /\ \E n \in {0, 1} : n <= MaxFails /\ leaked' = n /\ sqlFails' = n
    /\ refused' = FALSE /\ killer' = NoPeer /\ turnedAway' = MaxThreads
    /\ UNCHANGED <<main, open, th, started, network>>

\* Fault: main waits for the thread it has created.
AcceptJoined ==
    /\ up /\ main = NoConn /\ queue # << >>
    /\ Working = {}
    /\ main' = Head(queue)
    /\ open' = open \cup {Head(queue)}
    /\ queue' = Tail(queue)
    /\ UNCHANGED <<up, th, started, leaked, peer, lingering, history>>

\* Without a descriptor left accept throws, and the loop tries again.
Accept ==
    /\ up /\ main = NoConn /\ queue # << >>
    /\ Cardinality(open) < MaxFds
    /\ main' = Head(queue)
    /\ open' = open \cup {Head(queue)}
    /\ queue' = Tail(queue)
    /\ UNCHANGED <<up, th, started, leaked, peer, lingering, history>>

\* Fault: a socket without a thread is forgotten.
SpawnForgets ==
    /\ up /\ main \in Conns
    /\ main' = NoConn
    /\ \/ /\ started < MaxThreads
          /\ started' = started + 1
          /\ th' = [th EXCEPT ![main].pc = "decode"]
          /\ UNCHANGED turnedAway
       \/ /\ started >= MaxThreads
          /\ turnedAway' = Cardinality(Working)
          /\ UNCHANGED <<started, th>>
    /\ UNCHANGED <<up, open, leaked, network, sqlFails, refused, killer>>

\* pthread_create, or delete sock.
Spawn ==
    /\ up /\ main \in Conns
    /\ main' = NoConn
    /\ \/ /\ started < MaxThreads
          /\ started' = started + 1
          /\ th' = [th EXCEPT ![main].pc = "decode"]
          /\ UNCHANGED <<open, peer, lingering, turnedAway>>
       \/ /\ started >= MaxThreads
          /\ turnedAway' = Cardinality(Working)
          /\ open' = open \ {main} /\ Dropped({main}, peer)
          /\ UNCHANGED <<started, th>>
    /\ UNCHANGED <<up, leaked, queue, sqlFails, refused, killer>>

-----------------------------------------------------------------------------
(* clientConnectStart.                                                     *)

Goto(c, pc) == th' = [th EXCEPT ![c].pc = pc, ![c].req = "none"]
Owe(c, n)   == th' = [th EXCEPT ![c].pc = "send", ![c].req = "none", ![c].owed = n]

\* decode returns a message.  One that is not wanted ends the session, as do
\* a name, a key or a constructor that fails.
Decode(c) ==
    LET m     == Head(peer[c].inbox)
        s     == th[c].stage
        taken == [peer EXCEPT ![c].inbox = Tail(@)]
    IN  /\ th[c].pc = "decode" /\ peer[c].inbox # << >>
        /\ \/ /\ \/ /\ \/ s = 2 /\ m = "response"
                       \/ s = Service /\ m \in {"poll", "text"}
                    /\ th' = [th EXCEPT ![c].pc = "connect", ![c].req = m]
                 \/ s \in {1, 3, 4} /\ m = Greeting[s] /\ Owe(c, 1)
                 \/ s = Service /\ m \in {"login", "response"} /\ Goto(c, "check")
              /\ peer' = taken
              /\ UNCHANGED <<open, lingering>>
           \/ Finish(c, taken)
        /\ UNCHANGED <<up, main, started, leaked, queue, history>>

\* Fault: the error ACK of the handlers' commented-out lines is sent.
DecodeEndSaysWhy(c) ==
    /\ th[c].pc = "decode" /\ peer[c].inbox = << >>
    /\ peer[c].line \notin {"open", "none"}
    /\ Goto(c, "refuse")
    /\ UNCHANGED <<up, main, open, started, leaked, network, history>>

\* Fault: a header that is not there is not an error.
DecodeEndIgnored(c) ==
    /\ th[c].pc = "decode" /\ peer[c].inbox = << >>
    /\ peer[c].line \notin {"open", "none"}
    /\ Goto(c, "check")
    /\ UNCHANGED <<up, main, open, started, leaked, network, history>>

\* decode meets the end of the stream or a reset, and throws.
DecodeEnd(c) ==
    /\ th[c].pc = "decode" /\ peer[c].inbox = << >>
    /\ peer[c].line \notin {"open", "none"}
    /\ Finish(c, peer)
    /\ UNCHANGED <<up, main, started, leaked, queue, history>>

\* After a statement has failed, or found nothing: no password, no rows, or a
\* text that is lost.
Without(c) == Goto(c, IF th[c].stage = 2 THEN "refuse" ELSE "check")

\* driver->connect, which fails when the database cannot be reached or grants
\* no more connections.
DbConnect(c) ==
    /\ th[c].pc = "connect"
    /\ \/ /\ Cardinality(Querying) + leaked < MaxDb
          /\ th' = [th EXCEPT ![c].pc = "query"]
          /\ UNCHANGED refused
       \/ /\ Without(c)
          /\ refused' = (refused \/ Cardinality(Querying) + leaked >= MaxDb)
    /\ UNCHANGED <<up, main, open, started, leaked, network, sqlFails,
                   turnedAway, killer>>

\* The outcome of statements that succeed: a password that is right, wrong
\* or not there, the rows of a poll, a text stored.
Answer(c) ==
    \/ th[c].stage = 2 /\ Owe(c, 1) /\ UNCHANGED <<open, peer, lingering>>
    \/ th[c].stage = 2 /\ Goto(c, "refuse") /\ UNCHANGED <<open, peer, lingering>>
    \/ th[c].stage = 2 /\ Finish(c, peer)
    \/ /\ th[c].req = "poll" /\ \E n \in 1 .. MaxRows : Owe(c, n)
       /\ UNCHANGED <<open, peer, lingering>>
    \/ th[c].stage = Service /\ Goto(c, "check") /\ UNCHANGED <<open, peer, lingering>>

\* Fault: con is not deleted.
QueryKeeps(c) ==
    /\ th[c].pc = "query"
    /\ Answer(c)
    /\ leaked < MaxDb /\ leaked' = leaked + 1
    /\ UNCHANGED <<up, main, started, queue, history>>

\* delete con comes last.
Query(c) ==
    /\ th[c].pc = "query"
    /\ Answer(c)
    /\ UNCHANGED <<up, main, started, leaked, queue, history>>

\* An SQLException jumps over delete con; the rows a poll has fetched by then
\* are sent all the same.
QueryFails(c) ==
    /\ th[c].pc = "query"
    /\ sqlFails < MaxFails
    /\ sqlFails' = sqlFails + 1
    /\ leaked' = leaked + 1
    /\ \/ Without(c)
       \/ th[c].req = "poll" /\ \E n \in 1 .. MaxRows : Owe(c, n)
    /\ UNCHANGED <<up, main, open, started, network, refused, turnedAway, killer>>

\* The password lookup deletes a pointer that was never set.
QueryCrashes(c) ==
    /\ th[c].pc = "query" /\ th[c].stage = 2
    /\ Die(NoPeer)

\* One reply is out: the next row, the next stage, or the end of the session.
Replied(c) ==
    \/ th[c].pc = "send" /\ th[c].owed > 1
       /\ th' = [th EXCEPT ![c].owed = @ - 1]
    \/ th[c].pc = "send" /\ th[c].owed = 1 /\ th[c].stage < Service
       /\ th' = [th EXCEPT ![c].owed = 0, ![c].stage = @ + 1,
                           ![c].pc = IF th[c].stage + 1 = Service THEN "check" ELSE "decode"]
    \/ th[c].pc = "send" /\ th[c].owed = 1 /\ th[c].stage = Service
       /\ th' = [th EXCEPT ![c].owed = 0, ![c].pc = "check"]
    \/ th[c].pc = "refuse" /\ th' = [th EXCEPT ![c].pc = "refused"]

\* sock->send that returns: there is room, or the client's end has not yet
\* said that it is gone.
Send(c) ==
    /\ \/ /\ peer[c].line = "open" /\ peer[c].outbox < MaxOutbox
          /\ peer' = [peer EXCEPT ![c].outbox = @ + 1]
       \/ /\ peer[c].line \in {"fin", "broken"}
          /\ peer' = [peer EXCEPT ![c].line = "broken"]
    /\ Replied(c)
    /\ UNCHANGED <<up, main, open, started, leaked, queue, lingering, history>>

\* The session ends behind an error ACK; or send throws, after a reset; or a
\* row cannot be built.
SendEnds(c) ==
    /\ \/ th[c].pc = "refused"
       \/ th[c].pc \in {"send", "refuse"} /\ peer[c].line = "reset"
       \/ th[c].pc = "send" /\ th[c].stage = Service
    /\ Finish(c, peer)
    /\ UNCHANGED <<up, main, started, leaked, queue, history>>

\* The second reply to a client that is gone.
SendKills(c) ==
    /\ th[c].pc \in {"send", "refuse"} /\ peer[c].line = "broken"
    /\ Die(peer[c])

\* Top of the service loop: the time may be up.
Check(c) ==
    /\ th[c].pc = "check"
    /\ \/ Goto(c, "decode") /\ UNCHANGED <<open, peer, lingering>>
       \/ Finish(c, peer)
    /\ UNCHANGED <<up, main, started, leaked, queue, history>>

-----------------------------------------------------------------------------
Init ==
    /\ up = FALSE /\ main = NoConn /\ open = {}
    /\ th = [c \in Conns |-> NoThread]
    /\ started = 0 /\ leaked = 0
    /\ queue = << >>
    /\ peer = [c \in Conns |-> NoPeer]
    /\ lingering = {}
    /\ sqlFails = 0 /\ refused = FALSE /\ turnedAway = MaxThreads /\ killer = NoPeer

Client(c) == Connect(c) \/ ReadReply(c) \/ Leave(c) \/ \E m \in Kinds : Ask(c, m)

Main == Accept \/ Spawn

Thread(c) ==
    \/ Decode(c) \/ DecodeEnd(c) \/ DbConnect(c) \/ Query(c) \/ QueryFails(c)
    \/ QueryCrashes(c) \/ Send(c) \/ SendEnds(c) \/ SendKills(c) \/ Check(c)

Next ==
    \/ Start \/ LingerEnds \/ Main
    \/ \E c \in Conns : Client(c) \/ Thread(c)

Spec == Init /\ [][Next]_vars

\* The operating system runs main and every thread; nothing obliges a client
\* to ask, read or leave, or anybody to start the server.
FairSpec == Spec /\ WF_vars(Main) /\ \A c \in Conns : WF_vars(Thread(c))
-----------------------------------------------------------------------------
(* What the process promises.                                              *)

\* Every open descriptor is in the hands of main or of a running thread: no
\* early return, exception or failed pthread_create forgets its socket.
NoDescriptorLost == open = Working \cup ({main} \ {NoConn})

\* The database turns the server away only after statements have failed: the
\* connections of sessions that succeed are given back, however many there
\* have been, and no more sessions ask for one than there are descriptors.
RefusedAfterFailures ==
    refused => sqlFails >= MaxDb + 1 - MaxFds

\* One reply to a client that is gone is always survived.  SIGPIPE ends the
\* process only if the client left with two replies or more still to come, in
\* the buffers or for messages not served yet.
KilledByLeaver == killer # NoPeer => killer.debt >= 2

\* What the library says of send: it throws if it is unable to send data.
\* No client can then end the process.
SendThrows == killer = NoPeer

\* What main's comments say: connections are accepted repeatedly, and each
\* gets its thread.  One is turned away only while the threads there can be
\* are all at work.
EachItsThread == turnedAway = MaxThreads

\* The descriptor of a client that has left is closed.
LeaverReleased ==
    \A c \in Conns : (c \in open /\ peer[c].line # "open") ~> c \notin open

\* A connection waiting in the queue is accepted whatever the sessions are
\* doing, and also when accept has thrown for want of a descriptor before,
\* unless the descriptors stay used up for good or the server ends.
QueuedServed ==
    \A c \in Conns :
       Queued(c) ~> (~Queued(c) \/ ~up \/ [](Cardinality(open) >= MaxFds))
=============================================================================
