---------------------------- MODULE MessageRelay ----------------------------
(***************************************************************************)
(* From a Send of one client to the window of another: the server threads  *)
(* of logged-in clients store texts in the database and answer polls from  *)
(* it, while every client's PollThread moves its window of time forward.   *)
(*                                                                         *)
(* A statement of SQL is one step, so the threads interleave between the   *)
(* statements of one request.  Time is counted in ticks; the clients stamp *)
(* texts and polls with their own clocks, and the server keeps and         *)
(* compares whole seconds.  The user names are those of the handshake,     *)
(* already checked.                                                        *)
(***************************************************************************)
EXTENDS Naturals, Sequences

CONSTANTS
    Users,          \* accounts, each with a polling client
    Strangers,      \* recipients that have no account
    Texts,
    Fold,           \* what the text comparison of the database sees of a text
    Long,           \* the texts longer than MAX_MESSAGE_LENGTH of the server
    Skew,           \* how much a user's clock is ahead, in ticks
    TicksPerSecond,
    Wait,           \* WAIT_TIME of PollThread, in ticks
    MaxTime,        \* bound: ticks
    MaxSends,       \* bound: texts sent
    MaxFaults       \* bound: failures of the database, of decoding, of sessions

ASSUME UsersAssumption == Users \cap Strangers = {} /\ Skew \in [Users -> Nat]
ASSUME TextsAssumption == DOMAIN Fold = Texts /\ Long \subseteq Texts
ASSUME TimeAssumption ==
    /\ TicksPerSecond \in Nat \ {0}
    /\ {Wait, MaxTime, MaxSends, MaxFaults} \subseteq Nat

VARIABLES
    now,
    sent,          \* every text sent; its index is its key
    toServer,      \* what each client has written and the server not read
    toClient,      \* what the server has written and each reader not read
    poller,        \* has PollThread sent a poll and not yet noted the time?
    lastPollTime,  \* PollThread.lastPollTime
    reading,       \* does the client's reader still read?
    shown,         \* what each client has shown
    pc,            \* where each server thread is in its service loop
    job,           \* the request it works on
    batch,         \* the rows it has found and not yet sent
    messages,      \* the table messages: message_id -> text
    transactions,  \* the table transactions
    polled,        \* history: how many polls each user has sent
    noted,         \* history: the time each of its polls asks from
    answered,      \* history: the number of the last poll answered
    skipped,       \* history: rows a failing query kept from a poll
    faults

clients  == <<toServer, poller, lastPollTime, sent>>
readers  == <<reading, shown>>
threads  == <<pc, job, batch>>
database == <<messages, transactions>>
history  == <<polled, noted, answered, skipped>>
vars     == <<now, clients, readers, toClient, threads, database, history, faults>>

Clock(u)  == now + Skew[u]
Second(t) == t \div TicksPerSecond

Places == {"service", "lookup", "record", "deliver", "closed"}
NoJob  == [key |-> 0, id |-> 0, since |-> 0, at |-> 0]

\* The key of a text, and for the record the number of a poll.
Store(k)   == [type |-> "PollResponse", key |-> k, since |-> 0]
Poll(n, t) == [type |-> "Poll", key |-> n, since |-> t]

\* One more failure, within the bound.
Fault == faults < MaxFaults /\ faults' = faults + 1

-----------------------------------------------------------------------------
(* The client.                                                             *)

\* The Send button; the stamp is written while the message is encoded.
Send(u, to, t) ==
    /\ pc[u] # "closed"
    /\ Len(sent) < MaxSends
    /\ sent' = Append(sent, [from |-> u, to |-> to, text |-> t, stamp |-> Clock(u)])
    /\ toServer' = [toServer EXCEPT ![u] = Append(@, Store(Len(sent) + 1))]
    /\ UNCHANGED <<now, poller, lastPollTime, readers, toClient, threads,
                   database, history, faults>>

\* Fault: the time of the poll is noted before the poll is made.
SendPollLate(u) ==
    /\ poller[u] = "wait" /\ pc[u] # "closed"
    /\ Clock(u) > lastPollTime[u] + Wait
    /\ toServer' = [toServer EXCEPT ![u] = Append(@, Poll(polled[u] + 1, Clock(u)))]
    /\ poller' = [poller EXCEPT ![u] = "sent"]
    /\ polled' = [polled EXCEPT ![u] = @ + 1]
    /\ UNCHANGED <<now, sent, lastPollTime, readers, toClient, threads,
                   database, noted, answered, skipped, faults>>

\* PollThread asks for what came after its previous poll ...
SendPoll(u) ==
    /\ poller[u] = "wait" /\ pc[u] # "closed"
    /\ Clock(u) > lastPollTime[u] + Wait
    /\ toServer' = [toServer EXCEPT ![u] = Append(@, Poll(polled[u] + 1, lastPollTime[u]))]
    /\ poller' = [poller EXCEPT ![u] = "sent"]
    /\ polled' = [polled EXCEPT ![u] = @ + 1]
    /\ UNCHANGED <<now, sent, lastPollTime, readers, toClient, threads,
                   database, noted, answered, skipped, faults>>

\* ... and notes the time when the poll has been written.
NotePollTime(u) ==
    /\ poller[u] = "sent"
    /\ lastPollTime' = [lastPollTime EXCEPT ![u] = Clock(u)]
    /\ noted' = [noted EXCEPT ![u] = Append(@, Clock(u))]
    /\ poller' = [poller EXCEPT ![u] = "wait"]
    /\ UNCHANGED <<now, sent, toServer, readers, toClient, threads, database,
                   polled, answered, skipped, faults>>

\* handlePollResponse; a message that cannot be decoded stops the reader.
Show(u) ==
    /\ reading[u] /\ toClient[u] # << >>
    /\ toClient' = [toClient EXCEPT ![u] = Tail(@)]
    /\ \/ /\ shown' = [shown EXCEPT ![u] = @ \cup {Head(toClient[u])}]
          /\ UNCHANGED <<reading, faults>>
       \/ /\ Fault
          /\ reading' = [reading EXCEPT ![u] = FALSE]
          /\ UNCHANGED shown
    /\ UNCHANGED <<now, clients, threads, database, history>>

-----------------------------------------------------------------------------
(* The server thread of user u.                                            *)

\* The next request, when the thread is in its service loop.
Request(u, type) ==
    /\ pc[u] = "service"
    /\ toServer[u] # << >> /\ Head(toServer[u]).type = type
    /\ toServer' = [toServer EXCEPT ![u] = Tail(@)]

Goto(u, place) == pc' = [pc EXCEPT ![u] = place]

\* A statement throws: the exception is printed and the rest of the request
\* left undone.
StatementFails(u) ==
    /\ Fault
    /\ Goto(u, "service")
    /\ job' = [job EXCEPT ![u] = NoJob]
    /\ UNCHANGED database

\* INSERT INTO messages.  A request that cannot be decoded ends the session.
InsertMessage(u) ==
    /\ Request(u, "PollResponse")
    /\ LET k == Head(toServer[u]).key
       IN \/ /\ messages' = Append(messages, sent[k].text)
             /\ job' = [job EXCEPT ![u].key = k]
             /\ Goto(u, "lookup")
             /\ UNCHANGED <<transactions, faults>>
          \/ StatementFails(u)
          \/ Fault /\ Goto(u, "closed") /\ UNCHANGED <<job, database>>
    /\ UNCHANGED <<now, sent, poller, lastPollTime, readers, toClient, batch,
                   history>>

\* Fault: the newest row is taken for the row of this text.
SelectMessageIdNewest(u) ==
    /\ pc[u] = "lookup"
    /\ job' = [job EXCEPT ![u].id = Len(messages)]
    /\ Goto(u, "record")
    /\ UNCHANGED <<database, faults, now, clients, readers, toClient, batch,
                   history>>

\* Fault: the id is taken for the one the next row will get.
SelectMessageIdNext(u) ==
    /\ pc[u] = "lookup"
    /\ job' = [job EXCEPT ![u].id = Len(messages) + 1]
    /\ Goto(u, "record")
    /\ UNCHANGED <<database, faults, now, clients, readers, toClient, batch,
                   history>>

\* SELECT message_id ... WHERE text = ?, and the last row of the answer, in
\* whatever order the database gives it.
SelectMessageId(u) ==
    /\ pc[u] = "lookup"
    /\ \/ /\ \E id \in DOMAIN messages :
               /\ Fold[messages[id]] = Fold[sent[job[u].key].text]
               /\ job' = [job EXCEPT ![u].id = id]
          /\ Goto(u, "record")
          /\ UNCHANGED <<database, faults>>
       \/ StatementFails(u)
    /\ UNCHANGED <<now, clients, readers, toClient, batch, history>>

\* The row for a text: who, to whom, which text and the second of its stamp,
\* and for the record its key and which polls of the recipient came too early
\* to find it.
Row(m, k, id) ==
    [from |-> m.from, to |-> m.to, id |-> id, time |-> Second(m.stamp), key |-> k,
     after |-> answered[m.to]]

\* INSERT INTO transactions; without an account for the recipient there is
\* no row that a poll could find.
InsertTransaction(u) ==
    /\ pc[u] = "record"
    /\ \/ /\ LET m == sent[job[u].key]
             IN transactions' = IF m.to \in Users
                                THEN transactions \cup {Row(m, job[u].key, job[u].id)}
                                ELSE transactions
          /\ Goto(u, "service")
          /\ job' = [job EXCEPT ![u] = NoJob]
          /\ UNCHANGED <<messages, faults>>
       \/ StatementFails(u)
    /\ UNCHANGED <<now, clients, readers, toClient, batch, history>>

\* Fault: the window includes the second of the previous poll.
FoundInclusive(u, since) ==
    {r \in transactions : r.to = u /\ r.time >= Second(since)}

\* WHERE UNIX_TIMESTAMP(timestamp) > ? AND y.email = ?
Found(u, since) ==
    {r \in transactions : r.to = u /\ r.time > Second(since)}

\* The query of a poll; the rows fetched before it throws are kept.
SelectRows(u) ==
    /\ Request(u, "Poll")
    /\ LET since == Head(toServer[u]).since
       IN /\ job' = [job EXCEPT ![u] = [key |-> 0, id |-> 0, since |-> since, at |-> now]]
          /\ \/ /\ batch' = [batch EXCEPT ![u] = Found(u, since)]
                /\ UNCHANGED <<skipped, faults>>
             \/ /\ Fault
                /\ \E some \in SUBSET Found(u, since) :
                     /\ batch' = [batch EXCEPT ![u] = some]
                     /\ skipped' = skipped \cup
                          {r.key : r \in Found(u, since) \ some}
    /\ answered' = [answered EXCEPT ![u] = Head(toServer[u]).key]
    /\ Goto(u, "deliver")
    /\ UNCHANGED <<now, sent, poller, lastPollTime, readers, toClient, database,
                   polled, noted>>

\* What the client gets to see of a row, and for the record which poll it is
\* an answer to.
Shown(u, r) ==
    [from |-> r.from, text |-> messages[r.id], key |-> r.key,
     poll |-> answered[u], since |-> job[u].since, at |-> job[u].at]

\* One row after the other, in any order.  The message of a row can be
\* refused, always when the text is too long, and that ends the session.
DeliverRow(u) ==
    /\ pc[u] = "deliver"
    /\ \E r \in batch[u] :
         \/ /\ messages[r.id] \notin Long
            /\ toClient' = [toClient EXCEPT ![u] = Append(@, Shown(u, r))]
            /\ batch' = [batch EXCEPT ![u] = @ \ {r}]
            /\ UNCHANGED <<pc, job, faults>>
         \/ /\ IF messages[r.id] \in Long THEN UNCHANGED faults ELSE Fault
            /\ Goto(u, "closed")
            /\ job' = [job EXCEPT ![u] = NoJob]
            /\ batch' = [batch EXCEPT ![u] = {}]
            /\ UNCHANGED toClient
    /\ UNCHANGED <<now, clients, readers, database, history>>

DeliverDone(u) ==
    /\ pc[u] = "deliver" /\ batch[u] = {}
    /\ Goto(u, "service")
    /\ job' = [job EXCEPT ![u] = NoJob]
    /\ UNCHANGED <<now, clients, readers, toClient, batch, database, history,
                   faults>>

\* The session's time is over, or its client is gone.
EndSession(u) ==
    /\ pc[u] = "service"
    /\ Fault
    /\ Goto(u, "closed")
    /\ UNCHANGED <<now, clients, readers, toClient, job, batch, database, history>>

Tick ==
    /\ now < MaxTime
    /\ now' = now + 1
    /\ UNCHANGED <<clients, readers, toClient, threads, database, history, faults>>

-----------------------------------------------------------------------------
Init ==
    /\ now = 0
    /\ sent = << >>
    /\ toServer = [u \in Users |-> << >>]
    /\ toClient = [u \in Users |-> << >>]
    /\ poller = [u \in Users |-> "wait"]
    /\ lastPollTime = [u \in Users |-> Clock(u)]
    /\ reading = [u \in Users |-> TRUE]
    /\ shown = [u \in Users |-> {}]
    /\ pc = [u \in Users |-> "service"]
    /\ job = [u \in Users |-> NoJob]
    /\ batch = [u \in Users |-> {}]
    /\ messages = << >>
    /\ transactions = {}
    /\ polled = [u \in Users |-> 0]
    /\ noted = [u \in Users |-> <<Clock(u)>>]
    /\ answered = [u \in Users |-> 0]
    /\ skipped = {}
    /\ faults = 0

Client(u) ==
    \/ \E to \in Users \cup Strangers, t \in Texts : Send(u, to, t)
    \/ SendPoll(u) \/ NotePollTime(u) \/ Show(u)

Server(u) ==
    \/ InsertMessage(u) \/ SelectMessageId(u) \/ InsertTransaction(u)
    \/ SelectRows(u) \/ DeliverRow(u) \/ DeliverDone(u) \/ EndSession(u)

Next == Tick \/ \E u \in Users : Client(u) \/ Server(u)

Spec == Init /\ [][Next]_vars

-----------------------------------------------------------------------------
(* What the relay promises.                                                *)

Keys      == 1 .. MaxSends
Sent      == [from : Users, to : Users \cup Strangers, text : Texts, stamp : Nat]
Requests  == [type : {"Poll", "PollResponse"}, key : Nat, since : Nat]
Rows      == [from : Users, to : Users, id : Nat, time : Nat, key : Keys,
              after : Nat]
Incoming  == [from : Users, text : Texts, key : Keys, poll : Nat, since : Nat,
              at : Nat]

\* The tables hold rows of their schema and every id in use is an id of
\* messages, so that no join and no array access of the server can fail.
TypeOK ==
    /\ now \in 0 .. MaxTime
    /\ sent \in Seq(Sent) /\ Len(sent) <= MaxSends
    /\ toServer \in [Users -> Seq(Requests)]
    /\ toClient \in [Users -> Seq(Incoming)]
    /\ poller \in [Users -> {"wait", "sent"}]
    /\ lastPollTime \in [Users -> Nat]
    /\ reading \in [Users -> BOOLEAN]
    /\ shown \in [Users -> SUBSET Incoming]
    /\ pc \in [Users -> Places]
    /\ job \in [Users -> [key : 0 .. MaxSends, id : Nat, since : Nat, at : Nat]]
    /\ batch \in [Users -> SUBSET transactions]
    /\ messages \in Seq(Texts)
    /\ transactions \subseteq Rows
    /\ \A r \in transactions : r.id \in DOMAIN messages /\ r.key \in DOMAIN sent
    /\ polled \in [Users -> Nat]
    /\ noted \in [Users -> Seq(Nat)]
    /\ answered \in [Users -> Nat]
    /\ skipped \subseteq Keys
    /\ faults \in 0 .. MaxFaults

\* x was sent to u by the user it names, and its text is the one sent as far
\* as the database can tell texts apart.
Faithful(u, x) ==
    /\ x.key \in DOMAIN sent
    /\ sent[x.key].to = u
    /\ sent[x.key].from = x.from
    /\ Fold[sent[x.key].text] = Fold[x.text]

\* What a client shows was sent to it by the user it names, and is the text
\* that was sent as far as the database can tell texts apart, although the
\* server finds the row of a text again by its contents while other threads
\* add rows.
FaithfulDelivery == \A u \in Users : \A x \in shown[u] : Faithful(u, x)

\* Without a failure a session ends only on a text that is too long: one that
\* was sent to its user, or one the database does not tell apart from a text
\* that was.
EndsOnLongOnly ==
    \A u \in Users : pc[u] = "closed" /\ faults = 0 =>
        \E k \in DOMAIN sent : \E t \in Long :
            sent[k].to = u /\ Fold[sent[k].text] = Fold[t]

\* The row has been shown, or is on its way to be.
Reached(r) ==
    \/ r \in batch[r.to]
    \/ \E i \in DOMAIN toClient[r.to] : toClient[r.to][i].key = r.key
    \/ \E x \in shown[r.to] : x.key = r.key

\* The row was stored after its recipient's poll number r.after had looked for
\* rows, and its text bears a second that the recipient had reached when it
\* noted the time for its next poll.
Overtaken(r) == r.time <= Second(noted[r.to][r.after + 1])

\* A text is missed only when a poll overtakes it: it was still on its way when
\* the poll looked for rows, and its second is not after the one in which
\* PollThread noted the time of that poll.  Every other text is found by the
\* next poll to be answered, although the time is noted only after the poll has
\* been written, other threads store rows in between, and stamps are compared by
\* seconds.  A query that failed half way may have skipped it.
MissedOnlyIfOvertaken ==
    \A r \in transactions :
        answered[r.to] > r.after /\ pc[r.to] # "closed" /\ reading[r.to]
            => Reached(r) \/ r.key \in skipped \/ Overtaken(r)

\* A text is shown twice only if the server was late or the sender's clock is
\* ahead: the later poll asks from a second that lies before the one in which
\* the sender's clock saw the earlier poll answered.
TwiceOnlyIfLate ==
    \A u \in Users : \A x, y \in shown[u] :
        x.key = y.key /\ x.poll < y.poll =>
            Second(y.since) < Second(x.at + Skew[x.from])
-----------------------------------------------------------------------------
(* The inductive invariant behind these properties.                        *)

\* A request to store refers to a text that was sent; the polls of a client
\* that are not answered are those after the last one answered, in the order
\* they were sent.
RequestInv ==
    \A u \in Users :
        /\ answered[u] <= polled[u]
        /\ \A i \in DOMAIN toServer[u] :
             IF toServer[u][i].type = "Poll"
             THEN answered[u] < toServer[u][i].key /\ toServer[u][i].key <= polled[u]
             ELSE toServer[u][i].key \in DOMAIN sent
        /\ \A i, j \in DOMAIN toServer[u] :
             i < j /\ toServer[u][i].type = "Poll" /\ toServer[u][j].type = "Poll"
                 => toServer[u][i].key < toServer[u][j].key
        /\ \A n \in answered[u] + 1 .. polled[u] :
             \E i \in DOMAIN toServer[u] :
                 toServer[u][i].type = "Poll" /\ toServer[u][i].key = n

\* The time a poll asks from is the one noted for it, and what is noted last is
\* for the poll that comes next or has just been written.
NotedInv ==
    \A u \in Users :
        /\ Len(noted[u]) = polled[u] + (IF poller[u] = "wait" THEN 1 ELSE 0)
        /\ noted[u][Len(noted[u])] = lastPollTime[u]
        /\ \A i \in DOMAIN toServer[u] :
             toServer[u][i].type = "Poll" =>
                 toServer[u][i].since = noted[u][toServer[u][i].key]

\* A thread that stores works on a text that was sent, and the row it has
\* found holds that text.
JobInv ==
    \A u \in Users :
        /\ pc[u] \in {"lookup", "record"} => job[u].key \in DOMAIN sent
        /\ pc[u] = "record" =>
             /\ job[u].id \in DOMAIN messages
             /\ Fold[messages[job[u].id]] = Fold[sent[job[u].key].text]

\* A row says of a text what was sent, and no stamp is in its sender's future.
RowInv ==
    /\ \A k \in DOMAIN sent : sent[k].stamp <= now + Skew[sent[k].from]
    /\ \A r \in transactions :
         /\ sent[r.key].to = r.to /\ sent[r.key].from = r.from
         /\ Second(sent[r.key].stamp) = r.time
         /\ Fold[sent[r.key].text] = Fold[messages[r.id]]

\* Only a thread that answers a poll holds rows, and they lie in its window.
BatchInv ==
    \A u \in Users :
        /\ pc[u] # "deliver" => batch[u] = {}
        /\ \A r \in batch[u] :
             /\ r.to = u
             /\ Second(job[u].since) < r.time
             /\ r.time <= Second(job[u].at + Skew[r.from])

\* The stamp of what a poll returned lies in the window of that poll.
InWindow(x) ==
    LET second == Second(sent[x.key].stamp)
    IN Second(x.since) < second /\ second <= Second(x.at + Skew[x.from])

\* Both hold of what a client shows and of what is on its way to it.
SeenInv ==
    \A u \in Users :
        /\ \A i \in DOMAIN toClient[u] :
             Faithful(u, toClient[u][i]) /\ InWindow(toClient[u][i])
        /\ \A x \in shown[u] : Faithful(u, x) /\ InWindow(x)

\* The poll after the row was stored is still to be answered, or has been.
OutcomeInv ==
    \A r \in transactions :
        /\ r.after <= answered[r.to]
        /\ answered[r.to] > r.after =>
             \/ Reached(r) \/ r.key \in skipped \/ Overtaken(r)
             \/ pc[r.to] = "closed" \/ ~reading[r.to]

IndInv ==
    /\ TypeOK /\ RequestInv /\ NotedInv /\ JobInv /\ RowInv /\ BatchInv
    /\ SeenInv /\ EndsOnLongOnly /\ OutcomeInv
=============================================================================
