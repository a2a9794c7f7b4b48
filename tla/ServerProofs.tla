---------------------------- MODULE ServerProofs ----------------------------
(***************************************************************************)
(* Proofs of the properties of Server for every finite set of connections, *)
(* every limit of the process and of the database, every number of rows    *)
(* and of failures, and every length of the queue and of the buffers.      *)
(***************************************************************************)
EXTENDS Server, FunctionTheorems, FiniteSetTheorems, TLAPS

-----------------------------------------------------------------------------
(* The inductive invariant.                                                *)

Pcs   == {"none", "decode", "connect", "query", "send", "refuse", "refused", "check"}
Lines == {"none", "open", "fin", "reset", "broken"}

Threads == [pc : Pcs, stage : 1 .. Service, req : Kinds \cup {"none"}, owed : Nat]
Peers   == [line : Lines, inbox : Seq(Kinds), outbox : Nat, got : Nat, debt : Nat]

TypeOK ==
    /\ up \in BOOLEAN /\ main \in Conns \cup {NoConn} /\ open \subseteq Conns
    /\ th \in [Conns -> Threads]
    /\ started \in Nat /\ leaked \in Nat
    /\ queue \in Seq(Conns)
    /\ peer \in [Conns -> Peers]
    /\ lingering \subseteq Conns
    /\ sqlFails \in Nat /\ refused \in BOOLEAN /\ turnedAway \in Nat
    /\ killer \in Peers

\* A connection is in one place: it waits for accept once, or main has its
\* descriptor, or its thread has.
PlaceInv ==
    /\ main \notin Working
    /\ \A i \in DOMAIN queue : queue[i] \notin open
    /\ \A i, j \in DOMAIN queue : queue[i] = queue[j] => i = j

\* The connections no pointer leads to are those of statements that failed.
LeakInv == leaked <= sqlFails

\* Which request a thread serves at which point, and what it owes.
ThreadOK(t) ==
    /\ t.pc = "none" => t = NoThread
    /\ t.pc \in {"connect", "query"} =>
         \/ t.stage = 2 /\ t.req = "response"
         \/ t.stage = Service /\ t.req \in {"poll", "text"}
    /\ t.pc = "send" => t.owed >= 1 /\ (t.stage < Service => t.owed = 1)
    /\ t.pc = "refuse" => t.stage = 2

ThreadInv == \A c \in Conns : ThreadOK(th[c])

\* A client sends its response after the first reply, so that at the error ACK
\* it has read every reply there was.
GreetOK(t, p) ==
    /\ t.stage = 1 => p.got + p.outbox = 0
    /\ t.stage = 2 /\ t.pc # "refused" => p.got + p.outbox <= 1
    /\ \/ t.req = "response" \/ t.pc = "refuse"
       \/ \E i \in DOMAIN p.inbox : p.inbox[i] = "response"
       => p.got >= 1

GreetInv ==
    \A c \in Conns : peer[c].line = "open" /\ Connected(c) => GreetOK(th[c], peer[c])

\* The replies the messages of a row can lead to, and all those of a session.
Polls(row)   == {i \in DOMAIN row : row[i] = "poll"}
Shorts(row)  == {i \in DOMAIN row : RepliesTo(row[i]) = 1} \ Polls(row)
Waiting(row) == Cardinality(Polls(row)) * MaxRows + Cardinality(Shorts(row))
Rest(t, p)   == t.owed + RepliesTo(t.req) + Waiting(p.inbox)

\* The replies still to come were all to come when the client left; once one
\* has been accepted for a client that is gone, there was that one besides.
\* After an error ACK there is no other.
DebtOK(t, p) ==
    /\ p.line = "fin" => t.pc \in {"refuse", "refused"} \/ p.debt >= Rest(t, p)
    /\ p.line = "broken" =>
         \/ t.pc = "refused"
         \/ t.pc = "refuse" /\ p.debt >= 2
         \/ t.pc \notin {"refuse", "refused"} /\ p.debt >= 1 + Rest(t, p)

DebtInv == \A c \in Conns : DebtOK(th[c], peer[c])

IndInv ==
    /\ TypeOK /\ PlaceInv /\ LeakInv /\ ThreadInv /\ GreetInv /\ DebtInv
    /\ NoDescriptorLost /\ KilledByLeaver

-----------------------------------------------------------------------------
(* Rows of messages.                                                       *)

\* What a message can lead to is a number of replies.
LEMMA RepliesType ==
    /\ MaxRows \in Nat
    /\ \A m \in Kinds \cup {"none"} : RepliesTo(m) \in Nat
    /\ RepliesTo("none") = 0 /\ RepliesTo("poll") = MaxRows
    /\ RepliesTo("login") = 1 /\ RepliesTo("response") = 1
BY ServerAssumption DEF RepliesTo, Kinds

\* Taking the head moves a set of places by one, less the first.
LEMMA TailPlaces ==
    ASSUME NEW row \in Seq(Kinds), row # << >>,
           NEW P, P \subseteq DOMAIN row, NEW Q, Q \subseteq DOMAIN Tail(row),
           \A i \in DOMAIN Tail(row) : i \in Q <=> i + 1 \in P
    PROVE  /\ IsFiniteSet(P) /\ IsFiniteSet(Q)
           /\ Cardinality(P) \in Nat /\ Cardinality(Q) \in Nat
           /\ Cardinality(P) = Cardinality(Q) + IF 1 \in P THEN 1 ELSE 0
<1>1. /\ DOMAIN row = 1 .. Len(row) /\ Len(row) \in Nat /\ Len(row) >= 1
      /\ DOMAIN Tail(row) = 1 .. Len(row) - 1
  OBVIOUS
<1>2. IsFiniteSet(P) /\ IsFiniteSet(Q)
  <2>1. IsFiniteSet(1 .. Len(row)) /\ IsFiniteSet(1 .. Len(row) - 1)
    BY <1>1, FS_Interval
  <2> QED
    BY <1>1, <2>1, FS_Subset, Zenon
<1>3. /\ Cardinality(P) \in Nat /\ Cardinality(Q) \in Nat
      /\ IsFiniteSet(P \ {1})
      /\ Cardinality(P \ {1}) = IF 1 \in P THEN Cardinality(P) - 1 ELSE Cardinality(P)
  <2>1. Cardinality(P) \in Nat
    BY <1>2, FS_CardinalityType
  <2>2. Cardinality(Q) \in Nat
    BY <1>2, FS_CardinalityType
  <2>3. /\ IsFiniteSet(P \ {1})
        /\ Cardinality(P \ {1}) = IF 1 \in P THEN Cardinality(P) - 1 ELSE Cardinality(P)
    BY <1>2, FS_RemoveElement
  <2> QED
    BY <2>1, <2>2, <2>3
<1>4. Cardinality(P \ {1}) = Cardinality(Q)
  <2> DEFINE f == [i \in Q |-> i + 1]
  <2>1. f \in [Q -> P \ {1}]
    BY <1>1
  <2>2. \A i, j \in Q : f[i] = f[j] => i = j
    BY <1>1
  <2>3. \A k \in P \ {1} : \E i \in Q : f[i] = k
    <3> TAKE k \in P \ {1}
    <3>1. k - 1 \in DOMAIN Tail(row) /\ (k - 1) + 1 = k
      BY <1>1
    <3>2. k - 1 \in Q /\ f[k - 1] = k
      BY <3>1
    <3> QED
      BY <3>2
  <2>4. f \in Bijection(Q, P \ {1})
    <3> HIDE DEF f
    <3> QED
      BY <2>1, <2>2, <2>3, Fun_IsBij
  <2>5. ExistsBijection(Q, P \ {1})
    BY <2>4 DEF ExistsBijection
  <2> QED
    BY <1>2, <2>5, FS_Bijection
<1> QED
  BY <1>2, <1>3, <1>4

\* Taking a message takes away the replies it can lead to.
LEMMA WaitingTail ==
    ASSUME NEW row \in Seq(Kinds), row # << >>
    PROVE  /\ Waiting(row) \in Nat /\ Waiting(Tail(row)) \in Nat
           /\ Head(row) \in Kinds /\ Tail(row) \in Seq(Kinds)
           /\ Waiting(row) = Waiting(Tail(row)) + RepliesTo(Head(row))
<1>1. /\ Head(row) \in Kinds /\ Head(row) = row[1] /\ 1 \in DOMAIN row
      /\ Tail(row) \in Seq(Kinds)
      /\ \A i \in DOMAIN Tail(row) : i + 1 \in DOMAIN row /\ Tail(row)[i] = row[i + 1]
  OBVIOUS
<1> DEFINE p == Cardinality(Polls(row))   q == Cardinality(Polls(Tail(row)))
           s == Cardinality(Shorts(row))  t == Cardinality(Shorts(Tail(row)))
<1>2. p \in Nat /\ q \in Nat /\ p = q + IF 1 \in Polls(row) THEN 1 ELSE 0
  <2>1. Polls(row) \subseteq DOMAIN row /\ Polls(Tail(row)) \subseteq DOMAIN Tail(row)
    BY DEF Polls
  <2>2. \A i \in DOMAIN Tail(row) : i \in Polls(Tail(row)) <=> i + 1 \in Polls(row)
    BY <1>1 DEF Polls
  <2> QED
    BY <2>1, <2>2, TailPlaces, SMTT(30)
<1>3. s \in Nat /\ t \in Nat /\ s = t + IF 1 \in Shorts(row) THEN 1 ELSE 0
  <2>1. Shorts(row) \subseteq DOMAIN row /\ Shorts(Tail(row)) \subseteq DOMAIN Tail(row)
    BY DEF Shorts
  <2>2. \A i \in DOMAIN Tail(row) : i \in Shorts(Tail(row)) <=> i + 1 \in Shorts(row)
    BY <1>1 DEF Shorts, Polls
  <2> QED
    BY <2>1, <2>2, TailPlaces, SMTT(30)
<1>4. 1 \in Polls(row) <=> Head(row) = "poll"
  BY <1>1 DEF Polls
<1>5. 1 \in Shorts(row) <=> Head(row) # "poll" /\ RepliesTo(Head(row)) = 1
  BY <1>1, <1>4 DEF Shorts
<1>6. Head(row) # "poll" => RepliesTo(Head(row)) \in {0, 1}
  BY <1>1 DEF RepliesTo, Kinds
<1>7. Waiting(row) = p * MaxRows + s /\ Waiting(Tail(row)) = q * MaxRows + t
  BY DEF Waiting
<1> HIDE DEF p, q, s, t
<1>8. MaxRows \in Nat /\ RepliesTo("poll") = MaxRows
  BY RepliesType
<1>9. q * MaxRows \in Nat /\ (q + 1) * MaxRows = q * MaxRows + MaxRows
  BY <1>2, <1>8
<1>10. CASE Head(row) = "poll"
  <2>1. p = q + 1 /\ s = t
    BY <1>2, <1>3, <1>4, <1>5, <1>10
  <2> QED
    BY <1>1, <1>2, <1>3, <1>7, <1>8, <1>9, <1>10, <2>1
<1>11. CASE Head(row) # "poll"
  <2>1. p = q /\ s = t + RepliesTo(Head(row)) /\ RepliesTo(Head(row)) \in Nat
    BY <1>2, <1>3, <1>4, <1>5, <1>6, <1>11
  <2> QED
    BY <1>1, <1>2, <1>3, <1>7, <1>8, <1>9, <1>11, <2>1
<1> QED
  BY <1>10, <1>11

\* A row leads to a number of replies, an empty one to none.
LEMMA WaitingType ==
    /\ \A row \in Seq(Kinds) : Waiting(row) \in Nat
    /\ Waiting(<< >>) = 0
<1>1. Waiting(<< >>) = 0
  <2>1. Polls(<< >>) = {} /\ Shorts(<< >>) = {}
    BY DEF Polls, Shorts
  <2>2. Cardinality({}) = 0
    BY FS_EmptySet
  <2>3. 0 * MaxRows + 0 = 0
    BY RepliesType
  <2>4. Waiting(<< >>) = Cardinality(Polls(<< >>)) * MaxRows + Cardinality(Shorts(<< >>))
    BY DEF Waiting
  <2> QED
    BY <2>1, <2>2, <2>3, <2>4, Zenon
<1>2. ASSUME NEW row \in Seq(Kinds) PROVE Waiting(row) \in Nat
  BY <1>1, WaitingTail
<1> QED
  BY <1>1, <1>2

\* The replies still to come are a number.
LEMMA RestType ==
    \A t \in Threads, p \in Peers : Rest(t, p) \in Nat /\ t.owed \in Nat
        /\ RepliesTo(t.req) \in Nat /\ Waiting(p.inbox) \in Nat
BY WaitingType, RepliesType DEF Rest, Threads, Peers

-----------------------------------------------------------------------------
(* Steps of one connection.                                                *)

\* No thread and no client are a thread and a client, and owe nothing.
LEMMA Nothing ==
    /\ NoThread \in Threads /\ NoPeer \in Peers
    /\ ThreadOK(NoThread) /\ \A t \in Threads : DebtOK(t, NoPeer)
    /\ \A p \in Peers : p.line \in {"none", "open", "reset"} =>
         \A t \in Threads : DebtOK(t, p)
<1>1. NoThread \in Threads
  BY DEF NoThread, Threads, Pcs, Service, Greeting
<1>2. NoPeer \in Peers
  BY DEF NoPeer, Peers, Lines
<1>3. ThreadOK(NoThread)
  BY DEF ThreadOK, NoThread
<1>4. NoPeer.line = "none"
  BY DEF NoPeer
<1>5. \A p \in Peers : p.line \in {"none", "open", "reset"} =>
         \A t \in Threads : DebtOK(t, p)
  BY DEF DebtOK
<1> QED
  BY <1>1, <1>2, <1>3, <1>4, <1>5

\* What the invariant says of one connection.
LEMMA OfOne ==
    ASSUME IndInv, NEW c \in Conns
    PROVE  /\ th[c] \in Threads /\ peer[c] \in Peers
           /\ ThreadOK(th[c]) /\ DebtOK(th[c], peer[c])
           /\ peer[c].line = "open" /\ Connected(c) => GreetOK(th[c], peer[c])
           /\ th[c].pc = "none" => th[c] = NoThread
           /\ th[c].pc # "none" <=> c \in Working
           /\ c \in Working => c \in open /\ Connected(c) /\ ~Queued(c) /\ c # main
<1>1. ThreadOK(th[c]) /\ DebtOK(th[c], peer[c])
  BY DEF IndInv, ThreadInv, DebtInv
<1>2. th[c].pc # "none" <=> c \in Working
  BY DEF Working
<1>3. ASSUME c \in Working PROVE c \in open /\ Connected(c) /\ ~Queued(c) /\ c # main
  BY <1>3 DEF IndInv, NoDescriptorLost, PlaceInv, Connected, Queued
<1> QED
  BY <1>1, <1>2, <1>3 DEF IndInv, TypeOK, GreetInv, ThreadOK

\* The parts of the invariant that follow each connection.
Followed == PlaceInv /\ ThreadInv /\ GreetInv /\ DebtInv /\ NoDescriptorLost

\* A step of a thread that keeps its descriptor.
LEMMA KeepStep ==
    ASSUME IndInv, NEW c \in Conns, th[c].pc # "none",
           \A d \in Conns \ {c} : th'[d] = th[d] /\ peer'[d] = peer[d],
           th'[c].pc # "none", main' = main, open' = open, queue' = queue,
           ThreadOK(th'[c]), DebtOK(th'[c], peer'[c]),
           peer'[c].line = "open" => GreetOK(th'[c], peer'[c])
    PROVE  Followed'
<1>1. Working' = Working
  BY DEF Working
<1>2. \A d \in Conns : Connected(d)' <=> Connected(d)
  BY DEF Connected, Queued
<1>3. PlaceInv' /\ NoDescriptorLost'
  BY <1>1 DEF IndInv, PlaceInv, NoDescriptorLost
<1>4. ASSUME NEW d \in Conns
      PROVE  /\ ThreadOK(th'[d]) /\ DebtOK(th'[d], peer'[d])
             /\ peer'[d].line = "open" /\ Connected(d)' => GreetOK(th'[d], peer'[d])
  <2>1. CASE d = c
    BY <2>1
  <2>2. CASE d # c
    BY <2>2, <1>2, OfOne, Zenon
  <2> QED
    BY <2>1, <2>2
<1>5. ThreadInv' /\ DebtInv' /\ GreetInv'
  BY <1>4 DEF ThreadInv, DebtInv, GreetInv
<1> QED
  BY <1>3, <1>5 DEF Followed

\* The end of a thread.
LEMMA FinishStep ==
    ASSUME IndInv, NEW c \in Conns, th[c].pc # "none", NEW ends \in [Conns -> Peers],
           \A d \in Conns \ {c} : ends[d] = peer[d],
           Finish(c, ends), main' = main, queue' = queue
    PROVE  /\ Followed'
           /\ th' \in [Conns -> Threads] /\ peer' \in [Conns -> Peers]
           /\ open' \subseteq Conns /\ lingering' \subseteq Conns
<1>1. /\ th' = [th EXCEPT ![c] = NoThread] /\ open' = open \ {c}
      /\ peer' = [d \in Conns |->
           IF d \in {c}
           THEN IF ends[d].line = "open" THEN [ends[d] EXCEPT !.inbox = << >>] ELSE NoPeer
           ELSE ends[d]]
      /\ lingering' = lingering \cup
           {d \in {c} : ends[d].line = "open" /\ ends[d].inbox = << >>}
  BY DEF Finish, Dropped
<1>2. th \in [Conns -> Threads] /\ open \subseteq Conns /\ lingering \subseteq Conns
  BY DEF IndInv, TypeOK
<1>3. th' \in [Conns -> Threads] /\ th'[c] = NoThread /\ \A d \in Conns \ {c} : th'[d] = th[d]
  BY <1>1, <1>2, Nothing
<1>4. /\ \A d \in Conns \ {c} : peer'[d] = peer[d]
      /\ peer'[c] \in Peers /\ peer'[c].line \in {"none", "open"}
  <2>1. ends[c].line = "open" => /\ [ends[c] EXCEPT !.inbox = << >>] \in Peers
                                 /\ [ends[c] EXCEPT !.inbox = << >>].line = "open"
    <3>1. << >> \in Seq(Kinds) /\ ends[c] \in Peers
      OBVIOUS
    <3> QED
      BY <3>1 DEF Peers
  <2>2. NoPeer.line = "none"
    BY DEF NoPeer
  <2> QED
    BY <1>1, <2>1, <2>2, Nothing
<1>5. peer' \in [Conns -> Peers]
  <2>1. peer' = [d \in Conns |-> peer'[d]]
    BY <1>1
  <2>2. \A d \in Conns : peer'[d] \in Peers
    BY <1>4 DEF IndInv, TypeOK
  <2> QED
    BY <2>1, <2>2
<1>6. Working' = Working \ {c} /\ c \in Working /\ c \in open /\ c # main /\ ~Queued(c)
  <2>1. Working' = Working \ {c}
    BY <1>3 DEF Working, NoThread
  <2> QED
    BY <2>1, OfOne
<1>7. \A d \in Conns : Connected(d)' <=> Connected(d) /\ d # c
  BY <1>1, <1>6 DEF Connected, Queued
<1>8. PlaceInv' /\ NoDescriptorLost'
  BY <1>1, <1>6 DEF IndInv, PlaceInv, NoDescriptorLost
<1>9. ASSUME NEW d \in Conns
      PROVE  /\ ThreadOK(th'[d]) /\ DebtOK(th'[d], peer'[d])
             /\ peer'[d].line = "open" /\ Connected(d)' => GreetOK(th'[d], peer'[d])
  <2>1. CASE d = c
    BY <2>1, <1>3, <1>4, <1>7, Nothing
  <2>2. CASE d # c
    BY <2>2, <1>3, <1>4, <1>7, OfOne, Zenon
  <2> QED
    BY <2>1, <2>2
<1>10. ThreadInv' /\ DebtInv' /\ GreetInv'
  BY <1>9 DEF ThreadInv, DebtInv, GreetInv
<1> QED
  BY <1>1, <1>2, <1>3, <1>5, <1>8, <1>10 DEF Followed

\* What is left of the invariant, for a step that keeps the counts.
LEMMA Counted ==
    ASSUME IndInv, Followed', leaked' = leaked, sqlFails' = sqlFails,
           refused' = refused, turnedAway' = turnedAway, killer' = killer,
           up' = up, started' = started, main' = main, queue' = queue,
           open' \subseteq Conns, lingering' \subseteq Conns,
           th' \in [Conns -> Threads], peer' \in [Conns -> Peers]
    PROVE  IndInv'
BY DEF IndInv, TypeOK, Followed, LeakInv, KilledByLeaver

-----------------------------------------------------------------------------
(* Clients.                                                                *)

\* A step of a client changes its own end.
LEMMA PeerStep ==
    ASSUME IndInv, NEW c \in Conns, UNCHANGED <<process, queue, lingering, history>>,
           NEW p \in Peers, peer' = [peer EXCEPT ![c] = p], DebtOK(th[c], p),
           p.line = "open" /\ Connected(c) => GreetOK(th[c], p)
    PROVE  IndInv'
<1>1. /\ th' = th /\ main' = main /\ open' = open /\ queue' = queue /\ up' = up
      /\ started' = started /\ leaked' = leaked /\ lingering' = lingering
      /\ sqlFails' = sqlFails /\ refused' = refused /\ turnedAway' = turnedAway
      /\ killer' = killer
  BY DEF process, history
<1>2. peer' \in [Conns -> Peers] /\ peer'[c] = p /\ \A d \in Conns \ {c} : peer'[d] = peer[d]
  BY DEF IndInv, TypeOK
<1>3. Working' = Working /\ \A d \in Conns : Connected(d)' <=> Connected(d)
  BY <1>1 DEF Working, Connected, Queued
<1>4. PlaceInv' /\ NoDescriptorLost' /\ ThreadInv'
  BY <1>1, <1>3 DEF IndInv, PlaceInv, NoDescriptorLost, ThreadInv
<1>5. ASSUME NEW d \in Conns
      PROVE  /\ DebtOK(th'[d], peer'[d])
             /\ peer'[d].line = "open" /\ Connected(d)' => GreetOK(th'[d], peer'[d])
  <2>1. CASE d = c
    BY <2>1, <1>1, <1>2, <1>3
  <2>2. CASE d # c
    BY <2>2, <1>1, <1>2, <1>3, OfOne, Zenon
  <2> QED
    BY <2>1, <2>2
<1>6. DebtInv' /\ GreetInv'
  BY <1>5 DEF DebtInv, GreetInv
<1>7. Followed'
  BY <1>4, <1>6 DEF Followed
<1>8. th \in [Conns -> Threads] /\ open \subseteq Conns /\ lingering \subseteq Conns
  BY DEF IndInv, TypeOK
<1> QED
  BY <1>1, <1>2, <1>7, <1>8, Counted

LEMMA ConnectStep ==
    ASSUME IndInv, NEW c \in Conns, Connect(c)
    PROVE  IndInv'
<1> DEFINE p == [NoPeer EXCEPT !.line = "open"]
<1>1. /\ th' = th /\ main' = main /\ open' = open /\ up' = up
      /\ started' = started /\ leaked' = leaked /\ lingering' = lingering
      /\ sqlFails' = sqlFails /\ refused' = refused /\ turnedAway' = turnedAway
      /\ killer' = killer
      /\ queue' = Append(queue, c) /\ peer' = [peer EXCEPT ![c] = p]
      /\ c \notin open /\ ~Queued(c)
  BY DEF Connect, process, history, Connected
<1>2. p \in Peers /\ p.line = "open" /\ p.inbox = << >> /\ p.got = 0 /\ p.outbox = 0
  BY Nothing DEF NoPeer, Peers, Lines
<1> HIDE DEF p
<1>3. peer' \in [Conns -> Peers] /\ peer'[c] = p /\ \A d \in Conns \ {c} : peer'[d] = peer[d]
  BY <1>1, <1>2 DEF IndInv, TypeOK
<1>4. th[c] = NoThread
  BY <1>1, OfOne
<1>5. /\ queue' \in Seq(Conns) /\ DOMAIN queue' = DOMAIN queue \cup {Len(queue) + 1}
      /\ Len(queue) + 1 \notin DOMAIN queue /\ queue'[Len(queue) + 1] = c
      /\ \A i \in DOMAIN queue : queue'[i] = queue[i]
  BY <1>1 DEF IndInv, TypeOK
<1>6. \A d \in Conns : Connected(d)' => Connected(d) \/ d = c
  BY <1>1, <1>5 DEF Connected, Queued
<1>7. PlaceInv' /\ NoDescriptorLost' /\ ThreadInv'
  <2>1. Working' = Working
    BY <1>1 DEF Working
  <2>2. \A i \in DOMAIN queue : queue[i] # c
    BY <1>1 DEF Queued
  <2> QED
    BY <1>1, <1>5, <2>1, <2>2 DEF IndInv, PlaceInv, NoDescriptorLost, ThreadInv
<1>8. ASSUME NEW d \in Conns
      PROVE  /\ DebtOK(th'[d], peer'[d])
             /\ peer'[d].line = "open" /\ Connected(d)' => GreetOK(th'[d], peer'[d])
  <2>1. CASE d = c
    <3>1. DebtOK(NoThread, p)
      BY <1>2, Nothing
    <3>2. GreetOK(NoThread, p)
      BY <1>2 DEF GreetOK, NoThread
    <3> QED
      BY <2>1, <1>1, <1>3, <1>4, <3>1, <3>2
  <2>2. CASE d # c
    BY <2>2, <1>1, <1>3, <1>6, OfOne, Zenon
  <2> QED
    BY <2>1, <2>2
<1>9. DebtInv' /\ GreetInv'
  BY <1>8 DEF DebtInv, GreetInv
<1> QED
  BY <1>1, <1>3, <1>5, <1>7, <1>9 DEF IndInv, TypeOK, LeakInv, KilledByLeaver

LEMMA AskStep ==
    ASSUME IndInv, NEW c \in Conns, NEW m \in Kinds, Ask(c, m)
    PROVE  IndInv'
<1> DEFINE p == [peer[c] EXCEPT !.inbox = Append(@, m)]
<1>1. /\ UNCHANGED <<process, queue, lingering, history>>
      /\ peer[c].line = "open" /\ Connected(c) /\ peer[c].got >= Known(m)
      /\ peer' = [peer EXCEPT ![c].inbox = Append(@, m)]
  BY DEF Ask
<1>2. /\ peer[c] \in Peers /\ peer[c].inbox \in Seq(Kinds)
      /\ GreetOK(th[c], peer[c])
  BY <1>1, OfOne DEF Peers
<1>3. /\ Append(peer[c].inbox, m) \in Seq(Kinds)
      /\ \A i \in DOMAIN Append(peer[c].inbox, m) :
            \/ i \in DOMAIN peer[c].inbox
               /\ Append(peer[c].inbox, m)[i] = peer[c].inbox[i]
            \/ Append(peer[c].inbox, m)[i] = m
  BY <1>2
<1>4. /\ p \in Peers /\ p.line = "open" /\ p.got = peer[c].got
      /\ p.outbox = peer[c].outbox /\ p.inbox = Append(peer[c].inbox, m)
      /\ peer' = [peer EXCEPT ![c] = p]
  BY <1>1, <1>2, <1>3 DEF Peers
<1> HIDE DEF p
<1>5. GreetOK(th[c], p)
  <2>1. m = "response" => Known(m) = 1
    BY DEF Known
  <2> QED
    BY <1>1, <1>2, <1>3, <1>4, <2>1 DEF GreetOK
<1>6. DebtOK(th[c], p)
  BY <1>4, OfOne, Nothing
<1> QED
  BY <1>1, <1>4, <1>5, <1>6, PeerStep

LEMMA ReadReplyStep ==
    ASSUME IndInv, NEW c \in Conns, ReadReply(c)
    PROVE  IndInv'
<1> DEFINE p == [peer[c] EXCEPT !.outbox = @ - 1,
                                !.got = IF @ < Len(Greeting) THEN @ + 1 ELSE @]
<1>1. /\ UNCHANGED <<process, queue, lingering, history>>
      /\ peer[c].line = "open" /\ peer[c].outbox > 0
      /\ peer' = [peer EXCEPT ![c] = p]
  BY DEF ReadReply
<1>2. peer[c] \in Peers /\ peer[c].outbox \in Nat /\ peer[c].got \in Nat
  BY OfOne DEF Peers
<1>3. /\ p.line = "open" /\ p.inbox = peer[c].inbox /\ p.outbox = peer[c].outbox - 1
      /\ p.got \in {peer[c].got, peer[c].got + 1}
      /\ p = [peer[c] EXCEPT !.outbox = p.outbox, !.got = p.got]
  BY <1>1, <1>2 DEF Peers
<1> HIDE DEF p
<1>4. p.outbox \in Nat /\ p.got \in Nat /\ p.got + p.outbox <= peer[c].got + peer[c].outbox
      /\ p.got >= peer[c].got
  BY <1>1, <1>2, <1>3
<1>5. p \in Peers
  BY <1>2, <1>3, <1>4 DEF Peers
<1>6. Connected(c) => GreetOK(th[c], p)
  <2>1. Connected(c) => GreetOK(th[c], peer[c])
    BY <1>1, OfOne
  <2> QED
    BY <1>2, <1>3, <1>4, <2>1 DEF GreetOK
<1>7. DebtOK(th[c], p)
  BY <1>3, <1>5, OfOne, Nothing
<1> QED
  BY <1>1, <1>5, <1>6, <1>7, PeerStep

\* Unread counts what the invariant does.
LEMMA UnreadIsRest ==
    ASSUME NEW c \in Conns
    PROVE  Unread(c) = peer[c].outbox + th[c].owed + RepliesTo(th[c].req)
                         + Cardinality(Polls(peer[c].inbox)) * MaxRows
                         + Cardinality(Shorts(peer[c].inbox))
BY DEF Unread, Polls, Shorts

LEMMA LeaveStep ==
    ASSUME IndInv, NEW c \in Conns, Leave(c)
    PROVE  IndInv'
<1>1. peer[c].line = "open" /\ UNCHANGED <<process, queue, lingering, history>>
  BY DEF Leave
<1>2. /\ th[c] \in Threads /\ peer[c] \in Peers
      /\ Connected(c) => GreetOK(th[c], peer[c])
      /\ th[c].pc \in {"refuse"} => Connected(c) /\ ThreadOK(th[c])
  BY <1>1, OfOne
<1>3. CASE ~Connected(c) /\ peer' = [peer EXCEPT ![c] = NoPeer]
  BY <1>1, <1>2, <1>3, Nothing, PeerStep
<1>4. ASSUME Connected(c),
             NEW l \in IF peer[c].outbox = 0 THEN {"fin"} ELSE {"reset", "broken"},
             peer' = [peer EXCEPT ![c].line = l, ![c].outbox = 0, ![c].debt = Unread(c)]
      PROVE  IndInv'
  <2> DEFINE p == [peer[c] EXCEPT !.line = l, !.outbox = 0, !.debt = Unread(c)]
             n == Rest(th[c], peer[c])
  <2>1. peer[c].outbox \in Nat /\ n \in Nat
    BY <1>2, RestType DEF Peers
  <2>2. Unread(c) = peer[c].outbox + n
    <3>1. Cardinality(Polls(peer[c].inbox)) * MaxRows \in Int
          /\ Cardinality(Shorts(peer[c].inbox)) \in Int
      <4>1. IsFiniteSet(DOMAIN peer[c].inbox)
        <5>1. \E k \in Nat : DOMAIN peer[c].inbox = 1 .. k
          BY <1>2 DEF Peers
        <5> QED
          BY <5>1, FS_Interval
      <4>2. Polls(peer[c].inbox) \in SUBSET DOMAIN peer[c].inbox
            /\ Shorts(peer[c].inbox) \in SUBSET DOMAIN peer[c].inbox
        BY DEF Polls, Shorts
      <4>3. IsFiniteSet(Polls(peer[c].inbox)) /\ IsFiniteSet(Shorts(peer[c].inbox))
        BY <4>1, <4>2, FS_Subset, Zenon
      <4>4. Cardinality(Polls(peer[c].inbox)) \in Nat /\ Cardinality(Shorts(peer[c].inbox)) \in Nat
        BY <4>3, FS_CardinalityType
      <4> QED
        BY <4>4, RepliesType
    <3>2. th[c].owed \in Nat /\ RepliesTo(th[c].req) \in Nat
      BY <1>2, RestType
    <3> QED
      BY <2>1, <3>1, <3>2, UnreadIsRest DEF Rest, Waiting
  <2>3. l \in {"fin", "reset", "broken"} /\ (l = "fin" <=> peer[c].outbox = 0)
    BY <1>4
  <2>4. /\ p.line = l /\ p.inbox = peer[c].inbox /\ p.debt = peer[c].outbox + n
        /\ p \in Peers
    <3>1. Unread(c) \in Nat /\ l \in Lines
      BY <2>1, <2>2, <2>3 DEF Lines
    <3> HIDE DEF n
    <3> QED
      BY <1>2, <2>2, <3>1 DEF Peers
  <2>5. peer' = [peer EXCEPT ![c] = p]
    BY <1>4
  <2>6. Rest(th[c], p) = n
    BY <2>4 DEF Rest
  <2> HIDE DEF p, n
  <2>7. l = "broken" => th[c].pc # "refuse"
    <3> SUFFICES ASSUME l = "broken", th[c].pc = "refuse" PROVE FALSE
      OBVIOUS
    <3>1. GreetOK(th[c], peer[c]) /\ th[c].stage = 2
      BY <1>2, <1>4 DEF ThreadOK
    <3>2. peer[c].got >= 1 /\ peer[c].got + peer[c].outbox <= 1
      BY <3>1 DEF GreetOK
    <3> QED
      BY <1>2, <2>1, <2>3, <3>2 DEF Peers
  <2>8. DebtOK(th[c], p)
    BY <2>1, <2>3, <2>4, <2>6, <2>7 DEF DebtOK
  <2> QED
    BY <1>1, <2>3, <2>4, <2>5, <2>8, PeerStep
<1> QED
  BY <1>3, <1>4 DEF Leave

-----------------------------------------------------------------------------
(* main.                                                                   *)

LEMMA StartStep ==
    ASSUME IndInv, Start
    PROVE  IndInv'
<1>1. /\ main' = main /\ open' = open /\ th' = th /\ started' = started
      /\ queue' = queue /\ peer' = peer /\ lingering' = lingering
      /\ up' = TRUE /\ refused' = FALSE /\ killer' = NoPeer /\ turnedAway' = MaxThreads
      /\ leaked' \in Nat /\ sqlFails' = leaked'
  BY DEF Start, network
<1>2. Working' = Working /\ \A d \in Conns : Connected(d)' <=> Connected(d)
  BY <1>1 DEF Working, Connected, Queued
<1>3. PlaceInv' /\ ThreadInv' /\ GreetInv' /\ DebtInv' /\ NoDescriptorLost'
  BY <1>1, <1>2 DEF IndInv, PlaceInv, ThreadInv, GreetInv, DebtInv, NoDescriptorLost
<1>4. TypeOK'
  BY <1>1, Nothing, ServerAssumption DEF IndInv, TypeOK
<1>5. LeakInv' /\ KilledByLeaver'
  BY <1>1 DEF LeakInv, KilledByLeaver
<1> QED
  BY <1>3, <1>4, <1>5 DEF IndInv

LEMMA AcceptStep ==
    ASSUME IndInv, Accept
    PROVE  IndInv'
<1> DEFINE c == Head(queue)
<1>1. /\ main = NoConn /\ queue # << >> /\ main' = c /\ open' = open \cup {c}
      /\ queue' = Tail(queue) /\ th' = th /\ peer' = peer /\ lingering' = lingering
      /\ up' = up /\ started' = started /\ leaked' = leaked
      /\ sqlFails' = sqlFails /\ refused' = refused /\ turnedAway' = turnedAway
      /\ killer' = killer
  BY DEF Accept, history
<1>2. queue \in Seq(Conns)
  BY DEF IndInv, TypeOK
<1>3. /\ c \in Conns /\ 1 \in DOMAIN queue /\ queue[1] = c
      /\ Tail(queue) \in Seq(Conns)
      /\ \A i \in DOMAIN Tail(queue) :
           i + 1 \in DOMAIN queue /\ i + 1 # 1 /\ Tail(queue)[i] = queue[i + 1]
      /\ \A i, j \in DOMAIN Tail(queue) : i + 1 = j + 1 => i = j
      /\ \A i \in DOMAIN queue : i # 1 => \E j \in DOMAIN Tail(queue) : i = j + 1
  <2>1. \A i \in DOMAIN queue : i # 1 => i - 1 \in DOMAIN Tail(queue) /\ i = (i - 1) + 1
    BY <1>1, <1>2
  <2>2. \A i \in DOMAIN queue : i # 1 => \E j \in DOMAIN Tail(queue) : i = j + 1
    BY <2>1
  <2> QED
    BY <1>1, <1>2, <2>2
<1> HIDE DEF c
<1>4. c \notin open /\ c \notin Working /\ Working' = Working
  BY <1>1, <1>3 DEF IndInv, PlaceInv, NoDescriptorLost, Working
<1>5. \A d \in Conns : Connected(d)' => Connected(d)
  BY <1>1, <1>3 DEF Connected, Queued
<1>6. PlaceInv'
  <2>1. main' \notin Working'
    BY <1>1, <1>4
  <2>2. \A i \in DOMAIN queue' : queue'[i] \notin open'
    BY <1>1, <1>3 DEF IndInv, PlaceInv
  <2>3. \A i, j \in DOMAIN queue' : queue'[i] = queue'[j] => i = j
    BY <1>1, <1>3 DEF IndInv, PlaceInv
  <2> QED
    BY <2>1, <2>2, <2>3 DEF PlaceInv
<1>7. NoDescriptorLost'
  BY <1>1, <1>3, <1>4, ServerAssumption DEF IndInv, NoDescriptorLost
<1>8. ThreadInv' /\ GreetInv' /\ DebtInv'
  BY <1>1, <1>5 DEF IndInv, ThreadInv, GreetInv, DebtInv
<1> QED
  BY <1>1, <1>2, <1>3, <1>6, <1>7, <1>8 DEF IndInv, TypeOK, LeakInv, KilledByLeaver

\* pthread_create starts the thread.
LEMMA SpawnThread ==
    ASSUME IndInv, main \in Conns, main' = NoConn, started' = started + 1,
           th' = [th EXCEPT ![main].pc = "decode"],
           UNCHANGED <<open, peer, lingering, turnedAway>>,
           UNCHANGED <<up, leaked, queue, sqlFails, refused, killer>>
    PROVE  IndInv'
<1>1. /\ th[main] = NoThread /\ th[main].pc = "none" /\ peer[main] \in Peers
      /\ main \in open /\ Connected(main)
  <2>1. main \notin Working /\ main \in open
    BY ServerAssumption DEF IndInv, PlaceInv, NoDescriptorLost
  <2> QED
    BY <2>1, OfOne DEF Connected
<1> DEFINE t == [NoThread EXCEPT !.pc = "decode"]
<1>2. /\ t \in Threads /\ t.pc = "decode" /\ t.stage = 1 /\ t.req = "none" /\ t.owed = 0
      /\ ThreadOK(t)
  BY Nothing DEF NoThread, Threads, Pcs, ThreadOK
<1>3. th' = [th EXCEPT ![main] = t]
  BY <1>1
<1> HIDE DEF t
<1>4. /\ th' \in [Conns -> Threads] /\ th'[main] = t
      /\ \A d \in Conns \ {main} : th'[d] = th[d]
  BY <1>2, <1>3 DEF IndInv, TypeOK
<1>5. Working' = Working \cup {main} /\ \A d \in Conns : Connected(d)' <=> Connected(d)
  BY <1>2, <1>4 DEF Working, Connected, Queued
<1>6. PlaceInv' /\ NoDescriptorLost'
  <2>1. NoConn \notin Working /\ NoConn \notin Conns
    BY ServerAssumption DEF Working
  <2> QED
    BY <1>5, <2>1 DEF IndInv, PlaceInv, NoDescriptorLost
<1>7. DebtOK(t, peer[main]) /\ (peer[main].line = "open" => GreetOK(t, peer[main]))
  <2>1. DebtOK(NoThread, peer[main])
        /\ (peer[main].line = "open" => GreetOK(NoThread, peer[main]))
    BY <1>1, OfOne
  <2>2. /\ NoThread.pc = "none" /\ NoThread.stage = 1 /\ NoThread.req = "none"
        /\ NoThread.owed = 0
    BY DEF NoThread
  <2>3. Rest(t, peer[main]) = Rest(NoThread, peer[main])
    BY <1>2, <2>2 DEF Rest
  <2> QED
    BY <1>2, <2>1, <2>2, <2>3 DEF DebtOK, GreetOK
<1>8. ASSUME NEW d \in Conns
      PROVE  /\ ThreadOK(th'[d]) /\ DebtOK(th'[d], peer'[d])
             /\ peer'[d].line = "open" /\ Connected(d)' => GreetOK(th'[d], peer'[d])
  <2>1. CASE d = main
    BY <2>1, <1>2, <1>4, <1>7
  <2>2. CASE d # main
    BY <2>2, <1>4, <1>5, OfOne, Zenon
  <2> QED
    BY <2>1, <2>2
<1>9. ThreadInv' /\ DebtInv' /\ GreetInv'
  BY <1>8 DEF ThreadInv, DebtInv, GreetInv
<1> QED
  BY <1>4, <1>6, <1>9 DEF IndInv, TypeOK, LeakInv, KilledByLeaver

\* pthread_create fails, and main deletes the socket.
LEMMA SpawnFails ==
    ASSUME IndInv, main \in Conns, main' = NoConn, turnedAway' = Cardinality(Working),
           open' = open \ {main}, Dropped({main}, peer), UNCHANGED <<started, th>>,
           UNCHANGED <<up, leaked, queue, sqlFails, refused, killer>>
    PROVE  IndInv'
<1>1. /\ peer' = [d \in Conns |->
           IF d \in {main}
           THEN IF peer[d].line = "open" THEN [peer[d] EXCEPT !.inbox = << >>] ELSE NoPeer
           ELSE peer[d]]
      /\ lingering' = lingering \cup
           {d \in {main} : peer[d].line = "open" /\ peer[d].inbox = << >>}
  BY DEF Dropped
<1>2. /\ \A d \in Conns \ {main} : peer'[d] = peer[d]
      /\ peer'[main] \in Peers /\ peer'[main].line \in {"none", "open"}
  <2>1. peer[main] \in Peers /\ << >> \in Seq(Kinds)
    BY DEF IndInv, TypeOK
  <2>2. peer[main].line = "open" => /\ [peer[main] EXCEPT !.inbox = << >>] \in Peers
                                    /\ [peer[main] EXCEPT !.inbox = << >>].line = "open"
    BY <2>1 DEF Peers
  <2>3. NoPeer.line = "none"
    BY DEF NoPeer
  <2> QED
    BY <1>1, <2>2, <2>3, Nothing
<1>3. peer' \in [Conns -> Peers]
  <2>1. peer' = [d \in Conns |-> peer'[d]]
    BY <1>1
  <2>2. \A d \in Conns : peer'[d] \in Peers
    BY <1>2 DEF IndInv, TypeOK
  <2> QED
    BY <2>1, <2>2
<1>4. main \notin Working /\ main \in open /\ Working' = Working
  BY ServerAssumption DEF IndInv, PlaceInv, NoDescriptorLost, Working
<1>5. ~Queued(main)
  BY <1>4 DEF IndInv, PlaceInv, Queued
<1>6. \A d \in Conns : Connected(d)' <=> Connected(d) /\ d # main
  BY <1>5 DEF Connected, Queued
<1>7. PlaceInv' /\ NoDescriptorLost'
  <2>1. NoConn \notin Working
    BY ServerAssumption DEF Working
  <2> QED
    BY <1>4, <2>1 DEF IndInv, PlaceInv, NoDescriptorLost
<1>8. ASSUME NEW d \in Conns
      PROVE  /\ DebtOK(th'[d], peer'[d])
             /\ peer'[d].line = "open" /\ Connected(d)' => GreetOK(th'[d], peer'[d])
  <2>1. CASE d = main
    BY <2>1, <1>2, <1>6, OfOne, Nothing
  <2>2. CASE d # main
    BY <2>2, <1>2, <1>6, OfOne, Zenon
  <2> QED
    BY <2>1, <2>2
<1>9. DebtInv' /\ GreetInv' /\ ThreadInv'
  BY <1>8 DEF DebtInv, GreetInv, ThreadInv, IndInv
<1>10. turnedAway' \in Nat
  <2>1. Working \in SUBSET Conns /\ IsFiniteSet(Conns)
    BY ServerAssumption DEF Working
  <2>2. IsFiniteSet(Working)
    BY <2>1, FS_Subset, Zenon
  <2> QED
    BY <2>2, FS_CardinalityType
<1>11. lingering' \subseteq Conns
  BY <1>1 DEF IndInv, TypeOK
<1> QED
  BY <1>3, <1>7, <1>9, <1>10, <1>11 DEF IndInv, TypeOK, LeakInv, KilledByLeaver

LEMMA SpawnStep ==
    ASSUME IndInv, Spawn
    PROVE  IndInv'
BY SpawnThread, SpawnFails DEF Spawn

\* The process ends.
LEMMA DieStep ==
    ASSUME IndInv, NEW end \in Peers, Die(end), end # NoPeer => end.debt >= 2
    PROVE  IndInv'
<1> DEFINE C == {c \in Conns : Connected(c)}
<1>1. /\ up' = FALSE /\ main' = NoConn /\ open' = {} /\ queue' = << >>
      /\ th' = [c \in Conns |-> NoThread] /\ started' = 0 /\ leaked' = 0
      /\ killer' = end /\ UNCHANGED <<sqlFails, refused, turnedAway>>
      /\ peer' = [d \in Conns |->
           IF d \in C
           THEN IF peer[d].line = "open" THEN [peer[d] EXCEPT !.inbox = << >>] ELSE NoPeer
           ELSE peer[d]]
      /\ lingering' = lingering \cup
           {d \in C : peer[d].line = "open" /\ peer[d].inbox = << >>}
  BY DEF Die, Dropped
<1>2. C \subseteq Conns /\ \A d \in Conns : d \in C <=> Connected(d)
  OBVIOUS
<1> HIDE DEF C
<1>3. ASSUME NEW d \in Conns
      PROVE  peer'[d] \in Peers /\ DebtOK(NoThread, peer'[d])
  <2>1. CASE d \notin C
    <3>1. peer'[d] = peer[d]
      BY <2>1, <1>1
    <3>2. th[d] = NoThread
      BY <2>1, <1>2, OfOne
    <3> QED
      BY <3>1, <3>2, OfOne
  <2>2. CASE d \in C /\ peer[d].line = "open"
    <3>1. peer'[d] = [peer[d] EXCEPT !.inbox = << >>]
      BY <2>2, <1>1
    <3>2. peer[d] \in Peers /\ << >> \in Seq(Kinds)
      BY OfOne
    <3>3. peer'[d] \in Peers /\ peer'[d].line = "open"
      BY <2>2, <3>1, <3>2 DEF Peers
    <3> QED
      BY <3>3, Nothing
  <2>3. CASE d \in C /\ peer[d].line # "open"
    BY <2>3, <1>1, Nothing
  <2> QED
    BY <2>1, <2>2, <2>3
<1>4. peer' \in [Conns -> Peers] /\ th' \in [Conns -> Threads]
  <2>1. peer' = [d \in Conns |-> peer'[d]]
    BY <1>1
  <2> QED
    BY <2>1, <1>1, <1>3, Nothing
<1>5. Working' = {} /\ \A d \in Conns : ~Connected(d)'
  BY <1>1 DEF Working, NoThread, Connected, Queued
<1>6. PlaceInv' /\ NoDescriptorLost'
  BY <1>1, <1>5 DEF PlaceInv, NoDescriptorLost
<1>7. ThreadInv' /\ GreetInv' /\ DebtInv'
  BY <1>1, <1>3, <1>5, Nothing DEF ThreadInv, GreetInv, DebtInv
<1>8. lingering' \subseteq Conns /\ queue' \in Seq(Conns)
  BY <1>1, <1>2 DEF IndInv, TypeOK
<1>9. TypeOK'
  BY <1>1, <1>4, <1>8 DEF IndInv, TypeOK
<1>10. LeakInv' /\ KilledByLeaver'
  BY <1>1 DEF IndInv, TypeOK, LeakInv, KilledByLeaver
<1> QED
  BY <1>6, <1>7, <1>9, <1>10 DEF IndInv

-----------------------------------------------------------------------------
(* Threads.                                                                *)

\* Where a thread goes, and what it then owes.
LEMMA Moved ==
    ASSUME IndInv, NEW c \in Conns
    PROVE  /\ \A pc \in Pcs : Goto(c, pc) =>
                /\ th' \in [Conns -> Threads] /\ \A d \in Conns \ {c} : th'[d] = th[d]
                /\ th'[c].pc = pc /\ th'[c].stage = th[c].stage
                /\ th'[c].req = "none" /\ th'[c].owed = th[c].owed
           /\ \A n \in Nat : Owe(c, n) =>
                /\ th' \in [Conns -> Threads] /\ \A d \in Conns \ {c} : th'[d] = th[d]
                /\ th'[c].pc = "send" /\ th'[c].stage = th[c].stage
                /\ th'[c].req = "none" /\ th'[c].owed = n
<1>1. th \in [Conns -> Threads]
  BY DEF IndInv, TypeOK
<1>2. ASSUME NEW pc \in Pcs, Goto(c, pc)
      PROVE  /\ th' \in [Conns -> Threads] /\ \A d \in Conns \ {c} : th'[d] = th[d]
             /\ th'[c].pc = pc /\ th'[c].stage = th[c].stage
             /\ th'[c].req = "none" /\ th'[c].owed = th[c].owed
  <2> DEFINE t == [th[c] EXCEPT !.pc = pc, !.req = "none"]
  <2>1. th' = [th EXCEPT ![c] = t]
    BY <1>2 DEF Goto
  <2>2. /\ t \in Threads /\ t.pc = pc /\ t.stage = th[c].stage
        /\ t.req = "none" /\ t.owed = th[c].owed
    BY <1>1 DEF Threads
  <2> HIDE DEF t
  <2> QED
    BY <1>1, <2>1, <2>2
<1>3. ASSUME NEW n \in Nat, Owe(c, n)
      PROVE  /\ th' \in [Conns -> Threads] /\ \A d \in Conns \ {c} : th'[d] = th[d]
             /\ th'[c].pc = "send" /\ th'[c].stage = th[c].stage
             /\ th'[c].req = "none" /\ th'[c].owed = n
  <2> DEFINE t == [th[c] EXCEPT !.pc = "send", !.req = "none", !.owed = n]
  <2>1. th' = [th EXCEPT ![c] = t]
    BY <1>3 DEF Owe
  <2>2. /\ t \in Threads /\ t.pc = "send" /\ t.stage = th[c].stage
        /\ t.req = "none" /\ t.owed = n
    BY <1>1 DEF Threads, Pcs
  <2> HIDE DEF t
  <2> QED
    BY <1>1, <2>1, <2>2
<1> QED
  BY <1>2, <1>3

\* A thread that goes on without taking a message or sending a reply.
LEMMA MoveStep ==
    ASSUME IndInv, NEW c \in Conns, th[c].pc \notin {"none", "refuse", "refused"},
           th' \in [Conns -> Threads], \A d \in Conns \ {c} : th'[d] = th[d],
           peer' = peer, main' = main, open' = open, queue' = queue,
           th'[c].pc \notin {"none", "refused"},
           th'[c].pc = "refuse" => th[c].req = "response",
           th'[c].stage = th[c].stage, th'[c].req \in {th[c].req, "none"},
           Rest(th'[c], peer[c]) <= Rest(th[c], peer[c]),
           ThreadOK(th'[c])
    PROVE  Followed'
<1>1. /\ th[c] \in Threads /\ th'[c] \in Threads /\ peer[c] \in Peers
      /\ DebtOK(th[c], peer[c])
      /\ peer[c].line = "open" => GreetOK(th[c], peer[c])
  BY OfOne
<1>2. th'[c].pc = "refuse" => Rest(th[c], peer[c]) >= 1
  <2>1. th[c].req = "response" => RepliesTo(th[c].req) = 1
    BY RepliesType
  <2> QED
    BY <1>1, <2>1, RestType DEF Rest
<1>3. DebtOK(th'[c], peer[c])
  <2>1. /\ Rest(th[c], peer[c]) \in Nat /\ Rest(th'[c], peer[c]) \in Nat
        /\ peer[c].debt \in Nat
    BY <1>1, RestType DEF Peers
  <2> QED
    BY <1>1, <1>2, <2>1 DEF DebtOK
<1>4. peer[c].line = "open" => GreetOK(th'[c], peer[c])
  BY <1>1 DEF GreetOK
<1> QED
  BY <1>3, <1>4, KeepStep

\* A thread that goes on without its request.
LEMMA GotoStep ==
    ASSUME IndInv, NEW c \in Conns, th[c].pc \notin {"none", "refuse", "refused"},
           NEW pc \in {"check", "decode", "refuse"}, Goto(c, pc),
           pc = "refuse" => th[c].stage = 2 /\ th[c].req = "response",
           peer' = peer, main' = main, open' = open, queue' = queue
    PROVE  Followed' /\ th' \in [Conns -> Threads]
<1>1. /\ th' \in [Conns -> Threads] /\ \A d \in Conns \ {c} : th'[d] = th[d]
      /\ th'[c].pc = pc /\ th'[c].stage = th[c].stage
      /\ th'[c].req = "none" /\ th'[c].owed = th[c].owed
  BY Moved DEF Pcs
<1>2. ThreadOK(th'[c])
  BY <1>1 DEF ThreadOK
<1>3. Rest(th'[c], peer[c]) <= Rest(th[c], peer[c])
  <2>1. th[c] \in Threads /\ peer[c] \in Peers
    BY OfOne
  <2> QED
    BY <1>1, <2>1, RestType, RepliesType DEF Rest
<1> QED
  BY <1>1, <1>2, <1>3, MoveStep

\* A thread that answers its request.
LEMMA OweStep ==
    ASSUME IndInv, NEW c \in Conns, th[c].pc = "query",
           NEW n \in Nat, n >= 1, n <= RepliesTo(th[c].req), Owe(c, n),
           th[c].stage < Service => n = 1,
           peer' = peer, main' = main, open' = open, queue' = queue
    PROVE  Followed' /\ th' \in [Conns -> Threads]
<1>1. /\ th' \in [Conns -> Threads] /\ \A d \in Conns \ {c} : th'[d] = th[d]
      /\ th'[c].pc = "send" /\ th'[c].stage = th[c].stage
      /\ th'[c].req = "none" /\ th'[c].owed = n
  BY Moved
<1>2. ThreadOK(th'[c])
  BY <1>1 DEF ThreadOK
<1>3. Rest(th'[c], peer[c]) <= Rest(th[c], peer[c])
  <2>1. th[c] \in Threads /\ peer[c] \in Peers
    BY OfOne
  <2> QED
    BY <1>1, <2>1, RestType, RepliesType DEF Rest
<1> QED
  BY <1>1, <1>2, <1>3, MoveStep

\* A thread that takes a message.
LEMMA DecodeStep ==
    ASSUME IndInv, NEW c \in Conns, Decode(c)
    PROVE  IndInv'
<1> DEFINE m     == Head(peer[c].inbox)
           s     == th[c].stage
           q     == [peer[c] EXCEPT !.inbox = Tail(@)]
           taken == [peer EXCEPT ![c].inbox = Tail(@)]
<1>1. /\ th[c].pc = "decode" /\ peer[c].inbox # << >>
      /\ up' = up /\ main' = main /\ started' = started /\ leaked' = leaked
      /\ queue' = queue /\ sqlFails' = sqlFails /\ refused' = refused
      /\ turnedAway' = turnedAway /\ killer' = killer
  BY DEF Decode, history
<1>2. /\ th \in [Conns -> Threads] /\ th[c] \in Threads /\ peer[c] \in Peers
      /\ ThreadOK(th[c]) /\ DebtOK(th[c], peer[c])
      /\ peer[c].line = "open" => GreetOK(th[c], peer[c])
      /\ open \subseteq Conns /\ lingering \subseteq Conns /\ peer \in [Conns -> Peers]
  BY <1>1, OfOne DEF IndInv, TypeOK
<1>3. /\ peer[c].inbox \in Seq(Kinds) /\ m \in Kinds /\ Tail(peer[c].inbox) \in Seq(Kinds)
      /\ Waiting(peer[c].inbox) \in Nat /\ Waiting(Tail(peer[c].inbox)) \in Nat
      /\ Waiting(peer[c].inbox) = Waiting(Tail(peer[c].inbox)) + RepliesTo(m)
  <2>1. peer[c].inbox \in Seq(Kinds)
    BY <1>2 DEF Peers
  <2> QED
    BY <1>1, <2>1, WaitingTail
<1>4. /\ q \in Peers /\ q.inbox = Tail(peer[c].inbox) /\ q.line = peer[c].line
      /\ q.debt = peer[c].debt /\ q.got = peer[c].got /\ q.outbox = peer[c].outbox
  BY <1>2, <1>3 DEF Peers
<1>5. taken = [peer EXCEPT ![c] = q]
  BY <1>2
<1>6. /\ \E i \in DOMAIN peer[c].inbox : peer[c].inbox[i] = m
      /\ \A i \in DOMAIN q.inbox : \E j \in DOMAIN peer[c].inbox :
            peer[c].inbox[j] = q.inbox[i]
  <2>1. 1 \in DOMAIN peer[c].inbox /\ peer[c].inbox[1] = m
    BY <1>1, <1>3
  <2>2. \A i \in DOMAIN q.inbox :
          i + 1 \in DOMAIN peer[c].inbox /\ peer[c].inbox[i + 1] = q.inbox[i]
    BY <1>1, <1>3, <1>4
  <2> QED
    BY <2>1, <2>2
<1>7. /\ taken \in [Conns -> Peers] /\ taken[c] = q
      /\ \A d \in Conns \ {c} : taken[d] = peer[d]
  BY <1>2, <1>4, <1>5
<1>8. \/ /\ \/ /\ (s = 2 /\ m = "response") \/ (s = Service /\ m \in {"poll", "text"})
               /\ th' = [th EXCEPT ![c].pc = "connect", ![c].req = m]
            \/ s \in {1, 3, 4} /\ m = Greeting[s] /\ Owe(c, 1)
            \/ Goto(c, "check")
         /\ peer' = taken /\ UNCHANGED <<open, lingering>>
      \/ Finish(c, taken)
  BY Zenon DEF Decode
<1> HIDE DEF m, q, taken
<1>9. ASSUME th' \in [Conns -> Threads], \A d \in Conns \ {c} : th'[d] = th[d],
             peer' = taken, UNCHANGED <<open, lingering>>,
             th'[c].pc \in {"connect", "send", "check"}, ThreadOK(th'[c]),
             th'[c].stage = s, th'[c].req \in {"none", m},
             th'[c].owed + RepliesTo(th'[c].req) <= th[c].owed + RepliesTo(m)
      PROVE  IndInv'
  <2>1. Rest(th'[c], q) <= Rest(th[c], peer[c])
    <3>1. /\ th'[c].owed \in Nat /\ th[c].owed \in Nat
          /\ RepliesTo(th'[c].req) \in Nat /\ RepliesTo(th[c].req) \in Nat
          /\ RepliesTo(m) \in Nat
      BY <1>2, <1>3, <1>4, <1>9, RestType, RepliesType
    <3> QED
      BY <3>1, <1>3, <1>4, <1>9, SMTT(30) DEF Rest
  <2>2. DebtOK(th'[c], q)
    <3>1. Rest(th[c], peer[c]) \in Nat /\ Rest(th'[c], q) \in Nat /\ peer[c].debt \in Nat
      BY <1>2, <1>4, <1>9, RestType DEF Peers
    <3> QED
      BY <1>1, <1>2, <1>4, <1>9, <2>1, <3>1 DEF DebtOK
  <2>3. q.line = "open" => GreetOK(th'[c], q)
    BY <1>1, <1>2, <1>4, <1>6, <1>9 DEF GreetOK
  <2>4. Followed'
    BY <1>1, <1>7, <1>9, <2>2, <2>3, KeepStep
  <2> QED
    BY <1>1, <1>2, <1>7, <1>9, <2>4, Counted
<1>10. ASSUME (s = 2 /\ m = "response") \/ (s = Service /\ m \in {"poll", "text"}),
              th' = [th EXCEPT ![c].pc = "connect", ![c].req = m],
              peer' = taken, UNCHANGED <<open, lingering>>
       PROVE  IndInv'
  <2> DEFINE t == [th[c] EXCEPT !.pc = "connect", !.req = m]
  <2>1. th' = [th EXCEPT ![c] = t]
    BY <1>10
  <2>2. /\ t \in Threads /\ t.pc = "connect" /\ t.stage = s /\ t.req = m
        /\ t.owed = th[c].owed
    BY <1>2, <1>3 DEF Threads, Pcs
  <2> HIDE DEF t
  <2>3. th' \in [Conns -> Threads] /\ th'[c] = t /\ \A d \in Conns \ {c} : th'[d] = th[d]
    BY <1>2, <2>1, <2>2
  <2>4. ThreadOK(t)
    BY <1>10, <2>2 DEF ThreadOK
  <2>5. t.owed + RepliesTo(t.req) <= th[c].owed + RepliesTo(m)
    BY <1>2, <1>3, <2>2, RestType, RepliesType
  <2> QED
    BY <1>9, <1>10, <2>2, <2>3, <2>4, <2>5
<1>11. ASSUME s \in {1, 3, 4}, m = Greeting[s], Owe(c, 1),
              peer' = taken, UNCHANGED <<open, lingering>>
       PROVE  IndInv'
  <2>1. m = "login" /\ RepliesTo(m) = 1 /\ RepliesTo("none") = 0 /\ th[c].owed \in Nat
    BY <1>2, <1>11, RestType, RepliesType DEF Greeting
  <2>2. /\ th' \in [Conns -> Threads] /\ \A d \in Conns \ {c} : th'[d] = th[d]
        /\ th'[c].pc = "send" /\ th'[c].stage = s
        /\ th'[c].req = "none" /\ th'[c].owed = 1
    BY <1>11, Moved
  <2>3. ThreadOK(th'[c])
    BY <2>2 DEF ThreadOK
  <2>4. th'[c].owed + RepliesTo(th'[c].req) <= th[c].owed + RepliesTo(m)
    BY <2>1, <2>2
  <2> QED
    BY <1>9, <1>11, <2>2, <2>3, <2>4
<1>12. ASSUME Goto(c, "check"), peer' = taken, UNCHANGED <<open, lingering>>
       PROVE  IndInv'
  <2>1. RepliesTo(m) \in Nat /\ RepliesTo("none") = 0 /\ th[c].owed \in Nat
    BY <1>2, <1>3, RestType, RepliesType
  <2>2. /\ th' \in [Conns -> Threads] /\ \A d \in Conns \ {c} : th'[d] = th[d]
        /\ th'[c].pc = "check" /\ th'[c].stage = s
        /\ th'[c].req = "none" /\ th'[c].owed = th[c].owed
    BY <1>12, Moved DEF Pcs
  <2>3. ThreadOK(th'[c])
    BY <2>2 DEF ThreadOK
  <2>4. th'[c].owed + RepliesTo(th'[c].req) <= th[c].owed + RepliesTo(m)
    BY <2>1, <2>2
  <2> QED
    BY <1>9, <1>12, <2>2, <2>3, <2>4
<1>13. ASSUME Finish(c, taken)
       PROVE  IndInv'
  <2>1. /\ Followed'
        /\ th' \in [Conns -> Threads] /\ peer' \in [Conns -> Peers]
        /\ open' \subseteq Conns /\ lingering' \subseteq Conns
    BY <1>1, <1>7, <1>13, FinishStep
  <2> QED
    BY <1>1, <2>1, Counted
<1> QED
  BY <1>8, <1>10, <1>11, <1>12, <1>13

\* A thread that ends its session.
LEMMA EndStep ==
    ASSUME IndInv, NEW c \in Conns, th[c].pc # "none", Finish(c, peer),
           UNCHANGED <<up, main, started, leaked, queue, history>>
    PROVE  IndInv'
<1>1. /\ up' = up /\ main' = main /\ started' = started /\ leaked' = leaked
      /\ queue' = queue /\ sqlFails' = sqlFails /\ refused' = refused
      /\ turnedAway' = turnedAway /\ killer' = killer
  BY DEF history
<1>2. peer \in [Conns -> Peers] /\ \A d \in Conns \ {c} : peer[d] = peer[d]
  BY DEF IndInv, TypeOK
<1>3. /\ Followed'
      /\ th' \in [Conns -> Threads] /\ peer' \in [Conns -> Peers]
      /\ open' \subseteq Conns /\ lingering' \subseteq Conns
  BY <1>1, <1>2, FinishStep
<1> QED
  BY <1>1, <1>3, Counted

\* A thread that goes on, when no statement has failed.
LEMMA OnStep ==
    ASSUME IndInv, NEW c \in Conns, Followed', th' \in [Conns -> Threads],
           UNCHANGED <<open, peer, lingering>>,
           UNCHANGED <<up, main, started, leaked, queue, history>>
    PROVE  IndInv'
<1>1. /\ up' = up /\ main' = main /\ started' = started /\ leaked' = leaked
      /\ queue' = queue /\ sqlFails' = sqlFails /\ refused' = refused
      /\ turnedAway' = turnedAway /\ killer' = killer
      /\ open' = open /\ peer' = peer /\ lingering' = lingering
  BY DEF history
<1>2. peer \in [Conns -> Peers] /\ open \subseteq Conns /\ lingering \subseteq Conns
  BY DEF IndInv, TypeOK
<1> QED
  BY <1>1, <1>2, Counted

LEMMA CheckStep ==
    ASSUME IndInv, NEW c \in Conns, Check(c)
    PROVE  IndInv'
<1>1. /\ th[c].pc = "check" /\ th[c].pc # "none"
      /\ UNCHANGED <<up, main, started, leaked, queue, history>>
  BY DEF Check
<1>2. CASE Finish(c, peer)
  BY <1>1, <1>2, EndStep
<1>3. CASE Goto(c, "decode") /\ UNCHANGED <<open, peer, lingering>>
  <2>1. Followed' /\ th' \in [Conns -> Threads]
    BY <1>1, <1>3, GotoStep
  <2> QED
    BY <1>1, <1>3, <2>1, OnStep
<1> QED
  BY <1>2, <1>3 DEF Check

\* Where a thread goes whose statement failed.
LEMMA WithoutStep ==
    ASSUME IndInv, NEW c \in Conns, th[c].pc \in {"connect", "query"}, Without(c),
           peer' = peer, main' = main, open' = open, queue' = queue
    PROVE  Followed' /\ th' \in [Conns -> Threads]
<1>1. th[c].stage = 2 => th[c].req = "response"
  BY OfOne DEF ThreadOK, Service, Greeting
<1>2. CASE th[c].stage = 2
  <2>1. Goto(c, "refuse")
    BY <1>2 DEF Without
  <2> QED
    BY <1>1, <1>2, <2>1, GotoStep
<1>3. CASE th[c].stage # 2
  <2>1. Goto(c, "check")
    BY <1>3 DEF Without
  <2> QED
    BY <2>1, GotoStep
<1> QED
  BY <1>2, <1>3

LEMMA DbConnectStep ==
    ASSUME IndInv, NEW c \in Conns, DbConnect(c)
    PROVE  IndInv'
<1>1. /\ th[c].pc = "connect"
      /\ up' = up /\ main' = main /\ open' = open /\ started' = started
      /\ leaked' = leaked /\ queue' = queue /\ peer' = peer /\ lingering' = lingering
      /\ sqlFails' = sqlFails /\ turnedAway' = turnedAway /\ killer' = killer
  BY DEF DbConnect, network
<1>2. leaked \in Nat /\ sqlFails \in Nat /\ refused \in BOOLEAN /\ leaked <= sqlFails
  BY DEF IndInv, TypeOK, LeakInv
<1>3. ASSUME Followed', th' \in [Conns -> Threads],
             refused' = refused \/ refused' = TRUE
      PROVE  IndInv'
  <2>1. TypeOK'
    BY <1>1, <1>2, <1>3 DEF IndInv, TypeOK
  <2>2. LeakInv' /\ KilledByLeaver'
    BY <1>1 DEF IndInv, LeakInv, KilledByLeaver
  <2> QED
    BY <1>3, <2>1, <2>2 DEF IndInv, Followed
<1>5. CASE th' = [th EXCEPT ![c].pc = "query"] /\ UNCHANGED refused
  <2> DEFINE t == [th[c] EXCEPT !.pc = "query"]
  <2>1. th' = [th EXCEPT ![c] = t]
    BY <1>5
  <2>2. th[c] \in Threads /\ th \in [Conns -> Threads] /\ peer[c] \in Peers /\ ThreadOK(th[c])
    BY OfOne DEF IndInv, TypeOK
  <2>3. /\ t \in Threads /\ t.pc = "query" /\ t.stage = th[c].stage
        /\ t.req = th[c].req /\ t.owed = th[c].owed
    BY <2>2 DEF Threads, Pcs
  <2> HIDE DEF t
  <2>4. th' \in [Conns -> Threads] /\ th'[c] = t /\ \A d \in Conns \ {c} : th'[d] = th[d]
    BY <2>1, <2>2, <2>3
  <2>5. ThreadOK(t)
    BY <1>1, <2>2, <2>3 DEF ThreadOK
  <2>6. Rest(t, peer[c]) = Rest(th[c], peer[c]) /\ Rest(th[c], peer[c]) \in Nat
    BY <2>2, <2>3, RestType DEF Rest
  <2>7. Followed'
    BY <1>1, <2>3, <2>4, <2>5, <2>6, MoveStep
  <2> QED
    BY <1>3, <1>5, <2>4, <2>7
<1>6. CASE Without(c) /\ refused' = (refused \/ Cardinality(Querying) + leaked >= MaxDb)
  <2>1. Followed' /\ th' \in [Conns -> Threads]
    BY <1>1, <1>6, WithoutStep
  <2>2. refused' = refused \/ refused' = TRUE
    BY <1>2, <1>6
  <2> QED
    BY <1>3, <2>1, <2>2
<1> QED
  BY <1>5, <1>6 DEF DbConnect

LEMMA QueryStep ==
    ASSUME IndInv, NEW c \in Conns, Query(c)
    PROVE  IndInv'
<1>1. /\ th[c].pc = "query" /\ th[c].pc # "none" /\ Answer(c)
      /\ UNCHANGED <<up, main, started, leaked, queue, history>>
  BY DEF Query
<1>2. /\ th[c].stage = 2 => th[c].req = "response"
      /\ th[c].stage \in {2, Service}
      /\ th[c].req = "poll" => th[c].stage = Service
  BY <1>1, OfOne DEF ThreadOK, Service, Greeting
<1>3. Service \in Nat /\ Service # 2 /\ MaxRows \in Nat /\ th[c].stage \in Nat
  BY <1>2, RepliesType DEF Service, Greeting
<1>4. CASE Finish(c, peer)
  BY <1>1, <1>4, EndStep
<1>5. CASE UNCHANGED <<open, peer, lingering>>
  <2>1. ASSUME th[c].stage = 2, Owe(c, 1)
        PROVE  Followed' /\ th' \in [Conns -> Threads]
    <3>1. 1 <= RepliesTo(th[c].req)
      BY <1>2, <2>1, RepliesType
    <3> QED
      BY <1>1, <1>5, <2>1, <3>1, OweStep
  <2>2. ASSUME th[c].stage = 2, Goto(c, "refuse")
        PROVE  Followed' /\ th' \in [Conns -> Threads]
    BY <1>1, <1>2, <1>5, <2>2, GotoStep
  <2>3. ASSUME th[c].req = "poll", NEW n \in 1 .. MaxRows, Owe(c, n)
        PROVE  Followed' /\ th' \in [Conns -> Threads]
    <3>1. n \in Nat /\ n >= 1 /\ n <= RepliesTo(th[c].req) /\ ~(th[c].stage < Service)
      BY <1>2, <1>3, <2>3, RepliesType
    <3> QED
      BY <1>1, <1>5, <2>3, <3>1, OweStep
  <2>4. ASSUME Goto(c, "check")
        PROVE  Followed' /\ th' \in [Conns -> Threads]
    BY <1>1, <1>5, <2>4, GotoStep
  <2>5. Finish(c, peer) \/ (Followed' /\ th' \in [Conns -> Threads])
    BY <1>1, <2>1, <2>2, <2>3, <2>4 DEF Answer
  <2> QED
    BY <1>1, <1>4, <1>5, <2>5, OnStep
<1> QED
  BY <1>1, <1>4, <1>5 DEF Answer

LEMMA QueryFailsStep ==
    ASSUME IndInv, NEW c \in Conns, QueryFails(c)
    PROVE  IndInv'
<1>1. /\ th[c].pc = "query"
      /\ \/ Without(c)
         \/ th[c].req = "poll" /\ \E n \in 1 .. MaxRows : Owe(c, n)
      /\ sqlFails' = sqlFails + 1 /\ leaked' = leaked + 1
      /\ up' = up /\ main' = main /\ open' = open /\ started' = started
      /\ queue' = queue /\ peer' = peer /\ lingering' = lingering
      /\ refused' = refused /\ turnedAway' = turnedAway /\ killer' = killer
  BY DEF QueryFails, network
<1>2. Followed' /\ th' \in [Conns -> Threads]
  <2>1. CASE Without(c)
    BY <1>1, <2>1, WithoutStep
  <2>2. ASSUME th[c].req = "poll", NEW n \in 1 .. MaxRows, Owe(c, n)
        PROVE  Followed' /\ th' \in [Conns -> Threads]
    <3>1. th[c].stage = Service
      BY <1>1, <2>2, OfOne DEF ThreadOK, Service, Greeting
    <3>2. Service \in Nat /\ MaxRows \in Nat
      BY RepliesType DEF Service, Greeting
    <3>3. n \in Nat /\ n >= 1 /\ n <= RepliesTo(th[c].req) /\ ~(th[c].stage < Service)
      BY <2>2, <3>1, <3>2, RepliesType
    <3> QED
      BY <1>1, <2>2, <3>3, OweStep
  <2> QED
    BY <1>1, <2>1, <2>2
<1>3. leaked \in Nat /\ sqlFails \in Nat /\ leaked <= sqlFails
  BY DEF IndInv, TypeOK, LeakInv
<1>4. TypeOK' /\ LeakInv' /\ KilledByLeaver'
  BY <1>1, <1>2, <1>3 DEF IndInv, TypeOK, LeakInv, KilledByLeaver
<1> QED
  BY <1>2, <1>4 DEF IndInv, Followed

LEMMA QueryCrashesStep ==
    ASSUME IndInv, NEW c \in Conns, QueryCrashes(c)
    PROVE  IndInv'
BY Nothing, DieStep DEF QueryCrashes

\* A reply is out.
LEMMA SendStep ==
    ASSUME IndInv, NEW c \in Conns, Send(c)
    PROVE  IndInv'
<1>1. /\ Replied(c) /\ open' = open /\ lingering' = lingering
      /\ up' = up /\ main' = main /\ started' = started /\ leaked' = leaked
      /\ queue' = queue /\ sqlFails' = sqlFails /\ refused' = refused
      /\ turnedAway' = turnedAway /\ killer' = killer
  BY DEF Send, history
<1>2. /\ th[c] \in Threads /\ peer[c] \in Peers /\ ThreadOK(th[c])
      /\ DebtOK(th[c], peer[c])
      /\ th \in [Conns -> Threads] /\ peer \in [Conns -> Peers]
      /\ open \subseteq Conns /\ lingering \subseteq Conns
  BY OfOne DEF IndInv, TypeOK
<1>3. th[c].pc \in {"send", "refuse"}
  BY <1>1 DEF Replied
<1>4. peer[c].line = "open" => GreetOK(th[c], peer[c])
  BY <1>3, OfOne
<1> DEFINE t == th'[c]
           q == peer'[c]
<1>5. /\ t \in Threads /\ th' \in [Conns -> Threads]
      /\ \A d \in Conns \ {c} : th'[d] = th[d]
      /\ t.req = th[c].req
      /\ \/ /\ th[c].pc = "send" /\ t.pc = "send" /\ th[c].owed > 1
            /\ t.owed = th[c].owed - 1 /\ t.stage = th[c].stage
         \/ /\ th[c].pc = "send" /\ t.pc \in {"check", "decode"} /\ th[c].owed = 1
            /\ t.owed = 0
            /\ \/ th[c].stage < Service /\ t.stage = th[c].stage + 1
               \/ th[c].stage = Service /\ t.stage = Service
         \/ /\ th[c].pc = "refuse" /\ t.pc = "refused"
            /\ t.owed = th[c].owed /\ t.stage = th[c].stage
  <2>1. CASE th[c].pc = "send" /\ th[c].owed > 1 /\ th' = [th EXCEPT ![c].owed = @ - 1]
    <3> DEFINE u == [th[c] EXCEPT !.owed = @ - 1]
    <3>1. th' = [th EXCEPT ![c] = u]
      BY <2>1
    <3>2. /\ u \in Threads /\ u.pc = "send" /\ u.owed = th[c].owed - 1
          /\ u.stage = th[c].stage /\ u.req = th[c].req
      BY <1>2, <2>1 DEF Threads
    <3> HIDE DEF u
    <3>3. th'[c] = u /\ th' \in [Conns -> Threads] /\ \A d \in Conns \ {c} : th'[d] = th[d]
      BY <1>2, <3>1, <3>2
    <3> QED
      BY <2>1, <3>2, <3>3
  <2>2. CASE /\ th[c].pc = "send" /\ th[c].owed = 1 /\ th[c].stage < Service
             /\ th' = [th EXCEPT ![c].owed = 0, ![c].stage = @ + 1,
                         ![c].pc = IF th[c].stage + 1 = Service THEN "check" ELSE "decode"]
    <3> DEFINE pc == IF th[c].stage + 1 = Service THEN "check" ELSE "decode"
               u  == [th[c] EXCEPT !.owed = 0, !.stage = @ + 1, !.pc = pc]
    <3>1. th' = [th EXCEPT ![c] = u]
      BY <2>2
    <3>2. pc \in {"check", "decode"} /\ pc \in Pcs
      BY DEF Pcs
    <3>3. th[c].stage + 1 \in 1 .. Service
      BY <1>2, <2>2 DEF Threads, Service, Greeting
    <3> HIDE DEF pc
    <3>4. /\ u \in Threads /\ u.pc = pc /\ u.owed = 0
          /\ u.stage = th[c].stage + 1 /\ u.req = th[c].req
      BY <1>2, <3>2, <3>3 DEF Threads
    <3> HIDE DEF u
    <3>5. th'[c] = u /\ th' \in [Conns -> Threads] /\ \A d \in Conns \ {c} : th'[d] = th[d]
      BY <1>2, <3>1, <3>4
    <3> QED
      BY <2>2, <3>2, <3>4, <3>5
  <2>3. CASE /\ th[c].pc = "send" /\ th[c].owed = 1 /\ th[c].stage = Service
             /\ th' = [th EXCEPT ![c].owed = 0, ![c].pc = "check"]
    <3> DEFINE u == [th[c] EXCEPT !.owed = 0, !.pc = "check"]
    <3>1. th' = [th EXCEPT ![c] = u]
      BY <2>3
    <3>2. /\ u \in Threads /\ u.pc = "check" /\ u.owed = 0
          /\ u.stage = th[c].stage /\ u.req = th[c].req
      BY <1>2 DEF Threads, Pcs
    <3> HIDE DEF u
    <3>3. th'[c] = u /\ th' \in [Conns -> Threads] /\ \A d \in Conns \ {c} : th'[d] = th[d]
      BY <1>2, <3>1, <3>2
    <3> QED
      BY <2>3, <3>2, <3>3
  <2>4. CASE th[c].pc = "refuse" /\ th' = [th EXCEPT ![c].pc = "refused"]
    <3> DEFINE u == [th[c] EXCEPT !.pc = "refused"]
    <3>1. th' = [th EXCEPT ![c] = u]
      BY <2>4
    <3>2. /\ u \in Threads /\ u.pc = "refused" /\ u.owed = th[c].owed
          /\ u.stage = th[c].stage /\ u.req = th[c].req
      BY <1>2 DEF Threads, Pcs
    <3> HIDE DEF u
    <3>3. th'[c] = u /\ th' \in [Conns -> Threads] /\ \A d \in Conns \ {c} : th'[d] = th[d]
      BY <1>2, <3>1, <3>2
    <3> QED
      BY <2>4, <3>2, <3>3
  <2> QED
    BY <1>1, <2>1, <2>2, <2>3, <2>4 DEF Replied
<1>6. /\ q \in Peers /\ peer' \in [Conns -> Peers]
      /\ \A d \in Conns \ {c} : peer'[d] = peer[d]
      /\ q.inbox = peer[c].inbox /\ q.got = peer[c].got /\ q.debt = peer[c].debt
      /\ \/ peer[c].line = "open" /\ q.line = "open" /\ q.outbox = peer[c].outbox + 1
         \/ peer[c].line \in {"fin", "broken"} /\ q.line = "broken"
  <2>1. CASE peer[c].line = "open" /\ peer' = [peer EXCEPT ![c].outbox = @ + 1]
    <3> DEFINE u == [peer[c] EXCEPT !.outbox = @ + 1]
    <3>1. peer' = [peer EXCEPT ![c] = u]
      BY <2>1
    <3>2. /\ u \in Peers /\ u.line = "open" /\ u.outbox = peer[c].outbox + 1
          /\ u.inbox = peer[c].inbox /\ u.got = peer[c].got /\ u.debt = peer[c].debt
      <4>1. peer[c].outbox + 1 \in Nat
        BY <1>2 DEF Peers
      <4> QED
        BY <1>2, <2>1, <4>1 DEF Peers
    <3> HIDE DEF u
    <3>3. peer'[c] = u /\ peer' \in [Conns -> Peers]
          /\ \A d \in Conns \ {c} : peer'[d] = peer[d]
      BY <1>2, <3>1, <3>2
    <3> QED
      BY <2>1, <3>2, <3>3
  <2>2. CASE peer[c].line \in {"fin", "broken"} /\ peer' = [peer EXCEPT ![c].line = "broken"]
    <3> DEFINE u == [peer[c] EXCEPT !.line = "broken"]
    <3>1. peer' = [peer EXCEPT ![c] = u]
      BY <2>2
    <3>2. /\ u \in Peers /\ u.line = "broken"
          /\ u.inbox = peer[c].inbox /\ u.got = peer[c].got /\ u.debt = peer[c].debt
      BY <1>2, <2>2 DEF Peers, Lines
    <3> HIDE DEF u
    <3>3. peer'[c] = u /\ peer' \in [Conns -> Peers]
          /\ \A d \in Conns \ {c} : peer'[d] = peer[d]
      BY <1>2, <3>1, <3>2
    <3> QED
      BY <2>2, <3>2, <3>3
  <2> QED
    BY <2>1, <2>2 DEF Send
<1> HIDE DEF t, q
<1>7. /\ Service = 5 /\ th[c].owed \in Nat /\ th[c].stage \in Nat /\ th[c].stage >= 1
      /\ peer[c].got \in Nat /\ peer[c].outbox \in Nat /\ peer[c].debt \in Nat
  BY <1>2 DEF Threads, Peers, Service, Greeting
<1>8. t.pc # "none" /\ ThreadOK(t)
  <2>1. th[c].pc = "send" /\ th[c].owed > 1 => ~(th[c].stage < Service)
    BY <1>2, <1>7 DEF ThreadOK
  <2>2. t.pc = "send" => t.owed >= 1 /\ (t.stage < Service => t.owed = 1)
    BY <1>5, <1>7, <2>1
  <2> QED
    BY <1>5, <2>2 DEF ThreadOK
<1>9. q.line = "open" => GreetOK(t, q)
  <2> SUFFICES ASSUME q.line = "open" PROVE GreetOK(t, q)
    OBVIOUS
  <2>1. GreetOK(th[c], peer[c]) /\ q.outbox = peer[c].outbox + 1 /\ q.got = peer[c].got
    BY <1>4, <1>6
  <2>2. t.stage # 1
    BY <1>2, <1>5, <1>7 DEF ThreadOK
  <2>3. t.stage = 2 /\ t.pc # "refused" => q.got + q.outbox <= 1
    <3> SUFFICES ASSUME t.stage = 2, t.pc # "refused" PROVE q.got + q.outbox <= 1
      OBVIOUS
    <3>1. th[c].stage = 1
      BY <1>2, <1>5, <1>7 DEF ThreadOK
    <3>2. peer[c].got + peer[c].outbox = 0
      BY <2>1, <3>1 DEF GreetOK
    <3> QED
      BY <1>7, <2>1, <3>2
  <2>4. t.pc # "refuse" /\ t.req = th[c].req /\ q.inbox = peer[c].inbox
    BY <1>5, <1>6
  <2> QED
    BY <2>1, <2>2, <2>3, <2>4 DEF GreetOK
<1>10. DebtOK(t, q)
  <2> SUFFICES ASSUME q.line = "broken" PROVE DebtOK(t, q)
    BY <1>6 DEF DebtOK
  <2>1. CASE t.pc = "refused"
    BY <2>1 DEF DebtOK
  <2>2. CASE th[c].pc = "send"
    <3>1. t.owed = th[c].owed - 1
      BY <1>5, <1>7, <2>2
    <3>2. Rest(t, q) + 1 = Rest(th[c], peer[c])
      <4>1. RepliesTo(th[c].req) \in Nat /\ Waiting(peer[c].inbox) \in Nat
        BY <1>2, RestType
      <4> QED
        BY <1>5, <1>6, <1>7, <3>1, <4>1 DEF Rest
    <3>3. Rest(t, q) \in Nat
      BY <1>5, <1>6, RestType
    <3>4. q.debt = peer[c].debt /\ peer[c].debt >= Rest(th[c], peer[c])
      <4>1. Rest(th[c], peer[c]) \in Nat
        BY <1>2, RestType
      <4> QED
        BY <1>2, <1>6, <1>7, <2>2, <4>1 DEF DebtOK
    <3>5. t.pc \notin {"refuse", "refused"}
      BY <1>5, <2>2
    <3>6. q.debt >= 1 + Rest(t, q)
      BY <1>7, <3>2, <3>3, <3>4
    <3> QED
      BY <3>5, <3>6 DEF DebtOK
  <2> QED
    BY <1>3, <1>5, <2>1, <2>2
<1>11. Followed'
  BY <1>1, <1>3, <1>5, <1>6, <1>8, <1>9, <1>10, KeepStep DEF t, q
<1> QED
  BY <1>1, <1>2, <1>5, <1>6, <1>11, Counted

LEMMA SendEndsStep ==
    ASSUME IndInv, NEW c \in Conns, SendEnds(c)
    PROVE  IndInv'
<1>1. th[c].pc # "none"
  BY DEF SendEnds
<1> QED
  BY <1>1, EndStep DEF SendEnds

\* The reply that ends the process was not the first one too many.
LEMMA SendKillsStep ==
    ASSUME IndInv, NEW c \in Conns, SendKills(c)
    PROVE  IndInv'
<1>1. th[c].pc \in {"send", "refuse"} /\ peer[c].line = "broken" /\ Die(peer[c])
  BY DEF SendKills
<1>2. /\ th[c] \in Threads /\ peer[c] \in Peers
      /\ ThreadOK(th[c]) /\ DebtOK(th[c], peer[c])
  BY OfOne
<1>3. peer[c].debt >= 2
  <2>1. CASE th[c].pc = "refuse"
    BY <1>1, <1>2, <2>1 DEF DebtOK
  <2>2. CASE th[c].pc = "send"
    <3>1. th[c].owed >= 1 /\ peer[c].debt >= 1 + Rest(th[c], peer[c])
      BY <1>1, <1>2, <2>2 DEF DebtOK, ThreadOK
    <3>2. /\ th[c].owed \in Nat /\ RepliesTo(th[c].req) \in Nat
          /\ Waiting(peer[c].inbox) \in Nat /\ peer[c].debt \in Nat
      BY <1>2, RestType DEF Peers
    <3> QED
      BY <3>1, <3>2 DEF Rest
  <2> QED
    BY <1>1, <2>1, <2>2
<1> QED
  BY <1>1, <1>2, <1>3, DieStep

-----------------------------------------------------------------------------
(* The invariant.                                                          *)

LEMMA InitInv == Init => IndInv
<1> SUFFICES ASSUME Init PROVE IndInv
  OBVIOUS
<1>1. TypeOK
  <2>1. th \in [Conns -> Threads] /\ peer \in [Conns -> Peers] /\ queue \in Seq(Conns)
    BY Nothing DEF Init
  <2> QED
    BY <2>1, Nothing, ServerAssumption DEF Init, TypeOK
<1>2. Working = {} /\ \A c \in Conns : ~Connected(c)
  BY DEF Init, Working, NoThread, Connected, Queued
<1>3. PlaceInv /\ NoDescriptorLost /\ LeakInv
  BY <1>2 DEF Init, PlaceInv, NoDescriptorLost, LeakInv
<1>4. ThreadInv /\ GreetInv /\ DebtInv
  BY <1>2, Nothing DEF Init, ThreadInv, GreetInv, DebtInv
<1>5. KilledByLeaver
  BY DEF Init, KilledByLeaver
<1> QED
  BY <1>1, <1>3, <1>4, <1>5 DEF IndInv

LEMMA NextInv == IndInv /\ [Next]_vars => IndInv'
<1> SUFFICES ASSUME IndInv, [Next]_vars PROVE IndInv'
  OBVIOUS
<1>1. CASE Start
  BY <1>1, StartStep
<1>2. CASE LingerEnds
  <2>1. /\ up' = up /\ main' = main /\ open' = open /\ th' = th /\ started' = started
        /\ leaked' = leaked /\ queue' = queue /\ peer' = peer /\ sqlFails' = sqlFails
        /\ refused' = refused /\ turnedAway' = turnedAway /\ killer' = killer
        /\ lingering' \subseteq lingering
    BY <1>2 DEF LingerEnds, process, history
  <2>2. Working' = Working /\ \A d \in Conns : Connected(d)' <=> Connected(d)
    BY <2>1 DEF Working, Connected, Queued
  <2>3. Followed'
    BY <2>1, <2>2 DEF IndInv, Followed, PlaceInv, ThreadInv, GreetInv, DebtInv,
       NoDescriptorLost
  <2>4. /\ th \in [Conns -> Threads] /\ peer \in [Conns -> Peers]
        /\ open \subseteq Conns /\ lingering' \subseteq Conns
    BY <2>1 DEF IndInv, TypeOK
  <2> QED
    BY <2>1, <2>3, <2>4, Counted
<1>3. CASE Main
  BY <1>3, AcceptStep, SpawnStep DEF Main
<1>4. ASSUME NEW c \in Conns, Client(c) PROVE IndInv'
  BY <1>4, ConnectStep, AskStep, ReadReplyStep, LeaveStep DEF Client
<1>5. ASSUME NEW c \in Conns, Thread(c) PROVE IndInv'
  <2>1. CASE DecodeEnd(c)
    <3>1. th[c].pc # "none"
      BY <2>1 DEF DecodeEnd
    <3> QED
      BY <2>1, <3>1, EndStep DEF DecodeEnd
  <2> QED
    BY <1>5, <2>1, DecodeStep, DbConnectStep, QueryStep, QueryFailsStep, QueryCrashesStep,
       SendStep, SendEndsStep, SendKillsStep, CheckStep DEF Thread
<1>6. CASE UNCHANGED vars
  BY <1>6 DEF vars, process, network, history, IndInv, TypeOK, PlaceInv, LeakInv, ThreadInv,
     GreetInv, DebtInv, NoDescriptorLost, KilledByLeaver,
     Working, Connected, Queued
<1> QED
  BY <1>1, <1>2, <1>3, <1>4, <1>5, <1>6 DEF Next

\* The invariant holds in every state.
LEMMA Invariant == Spec => []IndInv
BY InitInv, NextInv, PTL DEF Spec

-----------------------------------------------------------------------------
(* The limits: descriptors and database connections.                       *)

\* There are no more open connections than descriptors.
LimitInv == Cardinality(open) <= MaxFds

\* Only accept opens a descriptor, and only while there is one left.
LEMMA LimitNext ==
    ASSUME IndInv, LimitInv, [Next]_vars
    PROVE  LimitInv'
<1>1. IsFiniteSet(open) /\ Cardinality(open) \in Nat /\ MaxFds \in Nat
  <2>1. open \in SUBSET Conns /\ IsFiniteSet(Conns)
    BY ServerAssumption DEF IndInv, TypeOK
  <2>2. IsFiniteSet(open)
    BY <2>1, FS_Subset, Zenon
  <2> QED
    BY <2>2, FS_CardinalityType, ServerAssumption
<1>2. CASE Accept
  <2>1. Cardinality(open) < MaxFds /\ open' = open \cup {Head(queue)}
    BY <1>2 DEF Accept
  <2>2. Cardinality(open \cup {Head(queue)}) \in {Cardinality(open), Cardinality(open) + 1}
    BY <1>1, FS_AddElement
  <2> QED
    BY <1>1, <2>1, <2>2 DEF LimitInv
<1>3. CASE open' \subseteq open
  <2>1. open' \in SUBSET open
    BY <1>3
  <2>2. IsFiniteSet(open') /\ Cardinality(open') <= Cardinality(open)
    BY <1>1, <2>1, FS_Subset, Zenon
  <2>3. Cardinality(open') \in Nat
    BY <2>2, FS_CardinalityType
  <2> QED
    BY <1>1, <2>2, <2>3 DEF LimitInv
<1>4. CASE Start \/ LingerEnds \/ Spawn \/ UNCHANGED vars
  <2>1. open' \subseteq open
    BY <1>4 DEF Start, LingerEnds, Spawn, vars, process
  <2> QED
    BY <1>3, <2>1
<1>5. ASSUME NEW c \in Conns, Client(c) PROVE open' \subseteq open
  BY <1>5 DEF Client, Connect, Ask, ReadReply, Leave, process
<1>6. ASSUME NEW c \in Conns, Thread(c) PROVE open' \subseteq open
  <2>1. ASSUME NEW ends, Finish(c, ends) PROVE open' \subseteq open
    BY <2>1 DEF Finish
  <2>2. CASE QueryCrashes(c) \/ SendKills(c)
    BY <2>2 DEF QueryCrashes, SendKills, Die
  <2>3. CASE Decode(c) \/ DecodeEnd(c)
    BY <2>1, <2>3 DEF Decode, DecodeEnd
  <2>4. CASE Query(c) \/ SendEnds(c) \/ Check(c)
    BY <2>1, <2>4 DEF Query, Answer, SendEnds, Check
  <2>5. CASE DbConnect(c) \/ QueryFails(c) \/ Send(c)
    BY <2>5 DEF DbConnect, QueryFails, Send
  <2> QED
    BY <1>6, <2>2, <2>3, <2>4, <2>5 DEF Thread
<1> QED
  BY <1>2, <1>3, <1>4, <1>5, <1>6 DEF Next, Main

\* A thread that is not at its statements leaves a descriptor to it, which the
\* others cannot use to ask for a database connection.
LEMMA QueryingOthers ==
    ASSUME IndInv, LimitInv, NEW c \in Conns, th[c].pc = "connect"
    PROVE  Cardinality(Querying) \in Nat /\ Cardinality(Querying) <= MaxFds - 1
<1>1. open \in SUBSET Conns /\ IsFiniteSet(Conns)
  BY ServerAssumption DEF IndInv, TypeOK
<1>2. IsFiniteSet(open)
  BY <1>1, FS_Subset, Zenon
<1>3. c \in open /\ Cardinality(open) \in Nat
  BY <1>2, OfOne, FS_CardinalityType
<1>4. IsFiniteSet(open \ {c}) /\ Cardinality(open \ {c}) = Cardinality(open) - 1
  BY <1>2, <1>3, FS_RemoveElement
<1>5. Querying \in SUBSET (open \ {c})
  <2>1. ASSUME NEW d \in Querying PROVE d \in open /\ d # c
    BY OfOne DEF Querying
  <2> QED
    BY <2>1
<1>6. IsFiniteSet(Querying) /\ Cardinality(Querying) <= Cardinality(open \ {c})
  BY <1>4, <1>5, FS_Subset, Zenon
<1>7. Cardinality(Querying) \in Nat
  BY <1>6, FS_CardinalityType
<1> QED
  BY <1>3, <1>4, <1>6, <1>7, ServerAssumption DEF LimitInv

\* The database refuses a connection only when those of failed statements have
\* left too few for the sessions there are descriptors for.
LEMMA RefusedNext ==
    ASSUME IndInv, LimitInv, RefusedAfterFailures, [Next]_vars
    PROVE  RefusedAfterFailures'
<1>1. /\ leaked \in Nat /\ sqlFails \in Nat /\ leaked <= sqlFails
      /\ MaxDb \in Nat /\ MaxFds \in Nat
  BY ServerAssumption DEF IndInv, TypeOK, LeakInv
<1>2. CASE refused' = refused /\ sqlFails' = sqlFails
  BY <1>2 DEF RefusedAfterFailures
<1>3. CASE Start
  BY <1>3 DEF Start, RefusedAfterFailures
<1>4. ASSUME NEW c \in Conns, DbConnect(c) PROVE RefusedAfterFailures'
  <2>1. /\ th[c].pc = "connect" /\ sqlFails' = sqlFails
        /\ refused' = refused
             \/ refused' = (refused \/ Cardinality(Querying) + leaked >= MaxDb)
    BY <1>4 DEF DbConnect
  <2>2. Cardinality(Querying) \in Nat /\ Cardinality(Querying) <= MaxFds - 1
    BY <2>1, QueryingOthers
  <2>3. Cardinality(Querying) + leaked >= MaxDb => sqlFails >= MaxDb + 1 - MaxFds
    BY <1>1, <2>2
  <2> QED
    BY <2>1, <2>3 DEF RefusedAfterFailures
<1>5. ASSUME NEW c \in Conns, QueryFails(c) PROVE RefusedAfterFailures'
  <2>1. refused' = refused /\ sqlFails' = sqlFails + 1
    BY <1>5 DEF QueryFails
  <2> QED
    BY <1>1, <2>1 DEF RefusedAfterFailures
<1>6. CASE LingerEnds \/ Main \/ UNCHANGED vars
  <2>1. refused' = refused /\ sqlFails' = sqlFails
    BY <1>6 DEF LingerEnds, Main, Accept, Spawn, vars, history
  <2> QED
    BY <1>2, <2>1
<1>7. ASSUME NEW c \in Conns, Client(c) PROVE refused' = refused /\ sqlFails' = sqlFails
  BY <1>7 DEF Client, Connect, Ask, ReadReply, Leave, history
<1>8. ASSUME NEW c \in Conns,
             \/ Decode(c) \/ DecodeEnd(c) \/ Query(c) \/ QueryCrashes(c)
             \/ Send(c) \/ SendEnds(c) \/ SendKills(c) \/ Check(c)
      PROVE  refused' = refused /\ sqlFails' = sqlFails
  BY <1>8 DEF Decode, DecodeEnd, Query, QueryCrashes, Send, SendEnds, SendKills, Check, Die,
     history
<1> QED
  BY <1>2, <1>3, <1>4, <1>5, <1>6, <1>7, <1>8 DEF Next, Thread

\* Both hold in every state.
LEMMA Limits == Spec => [](LimitInv /\ RefusedAfterFailures)
<1>1. Init => LimitInv /\ RefusedAfterFailures
  <2>1. Cardinality({}) = 0
    BY FS_EmptySet
  <2> QED
    BY <2>1, ServerAssumption DEF Init, LimitInv, RefusedAfterFailures
<1>2. IndInv /\ (LimitInv /\ RefusedAfterFailures) /\ [Next]_vars
        => (LimitInv /\ RefusedAfterFailures)'
  BY LimitNext, RefusedNext
<1> QED
  BY <1>1, <1>2, Invariant, PTL DEF Spec

-----------------------------------------------------------------------------
(* The theorems.                                                           *)

\* No early return, exception or failed pthread_create of main or of
\* clientConnectStart forgets its socket, however many clients come and
\* whatever they do: an open descriptor is main's or a running thread's.
THEOREM SocketsAreOwned == Spec => []NoDescriptorLost
<1>1. IndInv => NoDescriptorLost
  BY DEF IndInv
<1> QED
  BY Invariant, <1>1, PTL

\* The database refuses a connection for their number only after statements
\* have failed: delete con gives back those of every session that succeeds,
\* and no more connections are at statements than there are descriptors.
THEOREM ConnectionsGivenBack == Spec => []RefusedAfterFailures
BY Limits, PTL

\* One sock->send to a client that is gone is always survived: SIGPIPE ends the
\* process only if two replies or more were still to come when it left.
THEOREM OneReplySurvived == Spec => []KilledByLeaver
<1>1. IndInv => KilledByLeaver
  BY DEF IndInv
<1> QED
  BY Invariant, <1>1, PTL
=============================================================================
