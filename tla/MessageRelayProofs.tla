------------------------- MODULE MessageRelayProofs -------------------------
(***************************************************************************)
(* Proofs of the properties of MessageRelay for every set of users and     *)
(* texts, every skew of their clocks, every length of a second and of the  *)
(* wait between polls, and every bound.                                    *)
(***************************************************************************)
EXTENDS MessageRelay, TLAPS

-----------------------------------------------------------------------------
(* Numbers and records.                                                    *)

\* The constants that are numbers.
LEMMA Numbers ==
    /\ TicksPerSecond \in Nat /\ TicksPerSecond > 0
    /\ Wait \in Nat /\ MaxTime \in Nat /\ MaxSends \in Nat /\ MaxFaults \in Nat
    /\ \A u \in Users : Skew[u] \in Nat
BY TimeAssumption, UsersAssumption

\* Whole seconds are numbers and follow the order of time.
LEMMA Seconds ==
    /\ \A a \in Nat : Second(a) \in Nat
    /\ \A a, b \in Nat : a <= b => Second(a) <= Second(b)
<1>1. ASSUME NEW a \in Nat, NEW b \in Nat, a <= b, NEW n \in Nat, n > 0
      PROVE  a \div n <= b \div n /\ a \div n \in Nat
  BY <1>1
<1>2. TicksPerSecond \in Nat /\ TicksPerSecond > 0
  BY Numbers
<1> QED
  BY <1>1, <1>2 DEF Second

\* The clock of a client is a number, and so is the time.
LEMMA Clocks == TypeOK => now \in Nat /\ \A u \in Users : Clock(u) \in Nat
<1> SUFFICES ASSUME TypeOK PROVE now \in Nat /\ \A u \in Users : Clock(u) \in Nat
  OBVIOUS
<1>1. now \in Nat
  BY Numbers DEF TypeOK
<1>2. ASSUME NEW u \in Users PROVE Clock(u) \in Nat
  <2>1. Skew[u] \in Nat
    BY UsersAssumption
  <2> QED
    BY <1>1, <2>1 DEF Clock
<1> QED
  BY <1>1, <1>2

\* Nothing has come to a client, and what was sent stays: what clients have
\* seen is as good as before.
LEMMA SeenKept ==
    ASSUME SeenInv, toClient' = toClient, shown' = shown,
           \A k \in DOMAIN sent : k \in DOMAIN sent' /\ sent'[k] = sent[k]
    PROVE  SeenInv'
<1>1. ASSUME NEW u \in Users, NEW x, Faithful(u, x) /\ InWindow(x)
      PROVE  (Faithful(u, x) /\ InWindow(x))'
  <2>1. x.key \in DOMAIN sent' /\ sent'[x.key] = sent[x.key]
    BY <1>1, ZenonT(30) DEF Faithful
  <2>2. Faithful(u, x)'
    BY <1>1, <2>1, ZenonT(30) DEF Faithful
  <2>3. InWindow(x)'
    BY <1>1, <2>1, ZenonT(30) DEF InWindow, Second
  <2> QED
    BY <2>2, <2>3
<1> SUFFICES ASSUME NEW u \in Users
             PROVE  /\ \A i \in DOMAIN toClient'[u] :
                         (Faithful(u, toClient[u][i]) /\ InWindow(toClient[u][i]))'
                    /\ \A x \in shown'[u] : (Faithful(u, x) /\ InWindow(x))'
  BY DEF SeenInv
<1>2. ASSUME NEW i \in DOMAIN toClient'[u]
      PROVE  (Faithful(u, toClient[u][i]) /\ InWindow(toClient[u][i]))'
  <2>1. PICK x : x = toClient[u][i] /\ x = toClient'[u][i]
    OBVIOUS
  <2>2. Faithful(u, x) /\ InWindow(x)
    BY <2>1, ZenonT(30) DEF SeenInv
  <2>3. (Faithful(u, x) /\ InWindow(x))'
    BY <1>1, <2>2
  <2> QED
    BY <2>1, <2>3, ZenonT(30) DEF Faithful, InWindow, Second
<1>3. ASSUME NEW x \in shown'[u] PROVE (Faithful(u, x) /\ InWindow(x))'
  <2>1. Faithful(u, x) /\ InWindow(x)
    BY ZenonT(30) DEF SeenInv
  <2> QED
    BY <1>1, <2>1
<1> QED
  BY <1>2, <1>3

-----------------------------------------------------------------------------
(* One client's stream grows at its end and loses its head.                *)

\* Appending keeps what is in the stream and adds one element.
LEMMA AppendAt ==
    ASSUME NEW T, NEW f \in [Users -> Seq(T)], NEW u \in Users, NEW x \in T, NEW g,
           g = [f EXCEPT ![u] = Append(@, x)]
    PROVE  /\ g \in [Users -> Seq(T)]
           /\ \A w \in Users : w # u => g[w] = f[w]
           /\ DOMAIN g[u] = DOMAIN f[u] \cup {Len(f[u]) + 1}
           /\ \A i \in DOMAIN f[u] : g[u][i] = f[u][i] /\ i < Len(f[u]) + 1
           /\ g[u][Len(f[u]) + 1] = x
<1>1. f[u] \in Seq(T) /\ g[u] = Append(f[u], x)
  OBVIOUS
<1>2. /\ Append(f[u], x) \in Seq(T)
      /\ DOMAIN Append(f[u], x) = DOMAIN f[u] \cup {Len(f[u]) + 1}
      /\ \A i \in DOMAIN f[u] : Append(f[u], x)[i] = f[u][i] /\ i < Len(f[u]) + 1
      /\ Append(f[u], x)[Len(f[u]) + 1] = x
  BY <1>1
<1> QED
  BY <1>1, <1>2

\* Taking the head moves every other element one place.
LEMMA TailAt ==
    ASSUME NEW T, NEW f \in [Users -> Seq(T)], NEW u \in Users, f[u] # << >>, NEW g,
           g = [f EXCEPT ![u] = Tail(@)]
    PROVE  /\ g \in [Users -> Seq(T)]
           /\ \A w \in Users : w # u => g[w] = f[w]
           /\ Head(f[u]) \in T
           /\ 1 \in DOMAIN f[u] /\ f[u][1] = Head(f[u])
           /\ \A i \in DOMAIN g[u] :
                i \in Nat /\ i >= 1 /\ i + 1 \in DOMAIN f[u] /\ g[u][i] = f[u][i + 1]
           /\ \A i \in DOMAIN f[u] : i # 1 =>
                i \in Nat /\ 1 < i /\ i - 1 \in DOMAIN g[u] /\ g[u][i - 1] = f[u][i]
<1>1. f[u] \in Seq(T) /\ g[u] = Tail(f[u])
  OBVIOUS
<1>2. /\ Tail(f[u]) \in Seq(T) /\ Head(f[u]) \in T
      /\ 1 \in DOMAIN f[u] /\ f[u][1] = Head(f[u])
      /\ \A i \in DOMAIN Tail(f[u]) :
           i \in Nat /\ i >= 1 /\ i + 1 \in DOMAIN f[u] /\ Tail(f[u])[i] = f[u][i + 1]
      /\ \A i \in DOMAIN f[u] : i # 1 =>
           i \in Nat /\ 1 < i /\ i - 1 \in DOMAIN Tail(f[u])
             /\ Tail(f[u])[i - 1] = f[u][i]
  BY <1>1
<1> QED
  BY <1>1, <1>2

\* What the types say of a row.
LEMMA RowTypes ==
    TypeOK => \A r \in transactions :
        /\ r.to \in Users /\ r.from \in Users /\ r.time \in Nat /\ r.after \in Nat
        /\ r.key \in Keys /\ r.id \in DOMAIN messages /\ r.key \in DOMAIN sent
BY DEF TypeOK, Rows

\* What the types say of the times noted.
LEMMA NotedTypes ==
    TypeOK => \A u \in Users :
        /\ polled[u] \in Nat /\ answered[u] \in Nat /\ noted[u] \in Seq(Nat)
        /\ Len(noted[u]) \in Nat /\ DOMAIN noted[u] = 1 .. Len(noted[u])
<1> SUFFICES ASSUME TypeOK, NEW u \in Users
             PROVE  /\ polled[u] \in Nat /\ answered[u] \in Nat /\ noted[u] \in Seq(Nat)
                    /\ Len(noted[u]) \in Nat /\ DOMAIN noted[u] = 1 .. Len(noted[u])
  OBVIOUS
<1>1. polled[u] \in Nat /\ answered[u] \in Nat /\ noted[u] \in Seq(Nat)
  BY DEF TypeOK
<1> QED
  BY <1>1

\* Nothing was polled, noted or asked: the times noted fit the requests.
LEMMA NotedKept ==
    ASSUME NotedInv, UNCHANGED <<toServer, poller, lastPollTime, polled, noted>>
    PROVE  NotedInv'
BY DEF NotedInv

\* No row was stored and no poll answered, and every row that had reached its
\* recipient still has, unless the recipient's session or reader has ended.
LEMMA OutcomeKept ==
    ASSUME OutcomeInv,
           UNCHANGED <<transactions, answered, noted>>, skipped \subseteq skipped',
           \A r \in transactions :
               /\ Reached(r) => Reached(r)' \/ pc'[r.to] = "closed" \/ ~reading'[r.to]
               /\ pc[r.to] = "closed" => pc'[r.to] = "closed"
               /\ reading'[r.to] => reading[r.to]
    PROVE  OutcomeInv'
<1>1. ASSUME NEW r \in transactions PROVE Overtaken(r) => Overtaken(r)'
  BY DEF Overtaken, Second
<1> QED
  BY <1>1 DEF OutcomeInv

-----------------------------------------------------------------------------
(* The initial state.                                                      *)

\* The logged-in clients start with empty streams and tables.
LEMMA InitInv == Init => IndInv
<1> SUFFICES ASSUME Init PROVE IndInv
  OBVIOUS
<1>1. TypeOK
  BY Numbers DEF Init, TypeOK, Clock, NoJob, Places
<1>2. RequestInv /\ JobInv /\ RowInv /\ BatchInv /\ SeenInv /\ EndsOnLongOnly
      /\ OutcomeInv
  BY DEF Init, RequestInv, JobInv, RowInv, BatchInv, SeenInv, EndsOnLongOnly,
         OutcomeInv
<1>3. NotedInv
  <2> SUFFICES ASSUME NEW u \in Users
               PROVE  /\ Len(noted[u]) = polled[u] + 1
                      /\ noted[u][Len(noted[u])] = lastPollTime[u]
                      /\ poller[u] = "wait" /\ DOMAIN toServer[u] = {}
    BY DEF NotedInv
  <2>1. /\ noted[u] = <<Clock(u)>> /\ lastPollTime[u] = Clock(u) /\ polled[u] = 0
        /\ poller[u] = "wait" /\ toServer[u] = << >>
    BY DEF Init
  <2> QED
    BY <2>1
<1> QED
  BY <1>1, <1>2, <1>3 DEF IndInv

-----------------------------------------------------------------------------
(* The steps of the clients.                                               *)

\* A text sent is appended to the texts and to one stream of requests.
LEMMA SendStep ==
    ASSUME IndInv, NEW u \in Users, NEW to \in Users \cup Strangers,
           NEW t \in Texts, Send(u, to, t)
    PROVE  IndInv'
<1> DEFINE m == [from |-> u, to |-> to, text |-> t, stamp |-> Clock(u)]
           q == Store(Len(sent) + 1)
<1> USE DEF IndInv
<1>1. /\ UNCHANGED <<now, poller, lastPollTime, reading, shown, toClient, pc, job,
                     batch, messages, transactions, polled, noted, answered, skipped,
                     faults>>
      /\ sent' = Append(sent, m) /\ Len(sent) < MaxSends
      /\ toServer' = [toServer EXCEPT ![u] = Append(@, q)]
  BY DEF Send, readers, threads, database, history
<1>2. sent \in Seq(Sent) /\ m \in Sent /\ q \in Requests
  <2>1. Clock(u) \in Nat
    BY Clocks
  <2>2. sent \in Seq(Sent) /\ Len(sent) + 1 \in Nat
    BY DEF TypeOK
  <2> QED
    BY <2>1, <2>2 DEF Sent, Store, Requests
<1>3. /\ sent' \in Seq(Sent) /\ Len(sent') = Len(sent) + 1
      /\ DOMAIN sent' = DOMAIN sent \cup {Len(sent) + 1}
      /\ \A k \in DOMAIN sent : sent'[k] = sent[k]
      /\ sent'[Len(sent) + 1] = m
  <2> HIDE DEF m
  <2> QED
    BY <1>1, <1>2
<1>4. /\ toServer' \in [Users -> Seq(Requests)]
      /\ \A w \in Users : w # u => toServer'[w] = toServer[w]
      /\ DOMAIN toServer'[u] = DOMAIN toServer[u] \cup {Len(toServer[u]) + 1}
      /\ \A i \in DOMAIN toServer[u] : toServer'[u][i] = toServer[u][i]
      /\ toServer'[u][Len(toServer[u]) + 1] = q
  <2> HIDE DEF q
  <2>1. toServer \in [Users -> Seq(Requests)]
    BY DEF TypeOK
  <2>2. toServer' = [toServer EXCEPT ![u] = Append(@, q)]
    BY <1>1
  <2> QED
    BY <1>2, <2>1, <2>2, AppendAt
<1>5. TypeOK'
  <2> HIDE DEF m, q
  <2>1. Len(sent') <= MaxSends
    BY <1>1, <1>2, <1>3, Numbers
  <2> QED
    BY <1>1, <1>3, <1>4, <2>1 DEF TypeOK
<1>6. RequestInv' /\ NotedInv'
  <2>1. ASSUME NEW w \in Users, NEW n \in answered[w] + 1 .. polled[w]
        PROVE  \E i \in DOMAIN toServer'[w] :
                   toServer'[w][i].type = "Poll" /\ toServer'[w][i].key = n
    <3>1. PICK i \in DOMAIN toServer[w] :
             toServer[w][i].type = "Poll" /\ toServer[w][i].key = n
      BY DEF RequestInv
    <3>2. i \in DOMAIN toServer'[w] /\ toServer'[w][i] = toServer[w][i]
      BY <1>4
    <3> QED
      BY <3>1, <3>2
  <2>2. /\ q.type = "PollResponse" /\ q.key = Len(sent) + 1
        /\ Len(toServer[u]) \in Nat /\ DOMAIN toServer[u] = 1 .. Len(toServer[u])
    BY DEF Store, TypeOK
  <2> HIDE DEF q
  <2>3. RequestInv'
    BY <1>1, <1>3, <1>4, <2>1, <2>2 DEF RequestInv
  <2>4. NotedInv'
    <3>1. ASSUME NEW w \in Users, NEW i \in DOMAIN toServer'[w], toServer'[w][i].type = "Poll"
          PROVE  toServer'[w][i].since = noted[w][toServer'[w][i].key]
      <4>1. i \in DOMAIN toServer[w] /\ toServer'[w][i] = toServer[w][i]
        BY <1>4, <2>2, <3>1
      <4> QED
        BY <3>1, <4>1 DEF NotedInv
    <3> QED
      BY <1>1, <3>1 DEF NotedInv
  <2> QED
    BY <2>3, <2>4
<1>7. JobInv'
  BY <1>1, <1>3 DEF JobInv
<1>8. RowInv'
  <2>1. \A r \in transactions : r.key \in DOMAIN sent
    BY DEF TypeOK
  <2>2. m.stamp <= now + Skew[m.from]
    <3>1. Clock(u) \in Nat /\ now \in Nat /\ Skew[u] \in Nat
      BY Clocks, UsersAssumption
    <3> QED
      BY <3>1 DEF Clock
  <2> HIDE DEF m
  <2> QED
    BY <1>1, <1>3, <2>1, <2>2 DEF RowInv, Second
<1>9. BatchInv'
  BY <1>1 DEF BatchInv, Second
<1>10. SeenInv'
  BY <1>1, <1>3, SeenKept
<1>11. EndsOnLongOnly'
  BY <1>1, <1>3 DEF EndsOnLongOnly
<1>12. OutcomeInv'
  BY <1>1, OutcomeKept DEF Reached
<1> QED
  BY <1>5, <1>6, <1>7, <1>8, <1>9, <1>10, <1>11, <1>12

\* The next poll has the next number, and asks from a second before that of
\* every fresh row it is the first to ask for.
LEMMA SendPollStep ==
    ASSUME IndInv, NEW u \in Users, SendPoll(u)
    PROVE  IndInv'
<1> DEFINE q == Poll(polled[u] + 1, lastPollTime[u])
<1> USE DEF IndInv
<1>1. /\ UNCHANGED <<now, sent, lastPollTime, reading, shown, toClient, pc, job,
                     batch, messages, transactions, noted, answered, skipped,
                     faults>>
      /\ toServer' = [toServer EXCEPT ![u] = Append(@, q)]
      /\ poller' = [poller EXCEPT ![u] = "sent"]
      /\ polled' = [polled EXCEPT ![u] = @ + 1]
  BY DEF SendPoll, readers, threads, database
<1>2. /\ q.type = "Poll" /\ q.key = polled[u] + 1 /\ q.since = lastPollTime[u]
      /\ q \in Requests
  BY DEF TypeOK, Poll, Requests
<1> HIDE DEF q
<1>3. /\ toServer' \in [Users -> Seq(Requests)]
      /\ \A w \in Users : w # u => toServer'[w] = toServer[w]
      /\ DOMAIN toServer'[u] = DOMAIN toServer[u] \cup {Len(toServer[u]) + 1}
      /\ \A i \in DOMAIN toServer[u] :
           toServer'[u][i] = toServer[u][i] /\ i < Len(toServer[u]) + 1
      /\ toServer'[u][Len(toServer[u]) + 1] = q
  <2>1. toServer \in [Users -> Seq(Requests)]
    BY DEF TypeOK
  <2>2. toServer' = [toServer EXCEPT ![u] = Append(@, q)]
    BY <1>1
  <2> QED
    BY <1>2, <2>1, <2>2, AppendAt
<1>4. TypeOK'
  <2>1. polled' \in [Users -> Nat] /\ poller' \in [Users -> {"wait", "sent"}]
    BY <1>1, SMTT(30) DEF TypeOK
  <2> QED
    BY <1>1, <1>3, <2>1 DEF TypeOK
<1>5. RequestInv'
  <2>1. /\ polled'[u] = polled[u] + 1 /\ polled[u] \in Nat /\ answered[u] \in Nat
        /\ \A w \in Users : w # u => polled'[w] = polled[w]
        /\ Len(toServer[u]) \in Nat
        /\ \A i \in DOMAIN toServer[u] : toServer[u][i].key \in Nat /\ i \in Nat
    <3>1. polled \in [Users -> Nat] /\ answered \in [Users -> Nat]
      BY DEF TypeOK
    <3>2. toServer[u] \in Seq(Requests)
      BY DEF TypeOK
    <3>3. Len(toServer[u]) \in Nat /\ DOMAIN toServer[u] = 1 .. Len(toServer[u])
      BY <3>2
    <3>4. \A i \in DOMAIN toServer[u] : toServer[u][i] \in Requests
      BY <3>2
    <3>5. \A i \in DOMAIN toServer[u] : toServer[u][i].key \in Nat
      BY <3>4 DEF Requests
    <3> QED
      BY <1>1, <3>1, <3>3, <3>5
  <2>2. ASSUME NEW w \in Users, w # u
        PROVE  /\ answered[w] <= polled'[w]
               /\ \A i \in DOMAIN toServer'[w] :
                    IF toServer'[w][i].type = "Poll"
                    THEN answered[w] < toServer'[w][i].key /\ toServer'[w][i].key <= polled'[w]
                    ELSE toServer'[w][i].key \in DOMAIN sent
               /\ \A i, j \in DOMAIN toServer'[w] :
                    i < j /\ toServer'[w][i].type = "Poll" /\ toServer'[w][j].type = "Poll"
                        => toServer'[w][i].key < toServer'[w][j].key
    BY <1>3, <2>1, <2>2 DEF RequestInv
  <2>3. answered[u] <= polled'[u]
    BY <2>1 DEF RequestInv
  <2>4. \A i \in DOMAIN toServer'[u] :
          IF toServer'[u][i].type = "Poll"
          THEN answered[u] < toServer'[u][i].key /\ toServer'[u][i].key <= polled'[u]
          ELSE toServer'[u][i].key \in DOMAIN sent
    BY <1>2, <1>3, <2>1, SMTT(30) DEF RequestInv
  <2>5. \A i, j \in DOMAIN toServer'[u] :
          i < j /\ toServer'[u][i].type = "Poll" /\ toServer'[u][j].type = "Poll"
              => toServer'[u][i].key < toServer'[u][j].key
    BY <1>2, <1>3, <2>1, SMTT(30) DEF RequestInv
  <2>6. ASSUME NEW w \in Users, NEW n \in answered[w] + 1 .. polled'[w]
        PROVE  \E i \in DOMAIN toServer'[w] :
                   toServer'[w][i].type = "Poll" /\ toServer'[w][i].key = n
    <3>1. CASE n \in answered[w] + 1 .. polled[w]
      <4>1. PICK i \in DOMAIN toServer[w] :
               toServer[w][i].type = "Poll" /\ toServer[w][i].key = n
        BY <3>1 DEF RequestInv
      <4>2. i \in DOMAIN toServer'[w] /\ toServer'[w][i] = toServer[w][i]
        BY <1>3
      <4> QED
        BY <4>1, <4>2
    <3>2. CASE w = u /\ n = polled[u] + 1
      BY <1>2, <1>3, <3>2
    <3>3. answered[w] \in Nat /\ polled[w] \in Nat
      BY NotedTypes
    <3> QED
      BY <2>1, <3>1, <3>2, <3>3
  <2> QED
    <3>1. ASSUME NEW w \in Users
          PROVE  /\ answered[w] <= polled'[w]
                 /\ \A i \in DOMAIN toServer'[w] :
                      IF toServer'[w][i].type = "Poll"
                      THEN answered[w] < toServer'[w][i].key
                           /\ toServer'[w][i].key <= polled'[w]
                      ELSE toServer'[w][i].key \in DOMAIN sent
                 /\ \A i, j \in DOMAIN toServer'[w] :
                      i < j /\ toServer'[w][i].type = "Poll"
                            /\ toServer'[w][j].type = "Poll"
                          => toServer'[w][i].key < toServer'[w][j].key
      <4>1. CASE w = u
        BY <2>3, <2>4, <2>5, <4>1
      <4>2. CASE w # u
        BY <2>2, <4>2
      <4> QED
        BY <4>1, <4>2
    <3> QED
      BY <1>1, <2>6, <3>1 DEF RequestInv
<1>6. JobInv' /\ EndsOnLongOnly'
  BY <1>1 DEF JobInv, EndsOnLongOnly
<1>7. RowInv' /\ BatchInv'
  BY <1>1 DEF RowInv, BatchInv, Second
<1>8. SeenInv'
  BY <1>1, SeenKept
<1>9. OutcomeInv'
  BY <1>1, OutcomeKept DEF Reached
<1>10. NotedInv'
  <2>1. /\ Len(noted[u]) = polled[u] + 1 /\ noted[u][Len(noted[u])] = lastPollTime[u]
        /\ poller'[u] = "sent" /\ polled'[u] = polled[u] + 1
    BY <1>1, NotedTypes DEF NotedInv, SendPoll, TypeOK
  <2>2. \A w \in Users : w # u => poller'[w] = poller[w] /\ polled'[w] = polled[w]
    BY <1>1 DEF TypeOK
  <2>3. q.since = noted[u][q.key]
    BY <1>2, <2>1
  <2>4. ASSUME NEW w \in Users, NEW i \in DOMAIN toServer'[w], toServer'[w][i].type = "Poll"
        PROVE  toServer'[w][i].since = noted[w][toServer'[w][i].key]
    <3>1. CASE i \in DOMAIN toServer[w]
      <4>1. toServer'[w][i] = toServer[w][i]
        BY <1>3, <3>1
      <4> QED
        BY <2>4, <3>1, <4>1 DEF NotedInv
    <3>2. CASE w = u /\ i = Len(toServer[u]) + 1
      BY <1>3, <2>3, <3>2
    <3> QED
      BY <1>3, <3>1, <3>2
  <2>5. ASSUME NEW w \in Users
        PROVE  /\ Len(noted[w]) = polled'[w] + (IF poller'[w] = "wait" THEN 1 ELSE 0)
               /\ noted[w][Len(noted[w])] = lastPollTime[w]
    <3>1. CASE w = u
      BY <2>1, <3>1, NotedTypes
    <3>2. CASE w # u
      BY <2>2, <3>2 DEF NotedInv
    <3> QED
      BY <3>1, <3>2
  <2> QED
    BY <1>1, <2>4, <2>5 DEF NotedInv
<1> QED
  BY <1>4, <1>5, <1>6, <1>7, <1>8, <1>9, <1>10

\* The time noted is for the next poll; what was noted for earlier ones stays.
LEMMA NotePollTimeStep ==
    ASSUME IndInv, NEW u \in Users, NotePollTime(u)
    PROVE  IndInv'
<1> USE DEF IndInv
<1>1. /\ UNCHANGED <<now, sent, toServer, reading, shown, toClient, pc, job,
                     batch, messages, transactions, polled, answered, skipped,
                     faults>>
      /\ poller[u] = "sent" /\ poller' = [poller EXCEPT ![u] = "wait"]
      /\ lastPollTime' = [lastPollTime EXCEPT ![u] = Clock(u)]
      /\ noted' = [noted EXCEPT ![u] = Append(@, Clock(u))]
  BY DEF NotePollTime, readers, threads, database
<1>2. Clock(u) \in Nat /\ noted \in [Users -> Seq(Nat)]
  BY Clocks DEF TypeOK
<1>3. /\ noted' \in [Users -> Seq(Nat)]
      /\ \A w \in Users : w # u => noted'[w] = noted[w]
      /\ DOMAIN noted'[u] = DOMAIN noted[u] \cup {Len(noted[u]) + 1}
      /\ \A i \in DOMAIN noted[u] : noted'[u][i] = noted[u][i]
      /\ noted'[u][Len(noted[u]) + 1] = Clock(u)
      /\ Len(noted'[u]) = Len(noted[u]) + 1
  <2>1. noted'[u] = Append(noted[u], Clock(u)) /\ noted[u] \in Seq(Nat)
    BY <1>1, <1>2
  <2>2. Len(noted'[u]) = Len(noted[u]) + 1
    BY <1>2, <2>1
  <2> QED
    BY <1>1, <1>2, <2>2, AppendAt
<1>4. TypeOK'
  BY <1>1, <1>2, <1>3 DEF TypeOK
<1>5. RequestInv' /\ JobInv' /\ EndsOnLongOnly'
  BY <1>1 DEF RequestInv, JobInv, EndsOnLongOnly
<1>6. RowInv' /\ BatchInv'
  BY <1>1 DEF RowInv, BatchInv, Second
<1>7. SeenInv'
  BY <1>1, SeenKept
<1>8. Len(noted[u]) = polled[u]
  BY <1>1, NotedTypes DEF NotedInv
<1>9. NotedInv'
  <2>1. \A w \in Users : w # u => poller'[w] = poller[w] /\ lastPollTime'[w] = lastPollTime[w]
    BY <1>1 DEF TypeOK
  <2>2. poller'[u] = "wait" /\ lastPollTime'[u] = Clock(u)
    BY <1>1 DEF TypeOK
  <2>3. ASSUME NEW i \in DOMAIN toServer[u], toServer[u][i].type = "Poll"
        PROVE  noted'[u][toServer[u][i].key] = noted[u][toServer[u][i].key]
    <3>1. toServer[u][i].key \in Nat
      <4>1. toServer[u] \in Seq(Requests)
        BY DEF TypeOK
      <4>2. toServer[u][i] \in Requests
        BY <4>1
      <4> QED
        BY <4>2 DEF Requests
    <3>2. answered[u] < toServer[u][i].key /\ toServer[u][i].key <= polled[u]
      BY <2>3 DEF RequestInv
    <3>3. toServer[u][i].key \in DOMAIN noted[u]
      BY <1>8, <3>1, <3>2, NotedTypes
    <3> QED
      BY <1>3, <3>3
  <2>4. ASSUME NEW w \in Users, NEW i \in DOMAIN toServer[w], toServer[w][i].type = "Poll"
        PROVE  toServer[w][i].since = noted'[w][toServer[w][i].key]
    <3>1. toServer[w][i].since = noted[w][toServer[w][i].key]
      BY <2>4 DEF NotedInv
    <3> QED
      BY <1>3, <2>3, <2>4, <3>1
  <2>5. ASSUME NEW w \in Users
        PROVE  /\ Len(noted'[w]) = polled[w] + (IF poller'[w] = "wait" THEN 1 ELSE 0)
               /\ noted'[w][Len(noted'[w])] = lastPollTime'[w]
    <3>1. CASE w = u
      BY <1>3, <1>8, <2>2, <3>1
    <3>2. CASE w # u
      BY <1>3, <2>1, <3>2 DEF NotedInv
    <3> QED
      BY <3>1, <3>2
  <2>6. polled' = polled /\ toServer' = toServer
    BY <1>1
  <2>7. ASSUME NEW w \in Users
        PROVE  /\ Len(noted'[w]) = polled'[w] + (IF poller'[w] = "wait" THEN 1 ELSE 0)
               /\ noted'[w][Len(noted'[w])] = lastPollTime'[w]
               /\ \A i \in DOMAIN toServer'[w] :
                    toServer'[w][i].type = "Poll" =>
                        toServer'[w][i].since = noted'[w][toServer'[w][i].key]
    BY <2>4, <2>5, <2>6
  <2> QED
    BY <2>7 DEF NotedInv
<1>10. OutcomeInv'
  <2>1. ASSUME NEW r \in transactions, answered[r.to] > r.after
        PROVE  Overtaken(r) => Overtaken(r)'
    <3>1. noted'[r.to][r.after + 1] = noted[r.to][r.after + 1]
      <4>1. CASE r.to # u
        BY <1>3, <4>1, RowTypes
      <4>2. CASE r.to = u
        <5>1. answered[u] <= polled[u]
          BY DEF RequestInv
        <5>2. r.after + 1 \in DOMAIN noted[u]
          BY <1>8, <2>1, <4>2, <5>1, RowTypes, NotedTypes
        <5> QED
          BY <1>3, <4>2, <5>2
      <4> QED
        BY <4>1, <4>2
    <3> QED
      BY <3>1 DEF Overtaken, Second
  <2>2. ASSUME NEW r \in transactions PROVE Reached(r) => Reached(r)'
    BY <1>1 DEF Reached
  <2> QED
    BY <1>1, <2>1, <2>2 DEF OutcomeInv
<1> QED
  BY <1>4, <1>5, <1>6, <1>7, <1>9, <1>10

\* Time passes: stamps stay in their sender's past.
LEMMA TickStep ==
    ASSUME IndInv, Tick
    PROVE  IndInv'
<1> USE DEF IndInv
<1>1. /\ now < MaxTime /\ now' = now + 1
      /\ UNCHANGED <<sent, toServer, poller, lastPollTime, reading, shown, toClient,
                     pc, job, batch, messages, transactions, polled, noted, answered,
                     skipped, faults>>
  BY DEF Tick, clients, readers, threads, database, history
<1>2. TypeOK'
  BY <1>1, Numbers DEF TypeOK
<1>3. RequestInv' /\ JobInv' /\ EndsOnLongOnly' /\ BatchInv'
  BY <1>1 DEF RequestInv, JobInv, EndsOnLongOnly, BatchInv, Second
<1>4. RowInv'
  <2>1. now \in Nat
    BY Clocks
  <2>2. ASSUME NEW k \in DOMAIN sent
        PROVE  sent[k].stamp \in Nat /\ Skew[sent[k].from] \in Nat
    <3>1. sent[k] \in Sent
      BY DEF TypeOK
    <3>2. sent[k].stamp \in Nat /\ sent[k].from \in Users
      BY <3>1 DEF Sent
    <3> QED
      BY <3>2, Numbers
  <2> QED
    BY <1>1, <2>1, <2>2 DEF RowInv, Second
<1>5. SeenInv'
  BY <1>1, SeenKept
<1>6. NotedInv'
  BY <1>1, NotedKept
<1>7. OutcomeInv'
  BY <1>1, OutcomeKept DEF Reached
<1> QED
  BY <1>2, <1>3, <1>4, <1>5, <1>6, <1>7

\* A message shown is one that was on its way; one that cannot be decoded ends
\* the reader.
LEMMA ShowStep ==
    ASSUME IndInv, NEW u \in Users, Show(u)
    PROVE  IndInv'
<1> DEFINE x == Head(toClient[u])
<1> USE DEF IndInv
<1>1. /\ UNCHANGED <<now, sent, toServer, poller, lastPollTime, pc, job, batch,
                     messages, transactions, polled, noted, answered, skipped>>
      /\ toClient[u] # << >> /\ toClient' = [toClient EXCEPT ![u] = Tail(@)]
      /\ \/ /\ shown' = [shown EXCEPT ![u] = @ \cup {x}]
            /\ UNCHANGED <<reading, faults>>
         \/ /\ Fault
            /\ reading' = [reading EXCEPT ![u] = FALSE]
            /\ UNCHANGED shown
  BY DEF Show, clients, threads, database, history
<1>2. /\ toClient' \in [Users -> Seq(Incoming)]
      /\ \A w \in Users : w # u => toClient'[w] = toClient[w]
      /\ x \in Incoming /\ 1 \in DOMAIN toClient[u] /\ toClient[u][1] = x
      /\ \A i \in DOMAIN toClient'[u] :
           i + 1 \in DOMAIN toClient[u] /\ toClient'[u][i] = toClient[u][i + 1]
      /\ \A i \in DOMAIN toClient[u] : i # 1 =>
           i - 1 \in DOMAIN toClient'[u] /\ toClient'[u][i - 1] = toClient[u][i]
  <2>1. toClient \in [Users -> Seq(Incoming)]
    BY DEF TypeOK
  <2>2. toClient[u] # << >> /\ toClient' = [toClient EXCEPT ![u] = Tail(@)]
    BY <1>1
  <2> QED
    BY <2>1, <2>2, TailAt
<1> HIDE DEF x
<1>3. /\ \A w \in Users : shown[w] \subseteq shown'[w]
      /\ \A w \in Users : \A y \in shown'[w] : y \in shown[w] \/ (w = u /\ y = x)
      /\ \A w \in Users : reading'[w] => reading[w]
      /\ x \in shown'[u] \/ ~reading'[u]
      /\ faults' = faults \/ faults' = faults + 1
      /\ shown' \in [Users -> SUBSET Incoming] /\ reading' \in [Users -> BOOLEAN]
      /\ faults' \in 0 .. MaxFaults
  <2>1. /\ shown \in [Users -> SUBSET Incoming] /\ reading \in [Users -> BOOLEAN]
        /\ faults \in 0 .. MaxFaults
    BY DEF TypeOK
  <2>2. CASE shown' = [shown EXCEPT ![u] = @ \cup {x}] /\ UNCHANGED <<reading, faults>>
    BY <1>2, <2>1, <2>2
  <2>3. CASE /\ Fault /\ reading' = [reading EXCEPT ![u] = FALSE]
             /\ UNCHANGED shown
    BY <2>1, <2>3, Numbers DEF Fault
  <2> QED
    BY <1>1, <2>2, <2>3
<1>4. TypeOK'
  BY <1>1, <1>2, <1>3 DEF TypeOK
<1>5. RequestInv' /\ JobInv'
  BY <1>1 DEF RequestInv, JobInv
<1>6. RowInv' /\ BatchInv'
  BY <1>1 DEF RowInv, BatchInv, Second
<1>7. SeenInv'
  <2>1. ASSUME NEW w \in Users, NEW y
        PROVE  /\ Faithful(w, y) => Faithful(w, y)'
               /\ InWindow(y) => InWindow(y)'
    BY <1>1 DEF Faithful, InWindow, Second
  <2>2. Faithful(u, x) /\ InWindow(x)
    BY <1>2 DEF SeenInv
  <2>3. \A w \in Users : \A y \in shown'[w] : Faithful(w, y) /\ InWindow(y)
    BY <1>3, <2>2 DEF SeenInv
  <2>4. \A w \in Users : \A i \in DOMAIN toClient'[w] :
          Faithful(w, toClient'[w][i]) /\ InWindow(toClient'[w][i])
    BY <1>2 DEF SeenInv
  <2> QED
    BY <2>1, <2>3, <2>4 DEF SeenInv
<1>8. EndsOnLongOnly'
  <2>1. faults' = 0 => faults = 0
    BY <1>3 DEF TypeOK
  <2> QED
    BY <1>1, <2>1 DEF EndsOnLongOnly
<1>9. NotedInv'
  BY <1>1, NotedKept
<1>10. OutcomeInv'
  <2>1. ASSUME NEW r \in transactions, Reached(r)
        PROVE  Reached(r)' \/ ~reading'[r.to]
    <3>1. r.to \in Users
      BY RowTypes
    <3>2. CASE r \in batch[r.to]
      BY <1>1, <3>2 DEF Reached
    <3>3. CASE \E y \in shown[r.to] : y.key = r.key
      BY <1>3, <3>1, <3>3 DEF Reached
    <3>4. ASSUME NEW i \in DOMAIN toClient[r.to], toClient[r.to][i].key = r.key
          PROVE  Reached(r)' \/ ~reading'[r.to]
      <4>1. CASE r.to # u
        BY <1>2, <3>1, <3>4, <4>1 DEF Reached
      <4>2. CASE r.to = u /\ i # 1
        BY <1>2, <3>4, <4>2 DEF Reached
      <4>3. CASE r.to = u /\ i = 1
        BY <1>2, <1>3, <3>4, <4>3 DEF Reached
      <4> QED
        BY <4>1, <4>2, <4>3
    <3> QED
      BY <2>1, <3>2, <3>3, <3>4 DEF Reached
  <2> QED
    BY <1>1, <1>3, <2>1, RowTypes, OutcomeKept
<1> QED
  BY <1>4, <1>5, <1>6, <1>7, <1>8, <1>9, <1>10

-----------------------------------------------------------------------------
(* The steps of the server threads.                                        *)

\* What taking a request does to the stream of requests.
LEMMA RequestTaken ==
    ASSUME TypeOK, NEW u \in Users, NEW type, Request(u, type)
    PROVE  /\ pc[u] = "service"
           /\ Head(toServer[u]) \in Requests /\ Head(toServer[u]).type = type
           /\ toServer' \in [Users -> Seq(Requests)]
           /\ \A w \in Users : w # u => toServer'[w] = toServer[w]
           /\ 1 \in DOMAIN toServer[u] /\ toServer[u][1] = Head(toServer[u])
           /\ \A i \in DOMAIN toServer'[u] :
                /\ i \in Nat /\ i >= 1 /\ i + 1 \in DOMAIN toServer[u]
                /\ toServer'[u][i] = toServer[u][i + 1]
           /\ \A i \in DOMAIN toServer[u] : i # 1 =>
                /\ i \in Nat /\ 1 < i /\ i - 1 \in DOMAIN toServer'[u]
                /\ toServer'[u][i - 1] = toServer[u][i]
<1>1. toServer \in [Users -> Seq(Requests)]
  BY DEF TypeOK
<1>2. /\ pc[u] = "service" /\ toServer[u] # << >> /\ Head(toServer[u]).type = type
      /\ toServer' = [toServer EXCEPT ![u] = Tail(@)]
  BY DEF Request
<1>3. toServer[u] # << >> /\ toServer' = [toServer EXCEPT ![u] = Tail(@)]
  BY <1>2
<1>4. /\ toServer' \in [Users -> Seq(Requests)]
      /\ \A w \in Users : w # u => toServer'[w] = toServer[w]
      /\ Head(toServer[u]) \in Requests
      /\ 1 \in DOMAIN toServer[u] /\ toServer[u][1] = Head(toServer[u])
      /\ \A i \in DOMAIN toServer'[u] :
           /\ i \in Nat /\ i >= 1 /\ i + 1 \in DOMAIN toServer[u]
           /\ toServer'[u][i] = toServer[u][i + 1]
      /\ \A i \in DOMAIN toServer[u] : i # 1 =>
           /\ i \in Nat /\ 1 < i /\ i - 1 \in DOMAIN toServer'[u]
           /\ toServer'[u][i - 1] = toServer[u][i]
  BY <1>1, <1>3, TailAt
<1> QED
  BY <1>2, <1>4

\* The requests left keep their order and their numbers, and no poll is left
\* out: the poll taken is the one after the last one answered.
LEMMA RequestsLeft ==
    ASSUME TypeOK, RequestInv, NotedInv, NEW u \in Users, NEW type, Request(u, type),
           UNCHANGED <<sent, polled, noted, poller, lastPollTime>>,
           \A w \in Users : w # u => answered'[w] = answered[w],
           answered'[u] = IF type = "Poll" THEN Head(toServer[u]).key ELSE answered[u]
    PROVE  /\ RequestInv' /\ NotedInv'
           /\ type = "Poll" =>
                /\ Head(toServer[u]).key = answered[u] + 1
                /\ Head(toServer[u]).since = noted[u][answered[u] + 1]
<1>1. /\ Head(toServer[u]).type = type
      /\ \A w \in Users : w # u => toServer'[w] = toServer[w]
      /\ 1 \in DOMAIN toServer[u] /\ toServer[u][1] = Head(toServer[u])
      /\ \A i \in DOMAIN toServer'[u] :
           /\ i \in Nat /\ i >= 1 /\ i + 1 \in DOMAIN toServer[u]
           /\ toServer'[u][i] = toServer[u][i + 1]
      /\ \A i \in DOMAIN toServer[u] : i # 1 =>
           /\ i \in Nat /\ 1 < i /\ i - 1 \in DOMAIN toServer'[u]
           /\ toServer'[u][i - 1] = toServer[u][i]
      /\ Head(toServer[u]).key \in Nat
  BY RequestTaken DEF Requests
<1>2. answered'[u] <= polled[u]
  BY <1>1 DEF RequestInv
<1>3. ASSUME NEW i \in DOMAIN toServer'[u]
      PROVE  IF toServer'[u][i].type = "Poll"
             THEN answered'[u] < toServer'[u][i].key /\ toServer'[u][i].key <= polled[u]
             ELSE toServer'[u][i].key \in DOMAIN sent
  <2>1. /\ 1 < i + 1 /\ i + 1 \in DOMAIN toServer[u]
        /\ toServer'[u][i] = toServer[u][i + 1]
    BY <1>1
  <2> QED
    BY <1>1, <2>1 DEF RequestInv
<1>4. ASSUME NEW i \in DOMAIN toServer'[u], NEW j \in DOMAIN toServer'[u], i < j,
             toServer'[u][i].type = "Poll", toServer'[u][j].type = "Poll"
      PROVE  toServer'[u][i].key < toServer'[u][j].key
  <2>1. /\ i + 1 < j + 1 /\ i + 1 \in DOMAIN toServer[u] /\ j + 1 \in DOMAIN toServer[u]
        /\ toServer'[u][i] = toServer[u][i + 1] /\ toServer'[u][j] = toServer[u][j + 1]
    BY <1>1, <1>4
  <2> QED
    BY <1>4, <2>1 DEF RequestInv
<1>5. answered[u] \in Nat /\ polled[u] \in Nat
  BY NotedTypes
<1>6. type = "Poll" => Head(toServer[u]).key = answered[u] + 1
  <2> SUFFICES ASSUME type = "Poll" PROVE Head(toServer[u]).key = answered[u] + 1
    OBVIOUS
  <2>1. answered[u] < Head(toServer[u]).key /\ Head(toServer[u]).key <= polled[u]
    BY <1>1 DEF RequestInv
  <2>2. answered[u] + 1 \in answered[u] + 1 .. polled[u]
    BY <1>1, <1>5, <2>1
  <2>3. PICK i \in DOMAIN toServer[u] :
           toServer[u][i].type = "Poll" /\ toServer[u][i].key = answered[u] + 1
    BY <2>2 DEF RequestInv
  <2>4. i # 1 => toServer[u][1].key < toServer[u][i].key
    BY <1>1, <2>3 DEF RequestInv
  <2> QED
    BY <1>1, <1>5, <2>1, <2>3, <2>4
<1>7. answered'[u] \in Nat /\ answered[u] <= answered'[u]
  BY <1>1, <1>5, <1>6
<1>8. ASSUME NEW n \in answered'[u] + 1 .. polled[u]
      PROVE  \E i \in DOMAIN toServer'[u] :
                 toServer'[u][i].type = "Poll" /\ toServer'[u][i].key = n
  <2>1. n \in answered[u] + 1 .. polled[u] /\ n # answered'[u]
    BY <1>5, <1>7
  <2>2. PICK i \in DOMAIN toServer[u] :
           toServer[u][i].type = "Poll" /\ toServer[u][i].key = n
    BY <2>1 DEF RequestInv
  <2>3. i # 1
    BY <1>1, <2>1, <2>2
  <2>4. i - 1 \in DOMAIN toServer'[u] /\ toServer'[u][i - 1] = toServer[u][i]
    BY <1>1, <2>3
  <2> QED
    BY <2>2, <2>4
<1>9. RequestInv'
  <2>1. ASSUME NEW w \in Users
        PROVE  /\ answered'[w] <= polled[w]
               /\ \A i \in DOMAIN toServer'[w] :
                    IF toServer'[w][i].type = "Poll"
                    THEN answered'[w] < toServer'[w][i].key
                         /\ toServer'[w][i].key <= polled[w]
                    ELSE toServer'[w][i].key \in DOMAIN sent
               /\ \A i, j \in DOMAIN toServer'[w] :
                    i < j /\ toServer'[w][i].type = "Poll"
                          /\ toServer'[w][j].type = "Poll"
                        => toServer'[w][i].key < toServer'[w][j].key
    <3>1. CASE w = u
      BY <1>2, <1>3, <1>4, <3>1
    <3>2. CASE w # u
      BY <1>1, <3>2 DEF RequestInv
    <3> QED
      BY <3>1, <3>2
  <2>2. ASSUME NEW w \in Users, NEW n \in answered'[w] + 1 .. polled[w]
        PROVE  \E i \in DOMAIN toServer'[w] :
                   toServer'[w][i].type = "Poll" /\ toServer'[w][i].key = n
    <3>1. CASE w = u
      BY <1>8, <3>1
    <3>2. CASE w # u
      <4>1. toServer'[w] = toServer[w] /\ answered'[w] = answered[w]
        BY <1>1, <3>2
      <4> QED
        BY <4>1 DEF RequestInv
    <3> QED
      BY <3>1, <3>2
  <2> QED
    BY <2>1, <2>2 DEF RequestInv
<1>10. NotedInv'
  BY <1>1 DEF NotedInv
<1>11. type = "Poll" => Head(toServer[u]).since = noted[u][answered[u] + 1]
  BY <1>1, <1>6 DEF NotedInv
<1> QED
  BY <1>6, <1>9, <1>10, <1>11

\* One row more in messages leaves the other ids what they were.
LEMMA InsertMessageStep ==
    ASSUME IndInv, NEW u \in Users, InsertMessage(u)
    PROVE  IndInv'
<1> DEFINE k == Head(toServer[u]).key
<1> USE DEF IndInv
<1>1. /\ UNCHANGED <<now, sent, poller, lastPollTime, reading, shown, toClient,
                     batch, polled, noted, answered, skipped>>
      /\ Request(u, "PollResponse")
      /\ \/ /\ messages' = Append(messages, sent[k].text)
            /\ job' = [job EXCEPT ![u].key = k]
            /\ pc' = [pc EXCEPT ![u] = "lookup"]
            /\ UNCHANGED <<transactions, faults>>
         \/ /\ Fault /\ pc' = [pc EXCEPT ![u] = "service"]
            /\ job' = [job EXCEPT ![u] = NoJob] /\ UNCHANGED <<messages, transactions>>
         \/ /\ Fault /\ pc' = [pc EXCEPT ![u] = "closed"]
            /\ UNCHANGED <<job, messages, transactions>>
  BY DEF InsertMessage, StatementFails, Goto, readers, history, database
<1>2. /\ pc[u] = "service"
      /\ toServer' \in [Users -> Seq(Requests)]
      /\ \A w \in Users : w # u => toServer'[w] = toServer[w]
      /\ 1 \in DOMAIN toServer[u] /\ toServer[u][1].key = k
      /\ toServer[u][1].type = "PollResponse"
      /\ \A i \in DOMAIN toServer'[u] :
           /\ i \in Nat /\ i + 1 \in DOMAIN toServer[u]
           /\ toServer'[u][i] = toServer[u][i + 1]
      /\ \A i \in DOMAIN toServer[u] : i # 1 =>
           i - 1 \in DOMAIN toServer'[u] /\ toServer'[u][i - 1] = toServer[u][i]
  BY <1>1, RequestTaken
<1>3. k \in DOMAIN sent /\ k \in 0 .. MaxSends /\ sent[k].text \in Texts
  <2>1. k \in DOMAIN sent
    BY <1>2 DEF RequestInv
  <2>2. sent[k] \in Sent /\ k \in 0 .. MaxSends
    BY <2>1, Numbers, SMTT(30) DEF TypeOK
  <2> QED
    BY <2>1, <2>2 DEF Sent
<1> HIDE DEF k
<1>4. /\ transactions' = transactions
      /\ messages' \in Seq(Texts) /\ DOMAIN messages \subseteq DOMAIN messages'
      /\ \A id \in DOMAIN messages : messages'[id] = messages[id]
      /\ pc' \in [Users -> Places] /\ pc'[u] \in {"lookup", "service", "closed"}
      /\ job' \in [Users -> [key : 0 .. MaxSends, id : Nat, since : Nat, at : Nat]]
      /\ \A w \in Users : w # u => pc'[w] = pc[w] /\ job'[w] = job[w]
      /\ pc'[u] = "lookup" => job'[u].key = k
      /\ faults' \in 0 .. MaxFaults
      /\ faults' = 0 => faults = 0 /\ pc'[u] # "closed"
  <2>1. /\ messages \in Seq(Texts) /\ pc \in [Users -> Places] /\ faults \in 0 .. MaxFaults
        /\ job \in [Users -> [key : 0 .. MaxSends, id : Nat, since : Nat, at : Nat]]
    BY DEF TypeOK
  <2>2. CASE /\ messages' = Append(messages, sent[k].text)
             /\ job' = [job EXCEPT ![u].key = k]
             /\ pc' = [pc EXCEPT ![u] = "lookup"]
             /\ UNCHANGED <<transactions, faults>>
    <3>1. /\ messages' \in Seq(Texts) /\ DOMAIN messages \subseteq DOMAIN messages'
          /\ \A id \in DOMAIN messages : messages'[id] = messages[id]
      BY <1>3, <2>1, <2>2
    <3> QED
      BY <1>3, <2>1, <2>2, <3>1 DEF Places
  <2>3. CASE /\ Fault /\ pc' = [pc EXCEPT ![u] = "service"]
             /\ job' = [job EXCEPT ![u] = NoJob] /\ UNCHANGED <<messages, transactions>>
    BY <2>1, <2>3, Numbers DEF Places, Fault, NoJob
  <2>4. CASE /\ Fault /\ pc' = [pc EXCEPT ![u] = "closed"]
             /\ UNCHANGED <<job, messages, transactions>>
    BY <2>1, <2>4, Numbers DEF Places, Fault
  <2> QED
    BY <1>1, <2>2, <2>3, <2>4
<1>5. TypeOK'
  BY <1>1, <1>2, <1>4 DEF TypeOK
<1>6. RequestInv' /\ NotedInv'
  BY <1>1, RequestsLeft
<1>7. JobInv'
  <2>1. ASSUME NEW w \in Users, w # u
        PROVE  /\ pc'[w] \in {"lookup", "record"} => job'[w].key \in DOMAIN sent
               /\ pc'[w] = "record" =>
                    /\ job'[w].id \in DOMAIN messages'
                    /\ Fold[messages'[job'[w].id]] = Fold[sent[job'[w].key].text]
    <3>1. pc'[w] = pc[w] /\ job'[w] = job[w]
      BY <1>4, <2>1
    <3>2. /\ pc[w] \in {"lookup", "record"} => job[w].key \in DOMAIN sent
          /\ pc[w] = "record" =>
               /\ job[w].id \in DOMAIN messages
               /\ Fold[messages[job[w].id]] = Fold[sent[job[w].key].text]
      BY DEF JobInv
    <3> QED
      BY <1>4, <3>1, <3>2
  <2>2. /\ pc'[u] \in {"lookup", "record"} => job'[u].key \in DOMAIN sent
        /\ pc'[u] # "record"
    BY <1>3, <1>4
  <2> QED
    BY <1>1, <2>1, <2>2 DEF JobInv
<1>8. RowInv'
  BY <1>1, <1>4, RowTypes DEF RowInv, Second
<1>9. BatchInv'
  BY <1>1, <1>2, <1>4 DEF BatchInv, Second
<1>10. SeenInv'
  BY <1>1, SeenKept
<1>11. EndsOnLongOnly'
  BY <1>1, <1>4 DEF EndsOnLongOnly
<1>12. OutcomeInv'
  BY <1>1, <1>2, <1>4, RowTypes, OutcomeKept DEF Reached
<1> QED
  BY <1>5, <1>6, <1>7, <1>8, <1>9, <1>10, <1>11, <1>12

\* The row found is one whose text the database takes for the text sent.
LEMMA SelectMessageIdStep ==
    ASSUME IndInv, NEW u \in Users, SelectMessageId(u)
    PROVE  IndInv'
<1> USE DEF IndInv
<1>1. /\ UNCHANGED <<now, sent, toServer, poller, lastPollTime, reading, shown,
                     toClient, batch, polled, noted, answered, skipped, messages,
                     transactions>>
      /\ pc[u] = "lookup"
      /\ \/ /\ \E id \in DOMAIN messages :
                 /\ Fold[messages[id]] = Fold[sent[job[u].key].text]
                 /\ job' = [job EXCEPT ![u].id = id]
            /\ pc' = [pc EXCEPT ![u] = "record"]
            /\ UNCHANGED faults
         \/ /\ Fault /\ pc' = [pc EXCEPT ![u] = "service"]
            /\ job' = [job EXCEPT ![u] = NoJob]
  BY DEF SelectMessageId, StatementFails, Goto, clients, readers, history, database
<1>2. /\ pc' \in [Users -> Places] /\ pc'[u] \in {"record", "service"}
      /\ job' \in [Users -> [key : 0 .. MaxSends, id : Nat, since : Nat, at : Nat]]
      /\ \A w \in Users : w # u => pc'[w] = pc[w] /\ job'[w] = job[w]
      /\ pc'[u] = "record" =>
           /\ job'[u].key = job[u].key /\ job'[u].id \in DOMAIN messages
           /\ Fold[messages[job'[u].id]] = Fold[sent[job[u].key].text]
      /\ faults' \in 0 .. MaxFaults /\ (faults' = 0 => faults = 0)
  <2>1. /\ messages \in Seq(Texts) /\ pc \in [Users -> Places] /\ faults \in 0 .. MaxFaults
        /\ job \in [Users -> [key : 0 .. MaxSends, id : Nat, since : Nat, at : Nat]]
    BY DEF TypeOK
  <2>2. ASSUME NEW id \in DOMAIN messages,
               Fold[messages[id]] = Fold[sent[job[u].key].text],
               job' = [job EXCEPT ![u].id = id],
               pc' = [pc EXCEPT ![u] = "record"], UNCHANGED faults
        PROVE  /\ pc'[u] = "record" /\ job'[u].key = job[u].key /\ job'[u].id = id
               /\ pc' \in [Users -> Places]
               /\ job' \in [Users -> [key : 0 .. MaxSends, id : Nat, since : Nat, at : Nat]]
               /\ \A w \in Users : w # u => pc'[w] = pc[w] /\ job'[w] = job[w]
    <3>1. id \in Nat
      BY <2>1
    <3> QED
      BY <2>1, <2>2, <3>1 DEF Places
  <2>3. CASE /\ Fault /\ pc' = [pc EXCEPT ![u] = "service"]
             /\ job' = [job EXCEPT ![u] = NoJob]
    BY <2>1, <2>3, Numbers DEF Places, Fault, NoJob
  <2> QED
    BY <1>1, <2>1, <2>2, <2>3
<1>3. TypeOK'
  BY <1>1, <1>2 DEF TypeOK
<1>4. RequestInv' /\ RowInv'
  BY <1>1 DEF RequestInv, RowInv, Second
<1>5. JobInv'
  BY <1>1, <1>2 DEF JobInv
<1>6. BatchInv'
  BY <1>1, <1>2 DEF BatchInv, Second
<1>7. SeenInv'
  BY <1>1, SeenKept
<1>8. EndsOnLongOnly'
  BY <1>1, <1>2 DEF EndsOnLongOnly
<1>9. NotedInv'
  BY <1>1, NotedKept
<1>10. OutcomeInv'
  BY <1>1, <1>2, RowTypes, OutcomeKept DEF Reached
<1> QED
  BY <1>3, <1>4, <1>5, <1>6, <1>7, <1>8, <1>9, <1>10

\* A row stored now waits for the next poll to be answered.
LEMMA InsertTransactionStep ==
    ASSUME IndInv, NEW u \in Users, InsertTransaction(u)
    PROVE  IndInv'
<1> DEFINE k == job[u].key
           r == Row(sent[k], k, job[u].id)
<1> USE DEF IndInv
<1>1. /\ UNCHANGED <<now, sent, toServer, poller, lastPollTime, reading, shown,
                     toClient, batch, polled, noted, answered, skipped, messages>>
      /\ pc[u] = "record"
      /\ pc' = [pc EXCEPT ![u] = "service"] /\ job' = [job EXCEPT ![u] = NoJob]
      /\ \/ /\ transactions' = IF sent[k].to \in Users THEN transactions \cup {r}
                                                       ELSE transactions
            /\ UNCHANGED faults
         \/ Fault /\ UNCHANGED transactions
  BY DEF InsertTransaction, StatementFails, Goto, clients, readers, history, database
<1>2. /\ k \in DOMAIN sent /\ k \in Keys /\ sent[k] \in Sent
      /\ job[u].id \in DOMAIN messages /\ job[u].id \in Nat
      /\ Fold[messages[job[u].id]] = Fold[sent[k].text]
  <2>1. /\ k \in DOMAIN sent /\ job[u].id \in DOMAIN messages
        /\ Fold[messages[job[u].id]] = Fold[sent[k].text]
    BY <1>1 DEF JobInv
  <2>2. sent[k] \in Sent /\ k \in Keys
    BY <2>1, Numbers, SMTT(30) DEF TypeOK, Keys
  <2>3. job[u].id \in Nat
    BY <2>1 DEF TypeOK
  <2> QED
    BY <2>1, <2>2, <2>3
<1>3. /\ sent[k].from \in Users /\ sent[k].stamp \in Nat
      /\ Second(sent[k].stamp) \in Nat
  BY <1>2, Seconds DEF Sent
<1>4. /\ r.from = sent[k].from /\ r.to = sent[k].to /\ r.id = job[u].id
      /\ r.time = Second(sent[k].stamp) /\ r.key = k
      /\ r.after = answered[r.to]
  BY DEF Row
<1>5. sent[k].to \in Users => r \in Rows
  BY <1>2, <1>3 DEF Row, Rows, TypeOK
<1> HIDE DEF r, k
<1>6. /\ transactions \subseteq transactions'
      /\ \A s \in transactions' : s \in transactions \/ (s = r /\ r.to \in Users)
      /\ faults' \in 0 .. MaxFaults /\ (faults' = 0 => faults = 0)
  <2>1. faults \in 0 .. MaxFaults
    BY DEF TypeOK
  <2> QED
    BY <1>1, <1>4, <2>1, Numbers DEF Fault
<1>7. /\ pc' \in [Users -> Places] /\ pc'[u] = "service"
      /\ job' \in [Users -> [key : 0 .. MaxSends, id : Nat, since : Nat, at : Nat]]
      /\ \A w \in Users : w # u => pc'[w] = pc[w] /\ job'[w] = job[w]
  BY <1>1, Numbers DEF TypeOK, NoJob, Places
<1>8. TypeOK'
  <2>1. transactions' \subseteq Rows
    BY <1>4, <1>5, <1>6 DEF TypeOK
  <2>2. \A s \in transactions' : s.id \in DOMAIN messages /\ s.key \in DOMAIN sent
    BY <1>2, <1>4, <1>6 DEF TypeOK
  <2>3. batch \in [Users -> SUBSET transactions']
    BY <1>6 DEF TypeOK
  <2> QED
    BY <1>1, <1>6, <1>7, <2>1, <2>2, <2>3 DEF TypeOK
<1>9. RequestInv'
  BY <1>1 DEF RequestInv
<1>10. JobInv'
  BY <1>1, <1>7 DEF JobInv
<1>11. RowInv'
  BY <1>1, <1>2, <1>4, <1>6 DEF RowInv, Second
<1>12. BatchInv'
  BY <1>1, <1>7 DEF BatchInv, Second
<1>13. SeenInv'
  BY <1>1, SeenKept
<1>14. EndsOnLongOnly'
  BY <1>1, <1>6, <1>7 DEF EndsOnLongOnly
<1>15. NotedInv'
  BY <1>1, NotedKept
<1>16. OutcomeInv'
  <2>1. ASSUME NEW s \in transactions
        PROVE  (Overtaken(s) => Overtaken(s)') /\ (Reached(s) => Reached(s)')
    BY <1>1 DEF Overtaken, Reached, Second
  <2>2. ASSUME NEW s \in transactions
        PROVE  /\ s.after <= answered[s.to]
               /\ answered[s.to] > s.after =>
                    \/ Reached(s)' \/ s.key \in skipped \/ Overtaken(s)'
                    \/ pc'[s.to] = "closed" \/ ~reading[s.to]
    BY <1>1, <1>7, <2>1, RowTypes DEF OutcomeInv
  <2>3. ASSUME r.to \in Users PROVE r.after <= answered[r.to] /\ ~(answered[r.to] > r.after)
    BY <1>4, <2>3, NotedTypes
  <2> QED
    BY <1>1, <1>6, <2>2, <2>3 DEF OutcomeInv
<1> QED
  BY <1>8, <1>9, <1>10, <1>11, <1>12, <1>13, <1>14, <1>15, <1>16

\* The rows a poll finds lie in its window, and a row that waits for this poll is
\* one of them unless the poll before overtook it.
LEMMA SelectRowsStep ==
    ASSUME IndInv, NEW u \in Users, SelectRows(u)
    PROVE  IndInv'
<1> DEFINE q == Head(toServer[u])
           F == Found(u, q.since)
<1> USE DEF IndInv
<1>1. /\ UNCHANGED <<now, sent, poller, lastPollTime, reading, shown, toClient,
                     polled, noted, messages, transactions>>
      /\ Request(u, "Poll")
      /\ job' = [job EXCEPT ![u] = [key |-> 0, id |-> 0, since |-> q.since, at |-> now]]
      /\ answered' = [answered EXCEPT ![u] = q.key]
      /\ pc' = [pc EXCEPT ![u] = "deliver"]
      /\ \/ /\ batch' = [batch EXCEPT ![u] = F]
            /\ UNCHANGED <<skipped, faults>>
         \/ /\ Fault
            /\ \E some \in SUBSET F :
                 /\ batch' = [batch EXCEPT ![u] = some]
                 /\ skipped' = skipped \cup {s.key : s \in F \ some}
  BY DEF SelectRows, Goto, readers, database
<1>2. /\ pc[u] = "service" /\ q \in Requests /\ q.type = "Poll"
      /\ toServer' \in [Users -> Seq(Requests)]
      /\ 1 \in DOMAIN toServer[u] /\ toServer[u][1] = q
  BY <1>1, RequestTaken
<1>3. q.since \in Nat /\ q.key \in Nat /\ answered[u] < q.key /\ q.key <= polled[u]
  BY <1>2 DEF Requests, RequestInv
<1>4. /\ F \subseteq transactions
      /\ \A s \in F : s.to = u /\ Second(q.since) < s.time
      /\ \A s \in transactions : s.to = u /\ Second(q.since) < s.time => s \in F
  <2>1. Second(q.since) \in Nat
    BY <1>3, Seconds
  <2> QED
    BY <2>1, RowTypes DEF Found
<1> HIDE DEF q, F
<1>5. /\ batch'[u] \subseteq F /\ skipped \subseteq skipped'
      /\ \A s \in F : s \in batch'[u] \/ s.key \in skipped'
      /\ \A w \in Users : w # u => batch'[w] = batch[w]
      /\ batch' \in [Users -> SUBSET transactions] /\ skipped' \subseteq Keys
      /\ faults' \in 0 .. MaxFaults /\ (faults' = 0 => faults = 0)
  <2>1. /\ batch \in [Users -> SUBSET transactions] /\ faults \in 0 .. MaxFaults
        /\ skipped \subseteq Keys
    BY DEF TypeOK
  <2>2. CASE batch' = [batch EXCEPT ![u] = F] /\ UNCHANGED <<skipped, faults>>
    BY <1>4, <2>1, <2>2
  <2>3. ASSUME Fault, NEW some \in SUBSET F, batch' = [batch EXCEPT ![u] = some],
               skipped' = skipped \cup {s.key : s \in F \ some}
        PROVE  /\ batch'[u] = some /\ skipped \subseteq skipped'
               /\ \A s \in F : s \in some \/ s.key \in skipped'
               /\ \A w \in Users : w # u => batch'[w] = batch[w]
               /\ batch' \in [Users -> SUBSET transactions] /\ skipped' \subseteq Keys
               /\ faults' \in 0 .. MaxFaults /\ faults' # 0
    <3>1. faults' \in 0 .. MaxFaults /\ faults' # 0
      BY <2>1, <2>3, Numbers DEF Fault
    <3>2. \A s \in F : s.key \in Keys
      BY <1>4, RowTypes
    <3> QED
      BY <1>4, <2>1, <2>3, <3>1, <3>2
  <2>4. CASE Fault /\ \E some \in SUBSET F :
                /\ batch' = [batch EXCEPT ![u] = some]
                /\ skipped' = skipped \cup {s.key : s \in F \ some}
    <3>1. PICK some \in SUBSET F :
             /\ batch' = [batch EXCEPT ![u] = some]
             /\ skipped' = skipped \cup {s.key : s \in F \ some}
      BY <2>4
    <3>2. /\ batch'[u] = some /\ skipped \subseteq skipped'
          /\ \A s \in F : s \in some \/ s.key \in skipped'
          /\ \A w \in Users : w # u => batch'[w] = batch[w]
          /\ batch' \in [Users -> SUBSET transactions] /\ skipped' \subseteq Keys
          /\ faults' \in 0 .. MaxFaults /\ faults' # 0
      BY <2>3, <2>4, <3>1
    <3> QED
      BY <3>2
  <2> QED
    BY <1>1, <2>2, <2>4
<1>6. /\ pc' \in [Users -> Places] /\ pc'[u] = "deliver"
      /\ job' \in [Users -> [key : 0 .. MaxSends, id : Nat, since : Nat, at : Nat]]
      /\ job'[u].since = q.since /\ job'[u].at = now
      /\ answered' \in [Users -> Nat] /\ answered'[u] = q.key
      /\ \A w \in Users : w # u =>
           pc'[w] = pc[w] /\ job'[w] = job[w] /\ answered'[w] = answered[w]
  <2>1. now \in Nat
    BY Clocks
  <2> QED
    BY <1>1, <1>3, <2>1, Numbers, SMTT(30) DEF TypeOK, Places
<1>7. TypeOK'
  BY <1>1, <1>2, <1>5, <1>6 DEF TypeOK
<1>8. /\ RequestInv' /\ NotedInv'
      /\ q.key = answered[u] + 1 /\ q.since = noted[u][answered[u] + 1]
  BY <1>1, <1>6, RequestsLeft DEF q
<1>9. JobInv'
  BY <1>1, <1>6 DEF JobInv
<1>10. RowInv'
  BY <1>1 DEF RowInv, Second
<1>11. BatchInv'
  <2>1. ASSUME NEW s \in batch'[u]
        PROVE  /\ s.to = u /\ Second(job'[u].since) < s.time
               /\ s.time <= Second(job'[u].at + Skew[s.from])
    <3>1. s \in F /\ s \in transactions
      BY <1>4, <1>5
    <3>2. /\ s.key \in DOMAIN sent /\ sent[s.key].from = s.from /\ s.from \in Users
          /\ s.time = Second(sent[s.key].stamp)
      BY <3>1, RowTypes DEF RowInv
    <3>3. sent[s.key].stamp <= now + Skew[s.from]
      BY <3>2 DEF RowInv
    <3>4. sent[s.key].stamp \in Nat /\ now + Skew[s.from] \in Nat
      <4>1. sent[s.key] \in Sent
        BY <3>2 DEF TypeOK
      <4> QED
        BY <3>2, <4>1, Clocks DEF Sent, Clock
    <3> QED
      BY <1>4, <1>6, <3>1, <3>2, <3>3, <3>4, Seconds
  <2> QED
    BY <1>5, <1>6, <2>1 DEF BatchInv, Second
<1>12. SeenInv'
  BY <1>1, SeenKept
<1>13. EndsOnLongOnly'
  BY <1>1, <1>5, <1>6 DEF EndsOnLongOnly
<1>14. OutcomeInv'
  <2>1. ASSUME NEW r \in transactions PROVE Reached(r) => Reached(r)'
    BY <1>1, <1>2, <1>5, RowTypes DEF Reached, BatchInv
  <2>2. ASSUME NEW r \in transactions PROVE Overtaken(r) => Overtaken(r)'
    BY <1>1 DEF Overtaken, Second
  <2>3. ASSUME NEW r \in transactions, r.to # u
        PROVE  /\ r.after <= answered'[r.to]
               /\ answered'[r.to] > r.after =>
                    \/ Reached(r)' \/ r.key \in skipped' \/ Overtaken(r)'
                    \/ pc'[r.to] = "closed" \/ ~reading'[r.to]
    BY <1>1, <1>5, <1>6, <2>1, <2>2, <2>3, RowTypes DEF OutcomeInv
  <2>4. ASSUME NEW r \in transactions, r.to = u
        PROVE  r.after <= answered'[u]
    <3>1. r.after \in Nat /\ answered[u] \in Nat /\ r.after <= answered[u]
      BY <2>4, RowTypes, NotedTypes DEF OutcomeInv
    <3> QED
      BY <1>6, <1>8, <3>1
  <2>5. ASSUME NEW r \in transactions, r.to = u, answered[u] > r.after
        PROVE  Reached(r)' \/ r.key \in skipped' \/ Overtaken(r)' \/ ~reading'[u]
    BY <1>1, <1>2, <1>5, <2>1, <2>2, <2>5 DEF OutcomeInv
  <2>6. ASSUME NEW r \in transactions, r.to = u, ~(answered[u] > r.after)
        PROVE  Reached(r)' \/ r.key \in skipped' \/ Overtaken(r)'
    <3>1. r.after = answered[u] /\ r.time \in Nat
      <4>1. r.after \in Nat /\ answered[u] \in Nat /\ r.after <= answered[u]
        BY <2>6, RowTypes, NotedTypes DEF OutcomeInv
      <4> QED
        BY <2>6, <4>1, RowTypes
    <3>2. CASE Second(q.since) < r.time
      <4>1. r \in F
        BY <1>4, <2>6, <3>2
      <4> QED
        BY <1>5, <2>6, <4>1 DEF Reached
    <3>3. CASE ~(Second(q.since) < r.time)
      <4>1. Second(q.since) \in Nat
        BY <1>3, Seconds
      <4>2. r.time <= Second(noted[u][r.after + 1])
        BY <1>8, <3>1, <3>3, <4>1
      <4> QED
        BY <2>2, <2>6, <4>2 DEF Overtaken
    <3> QED
      BY <3>2, <3>3
  <2> QED
    BY <1>1, <2>3, <2>4, <2>5, <2>6 DEF OutcomeInv
<1> QED
  BY <1>7, <1>8, <1>9, <1>10, <1>11, <1>12, <1>13, <1>14

\* A row written to the client says what was sent, to whom and by whom, and
\* lies in the window of the poll it answers.
LEMMA WriteRowStep ==
    ASSUME IndInv, NEW u \in Users, pc[u] = "deliver", NEW r \in batch[u],
           toClient' = [toClient EXCEPT ![u] = Append(@, Shown(u, r))],
           batch' = [batch EXCEPT ![u] = @ \ {r}],
           UNCHANGED <<pc, job, faults, now, clients, readers, database, history>>
    PROVE  IndInv'
<1> DEFINE x == Shown(u, r)
<1> USE DEF IndInv
<1>1. UNCHANGED <<now, sent, toServer, poller, lastPollTime, reading, shown, pc, job,
                  messages, transactions, polled, noted, answered, skipped, faults>>
  BY DEF clients, readers, database, history
<1>2. /\ r \in transactions /\ r.to = u /\ r.from \in Users /\ r.key \in Keys
      /\ r.id \in DOMAIN messages /\ r.key \in DOMAIN sent
  <2>1. r \in transactions
    BY DEF TypeOK
  <2> QED
    BY <2>1, RowTypes DEF BatchInv
<1>3. /\ x.from = r.from /\ x.text = messages[r.id] /\ x.key = r.key
      /\ x.since = job[u].since /\ x.at = job[u].at
  BY DEF Shown
<1>4. x \in Incoming
  <2>1. messages[r.id] \in Texts
    BY <1>2, SMTT(30) DEF TypeOK
  <2>2. answered[u] \in Nat /\ job[u].since \in Nat /\ job[u].at \in Nat
    BY DEF TypeOK
  <2> QED
    BY <1>2, <2>1, <2>2 DEF Shown, Incoming
<1>5. Faithful(u, x) /\ InWindow(x)
  <2>1. /\ sent[r.key].to = u /\ sent[r.key].from = r.from
        /\ Second(sent[r.key].stamp) = r.time
        /\ Fold[sent[r.key].text] = Fold[messages[r.id]]
    BY <1>2 DEF RowInv
  <2>2. /\ Second(job[u].since) < r.time
        /\ r.time <= Second(job[u].at + Skew[r.from])
    BY DEF BatchInv
  <2> HIDE DEF x
  <2> QED
    BY <1>2, <1>3, <2>1, <2>2 DEF Faithful, InWindow
<1> HIDE DEF x
<1>6. /\ toClient' \in [Users -> Seq(Incoming)]
      /\ \A w \in Users : w # u => toClient'[w] = toClient[w]
      /\ DOMAIN toClient'[u] = DOMAIN toClient[u] \cup {Len(toClient[u]) + 1}
      /\ \A i \in DOMAIN toClient[u] : toClient'[u][i] = toClient[u][i]
      /\ toClient'[u][Len(toClient[u]) + 1] = x
  <2>1. toClient \in [Users -> Seq(Incoming)]
    BY DEF TypeOK
  <2>2. toClient' = [toClient EXCEPT ![u] = Append(@, x)]
    BY DEF x
  <2> QED
    BY <1>4, <2>1, <2>2, AppendAt
<1>7. /\ batch' \in [Users -> SUBSET transactions] /\ batch'[u] = batch[u] \ {r}
      /\ \A w \in Users : w # u => batch'[w] = batch[w]
  BY DEF TypeOK
<1>8. TypeOK'
  BY <1>1, <1>6, <1>7 DEF TypeOK
<1>9. RequestInv' /\ JobInv' /\ EndsOnLongOnly'
  BY <1>1 DEF RequestInv, JobInv, EndsOnLongOnly
<1>10. RowInv'
  BY <1>1 DEF RowInv, Second
<1>11. BatchInv'
  <2>1. \A w \in Users : batch'[w] \subseteq batch[w]
    BY <1>7
  <2> QED
    BY <1>1, <2>1 DEF BatchInv, Second
<1>12. SeenInv'
  <2>1. ASSUME NEW w \in Users, NEW y
        PROVE  /\ Faithful(w, y) => Faithful(w, y)'
               /\ InWindow(y) => InWindow(y)'
    BY <1>1 DEF Faithful, InWindow, Second
  <2>2. \A w \in Users : \A i \in DOMAIN toClient'[w] :
          Faithful(w, toClient'[w][i]) /\ InWindow(toClient'[w][i])
    BY <1>5, <1>6 DEF SeenInv
  <2>3. \A w \in Users : \A y \in shown'[w] : Faithful(w, y) /\ InWindow(y)
    BY <1>1 DEF SeenInv
  <2> QED
    BY <2>1, <2>2, <2>3 DEF SeenInv
<1>13. NotedInv'
  BY <1>1, NotedKept
<1>14. OutcomeInv'
  <2>1. ASSUME NEW s \in transactions, Reached(s) PROVE Reached(s)'
    <3>1. s.to \in Users
      BY RowTypes
    <3>2. CASE s = r
      BY <1>2, <1>3, <1>6, <3>2 DEF Reached
    <3>3. CASE s # r /\ s \in batch[s.to]
      BY <1>7, <3>1, <3>3 DEF Reached
    <3>4. ASSUME NEW i \in DOMAIN toClient[s.to], toClient[s.to][i].key = s.key
          PROVE  Reached(s)'
      <4>1. i \in DOMAIN toClient'[s.to] /\ toClient'[s.to][i].key = s.key
        BY <1>6, <3>1, <3>4
      <4> QED
        BY <4>1 DEF Reached
    <3>5. CASE \E y \in shown[s.to] : y.key = s.key
      BY <1>1, <3>5 DEF Reached
    <3> QED
      BY <2>1, <3>2, <3>3, <3>4, <3>5 DEF Reached
  <2> QED
    BY <1>1, <2>1, OutcomeKept
<1> QED
  BY <1>8, <1>9, <1>10, <1>11, <1>12, <1>13, <1>14

\* A thread that goes on to state "place" with no job and no rows: what it had
\* to do is done, or its session is closed for a reason EndsOnLongOnly allows.
LEMMA LeaveStep ==
    ASSUME IndInv, NEW u \in Users, NEW place \in {"service", "closed"},
           pc' = [pc EXCEPT ![u] = place],
           batch' = [batch EXCEPT ![u] = {}],
           batch[u] = {} \/ place = "closed",
           job' \in [Users -> [key : 0 .. MaxSends, id : Nat, since : Nat, at : Nat]],
           \A w \in Users : w # u => job'[w] = job[w],
           faults' = faults \/ Fault,
           place = "closed" /\ faults' = 0 =>
               \E k \in DOMAIN sent : \E t \in Long :
                   sent[k].to = u /\ Fold[sent[k].text] = Fold[t],
           pc[u] # "closed",
           UNCHANGED <<now, clients, readers, toClient, database, history>>
    PROVE  IndInv'
<1> USE DEF IndInv
<1>1. UNCHANGED <<now, sent, toServer, poller, lastPollTime, reading, shown, toClient,
                  messages, transactions, polled, noted, answered, skipped>>
  BY DEF clients, readers, database, history
<1>2. /\ pc' \in [Users -> Places] /\ pc'[u] = place
      /\ batch' \in [Users -> SUBSET transactions] /\ batch'[u] = {}
      /\ \A w \in Users : w # u => pc'[w] = pc[w] /\ batch'[w] = batch[w]
  BY DEF TypeOK, Places
<1>3. faults' \in 0 .. MaxFaults /\ (faults' = 0 => faults = 0)
  <2>1. faults \in 0 .. MaxFaults
    BY DEF TypeOK
  <2> QED
    BY <2>1, Numbers DEF Fault
<1>4. TypeOK'
  BY <1>1, <1>2, <1>3 DEF TypeOK
<1>5. RequestInv' /\ RowInv'
  BY <1>1 DEF RequestInv, RowInv, Second
<1>6. JobInv'
  <2>1. pc'[u] \notin {"lookup", "record"}
    BY <1>2
  <2> QED
    BY <1>1, <1>2, <2>1 DEF JobInv
<1>7. BatchInv'
  BY <1>1, <1>2 DEF BatchInv, Second
<1>8. SeenInv'
  BY <1>1, SeenKept
<1>9. EndsOnLongOnly'
  BY <1>1, <1>2, <1>3 DEF EndsOnLongOnly
<1>10. NotedInv'
  BY <1>1, NotedKept
<1>11. OutcomeInv'
  BY <1>1, <1>2, RowTypes, OutcomeKept DEF Reached
<1> QED
  BY <1>4, <1>5, <1>6, <1>7, <1>8, <1>9, <1>10, <1>11

\* A row is written, or it is refused and the session ends.
LEMMA DeliverRowStep ==
    ASSUME IndInv, NEW u \in Users, DeliverRow(u)
    PROVE  IndInv'
<1>1. /\ pc[u] = "deliver"
      /\ UNCHANGED <<now, clients, readers, database, history>>
  BY DEF DeliverRow
<1>2. PICK r \in batch[u] :
         \/ /\ messages[r.id] \notin Long
            /\ toClient' = [toClient EXCEPT ![u] = Append(@, Shown(u, r))]
            /\ batch' = [batch EXCEPT ![u] = @ \ {r}]
            /\ UNCHANGED <<pc, job, faults>>
         \/ /\ IF messages[r.id] \in Long THEN UNCHANGED faults ELSE Fault
            /\ pc' = [pc EXCEPT ![u] = "closed"]
            /\ job' = [job EXCEPT ![u] = NoJob]
            /\ batch' = [batch EXCEPT ![u] = {}]
            /\ UNCHANGED toClient
  BY DEF DeliverRow, Goto
<1>3. CASE /\ toClient' = [toClient EXCEPT ![u] = Append(@, Shown(u, r))]
           /\ batch' = [batch EXCEPT ![u] = @ \ {r}]
           /\ UNCHANGED <<pc, job, faults>>
  BY <1>1, <1>3, WriteRowStep
<1>4. CASE /\ IF messages[r.id] \in Long THEN UNCHANGED faults ELSE Fault
           /\ pc' = [pc EXCEPT ![u] = "closed"]
           /\ job' = [job EXCEPT ![u] = NoJob]
           /\ batch' = [batch EXCEPT ![u] = {}]
           /\ UNCHANGED toClient
  <2>1. /\ job' \in [Users -> [key : 0 .. MaxSends, id : Nat, since : Nat, at : Nat]]
        /\ \A w \in Users : w # u => job'[w] = job[w]
    BY <1>4, Numbers DEF IndInv, TypeOK, NoJob
  <2>2. r \in transactions /\ r.to = u /\ r.key \in DOMAIN sent
    BY RowTypes DEF IndInv, TypeOK, BatchInv
  <2>3. sent[r.key].to = u /\ Fold[sent[r.key].text] = Fold[messages[r.id]]
    BY <2>2 DEF IndInv, RowInv
  <2>4. faults' = 0 => messages[r.id] \in Long
    BY <1>4 DEF Fault, IndInv, TypeOK
  <2>5. faults' = 0 =>
           \E k \in DOMAIN sent : \E t \in Long :
               sent[k].to = u /\ Fold[sent[k].text] = Fold[t]
    BY <2>2, <2>3, <2>4
  <2> QED
    BY <1>1, <1>4, <2>1, <2>5, LeaveStep
<1> QED
  BY <1>2, <1>3, <1>4

\* The poll is answered.
LEMMA DeliverDoneStep ==
    ASSUME IndInv, NEW u \in Users, DeliverDone(u)
    PROVE  IndInv'
<1>1. /\ pc[u] = "deliver" /\ batch[u] = {} /\ pc' = [pc EXCEPT ![u] = "service"]
      /\ job' = [job EXCEPT ![u] = NoJob]
      /\ UNCHANGED <<now, clients, readers, toClient, batch, database, history, faults>>
  BY DEF DeliverDone, Goto
<1>2. /\ job' \in [Users -> [key : 0 .. MaxSends, id : Nat, since : Nat, at : Nat]]
      /\ \A w \in Users : w # u => job'[w] = job[w]
      /\ batch' = [batch EXCEPT ![u] = {}]
  BY <1>1, Numbers DEF IndInv, TypeOK, NoJob
<1> QED
  BY <1>1, <1>2, LeaveStep

\* The session ends by a failure.
LEMMA EndSessionStep ==
    ASSUME IndInv, NEW u \in Users, EndSession(u)
    PROVE  IndInv'
<1>1. /\ pc[u] = "service" /\ Fault /\ pc' = [pc EXCEPT ![u] = "closed"]
      /\ UNCHANGED <<now, clients, readers, toClient, job, batch, database, history>>
  BY DEF EndSession, Goto
<1>2. batch[u] = {} /\ batch' = [batch EXCEPT ![u] = {}]
  BY <1>1, ZenonT(30) DEF IndInv, TypeOK, BatchInv
<1>3. faults' # 0
  BY <1>1 DEF Fault, IndInv, TypeOK
<1>4. job' \in [Users -> [key : 0 .. MaxSends, id : Nat, since : Nat, at : Nat]]
  BY <1>1 DEF IndInv, TypeOK
<1> QED
  BY <1>1, <1>2, <1>3, <1>4, LeaveStep

-----------------------------------------------------------------------------
(* The theorems.                                                           *)

\* Every step keeps the inductive invariant.
LEMMA NextInv == IndInv /\ [Next]_vars => IndInv'
<1> SUFFICES ASSUME IndInv, [Next]_vars PROVE IndInv'
  OBVIOUS
<1>1. CASE Tick
  BY <1>1, TickStep
<1>2. ASSUME NEW u \in Users, Client(u) PROVE IndInv'
  BY <1>2, SendStep, SendPollStep, NotePollTimeStep, ShowStep DEF Client
<1>3. ASSUME NEW u \in Users, Server(u) PROVE IndInv'
  BY <1>3, InsertMessageStep, SelectMessageIdStep, InsertTransactionStep,
     SelectRowsStep, DeliverRowStep, DeliverDoneStep, EndSessionStep DEF Server
<1>4. CASE UNCHANGED vars
  <2> USE <1>4 DEF vars, clients, readers, threads, database, history
  <2>1. TypeOK'
    BY DEF IndInv, TypeOK
  <2>2. RequestInv' /\ JobInv' /\ EndsOnLongOnly'
    BY DEF IndInv, RequestInv, JobInv, EndsOnLongOnly
  <2>3. RowInv' /\ BatchInv'
    BY DEF IndInv, RowInv, BatchInv, Second
  <2>4. SeenInv'
    BY SeenKept DEF IndInv
  <2>5. NotedInv'
    BY NotedKept DEF IndInv
  <2>6. OutcomeInv'
    BY OutcomeKept DEF IndInv, Reached
  <2> QED
    BY <2>1, <2>2, <2>3, <2>4, <2>5, <2>6 DEF IndInv
<1> QED
  BY <1>1, <1>2, <1>3, <1>4 DEF Next

\* The inductive invariant holds in every reachable state.
LEMMA Invariance == Spec => []IndInv
BY InitInv, NextInv, PTL DEF Spec

\* The tables keep their schema and every id in use is an id of messages,
\* whatever the threads of MockServer.cpp do between the statements of each
\* other.
THEOREM TypeCorrect == Spec => []TypeOK
<1>1. IndInv => TypeOK
  BY DEF IndInv
<1> QED
  BY <1>1, Invariance, PTL

\* What handlePollResponse shows was sent to its user by the user it names.
THEOREM DeliveryFaithful == Spec => []FaithfulDelivery
<1>1. IndInv => FaithfulDelivery
  BY DEF IndInv, SeenInv, FaithfulDelivery
<1> QED
  BY <1>1, Invariance, PTL

\* The service loop ends by itself only on a text that is too long.
THEOREM SessionEnds == Spec => []EndsOnLongOnly
<1>1. IndInv => EndsOnLongOnly
  BY DEF IndInv
<1> QED
  BY <1>1, Invariance, PTL

\* A text is missed only when one of the polls of PollThread overtook it: with
\* any wait, any clocks and any delay of the threads, every other text is in the
\* answer to the next poll.
THEOREM MissedOnlyWhenOvertaken == Spec => []MissedOnlyIfOvertaken
<1>1. IndInv => MissedOnlyIfOvertaken
  BY DEF IndInv, OutcomeInv, MissedOnlyIfOvertaken
<1> QED
  BY <1>1, Invariance, PTL

\* A text comes twice only when the server is late or a clock is ahead.
THEOREM DuplicatesAreLate == Spec => []TwiceOnlyIfLate
<1>1. IndInv => TwiceOnlyIfLate
  <2> SUFFICES ASSUME IndInv, NEW u \in Users, NEW x \in shown[u],
                      NEW y \in shown[u], x.key = y.key
               PROVE  Second(y.since) < Second(x.at + Skew[x.from])
    BY DEF TwiceOnlyIfLate
  <2>1. InWindow(x) /\ InWindow(y) /\ Faithful(u, x)
    BY DEF IndInv, SeenInv
  <2>2. /\ x \in Incoming /\ y \in Incoming
    BY DEF IndInv, TypeOK
  <2>3. sent[x.key].stamp \in Nat
    <3>1. sent[x.key] \in Sent
      BY <2>1 DEF IndInv, TypeOK, Faithful
    <3> QED
      BY <3>1 DEF Sent
  <2>4. /\ Second(sent[x.key].stamp) \in Nat /\ Second(y.since) \in Nat
        /\ Second(x.at + Skew[x.from]) \in Nat
    BY <2>2, <2>3, Numbers, Seconds DEF Incoming
  <2> QED
    BY <2>1, <2>4 DEF InWindow
<1> QED
  BY <1>1, Invariance, PTL
=============================================================================
