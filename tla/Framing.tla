------------------------------ MODULE Framing ------------------------------
(***************************************************************************)
(* The bytes between a client and the server: the messages of the Java     *)
(* protocol package as the calls of write that encode makes, threads of    *)
(* the client that write to the one socket without a lock, and decode of   *)
(* the C++ server, which takes a header and a payload off the stream and   *)
(* reads the fields.                                                       *)
(*                                                                         *)
(* Longs are the eight bytes they are read as.                             *)
(***************************************************************************)
EXTENDS SPChatFormat

CONSTANTS
    Threads,      \* threads of the client that write
    Scripts,      \* what they write: functions from threads to messages
    MaxSwitches   \* bound: how often another thread gets to write

ASSUME SwitchesAssumption == MaxSwitches \in Nat

VARIABLES
    script,       \* the messages each thread still has to write
    at,           \* how many calls of write it has made of the first one
    turn,         \* history: the thread that wrote last
    switches,     \* history: how often that changed
    stream,       \* the bytes the server has not read
    open,         \* is the client there?
    server,       \* "reading", or how the session ended
    stack,        \* what the last header left in the server's memory
    written,      \* history: messages written to the end, in that order
    mixed,        \* history: has a thread written inside another's message?
    accepted,     \* the messages decode has returned
    unlucky       \* history: an uninitialised time was negative

client  == <<script, at, turn, switches, open, written, mixed>>
session == <<server, stack, accepted, unlucky>>
vars    == <<client, stream, session>>

\* The stack of the server's thread, on which decode puts a payload.
StackSize == 2^23

-----------------------------------------------------------------------------
(* The messages of the client.                                             *)

\* DataOutputStream writes an int in four calls, and a string in one.
writeInt(n) == [i \in 1 .. INT_SIZE |-> <<encodeInt(n)[i]>>]
writeStr(s) == writeInt(Len(s)) \o <<s>>

\* MsgMessage.encode
MsgWrites(v) ==
    writeStr(v[1]) \o writeStr(v[2]) \o writeStr(v[3]) \o <<v[4]>>
        \o writeInt(v[5]) \o writeInt(v[6]) \o <<v[7]>>

\* The fields as encode writes them.
Payload(m) ==
    LET v == m.vals
    IN CASE m.type = "Login" ->
              writeStr(v[1]) \o <<SubSeq(v[2], 1, 1)>>
                  \o (IF Len(v[2]) > 1 THEN <<Tail(v[2])>> ELSE << >>)
         [] m.type = "Response" -> writeStr(v[1]) \o writeStr(v[2]) \o <<v[3]>>
         [] m.type = "Poll" -> writeStr(v[1]) \o <<v[2]>>
         [] m.type = "PollResponse" ->
              writeStr(v[1]) \o writeInt(v[2]) \o writeInt(v[3]) \o writeInt(v[4])
                  \o FlattenSeq([i \in DOMAIN Msgs(m) |-> MsgWrites(Msgs(m)[i])])

\* MsgMessage.getLen
getLen(v) == Len(v[1]) + Len(v[2]) + Len(v[3]) + LONG_SIZE * 2 + INT_SIZE * 5

\* Fault: the number of texts is not counted.
messageLenShort(m) ==
    LET v == m.vals
    IN CASE m.type = "Login" -> INT_SIZE + Len(v[1]) + Len(v[2])
         [] m.type = "Response" -> INT_SIZE * 2 + Len(v[1]) + Len(v[2]) + LONG_SIZE
         [] m.type = "Poll" -> INT_SIZE + Len(v[1]) + LONG_SIZE
         [] m.type = "PollResponse" ->
              INT_SIZE * 3 + Len(v[1])
                  + Total([i \in DOMAIN Msgs(m) |-> getLen(Msgs(m)[i])])

\* The length each constructor announces.
messageLen(m) ==
    LET v == m.vals
    IN CASE m.type = "Login" -> INT_SIZE + Len(v[1]) + Len(v[2])
         [] m.type = "Response" -> INT_SIZE * 2 + Len(v[1]) + Len(v[2]) + LONG_SIZE
         [] m.type = "Poll" -> INT_SIZE + Len(v[1]) + LONG_SIZE
         [] m.type = "PollResponse" ->
              INT_SIZE * 4 + Len(v[1])
                  + Total([i \in DOMAIN Msgs(m) |-> getLen(Msgs(m)[i])])

\* Every call of write that encode makes.
Writes(m) ==
    <<HEADER, <<TypeCode(m.type)>>, encodeLong(Long(messageLen(m)))>> \o Payload(m)

\* What the client has for a field: names have passed REGEX, a text is encoded in
\* pieces of at most 15 characters, and clocks are not before 1970.
Sendable(v, kind) ==
    CASE kind = "string" -> v \in Seq(Byte) /\ Len(v) \in Int32
      [] kind = "name"   -> v \in Seq(Byte) /\ Len(v) \in Int32 /\ validUsername(v)
      [] kind = "int"    -> v \in Int32
      [] kind = "count"  -> v \in Int32 /\ v >= 0
      [] kind \in {"long", "nonce"} -> v \in Seq(Byte) /\ Len(v) = LONG_SIZE
      [] kind = "time"   -> v \in Seq(Byte) /\ Len(v) = LONG_SIZE /\ v[1] < 128
      [] kind = "length" -> v \in Seq(Byte) /\ Len(v) = LONG_SIZE /\ validMsgLen(v)
      [] kind = "key"    -> /\ v \in Seq(Byte) /\ v # << >> /\ setKey(v[1], Tail(v))
                            /\ v[1] = 0 => Len(v) = 1

\* A message that the client makes.
ClientMessage(m) ==
    /\ Complete(m) /\ m = [type |-> m.type, vals |-> m.vals]
    /\ m.type \in {"Login", "Response", "Poll", "PollResponse"}
    /\ \A i \in DOMAIN m.vals : Sendable(m.vals[i], Kinds(m)[i])
    /\ messageLen(m) <= StackSize

ASSUME ScriptsAssumption ==
    \A s \in Scripts :
        /\ s \in [Threads -> Seq(UNION {Range(s[t]) : t \in Threads})]
        /\ \A t \in Threads : \A m \in Range(s[t]) : ClientMessage(m)

\* The next call of write of thread t.
Write(t) ==
    /\ open /\ script[t] # << >>
    /\ turn # t => switches < MaxSwitches
    /\ turn' = t /\ switches' = IF turn = t THEN switches ELSE switches + 1
    /\ mixed' = (mixed \/ \E u \in Threads \ {t} : at[u] > 0)
    /\ LET m     == Head(script[t])
           calls == Writes(m)
       IN /\ stream' = stream \o calls[at[t] + 1]
          /\ IF at[t] + 1 = Len(calls)
             THEN /\ script' = [script EXCEPT ![t] = Tail(@)]
                  /\ at' = [at EXCEPT ![t] = 0]
                  /\ written' = Append(written, m)
             ELSE /\ at' = [at EXCEPT ![t] = @ + 1]
                  /\ UNCHANGED <<script, written>>
    /\ UNCHANGED <<open, session>>

\* The client exits, whatever its threads are doing.
Close ==
    /\ open
    /\ open' = FALSE
    /\ UNCHANGED <<script, at, turn, switches, written, mixed, stream, session>>

-----------------------------------------------------------------------------
(* decode of the server.                                                   *)

End(how) == server' = how /\ UNCHANGED <<accepted, unlucky>>

\* Fault: the payload may be shorter than the header says.
DecodePayloadShort(h, got) ==
    LET m == Construct(HeaderType(h), got)
    IN IF HeaderType(h) \notin {0, 1, 2, 3, 5, 6} \/ ~m.ok
       THEN End("refused")
       ELSE \/ /\ accepted' = Append(accepted, [type |-> TypeName(HeaderType(h)),
                                                 vals |-> m.vals])
               /\ UNCHANGED <<server, unlucky>>
            \/ /\ HeaderType(h) = 6 /\ Len(m.vals) > 4
               /\ server' = "refused" /\ unlucky' = TRUE
               /\ UNCHANGED accepted

\* The payload is there, or the rest of it will never come.
DecodePayload(h, got) ==
    LET n == IntAt(LengthOf(h), 5)
        m == Construct(HeaderType(h), got)
    IN IF Len(got) < n \/ HeaderType(h) \notin {0, 1, 2, 3, 5, 6} \/ ~m.ok
       THEN End("refused")
       ELSE \/ /\ accepted' = Append(accepted, [type |-> TypeName(HeaderType(h)),
                                                 vals |-> m.vals])
               /\ UNCHANGED <<server, unlucky>>
            \/ /\ HeaderType(h) = 6 /\ Len(m.vals) > 4
               /\ server' = "refused" /\ unlucky' = TRUE
               /\ UNCHANGED accepted

\* decode: recvFully for the header, then for the payload.  At the end of the
\* stream what is missing of the header is what the stack holds.
Decode ==
    /\ server = "reading"
    /\ Len(stream) >= TOTAL_HEADER_LENGTH \/ ~open
    /\ LET some == IF Len(stream) < TOTAL_HEADER_LENGTH THEN Len(stream)
                   ELSE TOTAL_HEADER_LENGTH
       IN \E left \in {stack, [i \in 1 .. TOTAL_HEADER_LENGTH |-> 0]} :
          LET h    == SubSeq(stream, 1, some)
                         \o SubSeq(left, some + 1, TOTAL_HEADER_LENGTH)
              wild == LengthOf(h)[1] >= 128 \/ Over(LengthOf(h), StackSize)
              n    == IntAt(LengthOf(h), 5)
              rest == SubSeq(stream, some + 1, Len(stream))
          IN /\ some = TOTAL_HEADER_LENGTH => left = stack
             /\ GoodHeader(h) /\ ~wild => Len(rest) >= n \/ ~open
             /\ stack' = h
             /\ IF ~GoodHeader(h) \/ wild
                THEN End(IF wild THEN "wild" ELSE "refused") /\ stream' = rest
                ELSE LET got == SubSeq(rest, 1, IF n < Len(rest) THEN n ELSE Len(rest))
                     IN /\ DecodePayload(h, got)
                        /\ stream' = SubSeq(rest, Len(got) + 1, Len(rest))
    /\ UNCHANGED client

-----------------------------------------------------------------------------
Init ==
    /\ script \in Scripts
    /\ at = [t \in Threads |-> 0]
    /\ turn \in Threads
    /\ switches = 0
    /\ stream = << >>
    /\ open = TRUE
    /\ server = "reading"
    /\ stack = [i \in 1 .. TOTAL_HEADER_LENGTH |-> 0]
    /\ written = << >>
    /\ mixed = FALSE
    /\ accepted = << >>
    /\ unlucky = FALSE

Next == (\E t \in Threads : Write(t)) \/ Close \/ Decode

Spec == Init /\ [][Next]_vars

-----------------------------------------------------------------------------
(* What the stream promises.                                               *)

\* As long as no thread writes inside the message of another, the server gets
\* the messages as they were written, in that order and each of them whole,
\* also when the client exits in the middle of one.
Intact == ~mixed => IsPrefix(accepted, written)

\* ... and it refuses none of them: a session ends because the client has
\* gone, or because of the time that setMsgNum reads before it is set.
RefusedForAReason ==
    server # "reading" => mixed \/ ~open \/ unlucky

\* Has every message that was begun been written to its end?
AllWritten == at = [t \in Threads |-> 0]

\* The stream does not recover from a text message another thread wrote into:
\* if decode does return such a message, then it is the last one, since what
\* follows cannot be read as a header.  In particular the server never goes on
\* serving a client whose texts it has stored damaged.
DamageIsLast ==
    AllWritten => \A i \in DOMAIN accepted :
        accepted[i].type = "PollResponse" /\ accepted[i] \notin Range(written)
            => i = Len(accepted)

\* The names in a message.
Names(m) ==
    {m.vals[1]} \cup (IF m.type # "PollResponse" THEN {}
                      ELSE UNION {{w[1], w[2]} : w \in Range(Msgs(m))})

\* However writes mix, no text is stored under or for a name that no message
\* of the client has: bytes of the other message are no names, or the length
\* that follows them is out of reach.
NamesGenuine ==
    AllWritten => \A m \in Range(accepted) :
        m.type = "PollResponse" => Names(m) \subseteq UNION {Names(w) : w \in Range(written)}
=============================================================================
