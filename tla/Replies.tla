------------------------------ MODULE Replies ------------------------------
(***************************************************************************)
(* The bytes from the server to a client: the replies of                   *)
(* clientConnectStart as encode makes them, and the reader thread, which   *)
(* takes them off the stream field by field.                               *)
(*                                                                         *)
(* All fields but one are read with readFully.  The blocks of a text are   *)
(* read with DataInputStream.read, which returns what has arrived, at      *)
(* least one byte, and whose result is not looked at.                      *)
(*                                                                         *)
(* A reply is what it is about and its data.  The cipher is a table.       *)
(***************************************************************************)
EXTENDS SPChatFormat

CONSTANTS
    User,       \* the user of the client
    Texts,      \* texts, as bytes
    Cipher,     \* what AES makes of them
    Now,        \* the time of the poll, and so of its answers
    Scripts     \* what the server may send in one session

BLOCK         == 16
MAX_UNAME_LEN == 64
MAX_LISTS     == 100
MAX_MSG_LEN   == 15
MAX_MSGS      == 500

CipherAssumption ==
    /\ DOMAIN Cipher = Texts
    /\ \A t \in Texts : Len(Cipher[t]) = (Len(t) \div BLOCK + 1) * BLOCK
    /\ \A t, u \in Texts : Cipher[t] = Cipher[u] => t = u

VARIABLES
    script,     \* replies the server has still to send
    open,       \* has it closed the connection?
    sent,       \* history: the replies it has sent
    stream,     \* bytes under way
    reader,     \* "reading", "stuck" after an exception, or "dead"
    todo,       \* the fields it has to read next
    got,        \* the fields it has read of this reply
    blocks,     \* blocks still to read of a text
    chunk,      \* the array a block is read into
    cipher,     \* the blocks read so far
    handled,    \* the replies that have been handled
    short       \* history: a read has returned less than a block

server == <<script, open, sent>>
client == <<reader, todo, got, blocks, chunk, cipher, handled, short>>
vars   == <<server, stream, client>>

-----------------------------------------------------------------------------
(* The server.                                                             *)

\* Never throws, for the key and the initial vector were long enough for it
\* when the session began.
aesEncrypt(plain) == Cipher[plain]

\* The object for a reply; a text goes out alone, with the time of the poll.
Reply(r) ==
    CASE r.what = "challenge" -> [type |-> "Challenge", vals |-> <<r.data>>]
      [] r.what = "ack"       -> [type |-> "ACK", vals |-> <<r.data>>]
      [] r.what = "key"       -> [type |-> "Login", vals |-> << << >>, <<1>> \o r.data>>]
      [] r.what = "text"      ->
           [type |-> "PollResponse",
            vals |-> <<r.data[1], 1, 1, 1, r.data[1], User, aesEncrypt(r.data[2]),
                       Long(Len(r.data[2])), 1, 1, Now>>]

\* The greeting waits for the client's answers; the texts of a poll follow
\* one another.
MaySend ==
    Len(sent) # Len(handled) => Last(sent).what = "text"

SendReply ==
    /\ open /\ script # << >> /\ MaySend
    /\ LET m == Reply(Head(script))
       IN /\ make(m)
          /\ stream' = stream \o SubSeq(encode(m), 1, getTotalMsgLength(m))
    /\ sent' = Append(sent, Head(script))
    /\ script' = Tail(script)
    /\ UNCHANGED <<open, client>>

\* The session ends: its time is up, a text is too long, setMsgNum finds a
\* negative time in the memory, or anything else throws.  If there is
\* something it has not read, what is under way may be lost (cut anywhere;
\* here nowhere, in the middle or at once).
Close ==
    /\ open
    /\ open' = FALSE /\ script' = << >>
    /\ \E n \in {0, Len(stream) \div 2, Len(stream)} : stream' = SubSeq(stream, 1, n)
    /\ UNCHANGED <<sent, client>>

-----------------------------------------------------------------------------
(* The reader thread.                                                      *)

HeaderFields == <<"magic", "type", "length">>
TextFields   == <<"nameLen", "bytes", "nameLen", "bytes", "cipherLen",
                  "plainLen", "number", "total", "time">>

\* What is read after the header, by type.  The payload of another type that
\* exists is not skipped; for one that does not, switch throws.
Body(type) ==
    CASE type = 0 -> <<"nameLen", "bytes", "keyType">>
      [] type = 1 -> <<"challenge">>
      [] type = 3 -> <<"ack">>
      [] type = 6 -> <<"nameLen", "bytes", "list", "lists", "size">>
      [] OTHER    -> HeaderFields

\* The bytes of a field, and its value.
Width(kind) ==
    CASE kind = "magic" -> Len(HEADER)
      [] kind \in {"type", "keyType", "ack"} -> 1
      [] kind \in {"length", "plainLen", "time"} -> LONG_SIZE
      [] kind = "challenge" -> CHALLENGE_LENGTH
      [] kind = "key" -> ASYMMETRIC_LENGTH
      [] kind = "bytes" -> Last(got)
      [] OTHER -> INT_SIZE

Value(kind, b) ==
    CASE kind \in {"type", "keyType"} -> b[1]
      [] kind = "ack" -> <<b[1] \div 2, b[1] % 2>>
      [] kind \in {"magic", "length", "plainLen", "time", "challenge", "key", "bytes"} -> b
      [] OTHER -> IntAt(b, 1)

\* Neither negative nor later than now.
NotLater(b) ==
    /\ b[1] < 128
    /\ \/ IntAt(b, 1) < Now[1]
       \/ IntAt(b, 1) = Now[1] /\ IntAt(b, 5) \in 0 .. Now[2]

\* Fault: the length of the text is not compared.
FitsAnyLength(kind, v) ==
    CASE kind = "magic"    -> v = HEADER
      [] kind \in {"length", "plainLen"} -> v[1] < 128
      [] kind = "nameLen"  -> v \in 0 .. MAX_UNAME_LEN
      [] kind = "list"     -> v \in 0 .. MAX_LISTS
      [] kind = "lists"    -> v \in 1 .. MAX_LISTS /\ Last(got) \in 1 .. v
      [] kind \in {"size", "cipherLen", "number"} -> v >= 0
      [] kind = "total"    -> Last(got) \in 1 .. v
      [] kind = "time"     -> NotLater(v)
      [] kind = "keyType"  -> v < 3 \/ v > 127
      [] kind = "key"      -> isPem(v)
      [] OTHER             -> TRUE

\* Does the constructor go on after this value?
Fits(kind, v) ==
    CASE kind = "magic"    -> v = HEADER
      [] kind = "length"   -> v[1] < 128
      [] kind = "nameLen"  -> v \in 0 .. MAX_UNAME_LEN
      [] kind = "list"     -> v \in 0 .. MAX_LISTS
      [] kind = "lists"    -> v \in 1 .. MAX_LISTS /\ Last(got) \in 1 .. v
      [] kind \in {"size", "cipherLen", "number"} -> v >= 0
      [] kind = "plainLen" -> /\ v = encodeLong(Long(Len(Last(got))))
                              /\ Len(Last(got)) <= MAX_MSG_LEN * MAX_MSGS
      [] kind = "total"    -> Last(got) \in 1 .. v
      [] kind = "time"     -> NotLater(v)
      [] kind = "keyType"  -> v < 3 \/ v > 127
      [] kind = "key"      -> isPem(v)
      [] OTHER             -> TRUE

\* The fields that follow one of this kind and value.
Following(kind, v) ==
    CASE kind = "length"  -> Body(got[2])
      [] kind = "keyType" /\ v = 1 -> <<"key">>
      [] kind = "size"    -> FlattenSeq([i \in 1 .. v |-> TextFields])
      [] OTHER            -> Tail(todo)

\* What has been handled when nothing is left to read: a text is shown if it
\* is for the user and from the one the reply names.
Handled(g) ==
    CASE g[2] = 0 -> [what |-> "key", data |-> g[7]]
      [] g[2] = 1 -> [what |-> "challenge", data |-> g[4]]
      [] g[2] = 3 -> [what |-> "ack", data |-> g[4]]
      [] g[2] = 6 -> [what |-> "text",
                      data |-> <<g[5], IF g[10] = g[5] /\ g[12] = User THEN g[14] ELSE << >>>>]

\* Fault: handleACK says that it is still at work.
AfterHandlingBusy(r) == IF r.what = "ack" THEN "stuck" ELSE "reading"

\* Every handler gives working back.
AfterHandling(r) == IF r.what \in {"challenge", "ack", "key", "text"} THEN "reading" ELSE "stuck"

\* Fault: what has arrived is thrown away, and reading goes on.
FailSkips ==
    /\ stream' = << >>
    /\ todo' = HeaderFields /\ got' = << >> /\ blocks' = 0
    /\ UNCHANGED <<reader, chunk, cipher, handled, short>>

\* A BabbleException leaves working set.
Fail ==
    /\ reader' = "stuck"
    /\ UNCHANGED <<stream, todo, got, blocks, chunk, cipher, handled, short>>

\* The next field.  A reply that will never be whole ends in an IOException.
ReadField ==
    LET kind == Head(todo)
        n    == Width(kind)
        v    == Value(kind, SubSeq(stream, 1, n))
        g    == Append(got, v)
        next == Following(kind, v)
        good == Len(stream) >= n /\ Fits(kind, v)
    IN /\ reader = "reading" /\ blocks = 0
       /\ Len(stream) >= n \/ ~open
       /\ \/ ~good /\ Fail
          \/ /\ good
             /\ stream' = SubSeq(stream, n + 1, Len(stream))
             /\ blocks' = IF kind = "cipherLen" THEN (v + BLOCK - 1) \div BLOCK ELSE 0
             /\ chunk' = [i \in 1 .. BLOCK |-> 0] /\ cipher' = << >>
             /\ IF next = << >>
                THEN /\ handled' = Append(handled, Handled(g))
                     /\ reader' = AfterHandling(Handled(g))
                     /\ todo' = HeaderFields /\ got' = << >>
                ELSE /\ todo' = next
                     /\ got' = IF next = HeaderFields THEN << >> ELSE g
                     /\ reader' = IF kind = "length" /\ got[2] \notin 0 .. 6
                                  THEN "dead" ELSE "reading"
                     /\ UNCHANGED handled
             /\ UNCHANGED short
    /\ UNCHANGED server

\* What decrypting gives: the text, or something as long as its padding may
\* make it (here the shortest and the longest).
Unpadded(c) ==
    IF \E t \in Texts : Cipher[t] = c THEN {t \in Texts : Cipher[t] = c}
    ELSE {[i \in 1 .. n |-> 256] : n \in {Len(c) - BLOCK, Len(c) - 1}}

\* The next block: as much of it as has arrived, over what the array holds.
\* At the end of the stream nothing is read, and nobody notices.  Bad padding
\* is a BabbleException.
ReadBlock ==
    /\ reader = "reading" /\ blocks > 0
    /\ \E n \in 0 .. BLOCK :
         /\ n <= Len(stream)
         /\ n = 0 => stream = << >> /\ ~open
         /\ chunk' = SubSeq(stream, 1, n) \o SubSeq(chunk, n + 1, BLOCK)
         /\ stream' = SubSeq(stream, n + 1, Len(stream))
         /\ short' = (short \/ n < BLOCK)
    /\ cipher' = cipher \o chunk'
    /\ blocks' = blocks - 1
    /\ \/ blocks > 1 /\ UNCHANGED <<got, reader>>
       \/ /\ blocks = 1
          /\ \/ \E t \in Unpadded(cipher') : got' = Append(got, t) /\ UNCHANGED reader
             \/ /\ cipher' \notin {Cipher[t] : t \in Texts}
                /\ reader' = "stuck" /\ UNCHANGED got
    /\ UNCHANGED <<server, todo, handled>>

-----------------------------------------------------------------------------
Init ==
    /\ script \in Scripts /\ open = TRUE /\ sent = << >> /\ stream = << >>
    /\ reader = "reading" /\ todo = HeaderFields /\ got = << >>
    /\ blocks = 0 /\ chunk = [i \in 1 .. BLOCK |-> 0] /\ cipher = << >>
    /\ handled = << >> /\ short = FALSE

Next == SendReply \/ Close \/ ReadField \/ ReadBlock

Spec == Init /\ [][Next]_vars

\* The reader thread runs.
Fairness == WF_vars(ReadField) /\ WF_vars(ReadBlock)
FairSpec == Spec /\ Fairness

-----------------------------------------------------------------------------
(* What the stream promises.                                               *)

\* Whatever the reads return and wherever the stream ends, the client handles
\* replies as they were sent and in that order: a text that was read short is
\* never shown, for the fields behind it give it away.
HandledAsSent == IsPrefix(handled, sent)

\* After a short read nothing is handled any more: the reader thread does not
\* go on at a wrong place of the stream.
QuietWhenShort == short => UNCHANGED handled
ShortIsLast == [][QuietWhenShort]_vars

\* While the connection is open the reader thread always catches up: every
\* reply that was sent is handled, unless a read was short.
EachHandled == []<>(Len(handled) = Len(sent) \/ short \/ ~open)
=============================================================================
