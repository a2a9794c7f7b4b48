---------------------------- MODULE SPChatFormat ----------------------------
(***************************************************************************)
(* The SPChat classes of the server as operators: the bytes that encode    *)
(* makes of a message, and what the constructors that decode calls make of *)
(* a payload.                                                              *)
(*                                                                         *)
(* A byte is a number below 256.  A message is its type and the values of  *)
(* its fields in the order of the format: names, texts and keys are bytes, *)
(* counts are numbers.  A long is written from its two halves and read as  *)
(* its eight bytes.                                                        *)
(***************************************************************************)
EXTENDS Integers, Sequences, SequencesExt

(* Header and fields. *)
HEADER == <<83, 80, 67, 104, 97, 116, 47, 49, 46, 48>>   \* SPChat/1.0
INT_SIZE  == 4
LONG_SIZE == 8
TOTAL_HEADER_LENGTH == Len(HEADER) + 1 + LONG_SIZE

\* SPCHATLOGIN_TYPE and the others.
TypeCode(type) ==
    CASE type = "Login" -> 0 [] type = "Challenge" -> 1 [] type = "Response" -> 2
      [] type = "ACK" -> 3 [] type = "Poll" -> 5 [] type = "PollResponse" -> 6

\* A text in a PollResponse has seven fields; the four fields of the
\* PollResponse come before its texts.
MsgSize == 7
Msgs(m) == [i \in 1 .. (Len(m.vals) - 4) \div MsgSize |->
               SubSeq(m.vals, 5 + (i - 1) * MsgSize, 4 + i * MsgSize)]

CHALLENGE_LENGTH     == 8
MAX_MESSAGE_LENGTH   == 500
ASYMMETRIC_LENGTH    == 271
ENCRYPTED_SYM_LENGTH == 128
SERVER == 0
CLIENT == 1
Byte  == 0 .. 255
Int32 == - 2^30 - 2^30 .. 2^30 - 1 + 2^30
SUCCESS       == 0
PASSWORD_AUTH == 5      \* the last of the errors

-----------------------------------------------------------------------------
(* What the setters test.                                                  *)

\* The value of four bytes as a signed number.
IntAt(b, p) ==
    LET low == (((b[p] % 128) * 256 + b[p + 1]) * 256 + b[p + 2]) * 256 + b[p + 3]
    IN IF b[p] < 128 THEN low ELSE low - 2^30 - 2^30

\* Is a long of eight bytes greater than n?
Over(long, n) ==
    /\ long[1] < 128
    /\ SubSeq(long, 1, 4) # <<0, 0, 0, 0>> \/ long[5] >= 128 \/ IntAt(long, 5) > n

\* Fault: any byte is part of a name.
validUsernameAny(s) == \A i \in DOMAIN s : s[i] \in 0 .. 255

\* Letters, digits, @ - . _
validUsername(s) ==
    \A i \in DOMAIN s :
        s[i] \in (48 .. 57) \cup (64 .. 90) \cup (97 .. 122) \cup {45, 46, 95}

\* Fault: the length of the text is taken as it comes.
validMsgLenAny(long) == Len(long) = LONG_SIZE

\* setDecryptMsgLen
validMsgLen(long) == ~Over(long, MAX_MESSAGE_LENGTH)

Dashes     == <<45, 45, 45, 45, 45>>
PUBLIC_KEY == <<32, 80, 85, 66, 76, 73, 67, 32, 75, 69, 89>>
ASYMMETRIC_HEADER == Dashes \o <<66, 69, 71, 73, 78>> \o PUBLIC_KEY \o Dashes \o <<10>>
ASYMMETRIC_FOOTER == Dashes \o <<69, 78, 68>> \o PUBLIC_KEY \o Dashes \o <<10>>
ASYMMETRIC_ENDLINE_POS == {91, 156, 221, 246}

\* setAsymmetricKey: a PEM text up to the end of its last line.
isPem(k) ==
    /\ SubSeq(k, 1, Len(ASYMMETRIC_HEADER)) = ASYMMETRIC_HEADER
    /\ SubSeq(k, 248, 271) = SubSeq(ASYMMETRIC_FOOTER, 1, 24)
    /\ \A i \in ASYMMETRIC_ENDLINE_POS : k[i + 1] = 10

-----------------------------------------------------------------------------
(* encode.                                                                 *)

\* Big-endian order.  A long is its two halves, each below 2^31.
encodeInt(n) ==
    LET a == n \div 256  b == a \div 256  c == b \div 256
    IN <<c % 256, b % 256, a % 256, n % 256>>
encodeLong(n)   == encodeInt(n[1]) \o encodeInt(n[2])
encodeString(s) == encodeInt(Len(s)) \o s
Long(n)         == <<0, n>>

\* Fault: receiver and sender change places.
encodeMessageSwapped(v) ==
    encodeString(v[2]) \o encodeString(v[1]) \o encodeString(v[3]) \o encodeLong(v[4])
        \o encodeInt(v[5]) \o encodeInt(v[6]) \o encodeLong(v[7])

encodeMessage(v) ==
    encodeString(v[1]) \o encodeString(v[2]) \o encodeString(v[3]) \o encodeLong(v[4])
        \o encodeInt(v[5]) \o encodeInt(v[6]) \o encodeLong(v[7])

\* SPChatMsgMessage: what its constructor accepts, and its length.
validPositiveNum(n) == n >= 0
makeMsg(v) ==
    /\ validUsername(v[1]) /\ validUsername(v[2])
    /\ validMsgLen(encodeLong(v[4]))
    /\ validPositiveNum(v[6]) /\ validPositiveNum(v[7][1])

msgLength(v) ==
    INT_SIZE * 5 + LONG_SIZE * 2 + Len(v[1]) + Len(v[2]) + Len(v[3])

\* SPChatLogin.  For a symmetric key setKey fills encSymKey, and key is empty.
setKey(type, k) ==
    \/ type = 0
    \/ type = 1 /\ Len(k) = ASYMMETRIC_LENGTH /\ isPem(k)
    \/ type = 2 /\ Len(k) = ENCRYPTED_SYM_LENGTH
setUsername(s) == validUsername(s)
makeLogin(v)   == setUsername(v[1]) /\ setKey(v[2][1], Tail(v[2]))
getKey(v)      == IF v[2][1] = 1 THEN Tail(v[2]) ELSE << >>
loginMiddle(v) == encodeString(v[1]) \o <<v[2][1]>> \o getKey(v)
loginLength(v) ==
    INT_SIZE + Len(v[1]) + 1
      + (CASE v[2][1] = 0 -> 0 [] v[2][1] = 1 -> ASYMMETRIC_LENGTH
           [] v[2][1] = 2 -> ENCRYPTED_SYM_LENGTH)

\* SPChatChallenge
setChallenge(c)    == Len(c) = CHALLENGE_LENGTH
makeChallenge(v)   == setChallenge(v[1])
challengeMiddle(v) == v[1]

\* SPChatResponse: setHash and setNonce take anything.
responseSetters(v) == validUsername(v[1])
makeResponse(v)   == responseSetters(v)
responseMiddle(v) == encodeString(v[1]) \o encodeString(v[2]) \o v[3]
responseLength(v) == INT_SIZE * 2 + Len(v[1]) + Len(v[2]) + LONG_SIZE

\* SPChatACK: error and sender in one byte.
setError(error)   == error \in SUCCESS .. PASSWORD_AUTH
setSender(sender) == sender \in {SERVER, CLIENT}
makeACK(v)        == setError(v[1][1]) /\ setSender(v[1][2])
ackMiddle(v)      == <<v[1][1] * 2 + v[1][2]>>

\* SPChatPoll: setTime takes anything, only getTime tests it.
pollSetters(v) == validUsername(v[1])
makePoll(v)   == pollSetters(v)
pollMiddle(v) == encodeString(v[1]) \o encodeLong(v[2])
pollLength(v) == INT_SIZE + Len(v[1]) + LONG_SIZE

\* The sum of the lengths of texts.
Total(lengths) ==
    LET upTo[i \in 0 .. Len(lengths)] == IF i = 0 THEN 0 ELSE upTo[i - 1] + lengths[i]
    IN upTo[Len(lengths)]

\* SPChatPollResponse
setList(v) == validUsername(v[1]) /\ validPositiveNum(v[2]) /\ validPositiveNum(v[3])
makePollResponse(m) == setList(m.vals) /\ \A w \in Range(Msgs(m)) : makeMsg(w)
encodeMsgList(m) ==
    encodeInt(Len(Msgs(m))) \o FlattenSeq([i \in DOMAIN Msgs(m) |-> encodeMessage(Msgs(m)[i])])
pollResponseMiddle(m) ==
    encodeString(m.vals[1]) \o encodeInt(m.vals[2]) \o encodeInt(m.vals[3])
        \o encodeMsgList(m)
pollResponseLength(m) ==
    INT_SIZE * 4 + Len(m.vals[1]) + Total([i \in DOMAIN Msgs(m) |-> msgLength(Msgs(m)[i])])

\* Does the constructor accept the values?
make(m) ==
    CASE m.type = "Login"     -> makeLogin(m.vals)
      [] m.type = "Challenge" -> makeChallenge(m.vals)
      [] m.type = "Response"  -> makeResponse(m.vals)
      [] m.type = "ACK"       -> makeACK(m.vals)
      [] m.type = "Poll"      -> makePoll(m.vals)
      [] m.type = "PollResponse" -> makePollResponse(m)

encodeMiddle(m) ==
    CASE m.type = "Login"     -> loginMiddle(m.vals)
      [] m.type = "Challenge" -> challengeMiddle(m.vals)
      [] m.type = "Response"  -> responseMiddle(m.vals)
      [] m.type = "ACK"       -> ackMiddle(m.vals)
      [] m.type = "Poll"      -> pollMiddle(m.vals)
      [] m.type = "PollResponse" -> pollResponseMiddle(m)

getPayloadLength(m) ==
    CASE m.type = "Login"     -> loginLength(m.vals)
      [] m.type = "Challenge" -> CHALLENGE_LENGTH
      [] m.type = "Response"  -> responseLength(m.vals)
      [] m.type = "ACK"       -> 1
      [] m.type = "Poll"      -> pollLength(m.vals)
      [] m.type = "PollResponse" -> pollResponseLength(m)

getTotalMsgLength(m) == getPayloadLength(m) + TOTAL_HEADER_LENGTH

encodeHeader(m) ==
    HEADER \o <<TypeCode(m.type)>> \o encodeLong(Long(getPayloadLength(m)))

encode(m) == encodeHeader(m) \o encodeMiddle(m)

-----------------------------------------------------------------------------
(* decode.                                                                 *)

\* Is there room for n bytes from place p on?
Room(b, p, n) == n <= Len(b) - p + 1

\* decodeString
HasString(b, p) ==
    Room(b, p, INT_SIZE) /\ IntAt(b, p) >= 0 /\ Room(b, p + INT_SIZE, IntAt(b, p))
StringAt(b, p) == SubSeq(b, p + INT_SIZE, p + INT_SIZE - 1 + IntAt(b, p))

LongAt(b, p) == SubSeq(b, p, p + LONG_SIZE - 1)

\* decodeKey: what follows no key, or a public key, is not looked at.
KeySize(b, p) ==
    CASE b[p] = 1 -> ASYMMETRIC_LENGTH [] b[p] = 2 -> ENCRYPTED_SYM_LENGTH
      [] OTHER -> 0
KeyAt(b, p) == SubSeq(b, p, p + KeySize(b, p))
HasKey(b, p) ==
    /\ Room(b, p, 1) /\ b[p] \in 0 .. 2
    /\ Room(b, p + 1, KeySize(b, p))
    /\ b[p] = 1 => isPem(Tail(KeyAt(b, p)))
    /\ b[p] = 2 => Len(b) = p + ENCRYPTED_SYM_LENGTH

\* Does the constructor get past a field of this kind at place p?
Readable(b, p, kind) ==
    CASE kind = "string" -> HasString(b, p)
      [] kind = "name"   -> HasString(b, p) /\ validUsername(StringAt(b, p))
      [] kind = "int"    -> Room(b, p, INT_SIZE)
      [] kind = "count"  -> Room(b, p, INT_SIZE) /\ IntAt(b, p) >= 0
      [] kind = "long"   -> Room(b, p, LONG_SIZE)
      [] kind = "time"   -> Room(b, p, LONG_SIZE) /\ b[p] < 128
      [] kind = "length" -> Room(b, p, LONG_SIZE)
                            /\ validMsgLen(LongAt(b, p))
      [] kind = "challenge" -> Room(b, p, CHALLENGE_LENGTH)
      [] kind = "nonce"  -> TRUE
      [] kind = "key"    -> HasKey(b, p)
      [] kind = "ack"    -> Room(b, p, 1) /\ setSender(b[p] % 2) /\ setError(b[p] \div 2)

\* What it takes from there, ...
ValueAt(b, p, kind) ==
    CASE kind \in {"string", "name"} -> StringAt(b, p)
      [] kind \in {"int", "count"}   -> IntAt(b, p)
      [] kind \in {"long", "time", "length"} -> LongAt(b, p)
      [] kind = "challenge" -> SubSeq(b, p, p + CHALLENGE_LENGTH - 1)
      [] kind = "nonce" -> IF Room(b, p, LONG_SIZE) THEN LongAt(b, p) ELSE << >>
      [] kind = "key"   -> KeyAt(b, p)
      [] kind = "ack"   -> <<b[p] \div 2, b[p] % 2>>

\* ... and how many bytes that is.
SizeAt(b, p, kind) ==
    CASE kind \in {"string", "name"} -> INT_SIZE + IntAt(b, p)
      [] kind \in {"int", "count"}   -> INT_SIZE
      [] kind = "ack"                -> 1
      [] OTHER                       -> Len(ValueAt(b, p, kind))

\* State t of the constructor after a field; one that throws gets no further.
Field(b, t, kind) ==
    IF ~t.ok \/ ~Readable(b, t.p, kind) THEN [t EXCEPT !.ok = FALSE]
    ELSE [ok |-> TRUE, p |-> t.p + SizeAt(b, t.p, kind),
          vals |-> Append(t.vals, ValueAt(b, t.p, kind))]

\* One field after the other, from state s on.
Fields(b, s, format) ==
    LET after[i \in 0 .. Len(format)] ==
            IF i = 0 THEN s ELSE Field(b, after[i - 1], format[i])
    IN after[Len(format)]

\* The constructors for deserialization.
loginFormat        == <<"name", "key">>
challengeFormat    == <<"challenge">>
responseFormat     == <<"name", "string", "nonce">>
ackFormat          == <<"ack">>
pollFormat         == <<"name", "long">>
pollResponseFormat == <<"name", "count", "count", "int">>
MsgFormat == <<"name", "name", "string", "length", "int", "count", "time">>

Format(type) ==
    CASE type = 0 -> loginFormat    [] type = 1 -> challengeFormat
      [] type = 2 -> responseFormat [] type = 3 -> ackFormat
      [] type = 5 -> pollFormat     [] type = 6 -> pollResponseFormat

\* The kinds of the fields of a message, those of its texts included.
Kinds(m) ==
    LET format == Format(TypeCode(m.type))
    IN format \o [i \in 1 .. Len(m.vals) - Len(format) |-> MsgFormat[1 + ((i - 1) % MsgSize)]]

\* Every parameter of the constructor is there, and a PollResponse has as many
\* texts as it says.
Complete(m) ==
    /\ m.type \in {"Login", "Challenge", "Response", "ACK", "Poll", "PollResponse"}
    /\ m.vals = [i \in 1 .. Len(m.vals) |-> m.vals[i]]
    /\ m.type = "PollResponse" => m.vals[4] \in Nat
    /\ Len(m.vals) = IF m.type # "PollResponse" THEN Len(Format(TypeCode(m.type)))
                     ELSE 4 + m.vals[4] * MsgSize

\* decodeMsgList: as many texts as the last field says; with more of them than
\* fit the constructor throws in one of them.
MinMsgSize == INT_SIZE * 5 + LONG_SIZE * 2

MsgFields(b, head) ==
    LET n == head.vals[4]
    IN CASE n <= 0 -> head
         [] n > Len(b) \div MinMsgSize -> [head EXCEPT !.ok = FALSE]
         [] OTHER -> Fields(b, head, [i \in 1 .. n * MsgSize |->
                                         MsgFormat[1 + ((i - 1) % MsgSize)]])

\* What the constructor for a type makes of a payload.
Construct(type, b) ==
    LET head == Fields(b, [ok |-> TRUE, p |-> 1, vals |-> << >>], Format(type))
    IN IF type = 6 /\ head.ok THEN MsgFields(b, head) ELSE head

TypeName(type) ==
    CASE type = 0 -> "Login" [] type = 1 -> "Challenge" [] type = 2 -> "Response"
      [] type = 3 -> "ACK" [] type = 5 -> "Poll" [] type = 6 -> "PollResponse"

\* The header and the payload length that decodeHeader finds, if it does not
\* throw; a length beyond the stack is wild.
GoodHeader(h) == SubSeq(h, 1, Len(HEADER)) = HEADER
HeaderType(h) == h[11]
LengthOf(h)   == LongAt(h, 12)
=============================================================================
