------------------------------- MODULE Codec -------------------------------
(***************************************************************************)
(* encode and decode of the SPChat classes against each other: an object   *)
(* is made, encoded, sent with the length it says it has, and taken apart  *)
(* again.                                                                  *)
(***************************************************************************)
EXTENDS SPChatFormat

CONSTANTS
    Samples,   \* the messages tried
    Heap       \* what may lie in the memory behind a buffer

\* What the type of a parameter lets through, before any setter has seen it;
\* a string or a vector is shorter than an int can say.  A key comes with the
\* byte that says which it is.
Argument(v, kind) ==
    CASE kind \in {"string", "name", "challenge", "nonce"} ->
                                v \in Seq(Byte) /\ Len(v) \in Int32
      [] kind \in {"int", "count"} -> v \in Int32
      [] kind \in {"long", "time", "length"} -> v[1] \in Int32 /\ v[2] \in Int32
      [] kind = "ack" -> v \in Int \X Int
      [] kind = "key" -> v \in Seq(Byte) /\ v # << >>

Object(m) ==
    Complete(m) /\ \A i \in DOMAIN m.vals : Argument(m.vals[i], Kinds(m)[i])

ASSUME SamplesAssumption == \A m \in Samples : Object(m)

\* No message has its end further behind its buffer than a symmetric key is long.
Memory == {b \in Seq(Byte) : Len(b) >= ENCRYPTED_SYM_LENGTH}

ASSUME HeapAssumption == Heap \subseteq Memory

\* The n bytes from the start of s: s as far as it goes, and then the memory
\* behind it.
BytesOf(s, n, behind) ==
    [i \in 1 .. n |-> IF i <= Len(s) THEN s[i] ELSE behind[i - Len(s)]]

VARIABLES
    step,          \* what has been done
    message,       \* the object
    bytes,         \* what encode has put into the buffer, then what is sent
    back           \* what the constructor has made of that

codecVars == <<step, message, bytes, back>>

CodecInit ==
    /\ step = "start" /\ message \in Samples
    /\ bytes = << >> /\ back = [ok |-> FALSE, p |-> 0, vals |-> << >>]

\* The setters throw, or setMsgNum of a text finds a negative time in the
\* memory.
New ==
    /\ step = "start"
    /\ \/ step' = IF make(message) THEN "made" ELSE "refused"
       \/ message.type = "PollResponse" /\ Msgs(message) # << >> /\ step' = "refused"
    /\ UNCHANGED <<message, bytes, back>>

Encode ==
    /\ step = "made" /\ step' = "encoded"
    /\ bytes' = encode(message)
    /\ UNCHANGED <<message, back>>

\* send takes getTotalMsgLength bytes from the buffer, however many encode has
\* put there.
Send ==
    /\ step = "encoded" /\ step' = "sent"
    /\ \E behind \in Heap : bytes' = BytesOf(bytes, getTotalMsgLength(message), behind)
    /\ UNCHANGED <<message, back>>

DecodeObject ==
    /\ step = "sent" /\ GoodHeader(bytes)
    /\ \/ /\ step' = "read"
          /\ back' = Construct(HeaderType(bytes),
                               SubSeq(bytes, TOTAL_HEADER_LENGTH + 1, Len(bytes)))
       \/ message.type = "PollResponse" /\ Msgs(message) # << >>
          /\ step' = "refused" /\ UNCHANGED back
    /\ UNCHANGED <<message, bytes>>

CodecNext == New \/ Encode \/ Send \/ DecodeObject

CodecSpec == CodecInit /\ [][CodecNext]_codecVars

-----------------------------------------------------------------------------
\* A field as the constructor for deserialization finds it.  encode writes the
\* type of a symmetric key and not the key, and a nonce of any length, while
\* getTotalMsgLength counts the key and eight bytes for the nonce.
FieldRead(v, kind, behind) ==
    CASE kind \in {"long", "length", "time"} -> encodeLong(v)
      [] kind = "nonce" -> BytesOf(v, LONG_SIZE, behind)
      [] kind = "key" /\ v[1] = 0 -> <<0>>
      [] kind = "key" /\ v[1] = 2 -> BytesOf(<<2>>, 1 + ENCRYPTED_SYM_LENGTH, behind)
      [] OTHER -> v
AsRead(m, behind) ==
    [i \in DOMAIN m.vals |-> FieldRead(m.vals[i], Kinds(m)[i], behind)]

\* What was encoded is decoded without an exception and to the last byte of its
\* payload, and every field comes back as it was: all but a symmetric key and
\* what a nonce lacks of eight bytes, in whose place comes what lay behind the
\* buffer, and what a nonce has beyond eight bytes, which is lost.
RoundTrip ==
    step = "read" =>
        /\ back.ok /\ \E behind \in Heap : back.vals = AsRead(message, behind)
        /\ back.p + TOTAL_HEADER_LENGTH = Len(bytes) + 1
=============================================================================
