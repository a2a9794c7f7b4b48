------------------------------ MODULE MCFormat ------------------------------
(***************************************************************************)
(* What is written and read again, on small instances: Framing from client *)
(* to server, Replies from server to client, Codec for the SPChat classes  *)
(* against themselves, and the strings and files of SurveyCommon.  These   *)
(* share operators and no state, so that one behaviour is about one of     *)
(* them, and the others stay as they began.                                *)
(***************************************************************************)
EXTENDS Framing, Codec, SurveyCommon, ReadSurvey

name(n)     == [i \in 1 .. n |-> 97]
octets(n, z) == [i \in 1 .. n |-> IF i > n - z THEN 0 ELSE ((7 * i) % 255) + 1]
pem == [i \in 1 .. ASYMMETRIC_LENGTH |->
          CASE i <= Len(ASYMMETRIC_HEADER) -> ASYMMETRIC_HEADER[i]
            [] i - 1 \in ASYMMETRIC_ENDLINE_POS -> 10
            [] i >= 248 -> ASYMMETRIC_FOOTER[i - 247]
            [] OTHER -> 65]

-----------------------------------------------------------------------------
(* Framing: the pairs of threads that can write at once.                   *)

time(x)      == <<0, 0, 1, x, 2, 3, 4, 5>>
same(n, x)   == [i \in 1 .. n |-> x]

login    == [type |-> "Login", vals |-> <<name(1), <<0>>>>]
response == [type |-> "Response", vals |-> <<name(1), same(64, 102), time(9)>>]
symKey   == [type |-> "Login", vals |-> <<name(1), <<2>> \o same(128, 200)>>]
poll(n, x)  == [type |-> "Poll", vals |-> <<name(n), time(x)>>]
store(n, c) == [type |-> "PollResponse",
                vals |-> <<name(n), 1, 1, 1,
                           name(n), <<98>>, c, encodeLong(Long(3)), 1, 1, time(7)>>]

MCThreads == {"edt", "other"}
MCScript(a, b) == [t \in MCThreads |-> IF t = "edt" THEN a ELSE b]

\* The sizes are those at which the two messages fit into each other: a poll
\* of a name of nine is as long as the rest of a text of one block, and a poll
\* of a name of one as long as a text of two.
MCScripts ==
    {MCScript(<<login>>, <<response>>), MCScript(<<login>>, <<symKey>>)}
      \cup {MCScript(<<store(x[1], x[2])>>, <<poll(x[1], 8), poll(x[1], 9)>>) :
                x \in {<<1, same(16, 0)>>, <<9, same(16, 0)>>,
                       <<1, same(32, 200)>>, <<1, same(96, 0)>>}}

-----------------------------------------------------------------------------
(* Replies: a greeting and two texts.  The ciphers end in zeros or not, and *)
(* have one block or two; the sizes of the texts are those at which the    *)
(* fields behind a text still make sense when they are read a few bytes    *)
(* too early.                                                              *)

MCNow == <<341, 65536>>
one   == <<120>>
two   == <<121, 121>>
long  == same(17, 122)
MCTexts  == {<< >>, one, two, long}
MCCipher == [t \in MCTexts |->
               CASE t = << >> -> octets(16, 1) [] t = one -> octets(16, 0)
                 [] t = two -> octets(16, 5) [] t = long -> octets(32, 4)]

greeting == <<[what |-> "challenge", data |-> octets(8, 2)],
              [what |-> "ack", data |-> <<PASSWORD_AUTH, SERVER>>],
              [what |-> "key", data |-> pem],
              [what |-> "ack", data |-> <<SUCCESS, SERVER>>]>>
textReply(t) == [what |-> "text", data |-> <<<<98>>, t>>]

MCReplies == {greeting \o <<textReply(t), textReply(one)>> : t \in MCTexts}

VARIABLES replies, online, replied, incoming, reader, fields, got, blocks, chunk,
          cipher, handled, short

R == INSTANCE Replies
         WITH User <- name(1), Texts <- MCTexts, Cipher <- MCCipher, Now <- MCNow,
              Scripts <- MCReplies,
              script <- replies, open <- online, stream <- incoming,
              sent <- replied, todo <- fields

ASSUME R!CipherAssumption

-----------------------------------------------------------------------------
(* Codec: messages of every class with fields at the edges of a byte, the  *)
(* two for which encode and getTotalMsgLength disagree among them, and     *)
(* some that the setters refuse.                                           *)

varied(n) == [i \in 1 .. n |-> (37 * i) % 256]
times     == {<<0, 0>>, <<0, 255>>, <<341, 65536>>, <<2^30, 2^30>>}
sizes     == {0, 1, 255, 256}

textIn(n, c, t) == <<name(n), <<98>>, varied(c), <<0, c - 1>>, 1, 1, t>>

refused ==
    {[type |-> "Challenge", vals |-> <<varied(n)>>] : n \in {0, 7, 9}}
      \cup {[type |-> "Login", vals |-> <<name(1), <<1>> \o k>>] :
                k \in {varied(271), Tail(pem), Append(pem, 10)}}
      \cup {[type |-> "Login", vals |-> <<name(1), <<2>> \o varied(n)>>] : n \in {127, 129}}
      \cup {[type |-> "Poll", vals |-> <<<<39>>, <<0, 0>>>>],
            [type |-> "PollResponse", vals |-> <<name(1), 1, -1, 0>>]}

MCSamples ==
    {[type |-> "Challenge", vals |-> <<varied(8)>>],
     [type |-> "Login", vals |-> <<name(0), <<1>> \o pem>>]}
      \cup refused
      \cup {[type |-> "ACK", vals |-> <<<<x, s>>>>] : x \in SUCCESS .. PASSWORD_AUTH, s \in {0, 1}}
      \cup {[type |-> "PollResponse", vals |-> <<name(n), 1, 1, 1>> \o textIn(n, c, t)] :
                n \in sizes, c \in {16, 496}, t \in times}
      \cup {[type |-> "Login", vals |-> <<name(n), <<0>>>>] : n \in sizes}
      \cup {[type |-> "Poll", vals |-> <<name(n), t>>] : n \in sizes, t \in times}
      \cup {[type |-> "Login", vals |-> <<name(n), <<2>> \o varied(128)>>] : n \in sizes}
      \cup {[type |-> "Login", vals |-> <<name(1), <<0>> \o varied(9)>>]}
      \cup {[type |-> "Response", vals |-> <<name(n), name(64), varied(k)>>] :
                n \in sizes, k \in {0, 7, 8, 9}}
      \cup {[type |-> "PollResponse", vals |-> <<name(1), 1, 2, k>> \o
                FlattenSeq([i \in 1 .. k |-> textIn(i, 16, <<0, i>>)])] : k \in {0, 2, 3}}

MCHeap == {same(128, 0), same(128, 255), varied(130)}

-----------------------------------------------------------------------------
(* SurveyCommon: empty strings, strings that look like lengths, and one    *)
(* with a NUL.                                                             *)

MCStrings ==
    LET some == {<< >>, <<7>>, <<5, 6>>, <<1, 0, 2>>}
    IN {<<s, t, u>> : s, t \in some, u \in {<< >>, <<9>>}}

-----------------------------------------------------------------------------
(* ReadSurvey: up to two questions with up to two responses.               *)

MCLineTexts == {"", "a", "b"}
Responses == {<< >>, <<"a">>, <<"b">>, <<"", "a">>, <<"b", "b">>}
Questions == [qText : {"a", ""}, rList : Responses]
MCSurveys == {<< >>} \cup {<<x>> : x \in Questions} \cup {<<x, y>> : x, y \in Questions}

-----------------------------------------------------------------------------
(* One of the five.                                                        *)

VARIABLE part

atReader == <<replies, online, replied, incoming, reader, fields, got, blocks, chunk,
              cipher, handled, short>>
all == <<part, vars, atReader, codecVars, stringVars, fileVars>>

FormatInit ==
    /\ part \in {"framing", "replies", "codec", "strings", "file"}
    /\ Init
    /\ part # "framing" => script = MCScript(<<login>>, <<response>>) /\ turn = "edt"
    /\ R!Init
    /\ part # "replies" => replies = greeting \o <<textReply(one), textReply(one)>>
    /\ CodecInit
    /\ part # "codec"   => message = [type |-> "Challenge", vals |-> <<varied(8)>>]
    /\ StringsInit
    /\ part # "strings" => todo = <<<< >>, << >>, << >>>>
    /\ FileInit
    /\ part # "file"    => survey = << >> /\ cut = 0 /\ newline

FormatNext ==
    /\ UNCHANGED part
    /\ \/ /\ part = "framing" /\ Next
          /\ UNCHANGED <<atReader, codecVars, stringVars, fileVars>>
       \/ /\ part = "replies" /\ R!Next
          /\ UNCHANGED <<vars, codecVars, stringVars, fileVars>>
       \/ /\ part = "codec" /\ CodecNext
          /\ UNCHANGED <<vars, atReader, stringVars, fileVars>>
       \/ /\ part = "strings" /\ StringsNext
          /\ UNCHANGED <<vars, atReader, codecVars, fileVars>>
       \/ /\ part = "file" /\ FileNext
          /\ UNCHANGED <<vars, atReader, codecVars, stringVars>>

FormatSpec == FormatInit /\ [][FormatNext]_all /\ R!Fairness

\* Replies: whatever the reads of the reader thread return, replies are
\* handled as the server sent them, and in that order.
HandledAsSent == R!HandledAsSent

\* Replies: after a short read the reader thread handles nothing any more.
ShortIsLast == [][R!QuietWhenShort]_atReader

\* Replies: on an open connection, without short reads, every reply is handled.
EachHandled == R!EachHandled
=============================================================================
