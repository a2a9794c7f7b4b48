---------------------------- MODULE SurveyCommon ----------------------------
(***************************************************************************)
(* Integers and strings over a TCP connection, as SurveyCommon sends and   *)
(* receives them.  The sender may stop between any two sends, and what is  *)
(* under way may be lost; the receiver takes the bytes in pieces of any    *)
(* size and calls recvString again whether or not it has thrown.           *)
(***************************************************************************)
EXTENDS Integers, Sequences, SequencesExt

CONSTANTS
    Strings,      \* the strings a sender may have to send, as bytes
    MaxThrows     \* bound: exceptions of recvString

\* Bound: no string is longer than a signed int says; htonl has 32 bits, and
\* recvString adds 1 to a length.
MaxLength == 2147483647

ASSUME StringsAssumption ==
    \A row \in Strings :
        row \in Seq(Seq(Nat)) /\ \A i \in DOMAIN row : Len(row[i]) <= MaxLength
ASSUME ThrowsAssumption == MaxThrows \in Nat

SizeofInt == 4
NUL      == 0

VARIABLES
    todo,         \* strings to send, the first of them perhaps begun
    begun,        \* has its length been sent?
    sent,         \* history: strings whose sending has begun
    pieces,       \* bytes under way
    line,         \* "open", "closed" by the sender, or "reset"
    want,         \* bytes recvFully has been asked for
    buffer,       \* those it has
    reading,      \* "int" or "string"
    results,      \* the strings recvString has returned
    throws        \* exceptions so far

sender     == <<todo, begun, sent>>
receiver   == <<want, buffer, reading, results, throws>>
stringVars == <<sender, pieces, line, receiver>>

\* An int in network byte order, and back.
htonl(n) ==
    LET a == n \div 256  b == a \div 256  c == b \div 256
    IN <<c % 256, b % 256, a % 256, n % 256>>
ntohl(b) == ((b[1] * 256 + b[2]) * 256 + b[3]) * 256 + b[4]

\* The string a C string of these bytes makes.
CString(b) ==
    IF \E i \in DOMAIN b : b[i] = NUL
    THEN SubSeq(b, 1, SelectInSeq(b, LAMBDA c : c = NUL) - 1) ELSE b

-----------------------------------------------------------------------------
(* sendString                                                              *)

sendInt ==
    /\ line = "open" /\ todo # << >> /\ ~begun
    /\ pieces' = pieces \o htonl(Len(Head(todo)))
    /\ begun' = TRUE /\ sent' = Append(sent, Head(todo))
    /\ UNCHANGED <<todo, line, receiver>>

sendContents ==
    /\ line = "open" /\ begun
    /\ pieces' = pieces \o Head(todo)
    /\ begun' = FALSE /\ todo' = Tail(todo)
    /\ UNCHANGED <<sent, line, receiver>>

\* The sender ends, or the connection breaks with what is under way.
Stop ==
    /\ line = "open"
    /\ \/ line' = "closed" /\ UNCHANGED pieces
       \/ line' = "reset" /\ \E n \in 0 .. Len(pieces) : pieces' = SubSeq(pieces, 1, n)
    /\ UNCHANGED <<sender, receiver>>

-----------------------------------------------------------------------------
(* recvString                                                              *)

\* recvFully of n bytes
Ask(kind, n) == reading' = kind /\ want' = n /\ buffer' = << >>

\* Fault: what one recv has brought of a string is taken for all of it.
HaveOne(b) == Len(b) = want \/ (reading = "string" /\ b # << >>)

\* recvFully goes on until it has all.
Have(b) == Len(b) = want

\* One recv.  Of no bytes it returns at once.
Piece ==
    /\ ~Have(buffer)
    /\ \E k \in 1 .. want - Len(buffer) :
         /\ k <= Len(pieces)
         /\ buffer' = buffer \o SubSeq(pieces, 1, k)
         /\ pieces' = SubSeq(pieces, k + 1, Len(pieces))
    /\ UNCHANGED <<sender, line, want, reading, results, throws>>

\* The length has come.
recvInt ==
    /\ reading = "int" /\ Have(buffer)
    /\ Ask("string", ntohl(buffer))
    /\ UNCHANGED <<sender, pieces, line, results, throws>>

\* The contents have come.
recvString ==
    /\ reading = "string" /\ Have(buffer)
    /\ results' = Append(results, CString(buffer))
    /\ Ask("int", SizeofInt)
    /\ UNCHANGED <<sender, pieces, line, throws>>

\* The end of the stream or an error before all has come.
Throw ==
    /\ ~Have(buffer) /\ pieces = << >> /\ line # "open"
    /\ throws < MaxThrows /\ throws' = throws + 1
    /\ Ask("int", SizeofInt)
    /\ UNCHANGED <<sender, pieces, line, results>>

-----------------------------------------------------------------------------
StringsInit ==
    /\ todo \in Strings /\ begun = FALSE /\ sent = << >>
    /\ pieces = << >> /\ line = "open"
    /\ want = SizeofInt /\ buffer = << >> /\ reading = "int"
    /\ results = << >> /\ throws = 0

StringsNext == sendInt \/ sendContents \/ Stop \/ Piece \/ recvInt \/ recvString \/ Throw

StringsSpec == StringsInit /\ [][StringsNext]_stringVars

-----------------------------------------------------------------------------
(* What recvString promises.                                               *)

\* Wherever the stream is cut into pieces or ends, and also when recvString is
\* called again after an exception, it returns the strings that were sent, each
\* up to its first NUL, none twice and none left out before the last.
InStep == IsPrefix(results, [i \in DOMAIN sent |-> CString(sent[i])])
=============================================================================
