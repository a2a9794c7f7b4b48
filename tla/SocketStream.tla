---------------------------- MODULE SocketStream ----------------------------
(***************************************************************************)
(* A TCPSocket that is used through the stream of getStream, over one      *)
(* connection after the other.  SocketStreamBuffer keeps what was written  *)
(* and not yet sent, and what was received and not yet read; closing the   *)
(* socket touches neither.                                                 *)
(*                                                                         *)
(* The program writes the numbers 1, 2, 3, ... and so do its peers; a      *)
(* character is the connection it was written for and its number.          *)
(***************************************************************************)
EXTENDS Integers, Sequences, SequencesExt

CONSTANTS
    Size,         \* of inBuffer and of outBuffer
    MaxWrites,    \* bound: characters each side writes
    MaxConns      \* bound: connections

ASSUME StreamAssumption == {Size, MaxWrites, MaxConns} \subseteq Nat \ {0}

VARIABLES
    conn,         \* connections made so far
    open,         \* is the last one open at this end ...
    peer,         \* ... and at the other: "open", "closed", "reset" with the
                  \* error to be reported, or "broken"
    alive,        \* has no SIGPIPE ended the process?
    good,         \* does the stream work (neither badbit nor eofbit)?
    outBuffer,    \* from its beginning to pptr
    inBuffer,     \* from gptr to its end
    toPeer,       \* all that send has taken, with its connection
    cut,          \* history: connections whose reset has cut a send short
    fromPeer,     \* what recv may still take
    written,      \* history: characters the stream has accepted
    read,         \* history: characters the program has read
    fed           \* history: characters the peers have sent

outs == <<outBuffer, toPeer, cut, written>>
ins  == <<inBuffer, fromPeer, read, fed>>
line == <<conn, open, peer, alive>>
streamVars == <<line, good, outs, ins>>

\* The next character after those of s, for this connection or, when there
\* is none, for the next.
Char(s) == <<IF open THEN conn ELSE conn + 1, Len(s) + 1>>

\* The characters s of this connection behind what send has taken.
Taken(s) == toPeer' = toPeer \o [i \in DOMAIN s |-> [to |-> conn, char |-> s[i]]]

-----------------------------------------------------------------------------
(* The socket.                                                             *)

Connect ==
    /\ ~open /\ conn < MaxConns
    /\ conn' = conn + 1 /\ open' = TRUE /\ peer' = "open"
    /\ fromPeer' = << >>
    /\ UNCHANGED <<alive, good, outs, inBuffer, read, fed>>

Close ==
    /\ open /\ open' = FALSE
    /\ fromPeer' = << >>
    /\ UNCHANGED <<conn, peer, alive, good, outs, inBuffer, read, fed>>

\* ::send fails on a closed socket, and on one whose peer has reset it.  The
\* error is reported once; the next send raises SIGPIPE.
CanSend == open /\ peer \in {"open", "closed"}

\* ::send that does not fail: it takes all, or is cut short by a reset while it
\* waits for room, and gives the count of what it has taken; the reset is then
\* reported to the next call.  send tests only for a negative count.
send(s) ==
    /\ CanSend
    /\ \/ Taken(s) /\ UNCHANGED <<peer, cut>>
       \/ /\ \E n \in 1 .. Len(s) - 1 : Taken(SubSeq(s, 1, n))
          /\ peer' = "reset" /\ cut' = cut \cup {conn}

-----------------------------------------------------------------------------
(* The stream.                                                             *)

\* sputc with room in the buffer
Put ==
    /\ good /\ Len(written) < MaxWrites /\ Len(outBuffer) < Size
    /\ outBuffer' = Append(outBuffer, Char(written))
    /\ written' = Append(written, Char(written))
    /\ UNCHANGED <<line, good, toPeer, cut, ins>>

\* Send the buffer and begin again at its beginning, whatever was taken.
sync == send(outBuffer) /\ outBuffer' = << >>

\* The exception of send sets badbit, and the buffer stays as it is.
SendFails ==
    /\ ~CanSend
    /\ good' = FALSE
    /\ peer' = IF open THEN "broken" ELSE peer
    /\ alive' = ~(open /\ peer = "broken")
    /\ UNCHANGED <<conn, open, outs, ins>>

Flush ==
    /\ good
    /\ \/ sync /\ UNCHANGED <<conn, open, alive, good, written, ins>>
       \/ SendFails

\* Fault: the character that did not fit is forgotten.
overflowForgets ==
    /\ good /\ Len(written) < MaxWrites /\ Len(outBuffer) = Size
    /\ \/ /\ sync
          /\ written' = Append(written, Char(written))
          /\ UNCHANGED <<conn, open, alive, good, ins>>
       \/ SendFails

\* sputc with a full buffer: overflow sends it and puts the character into
\* the empty one.
overflow ==
    /\ good /\ Len(written) < MaxWrites /\ Len(outBuffer) = Size
    /\ \/ /\ send(outBuffer)
          /\ outBuffer' = <<Char(written)>>
          /\ written' = Append(written, Char(written))
          /\ UNCHANGED <<conn, open, alive, good, ins>>
       \/ SendFails

\* sgetc from the buffer
Get ==
    /\ good /\ inBuffer # << >>
    /\ read' = Append(read, Head(inBuffer)) /\ inBuffer' = Tail(inBuffer)
    /\ UNCHANGED <<line, good, outs, fromPeer, fed>>

\* setg after recv has taken n characters
Received(n) == inBuffer' = SubSeq(fromPeer, 1, n)

\* recv takes n characters, at least one.
recv(n) ==
    /\ open /\ n <= Len(fromPeer)
    /\ fromPeer' = SubSeq(fromPeer, n + 1, Len(fromPeer))

\* An empty buffer is filled with some of what has come; or it is the end of
\* the stream (eofbit), or recv throws (badbit).
underflow ==
    /\ good /\ inBuffer = << >>
    /\ \/ /\ \E n \in 1 .. Size : recv(n) /\ Received(n)
          /\ UNCHANGED <<peer, good, read, fed>>
       \/ /\ ~open \/ (peer # "open" /\ fromPeer = << >>)
          /\ good' = FALSE
          /\ peer' = IF open /\ peer = "reset" THEN "broken" ELSE peer
          /\ UNCHANGED ins
    /\ UNCHANGED <<conn, open, alive, outs>>

\* ios::clear
Clear ==
    /\ ~good /\ good' = TRUE
    /\ UNCHANGED <<line, outs, ins>>

-----------------------------------------------------------------------------
(* The other end.                                                          *)

PeerSends ==
    /\ open /\ peer = "open" /\ Len(fed) < MaxWrites
    /\ fed' = Append(fed, Char(fed))
    /\ fromPeer' = Append(fromPeer, Char(fed))
    /\ UNCHANGED <<line, good, outs, inBuffer, read>>

PeerEnds ==
    /\ open
    /\ \/ peer = "open" /\ peer' \in {"closed", "reset"}
       \/ peer = "closed" /\ peer' = "reset"
    /\ UNCHANGED <<conn, open, alive, good, outs, ins>>

-----------------------------------------------------------------------------
StreamInit ==
    /\ conn = 0 /\ open = FALSE /\ peer = "closed" /\ alive = TRUE /\ good = TRUE
    /\ outBuffer = << >> /\ inBuffer = << >>
    /\ toPeer = << >> /\ cut = {} /\ fromPeer = << >>
    /\ written = << >> /\ read = << >> /\ fed = << >>

StreamNext ==
  /\ alive
  /\ \/ Connect \/ Close \/ PeerSends \/ PeerEnds
     \/ Put \/ Flush \/ overflow \/ Get \/ underflow \/ Clear

StreamSpec == StreamInit /\ [][StreamNext]_streamVars

-----------------------------------------------------------------------------
(* What the stream promises.                                               *)

\* The program reads what the peers have sent in its order, and misses only
\* what a connection had not delivered when it was closed.
Follows(c, d) == d[2] = c[2] + 1 \/ (d[1] > c[1] /\ d[2] > c[2])

\* The number of the i-th character send has taken, and the number of the next
\* one to be sent when there is no i-th.
HandedOver == Len(written) - Len(outBuffer)
Number(i)  == IF i = 0 THEN 0 ELSE IF i \in DOMAIN toPeer THEN toPeer[i].char[2] ELSE HandedOver + 1

\* The i-th was the last of its connection, whose reset cut the send short.
CutBehind(i) ==
    /\ i # 0 /\ toPeer[i].to \in cut
    /\ i < Len(toPeer) => toPeer[i + 1].to # toPeer[i].to

\* Both ways characters go through once and in turn, also when a send has failed
\* and the program goes on with the same stream, be it over another
\* connection.  What the stream has accepted has been sent, or waits in the
\* buffer, but for what is lost where a reset has cut a send short: less than a
\* buffer each time, and the last of its connection.  What the stream gives the
\* program is what the peers have sent.
InTurn ==
    /\ \A i \in DOMAIN toPeer : toPeer[i].char = written[Number(i)]
    /\ \A i \in DOMAIN outBuffer : outBuffer[i] = written[HandedOver + i]
    /\ \A i \in 0 .. Len(toPeer) :
         \/ Number(i + 1) = Number(i) + 1
         \/ CutBehind(i) /\ Number(i + 1) - Number(i) \in 1 .. Size
    /\ LET s == read \o inBuffer \o fromPeer
       IN /\ \A i \in 1 .. Len(s) - 1 : Follows(s[i], s[i + 1])
          /\ s # << >> => Follows(<<0, 0>>, s[1])
=============================================================================
