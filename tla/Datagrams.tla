----------------------------- MODULE Datagrams -----------------------------
(***************************************************************************)
(* UDPSocket objects of programs on one host that ask and answer one       *)
(* another: an answer goes to the source address of the question.          *)
(*                                                                         *)
(* UDPSocket::bind makes a socket and does not bind it, so that every      *)
(* socket gets a port of the kernel's choice when it first sends or        *)
(* connects, and loses it with close, bind or disconnect.  Datagrams may   *)
(* be lost, doubled and overtaken.                                         *)
(***************************************************************************)
EXTENDS Integers, Sequences

CONSTANTS
    UDPSockets,
    Ports,        \* ports the kernel chooses from
    NoPort,       \* none of them
    MaxSent,      \* bound: datagrams sent
    MaxEra,       \* bound: ports an object gives up, before none gives up another
    MaxCopies     \* bound: copies the network makes of a datagram

ASSUME DatagramsAssumption ==
    NoPort \notin Ports /\ {MaxSent, MaxEra, MaxCopies} \subseteq Nat

VARIABLES
    sock,         \* the socket of each object: has it one, its port and its peer
    era,          \* history: how often the object has given up a port
    queue,        \* datagrams the kernel holds for it
    last,         \* what its last recvFrom has given it
    net,          \* copies of each datagram that are under way
    sent          \* history: all datagrams, in order

datagramVars == <<sock, era, queue, last, net, sent>>

None    == [open |-> FALSE, port |-> NoPort, peer |-> NoPort]
Fresh   == [None EXCEPT !.open = TRUE]
Nothing == [source |-> NoPort, about |-> 0]

FreePorts == Ports \ {sock[o].port : o \in UDPSockets}
PortsFor(s) == IF s.port = NoPort THEN FreePorts ELSE {s.port}

\* The object is left with socket s; what came to an old one is gone.
Replace(o, s) ==
    /\ sock' = [sock EXCEPT ![o] = s]
    /\ era' = [era EXCEPT ![o] = IF sock[o].port # NoPort THEN @ + 1 ELSE @]
    /\ queue' = [queue EXCEPT ![o] = << >>]

-----------------------------------------------------------------------------
(* The methods; those that throw without a socket change nothing.          *)

\* createSocket closes the old socket before it makes the new one, or fails.
bindUDP(o) ==
    /\ Replace(o, Fresh) \/ Replace(o, None)
    /\ UNCHANGED <<last, net, sent>>

closeUDP(o) ==
    /\ sock[o].open /\ Replace(o, None)
    /\ UNCHANGED <<last, net, sent>>

connectUDP(o, p) ==
    /\ LET s == IF sock[o].open THEN sock[o] ELSE Fresh
       IN \E port \in PortsFor(s) :
            sock' = [sock EXCEPT ![o] = [s EXCEPT !.port = port, !.peer = p]]
    /\ UNCHANGED <<era, queue, last, net, sent>>

\* The kernel takes the port back, for no bind has asked for it.
disconnectUDP(o) ==
    /\ sock[o].open
    /\ sock' = [sock EXCEPT ![o].peer = NoPort, ![o].port = NoPort]
    /\ era' = [era EXCEPT ![o] = IF sock[o].port # NoPort THEN @ + 1 ELSE @]
    /\ UNCHANGED <<queue, last, net, sent>>

\* A datagram goes out whole or not at all.
sendTo(o, to, about) ==
    /\ sock[o].open /\ Len(sent) < MaxSent
    /\ \E port \in PortsFor(sock[o]) :
         /\ sock' = [sock EXCEPT ![o].port = port]
         /\ sent' = Append(sent, [by |-> o, era |-> era[o], from |-> port, to |-> to,
                                  about |-> about])
    /\ \E n \in 1 .. MaxCopies : net' = Append(net, n)
    /\ UNCHANGED <<era, queue, last>>

\* A question goes to a port the program knows of, an answer to the source of
\* the last datagram.
Question(o) == \E p \in Ports : sendTo(o, p, 0)
Answer(o)   == last[o].source # NoPort /\ sendTo(o, last[o].source, last[o].about)

\* Fault: sourceAddress is the address of this socket.
SourceLocal(d) == sent[d].to

\* sourceAddress is what recvfrom says.
Source(d) == sent[d].from

\* The bytes are not looked at here; what does not fit into the buffer is lost.
recvFrom(o) ==
    /\ sock[o].open /\ queue[o] # << >>
    /\ LET d == Head(queue[o])
       IN last' = [last EXCEPT ![o] = [source |-> Source(d), about |-> d]]
    /\ queue' = [queue EXCEPT ![o] = Tail(@)]
    /\ UNCHANGED <<sock, era, net, sent>>

-----------------------------------------------------------------------------
(* The network.  A copy that is never delivered is lost.                   *)

Deliver(d, o) ==
    /\ net[d] > 0 /\ net' = [net EXCEPT ![d] = @ - 1]
    /\ sock[o].port = sent[d].to /\ sock[o].peer \in {NoPort, sent[d].from}
    /\ queue' = [queue EXCEPT ![o] = Append(@, d)]
    /\ UNCHANGED <<sock, era, last, sent>>

-----------------------------------------------------------------------------
DatagramInit ==
    /\ sock = [o \in UDPSockets |-> None] /\ era = [o \in UDPSockets |-> 0]
    /\ queue = [o \in UDPSockets |-> << >>] /\ last = [o \in UDPSockets |-> Nothing]
    /\ net = << >> /\ sent = << >>

DatagramNext ==
    \E o \in UDPSockets :
        \/ /\ sock[o].port # NoPort => \A q \in UDPSockets : era[q] < MaxEra
           /\ bindUDP(o) \/ closeUDP(o) \/ disconnectUDP(o)
        \/ \E p \in Ports : connectUDP(o, p)
        \/ Question(o) \/ Answer(o) \/ recvFrom(o)
        \/ \E d \in DOMAIN net : Deliver(d, o)

DatagramSpec == DatagramInit /\ [][DatagramNext]_datagramVars

-----------------------------------------------------------------------------
(* What sendTo and recvFrom promise.                                       *)

\* An answer that is in the queue of an object was meant for it: it is about a
\* question of that object, unless the one who asked has given up its port in
\* the meantime.
AnswerFindsAsker ==
    \A o \in UDPSockets : \A i \in DOMAIN queue[o] :
        LET a == sent[queue[o][i]]
            q == sent[a.about]
        IN a.about # 0 => q.by = o \/ era[q.by] > q.era
=============================================================================
