--------------------------- MODULE SocketAddress ---------------------------
(***************************************************************************)
(* SocketAddress in the hands of several threads: a thread gets addresses, *)
(* from getaddrinfo or of one of its sockets, and asks each for its text   *)
(* and its port.  getAddress lets inet_ntop write into a static buffer     *)
(* that all threads share and makes a string of it; a text has two parts   *)
(* here, so that a string can be made of two texts.                        *)
(***************************************************************************)
EXTENDS Integers, Sequences

CONSTANTS
    Threads,
    Lists,       \* lists of addresses that getaddrinfo may find
    Sockaddrs,   \* addresses of sockets, and others a program may have
    ntop,        \* what inet_ntop makes of the host part of an address
    ntohs        \* and ntohs of the port

Families == {"AF_INET", "AF_INET6"}

\* The addresses getaddrinfo may find, and all that a program may have.
InternetAddrs == [family : Families, host : DOMAIN ntop, port : DOMAIN ntohs]
Addrs         == InternetAddrs \cup Sockaddrs

ASSUME AddressAssumption ==
    /\ \A list \in Lists : list # << >> /\ list \in Seq(InternetAddrs)
    /\ \A a \in Sockaddrs : a.port \in DOMAIN ntohs
    /\ \A a \in Sockaddrs : a.family \in Families => a.host \in DOMAIN ntop
    /\ \A h \in DOMAIN ntop : ntop[h] = <<ntop[h][1], ntop[h][2]>>

VARIABLES
    addrs,       \* the addresses a thread has still to ask
    at,          \* its place: outside, about to ask, in getAddress, or answered
    addrBuffer,  \* the static buffer
    answer,      \* the string and the port it is given
    alone        \* history: nobody else was in getAddress meanwhile

addressVars == <<addrs, at, addrBuffer, answer, alone>>

Inside == {"write1", "write2", "copy1", "copy2"}
Thrown == [text |-> <<"thrown", "thrown">>, port |-> -1]

Go(t, place) == at' = [at EXCEPT ![t] = place]
Own(t)       == Head(addrs[t])

\* lookupAddresses, which copies each address.  When getaddrinfo fails it
\* throws, and nothing has changed.
lookupAddresses(t) ==
    /\ at[t] = "outside" /\ Go(t, "asking")
    /\ \E list \in Lists : addrs' = [addrs EXCEPT ![t] = list]
    /\ UNCHANGED <<addrBuffer, answer, alone>>

\* The constructors of SocketAddress extract just the first address.
First(t) ==
    /\ at[t] = "outside" /\ Go(t, "asking")
    /\ \E list \in Lists : addrs' = [addrs EXCEPT ![t] = <<Head(list)>>]
    /\ UNCHANGED <<addrBuffer, answer, alone>>

\* The constructor for a sockaddr takes what it is given.
Wrap(t, given) ==
    /\ at[t] = "outside" /\ Go(t, "asking")
    /\ \E a \in given : addrs' = [addrs EXCEPT ![t] = <<a>>]
    /\ UNCHANGED <<addrBuffer, answer, alone>>

\* The kernel gives an address of one of the two families; without a socket or
\* a peer they throw, and nothing has changed.
getLocalAddress(t)   == Wrap(t, {a \in Sockaddrs : a.family \in Families})
getForeignAddress(t) == Wrap(t, {a \in Sockaddrs : a.family \in Families /\ a.port # 0})

\* Of an address of another family getPort throws.
getPort(a) == IF a.family \in Families THEN ntohs[a.port] ELSE -1

\* Fault: an address of another family is not refused.
getAddressAny(t) ==
    /\ at[t] = "asking"
    /\ Go(t, IF Own(t).family \in Families THEN "write1" ELSE "copy1")
    /\ alone' = [u \in Threads |->
                   IF u = t THEN \A v \in Threads : at[v] \notin Inside
                   ELSE alone[u] /\ at[u] \notin Inside]
    /\ answer' = [answer EXCEPT ![t] = Thrown]
    /\ UNCHANGED <<addrs, addrBuffer>>

\* The call of getAddress; of another family it throws.  Whoever is inside at
\* the same time is not alone.
getAddress(t) ==
    /\ at[t] = "asking"
    /\ IF Own(t).family \in Families
       THEN /\ Go(t, "write1")
            /\ alone' = [u \in Threads |->
                           IF u = t THEN \A v \in Threads : at[v] \notin Inside
                           ELSE alone[u] /\ at[u] \notin Inside]
       ELSE Go(t, "answered") /\ UNCHANGED alone
    /\ answer' = [answer EXCEPT ![t] = Thrown]
    /\ UNCHANGED <<addrs, addrBuffer>>

\* inet_ntop
Write(t, part) ==
    /\ at[t] = <<"write1", "write2">>[part]
    /\ Go(t, <<"write2", "copy1">>[part])
    /\ addrBuffer' = [addrBuffer EXCEPT ![part] = ntop[Own(t).host][part]]
    /\ UNCHANGED <<addrs, answer, alone>>

\* return addrBuffer
Copy(t, part) ==
    /\ at[t] = <<"copy1", "copy2">>[part]
    /\ Go(t, <<"copy2", "answered">>[part])
    /\ answer' = [answer EXCEPT ![t].text[part] = addrBuffer[part],
                                ![t].port = getPort(Own(t))]
    /\ UNCHANGED <<addrs, addrBuffer, alone>>

\* On to the next address of the list.
NextAddress(t) ==
    /\ at[t] = "answered"
    /\ addrs' = [addrs EXCEPT ![t] = Tail(@)]
    /\ Go(t, IF Len(addrs[t]) > 1 THEN "asking" ELSE "outside")
    /\ UNCHANGED <<addrBuffer, answer, alone>>

AddressInit ==
    /\ addrs = [t \in Threads |-> << >>]
    /\ at = [t \in Threads |-> "outside"]
    /\ addrBuffer = <<"", "">>
    /\ answer = [t \in Threads |-> Thrown]
    /\ alone = [t \in Threads |-> TRUE]

AddressNext ==
    \E t \in Threads :
        \/ lookupAddresses(t) \/ First(t) \/ Wrap(t, Sockaddrs)
        \/ getLocalAddress(t) \/ getForeignAddress(t) \/ getAddress(t) \/ NextAddress(t)
        \/ \E part \in 1 .. 2 : Write(t, part) \/ Copy(t, part)

AddressSpec == AddressInit /\ [][AddressNext]_addressVars

-----------------------------------------------------------------------------
\* What getAddress and getPort make of an address.
Right(a) ==
    IF a.family \in Families THEN [text |-> ntop[a.host], port |-> ntohs[a.port]] ELSE Thrown

\* A thread that was alone in getAddress gets the text and the port of the
\* address it asked, whatever earlier calls have left in the buffer.
AloneRight ==
    \A t \in Threads : at[t] = "answered" /\ alone[t] => answer[t] = Right(Own(t))
=============================================================================
