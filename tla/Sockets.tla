------------------------------ MODULE Sockets ------------------------------
(***************************************************************************)
(* The socket objects of PracticalSocket and the descriptors behind them.  *)
(*                                                                         *)
(* Each object is used by one thread; a method is a row of system calls,   *)
(* and the calls of different objects interleave.  doing[o] holds the      *)
(* calls that are left of the method under way; "made" ends a constructor, *)
(* "gone" a destructor.  close() is two of them, for between ::close and   *)
(* the assignment of -1 another object may be given the same number.       *)
(***************************************************************************)
EXTENDS Integers, Sequences, FiniteSets

CONSTANTS
    Objects,      \* places for objects
    Nobody,       \* no object
    MaxFd,        \* the greatest descriptor the process may have
    MaxAddresses, \* addresses a name may have
    MaxThreads    \* bound: objects with a method under way

ASSUME SocketsAssumption ==
    /\ MaxFd \in Nat /\ {MaxAddresses, MaxThreads} \subseteq Nat \ {0}
    /\ Nobody \notin Objects

VARIABLES
    class,        \* class of each object, "none" where there is none
    sockDesc,     \* its field sockDesc
    doing,        \* system calls to come
    desc,         \* local variable of findTCPServerSocketDesc
    kernel        \* sockets of the process

vars == <<class, sockDesc, doing, desc, kernel>>

Classes == {"TCPSocket", "TCPServerSocket", "UDPSocket"}
Fds     == 0 .. MaxFd

\* A descriptor is free, or a socket: the object whose method made it, the
\* system call it came from and what it can be used for.
Free == [for |-> Nobody, by |-> "none", mode |-> "free"]
Made(o, by, mode) == [for |-> o, by |-> by, mode |-> mode]

FreeFds  == {f \in Fds : kernel[f] = Free}
LowestFd == CHOOSE f \in FreeFds : \A g \in FreeFds : f <= g

Idle(o)       == class[o] # "none" /\ doing[o] = << >>
At(o, call)   == doing[o] # << >> /\ Head(doing[o]) = call
Constructs(o) == doing[o][Len(doing[o])] = "made"

Do(o, calls) == doing' = [doing EXCEPT ![o] = calls]
Done(o)      == Do(o, Tail(doing[o]))

\* An exception ends the method; in a constructor ~Socket runs.
Throw(o) == Do(o, IF Constructs(o) THEN <<"close", "gone">> ELSE << >>)

-----------------------------------------------------------------------------
(* The methods.                                                            *)

\* The constructors without arguments.
New(o) ==
    /\ class[o] = "none"
    /\ \E c \in Classes : class' = [class EXCEPT ![o] = c]
    /\ UNCHANGED <<sockDesc, doing, desc, kernel>>

\* TCPSocket(foreignAddress, foreignPort)
NewConnected(o) ==
    /\ class[o] = "none"
    /\ class' = [class EXCEPT ![o] = "TCPSocket"]
    /\ \E n \in 1 .. MaxAddresses :
         Do(o, <<"lookup">> \o [i \in 1 .. n |-> "try"] \o <<"check", "made">>)
    /\ UNCHANGED <<sockDesc, desc, kernel>>

\* TCPServerSocket(localPort, queueLen)
NewServer(o) ==
    /\ class[o] = "none"
    /\ class' = [class EXCEPT ![o] = "TCPServerSocket"]
    /\ Do(o, <<"lookup", "find", "findBind", "listen", "made">>)
    /\ UNCHANGED <<sockDesc, desc, kernel>>

\* bind; UDPSocket's makes the socket and leaves it at that.
BindCalls(c) ==
    CASE c = "TCPSocket"       -> <<"lookup", "close", "socket", "bind">>
      [] c = "TCPServerSocket" -> <<"lookup", "close", "socket", "bind", "listen">>
      [] c = "UDPSocket"       -> <<"lookup", "close", "socket">>

bind(o) == Idle(o) /\ Do(o, BindCalls(class[o])) /\ UNCHANGED <<class, sockDesc, desc, kernel>>

connect(o) ==
    /\ Idle(o) /\ class[o] \in {"TCPSocket", "UDPSocket"}
    /\ Do(o, IF sockDesc[o] < 0 THEN <<"lookup", "socket", "connect">>
             ELSE <<"lookup", "connect">>)
    /\ UNCHANGED <<class, sockDesc, desc, kernel>>

\* disconnect connects to an address of no family.
disconnect(o) ==
    /\ Idle(o) /\ class[o] = "UDPSocket"
    /\ Do(o, <<"dissolve">>)
    /\ UNCHANGED <<class, sockDesc, desc, kernel>>

close(o) == Idle(o) /\ Do(o, <<"close">>) /\ UNCHANGED <<class, sockDesc, desc, kernel>>

\* The destructors.
Delete(o) ==
    Idle(o) /\ Do(o, <<"close", "gone">>) /\ UNCHANGED <<class, sockDesc, desc, kernel>>

-----------------------------------------------------------------------------
(* The system calls.                                                       *)

\* getaddrinfo, in getAddressInfo or in the constructor.
Lookup(o) ==
    /\ At(o, "lookup")
    /\ Done(o) \/ Throw(o)
    /\ UNCHANGED <<class, sockDesc, desc, kernel>>

\* Fault: the field keeps the number of the socket it has closed.
CloseCallKeeps(o) ==
    /\ At(o, "close")
    /\ Done(o)
    /\ IF sockDesc[o] < 0 THEN UNCHANGED kernel
       ELSE kernel' = [kernel EXCEPT ![sockDesc[o]] = Free]
    /\ UNCHANGED <<class, sockDesc, desc>>

\* ::close; ~Socket and createSocket do without when there is no socket.
CloseCall(o) ==
    /\ At(o, "close")
    /\ IF sockDesc[o] < 0 THEN Done(o) /\ UNCHANGED kernel
       ELSE /\ kernel' = [kernel EXCEPT ![sockDesc[o]] = Free]
            /\ Do(o, <<"forget">> \o Tail(doing[o]))
    /\ UNCHANGED <<class, sockDesc, desc>>

Forget(o) ==
    /\ At(o, "forget") /\ Done(o)
    /\ sockDesc' = [sockDesc EXCEPT ![o] = -1]
    /\ UNCHANGED <<class, desc, kernel>>

\* socket() in createSocket
SocketCall(o) ==
    /\ At(o, "socket")
    /\ \/ /\ FreeFds # {}
          /\ sockDesc' = [sockDesc EXCEPT ![o] = LowestFd]
          /\ kernel' = [kernel EXCEPT ![LowestFd] = Made(o, "createSocket", "new")]
          /\ Done(o)
       \/ /\ sockDesc' = [sockDesc EXCEPT ![o] = -1]
          /\ Throw(o) /\ UNCHANGED kernel
    /\ UNCHANGED <<class, desc>>

\* bind(), listen() or connect(), which may fail; without a socket it does.
Call(o, call, mode) ==
    /\ At(o, call)
    /\ \/ /\ sockDesc[o] >= 0 /\ Done(o)
          /\ kernel' = [kernel EXCEPT ![sockDesc[o]].mode = mode]
       \/ Throw(o) /\ UNCHANGED kernel
    /\ UNCHANGED <<class, sockDesc, desc>>

BindCall(o)     == Call(o, "bind", "bound")
ListenCall(o)   == Call(o, "listen", "listening")
ConnectCall(o)  == Call(o, "connect", "connected")
DissolveCall(o) == Call(o, "dissolve", "new")

\* One round of the loop over the addresses in TCPSocket's constructor.
Try(o) ==
    /\ At(o, "try")
    /\ \/ /\ FreeFds # {}
          /\ sockDesc' = [sockDesc EXCEPT ![o] = LowestFd]
          /\ kernel' = [kernel EXCEPT ![LowestFd] = Made(o, "TCPSocket", "new")]
          /\ Do(o, <<"attempt">> \o Tail(doing[o]))
       \/ Done(o) /\ UNCHANGED <<sockDesc, kernel>>
    /\ UNCHANGED <<class, desc>>

\* Fault: the socket that could not be connected is not closed.
AttemptLeaves(o) ==
    /\ At(o, "attempt")
    /\ \/ /\ kernel' = [kernel EXCEPT ![sockDesc[o]].mode = "connected"]
          /\ Do(o, <<"check", "made">>)
          /\ UNCHANGED sockDesc
       \/ /\ Done(o)
          /\ sockDesc' = [sockDesc EXCEPT ![o] = -1]
          /\ UNCHANGED kernel
    /\ UNCHANGED <<class, desc>>

\* Connected: the other addresses are not tried.
Attempt(o) ==
    /\ At(o, "attempt")
    /\ \/ /\ kernel' = [kernel EXCEPT ![sockDesc[o]].mode = "connected"]
          /\ Do(o, <<"check", "made">>)
       \/ /\ Do(o, <<"close">> \o Tail(doing[o])) /\ UNCHANGED kernel
    /\ UNCHANGED <<class, sockDesc, desc>>

Check(o) ==
    /\ At(o, "check")
    /\ IF sockDesc[o] = -1 THEN Throw(o) ELSE Done(o)
    /\ UNCHANGED <<class, sockDesc, desc, kernel>>

\* socket() and bind() in findTCPServerSocketDesc, before sockDesc is set.
Find(o) ==
    /\ At(o, "find")
    /\ \/ /\ FreeFds # {} /\ Done(o)
          /\ desc' = [desc EXCEPT ![o] = LowestFd]
          /\ kernel' = [kernel EXCEPT ![LowestFd] = Made(o, "findTCPServerSocketDesc", "new")]
       \/ Throw(o) /\ UNCHANGED <<desc, kernel>>
    /\ UNCHANGED <<class, sockDesc>>

FindBind(o) ==
    /\ At(o, "findBind")
    /\ \/ /\ kernel' = [kernel EXCEPT ![desc[o]].mode = "bound"]
          /\ sockDesc' = [sockDesc EXCEPT ![o] = desc[o]]
          /\ Done(o)
       \/ Throw(o) /\ UNCHANGED <<kernel, sockDesc>>
    /\ desc' = [desc EXCEPT ![o] = -1]
    /\ UNCHANGED class

\* accept() and the constructor for the new descriptor.
accept(o, p) ==
    /\ Idle(o) /\ class[o] = "TCPServerSocket"
    /\ sockDesc[o] >= 0 /\ kernel[sockDesc[o]].mode = "listening"
    /\ class[p] = "none" /\ FreeFds # {}
    /\ class' = [class EXCEPT ![p] = "TCPSocket"]
    /\ sockDesc' = [sockDesc EXCEPT ![p] = LowestFd]
    /\ kernel' = [kernel EXCEPT ![LowestFd] = Made(p, "accept", "connected")]
    /\ UNCHANGED <<doing, desc>>

End(o) ==
    /\ At(o, "made") \/ At(o, "gone")
    /\ Done(o)
    /\ class' = IF At(o, "gone") THEN [class EXCEPT ![o] = "none"] ELSE class
    /\ UNCHANGED <<sockDesc, desc, kernel>>

-----------------------------------------------------------------------------
Init ==
    /\ class = [o \in Objects |-> "none"]
    /\ sockDesc = [o \in Objects |-> -1]
    /\ doing = [o \in Objects |-> << >>]
    /\ desc = [o \in Objects |-> -1]
    /\ kernel = [f \in Fds |-> Free]

Method(o) ==
    \/ New(o) \/ NewConnected(o) \/ NewServer(o)
    \/ bind(o) \/ connect(o) \/ disconnect(o) \/ close(o) \/ Delete(o)

SystemCall(o) ==
    \/ Lookup(o) \/ CloseCall(o) \/ Forget(o) \/ SocketCall(o)
    \/ BindCall(o) \/ ListenCall(o) \/ ConnectCall(o) \/ DissolveCall(o)
    \/ Try(o) \/ Attempt(o) \/ Check(o) \/ Find(o) \/ FindBind(o) \/ End(o)

ThreadFree == Cardinality({o \in Objects : doing[o] # << >>}) < MaxThreads

Next ==
    \E o \in Objects :
        \/ ThreadFree /\ Method(o)
        \/ SystemCall(o)
        \/ ThreadFree /\ \E p \in Objects : accept(o, p)

Spec == Init /\ [][Next]_vars

-----------------------------------------------------------------------------
(* What the objects promise.                                               *)

\* A number an object holds is its own socket and not one that another object
\* has been given since: no call on one object reaches the socket of another.
OwnDescriptor ==
    \A o \in Objects :
        sockDesc[o] >= 0 /\ ~At(o, "forget") => kernel[sockDesc[o]].for = o

\* Every open socket is in the hands of its object, or is one that the
\* constructor of a server socket could not bind and has forgotten.
LostOnlyByServerBind ==
    \A f \in Fds :
        \/ kernel[f] = Free
        \/ sockDesc[kernel[f].for] = f
        \/ kernel[f].by = "findTCPServerSocketDesc" /\ kernel[f].mode = "new"
=============================================================================
