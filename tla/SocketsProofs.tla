---------------------------- MODULE SocketsProofs ----------------------------
(***************************************************************************)
(* Proofs of the properties of Sockets for every set of objects, every     *)
(* number of descriptors and of addresses, and any number of threads.      *)
(***************************************************************************)
EXTENDS Sockets, WellFoundedInduction, TLAPS

-----------------------------------------------------------------------------
(* The inductive invariant.                                                *)

Calls ==
    {"lookup", "close", "forget", "socket", "bind", "listen", "connect", "dissolve",
     "try", "attempt", "check", "find", "findBind", "made", "gone"}

Makers == {"none", "createSocket", "TCPSocket", "findTCPServerSocketDesc", "accept"}
Modes  == {"free", "new", "bound", "listening", "connected"}
Entry  == [for : Objects \cup {Nobody}, by : Makers, mode : Modes]

TypeOK ==
    /\ class \in [Objects -> Classes \cup {"none"}]
    /\ sockDesc \in [Objects -> Fds \cup {-1}]
    /\ doing \in [Objects -> Seq(Calls)]
    /\ desc \in [Objects -> Fds \cup {-1}]
    /\ kernel \in [Fds -> Entry]
    /\ \A f \in Fds : kernel[f].for = Nobody => kernel[f] = Free

\* Which call may come behind which in a method.
After(call) ==
    CASE call = "lookup"   -> {"try", "find", "close", "socket", "connect"}
      [] call = "close"    -> {"try", "check", "socket", "gone"}
      [] call = "forget"   -> {"try", "check", "socket", "gone"}
      [] call = "try"      -> {"try", "check"}
      [] call = "attempt"  -> {"try", "check"}
      [] call = "find"     -> {"findBind"}
      [] call = "findBind" -> {"listen"}
      [] call = "socket"   -> {"bind", "listen", "connect"}
      [] call = "bind"     -> {"listen"}
      [] call \in {"listen", "check"} -> {"made"}
      [] OTHER             -> {}

RowOK(row) ==
    /\ row \in Seq(Calls)
    /\ \A i \in DOMAIN row : i + 1 \in DOMAIN row => row[i + 1] \in After(row[i])

RowInv == \A o \in Objects : RowOK(doing[o])

\* Calls an object comes to only without a socket.
Without == {"try", "find", "findBind", "socket", "gone"}

\* An object at such a call has no socket, nor has one that is looking up a
\* name before such a call; neither has what is no object.
EmptyOK(c, s, row) ==
    /\ c = "none" => s = -1 /\ row = << >>
    /\ row # << >> =>
         /\ row[1] \in Without => s = -1
         /\ row[1] = "lookup" /\ Len(row) > 1 /\ row[2] \in Without => s = -1
         /\ row[1] \in {"attempt", "forget"} => s # -1

EmptyInv == \A o \in Objects : EmptyOK(class[o], sockDesc[o], doing[o])

\* Behind ::close the number is no longer the object's.
ForgetInv ==
    \A o \in Objects : At(o, "forget") => kernel[sockDesc[o]].for # o

\* In findTCPServerSocketDesc the new socket is in a local variable.
FindInv ==
    \A o \in Objects : At(o, "findBind") =>
        desc[o] \in Fds /\ kernel[desc[o]] = Made(o, "findTCPServerSocketDesc", "new")

IndInv ==
    /\ TypeOK /\ RowInv /\ EmptyInv /\ ForgetInv /\ FindInv
    /\ OwnDescriptor /\ LostOnlyByServerBind

-----------------------------------------------------------------------------
(* Descriptors.                                                            *)

\* A set of natural numbers has a least element.
LEMMA Least ==
    ASSUME NEW S, S \subseteq Nat, S # {}
    PROVE  \E m \in S : \A n \in S : m <= n
<1> DEFINE R == {p \in Nat \X Nat : p[1] < p[2]}
<1>1. IsWellFoundedOn(R, Nat)
  <2>1. R = OpToRel(<, Nat)
    BY DEF OpToRel
  <2> QED
    BY <2>1, NatLessThanWellFounded, Zenon
<1>2. PICK m \in S : \A n \in S : <<n, m>> \notin R
  <2> HIDE DEF R
  <2> QED
    BY <1>1, WFMin
<1>3. \A n \in S : n \in Nat /\ m \in Nat /\ ~(n < m)
  BY <1>2
<1>4. \A n \in S : m <= n
  BY <1>3
<1> QED
  BY <1>4

\* The kernel gives the lowest descriptor that is free, and there is one.
LEMMA LowestIsFree ==
    ASSUME FreeFds # {}
    PROVE  LowestFd \in Fds /\ LowestFd >= 0 /\ kernel[LowestFd] = Free
<1>1. FreeFds \subseteq Nat
  BY SocketsAssumption DEF FreeFds, Fds
<1>2. \E f \in FreeFds : \A g \in FreeFds : f <= g
  BY <1>1, Least
<1>3. LowestFd \in FreeFds
  BY <1>2 DEF LowestFd
<1> QED
  BY <1>3, SocketsAssumption DEF FreeFds, Fds

\* Numbers that are descriptors are not negative, and -1 is none.
LEMMA DescriptorIsNatural ==
    \A f \in Fds \cup {-1} : f \in Int /\ (f >= 0 <=> f \in Fds) /\ (f = -1 <=> ~(f >= 0))
BY SocketsAssumption DEF Fds

-----------------------------------------------------------------------------
(* Rows of calls.                                                          *)

\* What is left of a method behind its first call.
LEMMA DoneRow ==
    ASSUME NEW row, RowOK(row), row # << >>
    PROVE  /\ Head(row) = row[1] /\ row[1] \in Calls
           /\ RowOK(Tail(row))
           /\ Tail(row) # << >> =>
                /\ Len(row) > 1
                /\ Tail(row)[1] = row[2]
                /\ row[2] \in After(row[1])
<1>1. row \in Seq(Calls)
  BY DEF RowOK
<1>2. /\ Head(row) = row[1] /\ row[1] \in Calls
      /\ Tail(row) \in Seq(Calls)
      /\ \A i \in DOMAIN Tail(row) :
            i \in Nat /\ i + 1 \in DOMAIN row /\ Tail(row)[i] = row[i + 1]
      /\ Tail(row) # << >> =>
            /\ Len(row) > 1 /\ 1 \in DOMAIN row /\ 1 + 1 \in DOMAIN row
            /\ Tail(row)[1] = row[2]
  BY <1>1
<1>3. ASSUME NEW i \in DOMAIN Tail(row), i + 1 \in DOMAIN Tail(row)
      PROVE  Tail(row)[i + 1] \in After(Tail(row)[i])
  <2>1. i + 1 \in DOMAIN row /\ (i + 1) + 1 \in DOMAIN row
    BY <1>2, <1>3
  <2>2. row[(i + 1) + 1] \in After(row[i + 1])
    BY <2>1 DEF RowOK
  <2> QED
    BY <1>2, <1>3, <2>2
<1>4. Tail(row) # << >> => row[1 + 1] \in After(row[1])
  BY <1>2 DEF RowOK
<1>5. 1 + 1 = 2
  OBVIOUS
<1> QED
  BY <1>2, <1>3, <1>4, <1>5 DEF RowOK

\* A call before the rest of a method.
LEMMA CallBefore ==
    ASSUME NEW row, RowOK(row), NEW call \in Calls,
           row # << >> => row[1] \in After(call)
    PROVE  LET all == <<call>> \o row
           IN  RowOK(all) /\ all # << >> /\ all[1] = call
<1> DEFINE all == <<call>> \o row
<1>1. row \in Seq(Calls)
  BY DEF RowOK
<1>2. /\ all \in Seq(Calls) /\ all # << >> /\ all[1] = call
      /\ Len(all) = Len(row) + 1
      /\ \A i \in DOMAIN row : i \in Nat /\ i + 1 \in DOMAIN all /\ all[i + 1] = row[i]
      /\ \A i \in DOMAIN all : i # 1 => i \in Nat /\ i - 1 \in DOMAIN row /\ all[i] = row[i - 1]
  BY <1>1
<1>3. ASSUME NEW i \in DOMAIN all, i + 1 \in DOMAIN all
      PROVE  all[i + 1] \in After(all[i])
  <2>1. CASE i = 1
    <3>1. 1 \in DOMAIN row /\ row # << >> /\ all[i + 1] = row[1]
      BY <1>1, <1>2, <1>3, <2>1
    <3> QED
      BY <1>2, <2>1, <3>1
  <2>2. CASE i # 1
    <3>1. i - 1 \in DOMAIN row /\ (i - 1) + 1 \in DOMAIN row
          /\ all[i] = row[i - 1] /\ all[i + 1] = row[(i - 1) + 1]
      BY <1>1, <1>2, <1>3, <2>2
    <3> QED
      BY <3>1 DEF RowOK
  <2> QED
    BY <2>1, <2>2
<1> QED
  BY <1>2, <1>3 DEF RowOK

\* The methods whose calls are always the same.
LEMMA Rows ==
    /\ RowOK(<< >>) /\ RowOK(<<"close">>) /\ RowOK(<<"dissolve">>)
    /\ RowOK(<<"close", "gone">>) /\ RowOK(<<"check", "made">>)
    /\ RowOK(<<"lookup", "find", "findBind", "listen", "made">>)
    /\ \A c \in Classes : RowOK(BindCalls(c))
    /\ RowOK(<<"lookup", "socket", "connect">>) /\ RowOK(<<"lookup", "connect">>)
<1> USE DEF RowOK, Calls, After
<1>1. RowOK(<< >>) /\ RowOK(<<"close">>) /\ RowOK(<<"dissolve">>)
  OBVIOUS
<1>2. RowOK(<<"close", "gone">>) /\ RowOK(<<"check", "made">>)
  OBVIOUS
<1>3. RowOK(<<"lookup", "find", "findBind", "listen", "made">>)
  BY SMTT(60)
<1>4. RowOK(<<"lookup", "close", "socket", "bind">>)
  OBVIOUS
<1>5. RowOK(<<"lookup", "close", "socket", "bind", "listen">>)
  BY SMTT(60)
<1>6. RowOK(<<"lookup", "close", "socket">>)
  OBVIOUS
<1>7. \A c \in Classes : RowOK(BindCalls(c))
  <2> HIDE DEF RowOK
  <2> QED
    BY <1>4, <1>5, <1>6 DEF BindCalls, Classes
<1>8. RowOK(<<"lookup", "socket", "connect">>) /\ RowOK(<<"lookup", "connect">>)
  OBVIOUS
<1> QED
  <2> HIDE DEF RowOK
  <2> QED
    BY <1>1, <1>2, <1>3, <1>7, <1>8

\* The loop over the addresses in TCPSocket's constructor.
LEMMA TryRow ==
    ASSUME NEW n \in Nat \ {0}
    PROVE  LET row == <<"lookup">> \o [i \in 1 .. n |-> "try"] \o <<"check", "made">>
           IN  RowOK(row) /\ row # << >> /\ row[1] = "lookup" /\ row[Len(row)] = "made"
<1> DEFINE tries == [i \in 1 .. n |-> "try"]
<1> DEFINE row == <<"lookup">> \o tries \o <<"check", "made">>
<1>1. tries \in Seq(Calls) /\ Len(tries) = n /\ DOMAIN tries = 1 .. n
  BY DEF Calls
<1>2. \A i \in 1 .. n : tries[i] = "try"
  OBVIOUS
<1> HIDE DEF tries
<1>3. /\ row \in Seq(Calls) /\ Len(row) = n + 3 /\ DOMAIN row = 1 .. n + 3
      /\ row[1] = "lookup" /\ row[n + 2] = "check" /\ row[n + 3] = "made"
      /\ \A i \in 2 .. n + 1 : row[i] = tries[i - 1]
  BY <1>1 DEF Calls
<1>4. \A i \in 2 .. n + 1 : row[i] = "try"
  BY <1>2, <1>3
<1> HIDE DEF row
<1>5. ASSUME NEW i \in 1 .. n + 2
      PROVE  row[i + 1] \in After(row[i])
  <2>1. CASE i = 1
    BY <2>1, <1>3, <1>4 DEF After
  <2>2. CASE i \in 2 .. n
    BY <2>2, <1>4 DEF After
  <2>3. CASE i = n + 1
    BY <2>3, <1>3, <1>4 DEF After
  <2>4. CASE i = n + 2
    BY <2>4, <1>3 DEF After
  <2> QED
    BY <2>1, <2>2, <2>3, <2>4
<1>6. RowOK(row)
  BY <1>3, <1>5 DEF RowOK
<1> QED
  BY <1>3, <1>6 DEF row, tries

-----------------------------------------------------------------------------
(* The kinds of step.                                                      *)

\* An object that is at a call.
LEMMA AtCall ==
    ASSUME IndInv, NEW o \in Objects, doing[o] # << >>
    PROVE  /\ \A call : At(o, call) <=> doing[o][1] = call
           /\ class[o] \in Classes
           /\ RowOK(doing[o]) /\ EmptyOK(class[o], sockDesc[o], doing[o])
           /\ sockDesc[o] \in Fds \cup {-1}
<1>1. RowOK(doing[o]) /\ EmptyOK(class[o], sockDesc[o], doing[o])
  BY DEF IndInv, RowInv, EmptyInv
<1> QED
  BY <1>1, DoneRow DEF IndInv, TypeOK, At, EmptyOK

\* An open socket has an owner.
LEMMA NotFree ==
    ASSUME IndInv, NEW f \in Fds, NEW o \in Objects, kernel[f].for = o
    PROVE  kernel[f] # Free
BY SocketsAssumption DEF Free

\* The types and rows after a step that changes one object's row, class and
\* descriptor.
LEMMA Changed ==
    ASSUME IndInv, NEW o \in Objects, NEW c \in Classes \cup {"none"},
           NEW s \in Fds \cup {-1}, NEW row, RowOK(row), EmptyOK(c, s, row),
           class' = [class EXCEPT ![o] = c], sockDesc' = [sockDesc EXCEPT ![o] = s],
           doing' = [doing EXCEPT ![o] = row]
    PROVE  /\ class' \in [Objects -> Classes \cup {"none"}]
           /\ sockDesc' \in [Objects -> Fds \cup {-1}]
           /\ doing' \in [Objects -> Seq(Calls)]
           /\ RowInv' /\ EmptyInv'
           /\ doing'[o] = row /\ sockDesc'[o] = s
           /\ \A p \in Objects : p # o =>
                sockDesc'[p] = sockDesc[p] /\ doing'[p] = doing[p]
<1>1. /\ class \in [Objects -> Classes \cup {"none"}]
      /\ sockDesc \in [Objects -> Fds \cup {-1}]
      /\ doing \in [Objects -> Seq(Calls)]
  BY DEF IndInv, TypeOK
<1>2. /\ class'[o] = c /\ doing'[o] = row /\ sockDesc'[o] = s
      /\ \A p \in Objects : p # o =>
            class'[p] = class[p] /\ sockDesc'[p] = sockDesc[p] /\ doing'[p] = doing[p]
  BY <1>1
<1>3. row \in Seq(Calls)
  BY DEF RowOK
<1>4. RowInv' /\ EmptyInv'
  BY <1>2 DEF IndInv, RowInv, EmptyInv
<1> QED
  BY <1>1, <1>2, <1>3, <1>4

\* Steps that leave the descriptors as they are: methods begin, end or throw,
\* or a system call fails.
LEMMA QuietStep ==
    ASSUME IndInv, NEW o \in Objects, NEW c \in Classes \cup {"none"},
           NEW row, RowOK(row), EmptyOK(c, sockDesc[o], row),
           class' = [class EXCEPT ![o] = c], doing' = [doing EXCEPT ![o] = row],
           row # << >> => Head(row) \notin {"forget", "findBind"}, ~At(o, "forget"),
           UNCHANGED <<sockDesc, kernel>>,
           desc' = desc \/ desc' = [desc EXCEPT ![o] = -1]
    PROVE  IndInv'
<1> USE DEF IndInv
<1>1. sockDesc[o] \in Fds \cup {-1} /\ sockDesc' = [sockDesc EXCEPT ![o] = sockDesc[o]]
  BY DEF TypeOK
<1>2. /\ class' \in [Objects -> Classes \cup {"none"}]
      /\ sockDesc' \in [Objects -> Fds \cup {-1}]
      /\ doing' \in [Objects -> Seq(Calls)]
      /\ RowInv' /\ EmptyInv'
      /\ doing'[o] = row
      /\ \A p \in Objects : p # o => doing'[p] = doing[p]
  BY <1>1, Changed
<1>3. /\ desc' \in [Objects -> Fds \cup {-1}]
      /\ \A p \in Objects : p # o => desc'[p] = desc[p]
  BY DEF TypeOK
<1>4. TypeOK'
  BY <1>2, <1>3 DEF TypeOK
<1>5. ForgetInv' /\ FindInv'
  BY <1>2, <1>3 DEF ForgetInv, FindInv, At
<1>6. OwnDescriptor' /\ LostOnlyByServerBind'
  BY <1>2 DEF OwnDescriptor, LostOnlyByServerBind, At
<1> QED
  BY <1>2, <1>4, <1>5, <1>6

\* bind, listen, connect: what a socket can be used for changes.
LEMMA ModeStep ==
    ASSUME IndInv, NEW o \in Objects, NEW row, RowOK(row),
           EmptyOK(class[o], sockDesc[o], row),
           doing' = [doing EXCEPT ![o] = row],
           row # << >> => Head(row) \notin {"forget", "findBind"}, ~At(o, "forget"),
           sockDesc[o] >= 0, NEW mode \in Modes,
           kernel' = [kernel EXCEPT ![sockDesc[o]].mode = mode],
           UNCHANGED <<class, sockDesc, desc>>
    PROVE  IndInv'
<1> USE DEF IndInv
<1>1. sockDesc[o] \in Fds /\ kernel[sockDesc[o]].for = o
  BY DescriptorIsNatural DEF TypeOK, OwnDescriptor
<1>2. /\ class[o] \in Classes \cup {"none"} /\ class' = [class EXCEPT ![o] = class[o]]
      /\ sockDesc' = [sockDesc EXCEPT ![o] = sockDesc[o]]
  BY DEF TypeOK
<1>3. /\ class' \in [Objects -> Classes \cup {"none"}]
      /\ sockDesc' \in [Objects -> Fds \cup {-1}]
      /\ doing' \in [Objects -> Seq(Calls)]
      /\ RowInv' /\ EmptyInv'
      /\ doing'[o] = row
      /\ \A p \in Objects : p # o => doing'[p] = doing[p]
  BY <1>1, <1>2, Changed, ZenonT(30)
<1>4. /\ kernel' \in [Fds -> Entry]
      /\ \A f \in Fds : kernel'[f].for = kernel[f].for
      /\ \A f \in Fds : f # sockDesc[o] => kernel'[f] = kernel[f]
  BY <1>1 DEF TypeOK, Entry
<1>5. TypeOK'
  BY <1>1, <1>3, <1>4, SocketsAssumption DEF TypeOK
<1>6. ForgetInv'
  BY <1>3, <1>4, DescriptorIsNatural DEF ForgetInv, EmptyInv, EmptyOK, At, TypeOK
<1>7. FindInv'
  <2> SUFFICES ASSUME NEW p \in Objects, At(p, "findBind")'
               PROVE  desc[p] \in Fds
                      /\ kernel'[desc[p]] = Made(p, "findTCPServerSocketDesc", "new")
    BY DEF FindInv
  <2>1. p # o /\ At(p, "findBind")
    BY <1>3 DEF At
  <2>2. desc[p] \in Fds /\ kernel[desc[p]] = Made(p, "findTCPServerSocketDesc", "new")
    BY <2>1 DEF FindInv
  <2>3. desc[p] # sockDesc[o]
    BY <1>1, <2>1, <2>2 DEF Made
  <2> QED
    BY <1>4, <2>2, <2>3
<1>8. OwnDescriptor'
  BY <1>3, <1>4, DescriptorIsNatural DEF OwnDescriptor, At, TypeOK
<1>9. LostOnlyByServerBind'
  BY <1>1, <1>4 DEF LostOnlyByServerBind
<1> QED
  BY <1>3, <1>5, <1>6, <1>7, <1>8, <1>9

\* An object without a socket is given the lowest free number.
LEMMA GivenStep ==
    ASSUME IndInv, NEW o \in Objects, NEW c \in Classes, NEW row, RowOK(row),
           EmptyOK(c, LowestFd, row),
           class' = [class EXCEPT ![o] = c], doing' = [doing EXCEPT ![o] = row],
           row # << >> => Head(row) \notin {"forget", "findBind"}, ~At(o, "forget"),
           sockDesc[o] = -1, FreeFds # {},
           sockDesc' = [sockDesc EXCEPT ![o] = LowestFd],
           NEW by \in Makers, NEW mode \in Modes,
           kernel' = [kernel EXCEPT ![LowestFd] = Made(o, by, mode)],
           UNCHANGED desc
    PROVE  IndInv'
<1> USE DEF IndInv
<1> DEFINE fd == LowestFd
<1>1. fd \in Fds /\ fd >= 0 /\ kernel[fd] = Free
  BY LowestIsFree
<1>2. /\ class' \in [Objects -> Classes \cup {"none"}]
      /\ sockDesc' \in [Objects -> Fds \cup {-1}]
      /\ doing' \in [Objects -> Seq(Calls)]
      /\ RowInv' /\ EmptyInv'
      /\ doing'[o] = row /\ sockDesc'[o] = fd
      /\ \A p \in Objects : p # o => sockDesc'[p] = sockDesc[p] /\ doing'[p] = doing[p]
  BY <1>1, Changed
<1>3. /\ kernel' \in [Fds -> Entry] /\ kernel'[fd].for = o /\ kernel'[fd] = Made(o, by, mode)
      /\ \A f \in Fds : f # fd => kernel'[f] = kernel[f]
  BY <1>1 DEF TypeOK, Entry, Made
<1> HIDE DEF fd
<1>4. \A f \in Fds : kernel[f].for \in Objects => f # fd
  BY <1>1, NotFree
<1>5. TypeOK'
  BY <1>1, <1>2, <1>3, SocketsAssumption DEF TypeOK
<1>6. ForgetInv'
  <2> SUFFICES ASSUME NEW p \in Objects, At(p, "forget")'
               PROVE  kernel'[sockDesc'[p]].for # p
    BY DEF ForgetInv
  <2>1. p # o /\ At(p, "forget")
    BY <1>2 DEF At
  <2>2. sockDesc'[p] = sockDesc[p] /\ sockDesc[p] \in Fds /\ kernel[sockDesc[p]].for # p
    BY <1>2, <2>1, AtCall DEF ForgetInv, EmptyOK, At
  <2> QED
    BY <1>3, <2>1, <2>2
<1>7. FindInv'
  BY <1>2, <1>3, <1>4 DEF FindInv, At, Made
<1>8. OwnDescriptor'
  <2> SUFFICES ASSUME NEW p \in Objects, sockDesc'[p] >= 0, ~At(p, "forget")', p # o
               PROVE  kernel'[sockDesc'[p]].for = p
    BY <1>2, <1>3 DEF OwnDescriptor
  <2>1. sockDesc'[p] = sockDesc[p] /\ sockDesc[p] \in Fds /\ kernel[sockDesc[p]].for = p
    BY <1>2, DescriptorIsNatural DEF OwnDescriptor, At, TypeOK
  <2> QED
    BY <1>3, <1>4, <2>1
<1>9. LostOnlyByServerBind'
  <2> SUFFICES ASSUME NEW f \in Fds, f # fd, kernel[f] # Free
               PROVE  \/ sockDesc'[kernel[f].for] = f
                      \/ kernel[f].by = "findTCPServerSocketDesc" /\ kernel[f].mode = "new"
    BY <1>2, <1>3 DEF LostOnlyByServerBind
  <2>1. kernel[f].for \in Objects
    BY DEF TypeOK, Entry
  <2>2. kernel[f].for = o => sockDesc[o] # f
    BY DescriptorIsNatural
  <2> QED
    BY <1>2, <2>1, <2>2 DEF LostOnlyByServerBind
<1> QED
  BY <1>2, <1>5, <1>6, <1>7, <1>8, <1>9

\* ::close of a descriptor that is the object's.
LEMMA CloseStep ==
    ASSUME IndInv, NEW o \in Objects, CloseCall(o), sockDesc[o] >= 0
    PROVE  IndInv'
<1> USE DEF IndInv
<1> DEFINE fd == sockDesc[o]
<1> DEFINE row == <<"forget">> \o Tail(doing[o])
<1>1. /\ doing[o] # << >> /\ Head(doing[o]) = "close"
      /\ kernel' = [kernel EXCEPT ![fd] = Free]
      /\ doing' = [doing EXCEPT ![o] = row]
      /\ UNCHANGED <<class, sockDesc, desc>>
  <2>1. ~(sockDesc[o] < 0)
    BY DescriptorIsNatural DEF TypeOK
  <2> QED
    BY <2>1 DEF CloseCall, At, Do
<1>2. fd \in Fds /\ kernel[fd].for = o
  BY <1>1, DescriptorIsNatural DEF TypeOK, OwnDescriptor, At
<1>3. /\ RowOK(row) /\ row # << >> /\ row[1] = "forget"
      /\ class[o] \in Classes
  <2>1. /\ RowOK(Tail(doing[o])) /\ RowOK(doing[o])
        /\ Tail(doing[o]) # << >> => Tail(doing[o])[1] \in After("close")
    BY <1>1, DoneRow, AtCall
  <2>2. "forget" \in Calls /\ After("close") = After("forget")
    BY DEF Calls, After
  <2> QED
    BY <1>1, <2>1, <2>2, CallBefore, AtCall
<1> HIDE DEF row
<1>4. row \in Seq(Calls) /\ Head(row) = "forget"
  BY <1>3, DoneRow DEF RowOK
<1>5. EmptyOK(class[o], fd, row)
  BY <1>2, <1>3, DescriptorIsNatural DEF EmptyOK, Classes, Without
<1>6. /\ class' \in [Objects -> Classes \cup {"none"}]
      /\ sockDesc' \in [Objects -> Fds \cup {-1}]
      /\ doing' \in [Objects -> Seq(Calls)]
      /\ RowInv' /\ EmptyInv'
      /\ doing'[o] = row
      /\ \A p \in Objects : p # o => doing'[p] = doing[p]
  <2>1. class' = [class EXCEPT ![o] = class[o]] /\ sockDesc' = [sockDesc EXCEPT ![o] = fd]
    BY <1>1 DEF TypeOK
  <2> QED
    BY <1>1, <1>2, <1>3, <1>5, <2>1, Changed, ZenonT(40)
<1>7. /\ kernel' \in [Fds -> Entry] /\ kernel'[fd] = Free
      /\ \A f \in Fds : f # fd => kernel'[f] = kernel[f]
  <2>1. Free \in Entry /\ kernel \in [Fds -> Entry]
    BY DEF TypeOK, Entry, Free, Makers, Modes
  <2> QED
    BY <1>1, <1>2, <2>1
<1> HIDE DEF fd
<1>8. Free.for = Nobody /\ Nobody \notin Objects
  BY SocketsAssumption DEF Free
<1>9. TypeOK'
  BY <1>1, <1>6, <1>7 DEF TypeOK
<1>10. ForgetInv'
  <2> SUFFICES ASSUME NEW p \in Objects, At(p, "forget")'
               PROVE  kernel'[sockDesc[p]].for # p
    BY <1>1 DEF ForgetInv
  <2>1. CASE p = o
    BY <2>1, <1>7, <1>8 DEF fd
  <2>2. CASE p # o
    <3>1. sockDesc[p] \in Fds /\ kernel[sockDesc[p]].for # p
      BY <1>6, <2>2, AtCall DEF ForgetInv, EmptyOK, At
    <3> QED
      BY <3>1, <1>7, <1>8
  <2> QED
    BY <2>1, <2>2
<1>11. FindInv'
  <2> SUFFICES ASSUME NEW p \in Objects, At(p, "findBind")'
               PROVE  desc[p] \in Fds
                      /\ kernel'[desc[p]] = Made(p, "findTCPServerSocketDesc", "new")
    BY <1>1 DEF FindInv
  <2>1. p # o /\ At(p, "findBind")
    BY <1>4, <1>6 DEF At
  <2>2. desc[p] \in Fds /\ kernel[desc[p]] = Made(p, "findTCPServerSocketDesc", "new")
    BY <2>1 DEF FindInv
  <2>3. desc[p] # fd
    BY <1>2, <2>1, <2>2 DEF Made
  <2> QED
    BY <1>7, <2>2, <2>3
<1>12. OwnDescriptor'
  <2> SUFFICES ASSUME NEW p \in Objects, sockDesc[p] >= 0, ~At(p, "forget")'
               PROVE  kernel'[sockDesc[p]].for = p
    BY <1>1 DEF OwnDescriptor
  <2>1. p # o /\ ~At(p, "forget")
    BY <1>3, <1>4, <1>6 DEF At
  <2>2. sockDesc[p] \in Fds /\ kernel[sockDesc[p]].for = p
    BY <2>1, DescriptorIsNatural DEF OwnDescriptor, TypeOK
  <2> QED
    BY <1>2, <1>7, <2>1, <2>2
<1>13. LostOnlyByServerBind'
  BY <1>1, <1>7 DEF LostOnlyByServerBind
<1> QED
  BY <1>6, <1>9, <1>10, <1>11, <1>12, <1>13

\* sockDesc = -1, behind ::close.
LEMMA ForgetStep ==
    ASSUME IndInv, NEW o \in Objects, Forget(o)
    PROVE  IndInv'
<1> USE DEF IndInv
<1> DEFINE row == Tail(doing[o])
<1>1. /\ doing[o] # << >> /\ Head(doing[o]) = "forget"
      /\ doing' = [doing EXCEPT ![o] = row]
      /\ sockDesc' = [sockDesc EXCEPT ![o] = -1]
      /\ UNCHANGED <<class, desc, kernel>>
  BY DEF Forget, At, Done, Do
<1>2. /\ RowOK(row)
      /\ row # << >> => row[1] \in After("forget") /\ Head(row) = row[1]
      /\ class[o] \in Classes
  BY <1>1, DoneRow, AtCall
<1> HIDE DEF row
<1>3. row # << >> => Head(row) \in {"try", "check", "socket", "gone"}
  BY <1>2 DEF After
<1>4. EmptyOK(class[o], -1, row)
  BY <1>2, <1>3 DEF EmptyOK, Classes
<1>5. /\ class' \in [Objects -> Classes \cup {"none"}]
      /\ sockDesc' \in [Objects -> Fds \cup {-1}]
      /\ doing' \in [Objects -> Seq(Calls)]
      /\ RowInv' /\ EmptyInv'
      /\ doing'[o] = row /\ sockDesc'[o] = -1
      /\ \A p \in Objects : p # o =>
            doing'[p] = doing[p] /\ sockDesc'[p] = sockDesc[p]
  <2>1. class' = [class EXCEPT ![o] = class[o]]
    BY <1>1 DEF TypeOK
  <2> QED
    BY <1>1, <1>2, <1>4, <2>1, Changed
<1>6. TypeOK'
  BY <1>1, <1>5 DEF TypeOK
<1>7. ForgetInv' /\ FindInv'
  BY <1>1, <1>3, <1>5 DEF ForgetInv, FindInv, At
<1>8. OwnDescriptor'
  BY <1>1, <1>5, DescriptorIsNatural DEF OwnDescriptor, At
<1>9. LostOnlyByServerBind'
  <2> SUFFICES ASSUME NEW f \in Fds, kernel[f] # Free
               PROVE  \/ sockDesc'[kernel[f].for] = f
                      \/ kernel[f].by = "findTCPServerSocketDesc" /\ kernel[f].mode = "new"
    BY <1>1 DEF LostOnlyByServerBind
  <2>1. kernel[f].for \in Objects
    BY DEF TypeOK, Entry
  <2>2. kernel[f].for = o => sockDesc[o] # f
    BY <1>1 DEF ForgetInv, At
  <2> QED
    BY <1>5, <2>1, <2>2 DEF LostOnlyByServerBind
<1> QED
  BY <1>5, <1>6, <1>7, <1>8, <1>9

\* findTCPServerSocketDesc makes a socket ...
LEMMA FindStep ==
    ASSUME IndInv, NEW o \in Objects, At(o, "find"), FreeFds # {}, Done(o),
           desc' = [desc EXCEPT ![o] = LowestFd],
           kernel' = [kernel EXCEPT ![LowestFd] = Made(o, "findTCPServerSocketDesc", "new")],
           UNCHANGED <<class, sockDesc>>
    PROVE  IndInv'
<1> USE DEF IndInv
<1> DEFINE fd == LowestFd
<1> DEFINE row == Tail(doing[o])
<1>1. fd \in Fds /\ fd >= 0 /\ kernel[fd] = Free
  BY LowestIsFree
<1>2. /\ doing[o] # << >> /\ Head(doing[o]) = "find"
      /\ doing' = [doing EXCEPT ![o] = row]
  BY DEF At, Done, Do
<1>3. /\ RowOK(row)
      /\ row # << >> => row[1] \in After("find") /\ Head(row) = row[1]
      /\ class[o] \in Classes
      /\ sockDesc[o] = -1
  BY <1>2, DoneRow, AtCall DEF EmptyOK, Without
<1> HIDE DEF row
<1>4. row # << >> => Head(row) = "findBind"
  BY <1>3 DEF After
<1>5. EmptyOK(class[o], sockDesc[o], row)
  BY <1>3, <1>4 DEF EmptyOK, Classes
<1>6. /\ class' \in [Objects -> Classes \cup {"none"}]
      /\ sockDesc' \in [Objects -> Fds \cup {-1}]
      /\ doing' \in [Objects -> Seq(Calls)]
      /\ RowInv' /\ EmptyInv'
      /\ doing'[o] = row
      /\ \A p \in Objects : p # o => doing'[p] = doing[p]
  <2>1. class' = [class EXCEPT ![o] = class[o]]
        /\ sockDesc' = [sockDesc EXCEPT ![o] = sockDesc[o]]
        /\ sockDesc[o] \in Fds \cup {-1}
    BY DEF TypeOK
  <2> QED
    BY <1>2, <1>3, <1>5, <2>1, Changed, ZenonT(30)
<1>7. /\ kernel' \in [Fds -> Entry] /\ kernel'[fd].for = o
      /\ kernel'[fd] = Made(o, "findTCPServerSocketDesc", "new")
      /\ \A f \in Fds : f # fd => kernel'[f] = kernel[f]
      /\ desc' \in [Objects -> Fds \cup {-1}] /\ desc'[o] = fd
      /\ \A p \in Objects : p # o => desc'[p] = desc[p]
  <2>1. /\ Made(o, "findTCPServerSocketDesc", "new") \in Entry
        /\ Made(o, "findTCPServerSocketDesc", "new").for = o
    BY DEF Entry, Made, Makers, Modes
  <2>2. kernel \in [Fds -> Entry] /\ desc \in [Objects -> Fds \cup {-1}]
    BY DEF TypeOK
  <2> QED
    BY <1>1, <2>1, <2>2
<1>8. kernel'[fd].by = "findTCPServerSocketDesc" /\ kernel'[fd].mode = "new"
  BY <1>7 DEF Made
<1> HIDE DEF fd
<1>9. \A f \in Fds : kernel[f].for \in Objects => f # fd
  BY <1>1, NotFree
<1>10. TypeOK'
  BY <1>1, <1>6, <1>7, SocketsAssumption DEF TypeOK
<1>11. ForgetInv'
  <2> SUFFICES ASSUME NEW p \in Objects, At(p, "forget")'
               PROVE  kernel'[sockDesc[p]].for # p
    BY DEF ForgetInv
  <2>1. p # o /\ At(p, "forget")
    BY <1>4, <1>6 DEF At
  <2>2. sockDesc[p] \in Fds /\ kernel[sockDesc[p]].for # p
    BY <2>1, AtCall DEF ForgetInv, EmptyOK, At
  <2> QED
    BY <1>7, <2>1, <2>2
<1>12. FindInv'
  <2> SUFFICES ASSUME NEW p \in Objects, At(p, "findBind")', p # o
               PROVE  desc'[p] \in Fds
                      /\ kernel'[desc'[p]] = Made(p, "findTCPServerSocketDesc", "new")
    BY <1>1, <1>7 DEF FindInv
  <2>1. desc[p] \in Fds /\ kernel[desc[p]] = Made(p, "findTCPServerSocketDesc", "new")
    BY <1>6 DEF FindInv, At
  <2>2. desc[p] # fd
    BY <1>9, <2>1 DEF Made
  <2> QED
    BY <1>7, <2>1, <2>2
<1>13. OwnDescriptor'
  <2> SUFFICES ASSUME NEW p \in Objects, sockDesc[p] >= 0, ~At(p, "forget")'
               PROVE  kernel'[sockDesc[p]].for = p
    BY DEF OwnDescriptor
  <2>1. p # o /\ ~At(p, "forget")
    BY <1>3, <1>6 DEF At
  <2>2. sockDesc[p] \in Fds /\ kernel[sockDesc[p]].for = p
    BY <2>1, DescriptorIsNatural DEF OwnDescriptor, TypeOK
  <2> QED
    BY <1>7, <1>9, <2>2
<1>14. LostOnlyByServerBind'
  BY <1>7, <1>8 DEF LostOnlyByServerBind
<1> QED
  BY <1>6, <1>10, <1>11, <1>12, <1>13, <1>14

\* ... and sets sockDesc once it is bound.
LEMMA FindBindStep ==
    ASSUME IndInv, NEW o \in Objects, At(o, "findBind"), Done(o),
           kernel' = [kernel EXCEPT ![desc[o]].mode = "bound"],
           sockDesc' = [sockDesc EXCEPT ![o] = desc[o]],
           desc' = [desc EXCEPT ![o] = -1],
           UNCHANGED class
    PROVE  IndInv'
<1> USE DEF IndInv
<1> DEFINE fd == desc[o]
<1> DEFINE row == Tail(doing[o])
<1>1. fd \in Fds /\ kernel[fd].for = o
  <2>1. fd \in Fds /\ kernel[fd] = Made(o, "findTCPServerSocketDesc", "new")
    BY DEF FindInv
  <2> QED
    BY <2>1 DEF Made
<1>2. /\ doing[o] # << >> /\ Head(doing[o]) = "findBind"
      /\ doing' = [doing EXCEPT ![o] = row]
  BY DEF At, Done, Do
<1>3. /\ RowOK(row)
      /\ row # << >> => row[1] \in After("findBind") /\ Head(row) = row[1]
      /\ class[o] \in Classes
      /\ sockDesc[o] = -1
  BY <1>2, DoneRow, AtCall DEF EmptyOK, Without
<1> HIDE DEF row
<1>4. row # << >> => Head(row) = "listen"
  BY <1>3 DEF After
<1>5. EmptyOK(class[o], fd, row)
  BY <1>3, <1>4 DEF EmptyOK, Classes, Without
<1>6. /\ class' \in [Objects -> Classes \cup {"none"}]
      /\ sockDesc' \in [Objects -> Fds \cup {-1}]
      /\ doing' \in [Objects -> Seq(Calls)]
      /\ RowInv' /\ EmptyInv'
      /\ doing'[o] = row /\ sockDesc'[o] = fd
      /\ \A p \in Objects : p # o => doing'[p] = doing[p] /\ sockDesc'[p] = sockDesc[p]
  <2>1. class' = [class EXCEPT ![o] = class[o]]
    BY DEF TypeOK
  <2> QED
    BY <1>1, <1>2, <1>3, <1>5, <2>1, Changed
<1>7. /\ kernel' \in [Fds -> Entry]
      /\ \A f \in Fds : kernel'[f].for = kernel[f].for
      /\ \A f \in Fds : f # fd => kernel'[f] = kernel[f]
      /\ desc' \in [Objects -> Fds \cup {-1}]
      /\ \A p \in Objects : p # o => desc'[p] = desc[p]
  <2>1. /\ kernel' \in [Fds -> Entry]
        /\ \A f \in Fds : kernel'[f].for = kernel[f].for
        /\ \A f \in Fds : f # fd => kernel'[f] = kernel[f]
    BY <1>1 DEF TypeOK, Entry, Modes
  <2>2. desc \in [Objects -> Fds \cup {-1}]
    BY DEF TypeOK
  <2> QED
    BY <2>1, <2>2
<1> HIDE DEF fd
<1>8. TypeOK'
  BY <1>1, <1>6, <1>7, SocketsAssumption DEF TypeOK
<1>9. ForgetInv'
  <2> SUFFICES ASSUME NEW p \in Objects, At(p, "forget")'
               PROVE  kernel'[sockDesc'[p]].for # p
    BY DEF ForgetInv
  <2>1. p # o /\ At(p, "forget")
    BY <1>4, <1>6 DEF At
  <2>2. sockDesc[p] \in Fds /\ kernel[sockDesc[p]].for # p
    BY <2>1, AtCall DEF ForgetInv, EmptyOK, At
  <2> QED
    BY <1>6, <1>7, <2>1, <2>2
<1>10. FindInv'
  <2> SUFFICES ASSUME NEW p \in Objects, At(p, "findBind")'
               PROVE  desc'[p] \in Fds
                      /\ kernel'[desc'[p]] = Made(p, "findTCPServerSocketDesc", "new")
    BY DEF FindInv
  <2>1. p # o /\ At(p, "findBind")
    BY <1>4, <1>6 DEF At
  <2>2. desc[p] \in Fds /\ kernel[desc[p]] = Made(p, "findTCPServerSocketDesc", "new")
    BY <2>1 DEF FindInv
  <2>3. desc[p] # fd
    BY <1>1, <2>1, <2>2 DEF Made
  <2> QED
    BY <1>7, <2>1, <2>2, <2>3
<1>11. OwnDescriptor'
  <2> SUFFICES ASSUME NEW p \in Objects, sockDesc'[p] >= 0, ~At(p, "forget")', p # o
               PROVE  kernel'[sockDesc'[p]].for = p
    BY <1>1, <1>6, <1>7 DEF OwnDescriptor
  <2>1. sockDesc'[p] = sockDesc[p] /\ sockDesc[p] \in Fds /\ kernel[sockDesc[p]].for = p
    BY <1>6, DescriptorIsNatural DEF OwnDescriptor, At, TypeOK
  <2> QED
    BY <1>7, <2>1
<1>12. LostOnlyByServerBind'
  <2> SUFFICES ASSUME NEW f \in Fds, f # fd, kernel[f] # Free
               PROVE  \/ sockDesc'[kernel[f].for] = f
                      \/ kernel[f].by = "findTCPServerSocketDesc" /\ kernel[f].mode = "new"
    BY <1>1, <1>6, <1>7 DEF LostOnlyByServerBind
  <2>1. kernel[f].for \in Objects
    BY DEF TypeOK, Entry
  <2>2. kernel[f].for = o => sockDesc[o] # f
    BY <1>3, DescriptorIsNatural
  <2> QED
    BY <1>6, <2>1, <2>2 DEF LostOnlyByServerBind
<1> QED
  BY <1>6, <1>8, <1>9, <1>10, <1>11, <1>12

-----------------------------------------------------------------------------
(* The actions.                                                            *)

\* There are no objects yet.
LEMMA InitInv == Init => IndInv
<1> SUFFICES ASSUME Init PROVE IndInv
  OBVIOUS
<1>1. /\ \A o \in Objects : class[o] = "none" /\ sockDesc[o] = -1 /\ doing[o] = << >>
      /\ \A f \in Fds : kernel[f] = Free
  BY DEF Init
<1>2. TypeOK
  <2>1. Free \in Entry
    BY DEF Entry, Free, Makers, Modes
  <2> QED
    BY <1>1, <2>1 DEF Init, TypeOK
<1>3. RowInv /\ EmptyInv
  BY <1>1, Rows DEF RowInv, EmptyInv, EmptyOK
<1>4. ForgetInv /\ FindInv
  BY <1>1 DEF ForgetInv, FindInv, At
<1>5. OwnDescriptor /\ LostOnlyByServerBind
  BY <1>1 DEF OwnDescriptor, LostOnlyByServerBind
<1> QED
  BY <1>2, <1>3, <1>4, <1>5 DEF IndInv

\* A method begins with these calls.
LEMMA BeginStep ==
    ASSUME IndInv, NEW o \in Objects, doing[o] = << >>, NEW c \in Classes, NEW row,
           RowOK(row), row = << >> \/ row[1] \in {"lookup", "close", "dissolve"},
           row # << >> /\ row[1] = "lookup" /\ Len(row) > 1 /\ row[2] \in Without
               => sockDesc[o] = -1,
           class' = [class EXCEPT ![o] = c], doing' = [doing EXCEPT ![o] = row],
           UNCHANGED <<sockDesc, desc, kernel>>
    PROVE  IndInv'
<1>1. EmptyOK(c, sockDesc[o], row)
  BY DEF EmptyOK, Classes, Without
<1>2. row # << >> => Head(row) \notin {"forget", "findBind"}
  BY DoneRow
<1> QED
  BY <1>1, <1>2, QuietStep DEF At

\* The constructors.
LEMMA Constructors ==
    ASSUME IndInv, NEW o \in Objects, New(o) \/ NewConnected(o) \/ NewServer(o)
    PROVE  IndInv'
<1>1. class[o] = "none" /\ sockDesc[o] = -1 /\ doing[o] = << >>
  BY DEF New, NewConnected, NewServer, IndInv, EmptyInv, EmptyOK
<1>2. doing = [doing EXCEPT ![o] = << >>]
  BY <1>1 DEF IndInv, TypeOK
<1>3. CASE New(o)
  BY <1>1, <1>2, <1>3, BeginStep, Rows DEF New
<1>4. CASE NewConnected(o)
  <2>1. PICK n \in 1 .. MaxAddresses :
            Do(o, <<"lookup">> \o [i \in 1 .. n |-> "try"] \o <<"check", "made">>)
    BY <1>4 DEF NewConnected
  <2>2. n \in Nat \ {0}
    BY SocketsAssumption
  <2> DEFINE row == <<"lookup">> \o [i \in 1 .. n |-> "try"] \o <<"check", "made">>
  <2>3. RowOK(row) /\ row # << >> /\ row[1] = "lookup" /\ doing' = [doing EXCEPT ![o] = row]
    BY <2>1, <2>2, TryRow DEF Do
  <2> HIDE DEF row
  <2>4. "TCPSocket" \in Classes
    BY DEF Classes
  <2> QED
    BY <1>1, <1>4, <2>3, <2>4, BeginStep DEF NewConnected
<1>5. CASE NewServer(o)
  <2> DEFINE row == <<"lookup", "find", "findBind", "listen", "made">>
  <2>1. RowOK(row) /\ row[1] = "lookup" /\ doing' = [doing EXCEPT ![o] = row]
    BY <1>5, Rows DEF NewServer, Do
  <2> HIDE DEF row
  <2>2. "TCPServerSocket" \in Classes
    BY DEF Classes
  <2> QED
    BY <1>1, <1>5, <2>1, <2>2, BeginStep DEF NewServer
<1> QED
  BY <1>3, <1>4, <1>5

\* The methods of an object.
LEMMA Methods ==
    ASSUME IndInv, NEW o \in Objects,
           bind(o) \/ connect(o) \/ disconnect(o) \/ close(o) \/ Delete(o)
    PROVE  IndInv'
<1>1. /\ class[o] \in Classes /\ doing[o] = << >> /\ class' = [class EXCEPT ![o] = class[o]]
      /\ UNCHANGED <<sockDesc, desc, kernel>>
  BY DEF bind, connect, disconnect, close, Delete, Idle, IndInv, TypeOK
<1>2. CASE bind(o)
  <2> DEFINE row == BindCalls(class[o])
  <2>1. RowOK(row) /\ row[1] = "lookup" /\ row[2] = "close"
    BY <1>1, Rows DEF BindCalls, Classes
  <2>2. doing' = [doing EXCEPT ![o] = row] /\ "close" \notin Without
    BY <1>2 DEF bind, Do, Without
  <2> HIDE DEF row
  <2> QED
    BY <1>1, <2>1, <2>2, BeginStep
<1>3. CASE connect(o)
  <2>1. CASE sockDesc[o] < 0
    <3> DEFINE row == <<"lookup", "socket", "connect">>
    <3>1. RowOK(row) /\ row[1] = "lookup" /\ doing' = [doing EXCEPT ![o] = row]
      BY <1>3, <2>1, Rows DEF connect, Do
    <3>2. sockDesc[o] = -1
      BY <2>1, DescriptorIsNatural DEF IndInv, TypeOK
    <3> HIDE DEF row
    <3> QED
      BY <1>1, <3>1, <3>2, BeginStep
  <2>2. CASE ~(sockDesc[o] < 0)
    <3> DEFINE row == <<"lookup", "connect">>
    <3>1. RowOK(row) /\ row[1] = "lookup" /\ row[2] \notin Without
          /\ doing' = [doing EXCEPT ![o] = row]
      BY <1>3, <2>2, Rows DEF connect, Do, Without
    <3> HIDE DEF row
    <3> QED
      BY <1>1, <3>1, BeginStep
  <2> QED
    BY <2>1, <2>2
<1>4. CASE disconnect(o)
  <2> DEFINE row == <<"dissolve">>
  <2>1. RowOK(row) /\ row[1] = "dissolve" /\ doing' = [doing EXCEPT ![o] = row]
    BY <1>4, Rows DEF disconnect, Do
  <2> HIDE DEF row
  <2> QED
    BY <1>1, <2>1, BeginStep
<1>5. CASE close(o)
  <2> DEFINE row == <<"close">>
  <2>1. RowOK(row) /\ row[1] = "close" /\ doing' = [doing EXCEPT ![o] = row]
    BY <1>5, Rows DEF close, Do
  <2> HIDE DEF row
  <2> QED
    BY <1>1, <2>1, BeginStep
<1>6. CASE Delete(o)
  <2> DEFINE row == <<"close", "gone">>
  <2>1. RowOK(row) /\ row[1] = "close" /\ doing' = [doing EXCEPT ![o] = row]
    BY <1>6, Rows DEF Delete, Do
  <2> HIDE DEF row
  <2> QED
    BY <1>1, <2>1, BeginStep
<1> QED
  BY <1>2, <1>3, <1>4, <1>5, <1>6

\* An exception that changes no descriptor.
LEMMA ThrowStep ==
    ASSUME IndInv, NEW o \in Objects, doing[o] # << >>, ~At(o, "forget"), Throw(o),
           UNCHANGED <<class, sockDesc, kernel>>,
           desc' = desc \/ desc' = [desc EXCEPT ![o] = -1]
    PROVE  IndInv'
<1> DEFINE row == IF Constructs(o) THEN <<"close", "gone">> ELSE << >>
<1>1. /\ RowOK(row)
      /\ row # << >> => row[1] = "close" /\ Head(row) = "close"
      /\ doing' = [doing EXCEPT ![o] = row]
  BY Rows DEF Throw, Do
<1> HIDE DEF row
<1>2. class[o] \in Classes /\ class' = [class EXCEPT ![o] = class[o]]
  BY AtCall DEF IndInv, TypeOK
<1>3. EmptyOK(class[o], sockDesc[o], row)
  BY <1>1, <1>2 DEF EmptyOK, Classes, Without
<1> QED
  BY <1>1, <1>2, <1>3, QuietStep

\* A call is done and has changed nothing.
LEMMA DoneStep ==
    ASSUME IndInv, NEW o \in Objects, doing[o] # << >>, Done(o),
           \/ doing[o][1] \in {"lookup", "try", "check", "made"}
           \/ doing[o][1] = "close" /\ sockDesc[o] = -1,
           UNCHANGED <<class, sockDesc, desc, kernel>>
    PROVE  IndInv'
<1> DEFINE row == Tail(doing[o])
<1>1. /\ RowOK(row) /\ doing' = [doing EXCEPT ![o] = row]
      /\ row # << >> => /\ Len(doing[o]) > 1 /\ row[1] = doing[o][2] /\ Head(row) = row[1]
                        /\ row[1] \in After(doing[o][1])
      /\ EmptyOK(class[o], sockDesc[o], doing[o])
  BY AtCall, DoneRow DEF Done, Do
<1> HIDE DEF row
<1>2. class[o] \in Classes /\ class' = [class EXCEPT ![o] = class[o]]
  BY AtCall DEF IndInv, TypeOK
<1>3. row # << >> => row[1] \in {"try", "find", "close", "socket", "connect", "check",
                                "gone", "made"}
  BY <1>1 DEF After
<1>4. row # << >> /\ row[1] \in Without => sockDesc[o] = -1
  BY <1>1 DEF EmptyOK, Without, After
<1>5. EmptyOK(class[o], sockDesc[o], row)
  BY <1>2, <1>3, <1>4 DEF EmptyOK, Classes
<1>6. ~At(o, "forget")
  BY AtCall
<1> QED
  BY <1>1, <1>2, <1>3, <1>5, <1>6, QuietStep

\* A call that gives the object a socket: the rest of the method is row.
LEMMA SocketGiven ==
    ASSUME IndInv, NEW o \in Objects, doing[o] # << >>, doing[o][1] \in {"socket", "try"},
           FreeFds # {}, NEW row, RowOK(row),
           row # << >> => row[1] \in {"attempt", "bind", "listen", "connect"},
           doing' = [doing EXCEPT ![o] = row],
           sockDesc' = [sockDesc EXCEPT ![o] = LowestFd],
           NEW by \in Makers,
           kernel' = [kernel EXCEPT ![LowestFd] = Made(o, by, "new")],
           UNCHANGED <<class, desc>>
    PROVE  IndInv'
<1>1. sockDesc[o] = -1 /\ class[o] \in Classes /\ ~At(o, "forget")
  BY AtCall DEF EmptyOK, Without
<1>2. class' = [class EXCEPT ![o] = class[o]]
  BY DEF IndInv, TypeOK
<1>3. LowestFd # -1
  BY LowestIsFree, DescriptorIsNatural
<1>4. EmptyOK(class[o], LowestFd, row)
  BY <1>1, <1>3 DEF EmptyOK, Classes, Without
<1>5. row # << >> => Head(row) \notin {"forget", "findBind"}
  BY DoneRow
<1>6. "new" \in Modes
  BY DEF Modes
<1> QED
  BY <1>1, <1>2, <1>4, <1>5, <1>6, GivenStep

\* The calls that take what is there for what it is: lookup, close, check and
\* the end of a constructor or destructor.
LEMMA SimpleCalls ==
    ASSUME IndInv, NEW o \in Objects, Lookup(o) \/ CloseCall(o) \/ Check(o) \/ End(o)
    PROVE  IndInv'
<1>1. CASE Lookup(o)
  <2>1. doing[o] # << >> /\ doing[o][1] = "lookup" /\ ~At(o, "forget")
    BY <1>1, AtCall DEF Lookup, At
  <2> QED
    BY <1>1, <2>1, DoneStep, ThrowStep DEF Lookup
<1>2. CASE CloseCall(o)
  <2>1. doing[o] # << >> /\ doing[o][1] = "close"
    BY <1>2, AtCall DEF CloseCall, At
  <2>2. CASE sockDesc[o] = -1
    <3>1. Done(o) /\ UNCHANGED <<class, sockDesc, desc, kernel>>
      BY <1>2, <2>2 DEF CloseCall
    <3> QED
      BY <2>1, <2>2, <3>1, DoneStep
  <2>3. CASE sockDesc[o] # -1
    <3>1. sockDesc[o] >= 0
      BY <2>3, DescriptorIsNatural DEF IndInv, TypeOK
    <3> QED
      BY <1>2, <3>1, CloseStep
  <2> QED
    BY <2>2, <2>3
<1>3. CASE Check(o)
  <2>1. doing[o] # << >> /\ doing[o][1] = "check" /\ ~At(o, "forget")
    BY <1>3, AtCall DEF Check, At
  <2> QED
    BY <1>3, <2>1, DoneStep, ThrowStep DEF Check
<1>4. CASE End(o)
  <2>1. doing[o] # << >> /\ ~At(o, "forget") /\ doing[o][1] \in {"made", "gone"}
    BY <1>4, AtCall DEF End, At
  <2>2. CASE doing[o][1] = "made"
    <3>1. ~At(o, "gone")
      BY <2>1, <2>2, AtCall
    <3> QED
      BY <1>4, <2>1, <2>2, <3>1, DoneStep DEF End
  <2>3. CASE doing[o][1] = "gone"
    <3>1. sockDesc[o] = -1 /\ At(o, "gone")
      BY <2>1, <2>3, AtCall DEF EmptyOK, Without
    <3>2. doing' = [doing EXCEPT ![o] = << >>]
      <4>1. Tail(doing[o]) = << >>
        BY <2>1, <2>3, AtCall, DoneRow DEF After
      <4> QED
        BY <1>4, <4>1 DEF End, Done, Do
    <3>3. class' = [class EXCEPT ![o] = "none"] /\ UNCHANGED <<sockDesc, desc, kernel>>
      BY <1>4, <3>1 DEF End
    <3>4. EmptyOK("none", sockDesc[o], << >>)
      BY <3>1 DEF EmptyOK
    <3> QED
      BY <2>1, <3>2, <3>3, <3>4, Rows, QuietStep
  <2> QED
    BY <2>1, <2>2, <2>3
<1> QED
  BY <1>1, <1>2, <1>3, <1>4

\* bind, listen, connect and the dissolving connect.
LEMMA ModeCalls ==
    ASSUME IndInv, NEW o \in Objects, NEW call \in {"bind", "listen", "connect", "dissolve"},
           NEW mode \in Modes, Call(o, call, mode)
    PROVE  IndInv'
<1>1. /\ doing[o] # << >> /\ doing[o][1] = call /\ ~At(o, "forget") /\ class[o] \in Classes
      /\ UNCHANGED <<class, sockDesc, desc>>
  BY AtCall DEF Call, At
<1>2. CASE /\ sockDesc[o] >= 0 /\ Done(o)
           /\ kernel' = [kernel EXCEPT ![sockDesc[o]].mode = mode]
  <2> DEFINE row == Tail(doing[o])
  <2>1. /\ RowOK(row) /\ doing' = [doing EXCEPT ![o] = row]
        /\ row # << >> => row[1] \in After(call) /\ Head(row) = row[1]
    BY <1>1, <1>2, AtCall, DoneRow DEF Done, Do
  <2> HIDE DEF row
  <2>2. row # << >> => row[1] \in {"listen", "connect", "made"}
    BY <2>1 DEF After
  <2>3. EmptyOK(class[o], sockDesc[o], row)
    BY <1>1, <2>2 DEF EmptyOK, Classes, Without
  <2> QED
    BY <1>1, <1>2, <2>1, <2>2, <2>3, ModeStep
<1>3. CASE Throw(o) /\ UNCHANGED kernel
  BY <1>1, <1>3, ThrowStep
<1> QED
  BY <1>2, <1>3 DEF Call

\* The calls that make a socket, or decide that it was made in vain.
LEMMA MakingCalls ==
    ASSUME IndInv, NEW o \in Objects, SocketCall(o) \/ Try(o) \/ Attempt(o)
    PROVE  IndInv'
<1>1. CASE SocketCall(o)
  <2>1. doing[o] # << >> /\ doing[o][1] = "socket" /\ ~At(o, "forget")
        /\ sockDesc[o] = -1 /\ UNCHANGED <<class, desc>>
    BY <1>1, AtCall DEF SocketCall, At, EmptyOK, Without
  <2>2. CASE FreeFds # {} /\ Done(o)
             /\ sockDesc' = [sockDesc EXCEPT ![o] = LowestFd]
             /\ kernel' = [kernel EXCEPT ![LowestFd] = Made(o, "createSocket", "new")]
    <3> DEFINE row == Tail(doing[o])
    <3>1. /\ RowOK(row) /\ doing' = [doing EXCEPT ![o] = row]
          /\ row # << >> => row[1] \in {"bind", "listen", "connect"}
      BY <2>1, <2>2, AtCall, DoneRow DEF Done, Do, After
    <3> HIDE DEF row
    <3>2. "createSocket" \in Makers
      BY DEF Makers
    <3> QED
      BY <2>1, <2>2, <3>1, <3>2, SocketGiven
  <2>3. CASE sockDesc' = [sockDesc EXCEPT ![o] = -1] /\ Throw(o) /\ UNCHANGED kernel
    <3>1. UNCHANGED sockDesc
      BY <2>1, <2>3 DEF IndInv, TypeOK
    <3> QED
      BY <2>1, <2>3, <3>1, ThrowStep
  <2> QED
    BY <1>1, <2>2, <2>3 DEF SocketCall
<1>2. CASE Try(o)
  <2>1. doing[o] # << >> /\ doing[o][1] = "try" /\ UNCHANGED <<class, desc>>
    BY <1>2, AtCall DEF Try, At
  <2>2. CASE FreeFds # {} /\ Do(o, <<"attempt">> \o Tail(doing[o]))
             /\ sockDesc' = [sockDesc EXCEPT ![o] = LowestFd]
             /\ kernel' = [kernel EXCEPT ![LowestFd] = Made(o, "TCPSocket", "new")]
    <3> DEFINE row == <<"attempt">> \o Tail(doing[o])
    <3>1. /\ RowOK(Tail(doing[o]))
          /\ Tail(doing[o]) # << >> => Tail(doing[o])[1] \in After("attempt")
      BY <2>1, AtCall, DoneRow DEF After
    <3>2. RowOK(row) /\ row # << >> /\ row[1] = "attempt" /\ doing' = [doing EXCEPT ![o] = row]
      BY <2>2, <3>1, CallBefore DEF Do, Calls
    <3> HIDE DEF row
    <3>3. "TCPSocket" \in Makers
      BY DEF Makers
    <3> QED
      BY <2>1, <2>2, <3>2, <3>3, SocketGiven
  <2>3. CASE Done(o) /\ UNCHANGED <<sockDesc, kernel>>
    BY <2>1, <2>3, DoneStep
  <2> QED
    BY <1>2, <2>2, <2>3 DEF Try
<1>3. CASE Attempt(o)
  <2>1. /\ doing[o] # << >> /\ doing[o][1] = "attempt" /\ ~At(o, "forget")
        /\ sockDesc[o] \in Fds /\ sockDesc[o] >= 0
        /\ class[o] \in Classes /\ class' = [class EXCEPT ![o] = class[o]]
        /\ UNCHANGED <<class, sockDesc, desc>>
    BY <1>3, AtCall, DescriptorIsNatural DEF Attempt, At, EmptyOK, IndInv, TypeOK
  <2>2. CASE /\ kernel' = [kernel EXCEPT ![sockDesc[o]].mode = "connected"]
             /\ Do(o, <<"check", "made">>)
    <3> DEFINE row == <<"check", "made">>
    <3>1. RowOK(row) /\ row[1] = "check" /\ Head(row) = "check"
          /\ doing' = [doing EXCEPT ![o] = row]
      BY <2>2, Rows DEF Do
    <3> HIDE DEF row
    <3>2. EmptyOK(class[o], sockDesc[o], row) /\ "connected" \in Modes
      BY <2>1, <3>1 DEF EmptyOK, Classes, Without, Modes
    <3> QED
      BY <2>1, <2>2, <3>1, <3>2, ModeStep
  <2>3. CASE Do(o, <<"close">> \o Tail(doing[o])) /\ UNCHANGED kernel
    <3> DEFINE row == <<"close">> \o Tail(doing[o])
    <3>1. /\ RowOK(Tail(doing[o]))
          /\ Tail(doing[o]) # << >> => Tail(doing[o])[1] \in After("close")
      BY <2>1, AtCall, DoneRow DEF After
    <3>2. RowOK(row) /\ row # << >> /\ row[1] = "close" /\ doing' = [doing EXCEPT ![o] = row]
      BY <2>3, <3>1, CallBefore DEF Do, Calls
    <3> HIDE DEF row
    <3>3. Head(row) = "close"
      BY <3>2, DoneRow
    <3>4. EmptyOK(class[o], sockDesc[o], row)
      BY <2>1, <3>2 DEF EmptyOK, Classes, Without
    <3> QED
      BY <2>1, <2>3, <3>2, <3>3, <3>4, QuietStep
  <2> QED
    BY <1>3, <2>2, <2>3 DEF Attempt
<1> QED
  BY <1>1, <1>2, <1>3

\* findTCPServerSocketDesc.
LEMMA FindCalls ==
    ASSUME IndInv, NEW o \in Objects, Find(o) \/ FindBind(o)
    PROVE  IndInv'
<1>1. CASE Find(o)
  <2>1. doing[o] # << >> /\ ~At(o, "forget")
    BY <1>1, AtCall DEF Find, At
  <2> QED
    BY <1>1, <2>1, FindStep, ThrowStep DEF Find
<1>2. CASE FindBind(o)
  <2>1. doing[o] # << >> /\ ~At(o, "forget")
    BY <1>2, AtCall DEF FindBind, At
  <2> QED
    BY <1>2, <2>1, FindBindStep, ThrowStep DEF FindBind
<1> QED
  BY <1>1, <1>2

\* accept makes an object for a new descriptor.
LEMMA AcceptStep ==
    ASSUME IndInv, NEW o \in Objects, NEW p \in Objects, accept(o, p)
    PROVE  IndInv'
<1>1. /\ class[p] = "none" /\ sockDesc[p] = -1 /\ doing[p] = << >>
  BY DEF accept, IndInv, EmptyInv, EmptyOK
<1>2. doing' = [doing EXCEPT ![p] = << >>]
  BY <1>1 DEF accept, IndInv, TypeOK
<1>3. EmptyOK("TCPSocket", LowestFd, << >>) /\ ~At(p, "forget")
  BY <1>1 DEF EmptyOK, At
<1>4. "TCPSocket" \in Classes /\ "accept" \in Makers /\ "connected" \in Modes
  BY DEF Classes, Makers, Modes
<1> QED
  BY <1>1, <1>2, <1>3, <1>4, Rows, GivenStep DEF accept

-----------------------------------------------------------------------------
(* The theorems.                                                           *)

\* Every step keeps the invariant.
LEMMA NextInv == IndInv /\ [Next]_vars => IndInv'
<1> SUFFICES ASSUME IndInv, [Next]_vars PROVE IndInv'
  OBVIOUS
<1>1. ASSUME NEW o \in Objects, Method(o)
      PROVE  IndInv'
  BY <1>1, Constructors, Methods DEF Method
<1>2. ASSUME NEW o \in Objects, SystemCall(o)
      PROVE  IndInv'
  <2>1. CASE BindCall(o) \/ ListenCall(o) \/ ConnectCall(o) \/ DissolveCall(o)
    BY <2>1, ModeCalls DEF BindCall, ListenCall, ConnectCall, DissolveCall, Modes
  <2> QED
    BY <1>2, <2>1, SimpleCalls, MakingCalls, FindCalls, ForgetStep DEF SystemCall
<1>3. ASSUME NEW o \in Objects, NEW p \in Objects, accept(o, p)
      PROVE  IndInv'
  BY <1>3, AcceptStep
<1>4. CASE UNCHANGED vars
  BY <1>4 DEF vars, IndInv, TypeOK, RowInv, EmptyInv, ForgetInv, FindInv, At,
              OwnDescriptor, LostOnlyByServerBind, Free, Fds
<1> QED
  BY <1>1, <1>2, <1>3, <1>4 DEF Next

\* The invariant holds in every state.
LEMMA Invariant == Spec => []IndInv
BY InitInv, NextInv, PTL DEF Spec

\* No object uses the descriptor of another, however the system calls of their
\* threads interleave: between ::close and sockDesc = -1 the number may be
\* given away, and the object does not use it.
THEOREM EachItsDescriptor == Spec => []OwnDescriptor
<1>1. IndInv => OwnDescriptor
  BY DEF IndInv
<1> QED
  BY Invariant, <1>1, PTL

\* Every socket the process has open is held by the object whose method made
\* it, whatever calls fail, except one the constructor of a server socket could
\* not bind.
THEOREM NothingElseLost == Spec => []LostOnlyByServerBind
<1>1. IndInv => LostOnlyByServerBind
  BY DEF IndInv
<1> QED
  BY Invariant, <1>1, PTL
=============================================================================
