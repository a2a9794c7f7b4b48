-------------------------- MODULE SocketUseProofs --------------------------
(***************************************************************************)
(* Proofs of the properties of SocketAddress, SocketStream and Datagrams:  *)
(* for any threads, addresses and texts; any size of the buffers and any   *)
(* number of connections and characters; any objects, ports and datagrams. *)
(***************************************************************************)
EXTENDS SocketAddress, SocketStream, Datagrams, SequenceTheorems, TLAPS

(***************************************************************************)
(* SocketAddress.                                                          *)
(***************************************************************************)

-----------------------------------------------------------------------------
(* The inductive invariant.                                                *)

Places == {"outside", "asking", "answered"} \cup Inside

AddressTypeOK ==
    /\ at \in [Threads -> Places] /\ addrs \in [Threads -> Seq(Addrs)]
    /\ alone \in [Threads -> BOOLEAN]
    /\ addrBuffer = <<addrBuffer[1], addrBuffer[2]>>
    /\ DOMAIN answer = Threads /\ answer = [t \in Threads |-> answer[t]]
    /\ \A t \in Threads :
         /\ answer[t] = [text |-> <<answer[t].text[1], answer[t].text[2]>>,
                         port |-> answer[t].port]
         /\ at[t] # "outside" => addrs[t] # << >>
         /\ at[t] \in Inside => Own(t).family \in Families

\* Whoever is alone in getAddress is alone there.
AloneInv ==
    \A t, u \in Threads :
        at[t] \in Inside /\ alone[t] /\ at[u] \in Inside => t = u

\* Where a thread that is alone is, the buffer holds what inet_ntop has written
\* so far and the string what has been copied of it.
Done(place, a, buffer, ans) ==
    /\ place \in {"write2", "copy1", "copy2"} => buffer[1] = ntop[a.host][1]
    /\ place \in {"copy1", "copy2"} => buffer[2] = ntop[a.host][2]
    /\ place = "copy2" => ans.text[1] = ntop[a.host][1] /\ ans.port = getPort(a)
    /\ place = "answered" => ans = Right(a)

DoneInv ==
    \A t \in Threads : alone[t] => Done(at[t], Own(t), addrBuffer, answer[t])

AddressIndInv == AddressTypeOK /\ AloneInv /\ DoneInv

-----------------------------------------------------------------------------
(* Steps.                                                                  *)

\* A thread about to ask has an address, and so has one in getAddress.
LEMMA OwnType ==
    ASSUME AddressTypeOK, NEW t \in Threads, at[t] # "outside"
    PROVE  addrs[t] \in Seq(Addrs) /\ addrs[t] # << >> /\ Own(t) \in Addrs
BY DEF AddressTypeOK, Own

\* The text of an address has two parts.
LEMMA TextType ==
    ASSUME NEW a \in Addrs, a.family \in Families
    PROVE  ntop[a.host] = <<ntop[a.host][1], ntop[a.host][2]>>
<1>1. a.host \in DOMAIN ntop
  BY AddressAssumption DEF Addrs, InternetAddrs
<1> QED
  BY <1>1, AddressAssumption

\* Another place of one thread.
LEMMA Gone ==
    ASSUME AddressTypeOK, NEW t \in Threads, NEW place \in Places, Go(t, place)
    PROVE  at' \in [Threads -> Places] /\ at'[t] = place
           /\ \A u \in Threads \ {t} : at'[u] = at[u]
BY DEF AddressTypeOK, Go

\* A thread outside getAddress that goes to another place outside, or asks of
\* an address that is of no family.
LEMMA OutsideStep ==
    ASSUME AddressIndInv, NEW t \in Threads, NEW place \in {"outside", "asking", "answered"},
           at[t] \notin Inside, Go(t, place),
           addrs' \in [Threads -> Seq(Addrs)],
           \A u \in Threads \ {t} : addrs'[u] = addrs[u],
           place # "outside" => addrs'[t] # << >>,
           UNCHANGED <<addrBuffer, alone>>,
           \/ answer' = answer /\ place # "answered"
           \/ /\ answer' = [answer EXCEPT ![t] = Thrown]
              /\ addrs' = addrs /\ Own(t).family \notin Families
    PROVE  AddressIndInv'
<1>1. /\ at' \in [Threads -> Places] /\ at'[t] = place
      /\ \A u \in Threads \ {t} : at'[u] = at[u]
  BY Gone DEF Places, AddressIndInv
<1>2. place \notin Inside /\ \A u \in Threads : at'[u] \in Inside => u # t /\ at[u] \in Inside
  BY <1>1 DEF Inside
<1>3. /\ addrBuffer' = addrBuffer /\ alone' = alone
      /\ \A u \in Threads \ {t} : answer'[u] = answer[u]
      /\ answer'[t] = answer[t] \/ answer'[t] = Thrown
      /\ DOMAIN answer' = Threads /\ answer' = [u \in Threads |-> answer'[u]]
  BY DEF AddressIndInv, AddressTypeOK
<1>4. \A u \in Threads \ {t} : Own(u)' = Own(u)
  BY DEF Own
<1>5. AddressTypeOK'
  <2>1. ASSUME NEW u \in Threads
        PROVE  /\ answer'[u] = [text |-> <<answer'[u].text[1], answer'[u].text[2]>>,
                                port |-> answer'[u].port]
               /\ at'[u] # "outside" => addrs'[u] # << >>
               /\ at'[u] \in Inside => Own(u)'.family \in Families
    <3>1. CASE u = t
      <4>1. Thrown = [text |-> <<Thrown.text[1], Thrown.text[2]>>, port |-> Thrown.port]
        BY DEF Thrown
      <4>2. answer[t] = [text |-> <<answer[t].text[1], answer[t].text[2]>>,
                         port |-> answer[t].port]
        BY DEF AddressIndInv, AddressTypeOK
      <4>3. answer'[t] = [text |-> <<answer'[t].text[1], answer'[t].text[2]>>,
                          port |-> answer'[t].port]
        BY <1>3, <4>1, <4>2
      <4> QED
        BY <1>1, <1>2, <3>1, <4>3
    <3>2. CASE u # t
      <4>1. /\ answer[u] = [text |-> <<answer[u].text[1], answer[u].text[2]>>,
                            port |-> answer[u].port]
            /\ at[u] # "outside" => addrs[u] # << >>
            /\ at[u] \in Inside => Own(u).family \in Families
        BY DEF AddressIndInv, AddressTypeOK
      <4>2. answer'[u] = answer[u] /\ at'[u] = at[u] /\ addrs'[u] = addrs[u] /\ Own(u)' = Own(u)
        BY <1>1, <1>3, <1>4, <3>2
      <4> QED
        BY <4>1, <4>2
    <3> QED
      BY <3>1, <3>2
  <2>2. alone' \in [Threads -> BOOLEAN] /\ addrBuffer' = <<addrBuffer'[1], addrBuffer'[2]>>
    BY <1>3 DEF AddressIndInv, AddressTypeOK
  <2> QED
    BY <1>1, <1>3, <2>1, <2>2 DEF AddressTypeOK
<1>6. AloneInv'
  BY <1>2, <1>3 DEF AddressIndInv, AloneInv
<1>7. ASSUME NEW u \in Threads, alone'[u]
      PROVE  Done(at'[u], Own(u)', addrBuffer', answer'[u])
  <2>1. CASE u # t
    <3>1. Done(at[u], Own(u), addrBuffer, answer[u])
      BY <1>3, <1>7 DEF AddressIndInv, DoneInv
    <3> QED
      BY <1>1, <1>3, <1>4, <2>1, <3>1
  <2>2. CASE u = t /\ place # "answered"
    BY <1>1, <1>2, <2>2 DEF Done, Inside
  <2>3. CASE u = t /\ place = "answered"
    <3>1. answer'[t] = Thrown /\ Own(t)' = Own(t) /\ Own(t).family \notin Families
      BY <2>3 DEF AddressIndInv, AddressTypeOK, Own
    <3>2. Right(Own(t)) = Thrown
      BY <3>1 DEF Right
    <3> QED
      BY <1>1, <2>3, <3>1, <3>2 DEF Done
  <2> QED
    BY <2>1, <2>2, <2>3
<1>8. DoneInv'
  BY <1>7 DEF DoneInv
<1> QED
  BY <1>5, <1>6, <1>8 DEF AddressIndInv

\* A thread gets addresses.
LEMMA AddressGetStep ==
    ASSUME AddressIndInv, NEW t \in Threads,
           lookupAddresses(t) \/ First(t) \/ Wrap(t, Sockaddrs)
             \/ getLocalAddress(t) \/ getForeignAddress(t)
    PROVE  AddressIndInv'
<1>1. addrs \in [Threads -> Seq(Addrs)]
  BY DEF AddressIndInv, AddressTypeOK
<1>2. ASSUME NEW row \in Seq(Addrs), row # << >>, addrs' = [addrs EXCEPT ![t] = row],
             at[t] = "outside", Go(t, "asking"), UNCHANGED <<addrBuffer, answer, alone>>
      PROVE  AddressIndInv'
  <2>1. /\ addrs' \in [Threads -> Seq(Addrs)] /\ addrs'[t] # << >>
        /\ \A u \in Threads \ {t} : addrs'[u] = addrs[u]
    BY <1>1, <1>2
  <2>2. at[t] \notin Inside
    BY <1>2 DEF Inside
  <2> QED
    BY <1>2, <2>1, <2>2, OutsideStep
<1>3. ASSUME NEW list \in Lists
      PROVE  /\ list \in Seq(Addrs) /\ list # << >>
             /\ <<Head(list)>> \in Seq(Addrs) /\ <<Head(list)>> # << >>
  <2>1. list \in Seq(InternetAddrs) /\ list # << >> /\ InternetAddrs \subseteq Addrs
    BY <1>3, AddressAssumption DEF Addrs
  <2>2. list \in Seq(Addrs)
    BY <2>1
  <2>3. Head(list) \in Addrs
    BY <2>1, <2>2
  <2> QED
    BY <2>1, <2>2, <2>3
<1>4. ASSUME NEW given, given \subseteq Sockaddrs, Wrap(t, given) PROVE AddressIndInv'
  <2>1. PICK a \in given : addrs' = [addrs EXCEPT ![t] = <<a>>]
    BY <1>4 DEF Wrap
  <2>2. <<a>> \in Seq(Addrs) /\ <<a>> # << >>
    BY <1>4 DEF Addrs
  <2> QED
    BY <1>2, <1>4, <2>1, <2>2 DEF Wrap
<1>5. CASE lookupAddresses(t)
  BY <1>2, <1>3, <1>5 DEF lookupAddresses
<1>6. CASE First(t)
  <2>1. PICK list \in Lists : addrs' = [addrs EXCEPT ![t] = <<Head(list)>>]
    BY <1>6 DEF First
  <2>2. <<Head(list)>> \in Seq(Addrs) /\ <<Head(list)>> # << >>
    BY <1>3
  <2> QED
    BY <1>2, <1>6, <2>1, <2>2 DEF First
<1> QED
  BY <1>4, <1>5, <1>6 DEF getLocalAddress, getForeignAddress

\* On to the next address, or done.
LEMMA NextAddressStep ==
    ASSUME AddressIndInv, NEW t \in Threads, NextAddress(t)
    PROVE  AddressIndInv'
<1> DEFINE place == IF Len(addrs[t]) > 1 THEN "asking" ELSE "outside"
<1>1. /\ at[t] = "answered" /\ addrs' = [addrs EXCEPT ![t] = Tail(@)] /\ Go(t, place)
      /\ UNCHANGED <<addrBuffer, answer, alone>>
  BY DEF NextAddress
<1>2. addrs \in [Threads -> Seq(Addrs)] /\ addrs[t] \in Seq(Addrs) /\ addrs[t] # << >>
  BY <1>1 DEF AddressIndInv, AddressTypeOK
<1>3. Tail(addrs[t]) \in Seq(Addrs) /\ (Len(addrs[t]) > 1 => Tail(addrs[t]) # << >>)
  <2>1. \A s \in Seq(Addrs) : s # << >> =>
          /\ Tail(s) \in Seq(Addrs)
          /\ Len(s) > 1 => Len(Tail(s)) > 0
    OBVIOUS
  <2>2. \A s \in Seq(Addrs) : Len(s) > 0 => s # << >>
    OBVIOUS
  <2> QED
    BY <1>2, <2>1, <2>2, Zenon
<1>4. /\ addrs' \in [Threads -> Seq(Addrs)]
      /\ \A u \in Threads \ {t} : addrs'[u] = addrs[u]
      /\ place # "outside" => addrs'[t] # << >>
  BY <1>1, <1>2, <1>3
<1>5. place \in {"outside", "asking"} /\ at[t] \notin Inside
  BY <1>1 DEF Inside
<1> HIDE DEF place
<1> QED
  BY <1>1, <1>4, <1>5, OutsideStep

\* A thread that calls getAddress.
LEMMA AskStep ==
    ASSUME AddressIndInv, NEW t \in Threads, getAddress(t)
    PROVE  AddressIndInv'
<1>1. /\ at[t] = "asking" /\ at[t] # "outside" /\ at[t] \notin Inside
      /\ answer' = [answer EXCEPT ![t] = Thrown]
      /\ addrs' = addrs /\ addrBuffer' = addrBuffer
  BY DEF getAddress, Inside
<1>2. addrs \in [Threads -> Seq(Addrs)] /\ addrs[t] # << >>
  BY <1>1 DEF AddressIndInv, AddressTypeOK
<1>3. CASE Own(t).family \notin Families
  BY <1>1, <1>2, <1>3, OutsideStep DEF getAddress
<1>4. CASE Own(t).family \in Families
  <2>1. /\ Go(t, "write1")
        /\ alone' = [u \in Threads |->
                       IF u = t THEN \A v \in Threads : at[v] \notin Inside
                       ELSE alone[u] /\ at[u] \notin Inside]
    BY <1>4, Zenon DEF getAddress
  <2>2. /\ at' \in [Threads -> Places] /\ at'[t] = "write1"
        /\ \A u \in Threads \ {t} : at'[u] = at[u]
    BY <2>1, Gone DEF Places, Inside, AddressIndInv
  <2>3. /\ alone' \in [Threads -> BOOLEAN]
        /\ alone'[t] => \A v \in Threads : at[v] \notin Inside
        /\ \A u \in Threads \ {t} : alone'[u] => alone[u] /\ at[u] \notin Inside
    <3>1. DOMAIN alone' = Threads /\ alone' = [u \in Threads |-> alone'[u]]
      BY <2>1, Zenon
    <3>2. alone'[t] = \A v \in Threads : at[v] \notin Inside
      BY <2>1, Zenon
    <3>3. \A u \in Threads \ {t} : alone'[u] = (alone[u] /\ at[u] \notin Inside)
      BY <2>1, Zenon
    <3>4. \A u \in Threads : alone'[u] \in BOOLEAN
      <4>1. alone'[t] \in BOOLEAN
        BY <3>2, Zenon
      <4>2. \A u \in Threads \ {t} : alone'[u] \in BOOLEAN
        BY <3>3, Zenon
      <4> QED
        BY <4>1, <4>2, Zenon
    <3>5. alone' \in [Threads -> BOOLEAN]
      BY <3>1, <3>4, Zenon
    <3> QED
      BY <3>2, <3>3, <3>5, Zenon
  <2>4. /\ answer'[t] = Thrown /\ \A u \in Threads \ {t} : answer'[u] = answer[u]
        /\ DOMAIN answer' = Threads /\ answer' = [u \in Threads |-> answer'[u]]
    BY <1>1 DEF AddressIndInv, AddressTypeOK
  <2>5. \A u \in Threads : Own(u)' = Own(u)
    BY <1>1 DEF Own
  <2>6. AddressTypeOK'
    <3>1. ASSUME NEW u \in Threads
          PROVE  /\ answer'[u] = [text |-> <<answer'[u].text[1], answer'[u].text[2]>>,
                                  port |-> answer'[u].port]
                 /\ at'[u] # "outside" => addrs'[u] # << >>
                 /\ at'[u] \in Inside => Own(u)'.family \in Families
      <4>1. CASE u = t
        <5>1. Thrown = [text |-> <<Thrown.text[1], Thrown.text[2]>>, port |-> Thrown.port]
          BY DEF Thrown
        <5> QED
          BY <1>1, <1>2, <1>4, <2>4, <2>5, <4>1, <5>1
      <4>2. CASE u # t
        BY <1>1, <2>2, <2>4, <2>5, <4>2 DEF AddressIndInv, AddressTypeOK
      <4> QED
        BY <4>1, <4>2
    <3> QED
      BY <1>1, <2>2, <2>3, <2>4, <3>1 DEF AddressIndInv, AddressTypeOK
  <2>7. AloneInv'
    BY <2>2, <2>3 DEF AloneInv, AddressIndInv
  <2>8. ASSUME NEW u \in Threads, alone'[u]
        PROVE  Done(at'[u], Own(u)', addrBuffer', answer'[u])
    <3>1. CASE u = t
      BY <2>2, <3>1 DEF Done
    <3>2. CASE u # t
      <4>1. Done(at[u], Own(u), addrBuffer, answer[u])
        BY <2>3, <2>8, <3>2 DEF AddressIndInv, DoneInv
      <4> QED
        BY <1>1, <2>2, <2>4, <2>5, <3>2, <4>1
    <3> QED
      BY <3>1, <3>2
  <2>9. DoneInv'
    BY <2>8 DEF DoneInv
  <2> QED
    BY <2>6, <2>7, <2>9 DEF AddressIndInv
<1> QED
  BY <1>3, <1>4

\* A thread that goes on in getAddress or leaves it.
LEMMA InsideStep ==
    ASSUME AddressIndInv, NEW t \in Threads, at[t] \in Inside,
           NEW place \in Inside \cup {"answered"}, Go(t, place),
           UNCHANGED <<addrs, alone>>,
           addrBuffer' = <<addrBuffer'[1], addrBuffer'[2]>>,
           \A u \in Threads \ {t} : answer'[u] = answer[u],
           DOMAIN answer' = Threads, answer' = [u \in Threads |-> answer'[u]],
           answer'[t] = [text |-> <<answer'[t].text[1], answer'[t].text[2]>>,
                         port |-> answer'[t].port],
           alone[t] => Done(place, Own(t), addrBuffer', answer'[t])
    PROVE  AddressIndInv'
<1>1. /\ at' \in [Threads -> Places] /\ at'[t] = place
      /\ \A u \in Threads \ {t} : at'[u] = at[u]
  BY Gone DEF Places, AddressIndInv
<1>2. \A u \in Threads : Own(u)' = Own(u)
  BY DEF Own
<1>3. place # "outside" /\ at[t] # "outside"
  BY DEF Inside
<1>4. AddressTypeOK'
  <2>1. ASSUME NEW u \in Threads
        PROVE  /\ answer'[u] = [text |-> <<answer'[u].text[1], answer'[u].text[2]>>,
                                port |-> answer'[u].port]
               /\ at'[u] # "outside" => addrs'[u] # << >>
               /\ at'[u] \in Inside => Own(u)'.family \in Families
    <3>1. CASE u = t
      BY <1>1, <1>2, <1>3, <3>1 DEF AddressIndInv, AddressTypeOK
    <3>2. CASE u # t
      <4>1. /\ answer[u] = [text |-> <<answer[u].text[1], answer[u].text[2]>>,
                            port |-> answer[u].port]
            /\ at[u] # "outside" => addrs[u] # << >>
            /\ at[u] \in Inside => Own(u).family \in Families
        BY DEF AddressIndInv, AddressTypeOK
      <4>2. answer'[u] = answer[u] /\ at'[u] = at[u] /\ addrs'[u] = addrs[u] /\ Own(u)' = Own(u)
        BY <1>1, <1>2, <3>2
      <4> QED
        BY <4>1, <4>2
    <3> QED
      BY <3>1, <3>2
  <2> QED
    BY <1>1, <2>1 DEF AddressIndInv, AddressTypeOK
<1>5. AloneInv'
  BY <1>1 DEF AddressIndInv, AloneInv
<1>6. ASSUME NEW u \in Threads, alone'[u]
      PROVE  Done(at'[u], Own(u)', addrBuffer', answer'[u])
  <2>1. CASE u = t
    BY <1>1, <1>2, <1>6, <2>1
  <2>2. CASE u # t
    <3>1. Done(at[u], Own(u), addrBuffer, answer[u]) /\ alone[u]
      BY <1>6 DEF AddressIndInv, DoneInv
    <3>2. at[u] \notin Inside
      BY <2>2, <3>1 DEF AddressIndInv, AloneInv
    <3>3. Done(at[u], Own(u), addrBuffer', answer[u])
      BY <3>1, <3>2 DEF Done, Inside
    <3> QED
      BY <1>1, <1>2, <2>2, <3>3
  <2> QED
    BY <2>1, <2>2
<1>7. DoneInv'
  BY <1>6 DEF DoneInv
<1> QED
  BY <1>4, <1>5, <1>7 DEF AddressIndInv

\* One of two parts is replaced.
LEMMA Replaced ==
    ASSUME NEW pair, pair = <<pair[1], pair[2]>>, NEW x, NEW i \in {1, 2}
    PROVE  /\ [pair EXCEPT ![i] = x] = IF i = 1 THEN <<x, pair[2]>> ELSE <<pair[1], x>>
           /\ [pair EXCEPT ![i] = x]
                = <<[pair EXCEPT ![i] = x][1], [pair EXCEPT ![i] = x][2]>>
<1>1. [pair EXCEPT ![i] = x] = IF i = 1 THEN <<x, pair[2]>> ELSE <<pair[1], x>>
  <2> DEFINE a == pair[1]
             b == pair[2]
  <2>1. pair = <<a, b>>
    OBVIOUS
  <2> HIDE DEF a, b
  <2>2. [<<a, b>> EXCEPT ![i] = x] = IF i = 1 THEN <<x, b>> ELSE <<a, x>>
    OBVIOUS
  <2> QED
    BY <2>1, <2>2
<1> QED
  BY <1>1

\* inet_ntop writes a part of the text.
LEMMA AddressWriteStep ==
    ASSUME AddressIndInv, NEW t \in Threads, NEW part \in 1 .. 2, Write(t, part)
    PROVE  AddressIndInv'
<1> DEFINE wrote == ntop[Own(t).host][part]
<1>1. /\ \/ part = 1 /\ at[t] = "write1" /\ Go(t, "write2")
         \/ part = 2 /\ at[t] = "write2" /\ Go(t, "copy1")
      /\ addrBuffer' = [addrBuffer EXCEPT ![part] = wrote]
      /\ addrs' = addrs /\ answer' = answer /\ alone' = alone
  BY DEF Write
<1>2. addrBuffer = <<addrBuffer[1], addrBuffer[2]>> /\ part \in {1, 2}
  BY DEF AddressIndInv, AddressTypeOK
<1>3. /\ addrBuffer' = IF part = 1 THEN <<wrote, addrBuffer[2]>> ELSE <<addrBuffer[1], wrote>>
      /\ addrBuffer' = <<addrBuffer'[1], addrBuffer'[2]>>
  <2> HIDE DEF wrote
  <2>1. addrBuffer' = IF part = 1 THEN <<wrote, addrBuffer[2]>> ELSE <<addrBuffer[1], wrote>>
    <3>1. [addrBuffer EXCEPT ![part] = wrote]
            = IF part = 1 THEN <<wrote, addrBuffer[2]>> ELSE <<addrBuffer[1], wrote>>
      <4>1. CASE part = 1
        BY <1>2, <4>1, Replaced
      <4>2. CASE part = 2
        BY <1>2, <4>2, Replaced
      <4> QED
        BY <1>2, <4>1, <4>2
    <3> QED
      BY <1>1, <3>1
  <2> QED
    BY <1>2, <2>1
<1>4. /\ \A u \in Threads \ {t} : answer'[u] = answer[u]
      /\ DOMAIN answer' = Threads /\ answer' = [u \in Threads |-> answer'[u]]
      /\ answer'[t] = [text |-> <<answer'[t].text[1], answer'[t].text[2]>>,
                       port |-> answer'[t].port]
  BY <1>1 DEF AddressIndInv, AddressTypeOK
<1>5. ASSUME alone[t] PROVE Done(at[t], Own(t), addrBuffer, answer[t])
  BY <1>5 DEF AddressIndInv, DoneInv
<1>6. CASE part = 1
  <2>1. alone[t] => Done("write2", Own(t), addrBuffer', answer'[t])
    BY <1>3, <1>6 DEF Done
  <2>2. /\ at[t] \in Inside /\ "write2" \in Inside \cup {"answered"}
        /\ Go(t, "write2") /\ UNCHANGED <<addrs, alone>>
    BY <1>1, <1>6 DEF Inside
  <2> QED
    BY <1>3, <1>4, <2>1, <2>2, InsideStep
<1>7. CASE part = 2
  <2>1. alone[t] => Done("copy1", Own(t), addrBuffer', answer'[t])
    <3>1. addrBuffer'[1] = addrBuffer[1] /\ addrBuffer'[2] = ntop[Own(t).host][2]
      BY <1>3, <1>7
    <3>2. alone[t] => addrBuffer[1] = ntop[Own(t).host][1]
      BY <1>1, <1>5, <1>7 DEF Done
    <3> QED
      BY <3>1, <3>2 DEF Done
  <2>2. /\ at[t] \in Inside /\ "copy1" \in Inside \cup {"answered"}
        /\ Go(t, "copy1") /\ UNCHANGED <<addrs, alone>>
    BY <1>1, <1>7 DEF Inside
  <2> QED
    BY <1>3, <1>4, <2>1, <2>2, InsideStep
<1> QED
  BY <1>2, <1>6, <1>7

\* A part of the buffer is copied to the string.
LEMMA CopyStep ==
    ASSUME AddressIndInv, NEW t \in Threads, NEW part \in 1 .. 2, Copy(t, part)
    PROVE  AddressIndInv'
<1> DEFINE text == [answer[t].text EXCEPT ![part] = addrBuffer[part]]
           port == getPort(Own(t))
<1>1. /\ \/ part = 1 /\ at[t] = "copy1" /\ Go(t, "copy2")
         \/ part = 2 /\ at[t] = "copy2" /\ Go(t, "answered")
      /\ answer' = [answer EXCEPT ![t].text[part] = addrBuffer[part], ![t].port = port]
      /\ addrs' = addrs /\ addrBuffer' = addrBuffer /\ alone' = alone
  BY DEF Copy
<1>2. /\ part \in {1, 2} /\ at[t] \in Inside /\ at[t] # "outside"
      /\ addrBuffer' = <<addrBuffer'[1], addrBuffer'[2]>>
  BY <1>1 DEF AddressIndInv, AddressTypeOK, Inside
<1>3. answer[t] = [text |-> <<answer[t].text[1], answer[t].text[2]>>,
                   port |-> answer[t].port]
  BY DEF AddressIndInv, AddressTypeOK
<1>4. /\ answer'[t] = [text |-> text, port |-> port]
      /\ \A u \in Threads \ {t} : answer'[u] = answer[u]
      /\ DOMAIN answer' = Threads /\ answer' = [u \in Threads |-> answer'[u]]
  <2>1. answer' = [answer EXCEPT ![t] = [answer[t] EXCEPT !.text = text, !.port = port]]
    BY <1>1
  <2>2. [answer[t] EXCEPT !.text = text, !.port = port] = [text |-> text, port |-> port]
    <3> HIDE DEF text, port
    <3>1. [answer[t] EXCEPT !.text = text, !.port = port]
            = [answer[t] EXCEPT !["text"] = text, !["port"] = port]
      OBVIOUS
    <3>2. DOMAIN answer[t] = {"text", "port"}
      BY <1>3
    <3> QED
      BY <3>1, <3>2
  <2> HIDE DEF text, port
  <2> QED
    BY <2>1, <2>2 DEF AddressIndInv, AddressTypeOK
<1>5. /\ text = IF part = 1 THEN <<addrBuffer[1], answer[t].text[2]>>
                ELSE <<answer[t].text[1], addrBuffer[2]>>
      /\ text = <<text[1], text[2]>>
  <2>1. answer[t].text = <<answer[t].text[1], answer[t].text[2]>>
    BY <1>3
  <2> QED
    BY <1>2, <2>1, Replaced
<1>6. ASSUME alone[t] PROVE Done(at[t], Own(t), addrBuffer, answer[t])
  BY <1>6 DEF AddressIndInv, DoneInv
<1>7. Own(t).family \in Families
  BY <1>2 DEF AddressIndInv, AddressTypeOK
<1> HIDE DEF text
<1>8. answer'[t] = [text |-> <<answer'[t].text[1], answer'[t].text[2]>>,
                    port |-> answer'[t].port]
  BY <1>4, <1>5
<1>9. CASE part = 1
  <2>1. alone[t] => Done("copy2", Own(t), addrBuffer', answer'[t])
    <3>1. alone[t] => /\ addrBuffer[1] = ntop[Own(t).host][1]
                      /\ addrBuffer[2] = ntop[Own(t).host][2]
      BY <1>1, <1>6, <1>9 DEF Done
    <3>2. answer'[t].text[1] = addrBuffer[1] /\ answer'[t].port = getPort(Own(t))
      BY <1>4, <1>5, <1>9
    <3> QED
      BY <1>1, <3>1, <3>2 DEF Done
  <2>2. /\ "copy2" \in Inside \cup {"answered"}
        /\ Go(t, "copy2") /\ UNCHANGED <<addrs, alone>>
    BY <1>1, <1>9 DEF Inside
  <2> QED
    BY <1>2, <1>4, <1>8, <2>1, <2>2, InsideStep
<1>10. CASE part = 2
  <2>1. alone[t] => Done("answered", Own(t), addrBuffer', answer'[t])
    <3> SUFFICES ASSUME alone[t] PROVE Done("answered", Own(t), addrBuffer', answer'[t])
      OBVIOUS
    <3>1. /\ addrBuffer[2] = ntop[Own(t).host][2]
          /\ answer[t].text[1] = ntop[Own(t).host][1]
      BY <1>1, <1>6, <1>10 DEF Done
    <3>2. text = <<ntop[Own(t).host][1], ntop[Own(t).host][2]>>
      BY <1>5, <1>10, <3>1
    <3>3. text = ntop[Own(t).host]
      BY <1>2, <1>7, <3>2, OwnType, TextType DEF AddressIndInv
    <3>4. port = ntohs[Own(t).port]
      BY <1>7 DEF getPort
    <3>5. answer'[t] = Right(Own(t))
      BY <1>4, <1>7, <3>3, <3>4 DEF Right
    <3> QED
      BY <3>5 DEF Done
  <2>2. /\ "answered" \in Inside \cup {"answered"}
        /\ Go(t, "answered") /\ UNCHANGED <<addrs, alone>>
    BY <1>1, <1>10
  <2> QED
    BY <1>2, <1>4, <1>8, <2>1, <2>2, InsideStep
<1> QED
  BY <1>2, <1>9, <1>10

-----------------------------------------------------------------------------
(* The invariant.                                                          *)

LEMMA AddressInitInv == AddressInit => AddressIndInv
<1> SUFFICES ASSUME AddressInit PROVE AddressIndInv
  OBVIOUS
<1>1. Thrown = [text |-> <<Thrown.text[1], Thrown.text[2]>>, port |-> Thrown.port]
  BY DEF Thrown
<1>2. \A t \in Threads : at[t] = "outside" /\ answer[t] = Thrown /\ addrs[t] = << >>
  BY DEF AddressInit
<1>3. AddressTypeOK
  <2>1. << >> \in Seq(Addrs)
    OBVIOUS
  <2> QED
    BY <1>1, <1>2, <2>1 DEF AddressInit, AddressTypeOK, Places, Inside
<1>4. AloneInv /\ DoneInv
  BY <1>2 DEF AloneInv, DoneInv, Done, Inside
<1> QED
  BY <1>3, <1>4 DEF AddressIndInv

LEMMA AddressNextInv == AddressIndInv /\ [AddressNext]_addressVars => AddressIndInv'
<1> SUFFICES ASSUME AddressIndInv, [AddressNext]_addressVars PROVE AddressIndInv'
  OBVIOUS
<1>1. CASE AddressNext
  BY <1>1, AddressGetStep, AskStep, NextAddressStep, AddressWriteStep, CopyStep DEF AddressNext
<1>2. CASE UNCHANGED addressVars
  BY <1>2 DEF addressVars, AddressIndInv, AddressTypeOK, AloneInv, DoneInv, Own
<1> QED
  BY <1>1, <1>2

\* The invariant holds in every state.
LEMMA AddressInvariant == AddressSpec => []AddressIndInv
BY AddressInitInv, AddressNextInv, PTL DEF AddressSpec

\* getAddress and getPort give a thread that was alone in getAddress the text
\* and the port of its own address, however many threads there are and whatever
\* they have left in the static buffer before.
THEOREM RightIfAlone == AddressSpec => []AloneRight
<1>1. AddressIndInv => AloneRight
  BY DEF AddressIndInv, DoneInv, Done, AloneRight
<1> QED
  BY AddressInvariant, <1>1, PTL

(***************************************************************************)
(* SocketStream.                                                           *)
(***************************************************************************)

-----------------------------------------------------------------------------
(* The inductive invariant.                                                *)

\* A character: the connection it was written for, and its number.
Chars == Nat \X Nat

Sends == [to : Nat, char : Chars]

StreamTypeOK ==
    /\ conn \in Nat /\ open \in BOOLEAN /\ (open => conn >= 1)
    /\ toPeer \in Seq(Sends) /\ cut \subseteq 1 .. conn
    /\ outBuffer \in Seq(Chars) /\ written \in Seq(Chars)
    /\ inBuffer \in Seq(Chars) /\ fromPeer \in Seq(Chars)
    /\ read \in Seq(Chars) /\ fed \in Seq(Chars)

\* What the stream has accepted is numbered, and the buffer, which has its size,
\* holds the end of it.
WrittenInv ==
    /\ \A i \in 1 .. Len(written) : written[i][2] = i
    /\ Len(outBuffer) <= Size /\ Len(outBuffer) <= Len(written)
    /\ \A i \in 1 .. Len(outBuffer) : outBuffer[i] = written[HandedOver + i]

\* The k-th character is the next to be sent behind c, or c is the last of a
\* connection on which a send has been cut short, and less than a buffer is lost.
Near(c, k, lost) ==
    c.char[2] + 1 = k \/ (c.to \in lost /\ k - c.char[2] \in 1 .. Size)

\* What send has taken of w on n connections, h characters having been handed
\* over, with the connections that have lost some.
SentOK(row, n, lost, w, h) ==
    /\ \A i \in 1 .. Len(row) :
         /\ row[i].to \in 1 .. n /\ row[i].char[2] \in 1 .. h
         /\ row[i].char = w[row[i].char[2]]
    /\ \A i \in 1 .. Len(row) - 1 :
         /\ Near(row[i], row[i + 1].char[2], lost)
         /\ row[i + 1].char[2] = row[i].char[2] + 1 \/ row[i + 1].to # row[i].to
    /\ Len(row) # 0 => row[1].char[2] = 1 /\ Near(row[Len(row)], h + 1, lost)
    /\ Len(row) = 0 => h = 0

SentInv == SentOK(toPeer, conn, cut, written, HandedOver)

\* A connection on which a send has been cut short takes no more.
CutInv == open /\ conn \in cut => peer \in {"reset", "broken"}

\* What has come, read or not.
Come == read \o inBuffer \o fromPeer

\* A row of characters of n connections whose peers have sent k of them: none
\* comes twice or too early.
RowOK(row, n, k) ==
    /\ \A i \in 1 .. Len(row) : row[i][1] \in 1 .. n /\ row[i][2] \in 1 .. k
    /\ \A i \in 1 .. Len(row) - 1 : Follows(row[i], row[i + 1])

\* The row ends with the last character sent, or with one of an earlier
\* connection: the next character of this one may follow.
EndOK(row, n, k) ==
    row # << >> => row[Len(row)][2] = k \/ row[Len(row)][1] < n

StreamIndInv ==
    /\ StreamTypeOK /\ WrittenInv /\ SentInv /\ CutInv
    /\ RowOK(Come, conn, Len(fed))
    /\ open => EndOK(Come, conn, Len(fed))

-----------------------------------------------------------------------------
(* Rows.                                                                   *)

\* A function on the first numbers is a row.
LEMMA IsARow ==
    ASSUME NEW S, NEW n \in Nat, NEW f \in [1 .. n -> S]
    PROVE  f \in Seq(S) /\ Len(f) = n
OBVIOUS

\* The characters s as they are sent on connection n.
SentOn(n, s) == [i \in DOMAIN s |-> [to |-> n, char |-> s[i]]]

\* Send takes s, the first of m characters, and what it has taken is in turn.
LEMMA SentMore ==
    ASSUME NEW row \in Seq(Sends), NEW n \in Nat, n >= 1, NEW lost, n \notin lost,
           NEW w \in Seq(Chars), \A i \in 1 .. Len(w) : w[i][2] = i, NEW h \in Nat,
           SentOK(row, n, lost, w, h),
           NEW s \in Seq(Chars), NEW m \in Nat, Len(s) <= m, m <= Size, h + m <= Len(w),
           \A i \in 1 .. Len(s) : s[i] = w[h + i],
           NEW more, \/ Len(s) = m /\ more = lost
                     \/ Len(s) # 0 /\ more = lost \cup {n}
    PROVE  /\ row \o SentOn(n, s) \in Seq(Sends)
           /\ SentOK(row \o SentOn(n, s), n, more, w, h + m)
<1> DEFINE t   == SentOn(n, s)
           all == row \o t
<1>0. Len(row) \in Nat /\ Len(s) \in Nat /\ Len(w) \in Nat /\ Size \in Nat
  BY StreamAssumption
<1>1. /\ t \in Seq(Sends) /\ Len(t) = Len(s)
      /\ \A i \in 1 .. Len(s) : t[i].char = s[i] /\ t[i].to = n
  <2>1. Len(s) \in Nat /\ DOMAIN s = 1 .. Len(s) /\ \A i \in 1 .. Len(s) : s[i] \in Chars
    OBVIOUS
  <2>2. \A i \in 1 .. Len(s) : [to |-> n, char |-> s[i]] \in Sends
    BY <2>1 DEF Sends
  <2>3. t \in [1 .. Len(s) -> Sends] /\ \A i \in 1 .. Len(s) : t[i].char = s[i] /\ t[i].to = n
    BY <2>1, <2>2 DEF SentOn
  <2> HIDE DEF t
  <2> QED
    BY <2>1, <2>3, IsARow
<1> HIDE DEF t
<1>2. /\ all \in Seq(Sends) /\ Len(all) = Len(row) + Len(s)
      /\ \A i \in 1 .. Len(row) + Len(s) :
           all[i] = IF i <= Len(row) THEN row[i] ELSE t[i - Len(row)]
  <2>1. /\ all \in Seq(Sends) /\ Len(all) = Len(row) + Len(t)
        /\ \A i \in 1 .. Len(row) + Len(t) :
             all[i] = IF i <= Len(row) THEN row[i] ELSE t[i - Len(row)]
    BY <1>1, ConcatProperties, ZenonT(30)
  <2> HIDE DEF all
  <2> QED
    BY <1>1, <2>1
<1> HIDE DEF all
<1>3. \A i \in 1 .. Len(row) : all[i] = row[i]
  BY <1>0, <1>2
<1>4. ASSUME NEW i \in 1 .. Len(s)
      PROVE  /\ all[Len(row) + i].to = n /\ all[Len(row) + i].char[2] = h + i
             /\ all[Len(row) + i].char = w[h + i]
  <2>1. Len(row) + i \in 1 .. Len(row) + Len(s) /\ ~(Len(row) + i <= Len(row))
        /\ (Len(row) + i) - Len(row) = i /\ h + i \in 1 .. Len(w)
    BY <1>0
  <2>2. all[Len(row) + i] = t[i]
    BY <1>2, <2>1
  <2> QED
    BY <1>1, <2>1, <2>2
<1>5. \A i \in 1 .. Len(row) :
        /\ row[i].to \in 1 .. n /\ row[i].char[2] \in 1 .. h
        /\ row[i].char = w[row[i].char[2]]
  BY DEF SentOK
<1>6. ASSUME NEW i \in 1 .. Len(all)
      PROVE  /\ all[i].to \in 1 .. n /\ all[i].char[2] \in 1 .. h + m
             /\ all[i].char = w[all[i].char[2]]
  <2>1. CASE i \in 1 .. Len(row)
    <3>1. all[i] = row[i] /\ row[i].to \in 1 .. n /\ row[i].char = w[row[i].char[2]]
      BY <1>3, <1>5, <2>1
    <3>2. row[i].char[2] \in 1 .. h + m
      <4>1. row[i].char[2] \in 1 .. h
        BY <1>5, <2>1
      <4> QED
        BY <1>0, <4>1, SMTT(30)
    <3> QED
      BY <3>1, <3>2
  <2>2. CASE i \notin 1 .. Len(row)
    <3>1. i - Len(row) \in 1 .. Len(s) /\ Len(row) + (i - Len(row)) = i
      BY <1>0, <1>2, <2>2
    <3>2. all[i].to = n /\ all[i].char[2] = h + (i - Len(row)) /\ all[i].char = w[h + (i - Len(row))]
      BY <1>4, <3>1
    <3>3. h + (i - Len(row)) \in 1 .. h + m
      BY <1>0, <3>1
    <3> QED
      BY <3>2, <3>3
  <2> QED
    BY <2>1, <2>2
<1>7. \A c, k : Near(c, k, lost) => Near(c, k, more)
  BY DEF Near
<1>8. ASSUME NEW i \in 1 .. Len(all) - 1
      PROVE  /\ Near(all[i], all[i + 1].char[2], more)
             /\ all[i + 1].char[2] = all[i].char[2] + 1 \/ all[i + 1].to # all[i].to
  <2>1. CASE i < Len(row)
    <3>1. i \in 1 .. Len(row) - 1 /\ i \in 1 .. Len(row) /\ i + 1 \in 1 .. Len(row)
      BY <1>0, <2>1
    <3>2. /\ Near(row[i], row[i + 1].char[2], lost)
          /\ row[i + 1].char[2] = row[i].char[2] + 1 \/ row[i + 1].to # row[i].to
      BY <3>1 DEF SentOK
    <3> QED
      BY <1>3, <1>7, <3>1, <3>2
  <2>2. CASE i = Len(row)
    <3>1. Len(row) \in 1 .. Len(row) /\ Len(row) # 0 /\ 1 \in 1 .. Len(s)
      BY <1>0, <1>2, <2>2
    <3>2. all[i] = row[Len(row)] /\ all[i + 1].char[2] = h + 1 /\ all[i + 1].to = n
      BY <1>3, <1>4, <2>2, <3>1
    <3>3. Near(row[Len(row)], h + 1, lost)
      BY <3>1 DEF SentOK
    <3>4. row[Len(row)].char[2] + 1 = h + 1 \/ row[Len(row)].to # n
      BY <3>3 DEF Near
    <3> QED
      BY <1>7, <3>2, <3>3, <3>4
  <2>3. CASE i > Len(row)
    <3>1. /\ i - Len(row) \in 1 .. Len(s) /\ Len(row) + (i - Len(row)) = i
          /\ i - Len(row) + 1 \in 1 .. Len(s) /\ Len(row) + (i - Len(row) + 1) = i + 1
      BY <1>0, <1>2, <2>3
    <3>2. all[i].char[2] = h + (i - Len(row)) /\ all[i + 1].char[2] = h + (i - Len(row) + 1)
      BY <1>4, <3>1
    <3>3. all[i + 1].char[2] = all[i].char[2] + 1
      BY <1>0, <3>2
    <3> QED
      BY <3>3 DEF Near
  <2> QED
    BY <1>0, <1>2, <2>1, <2>2, <2>3
<1>9. ASSUME Len(all) # 0
      PROVE  all[1].char[2] = 1 /\ Near(all[Len(all)], h + m + 1, more)
  <2>1. CASE Len(s) = 0
    <3>1. Len(all) = Len(row) /\ Len(row) \in 1 .. Len(row) /\ 1 \in 1 .. Len(row) /\ Len(row) # 0
          /\ m = 0 /\ more = lost /\ h + m + 1 = h + 1
      BY <1>0, <1>2, <1>9, <2>1
    <3>2. row[1].char[2] = 1 /\ Near(row[Len(row)], h + 1, lost)
      BY <3>1 DEF SentOK
    <3> QED
      BY <1>3, <3>1, <3>2
  <2>2. CASE Len(s) # 0
    <3>1. Len(s) \in 1 .. Len(s) /\ 1 \in 1 .. Len(s)
      BY <1>0, <2>2
    <3>2. /\ all[Len(all)].char[2] = h + Len(s) /\ all[Len(all)].to = n
          /\ all[Len(row) + 1].char[2] = h + 1
      BY <1>2, <1>4, <3>1
    <3>3. all[1].char[2] = 1
      <4>1. CASE Len(row) = 0
        BY <1>0, <3>2, <4>1 DEF SentOK
      <4>2. CASE Len(row) # 0
        BY <1>0, <1>3, <4>2 DEF SentOK
      <4> QED
        BY <4>1, <4>2
    <3>4. Near(all[Len(all)], h + m + 1, more)
      <4>1. CASE Len(s) = m
        BY <1>0, <3>2, <4>1 DEF Near
      <4>2. CASE n \in more
        <5>1. (h + m + 1) - (h + Len(s)) \in 1 .. Size
          BY <1>0, <3>1
        <5> QED
          BY <3>2, <4>2, <5>1 DEF Near
      <4> QED
        BY <4>1, <4>2
    <3> QED
      BY <3>3, <3>4
  <2> QED
    BY <2>1, <2>2
<1>10. ASSUME Len(all) = 0
       PROVE  h + m = 0
  <2>1. Len(row) = 0 /\ Len(s) = 0
    <3>1. \A a, b \in Nat : a + b = 0 => a = 0 /\ b = 0
      OBVIOUS
    <3>2. Len(row) + Len(s) = 0
      BY <1>2, <1>10, Zenon
    <3> QED
      BY <1>0, <3>1, <3>2, Zenon
  <2>2. h = 0
    BY <2>1 DEF SentOK
  <2> QED
    BY <2>1, <2>2
<1>11. SentOK(all, n, more, w, h + m)
  BY <1>6, <1>8, <1>9, <1>10 DEF SentOK
<1> QED
  BY <1>2, <1>11 DEF all, t

\* More is written, or there is another connection, and what was taken is in turn.
LEMMA SentWider ==
    ASSUME NEW row \in Seq(Sends), NEW n \in Nat, NEW lost, NEW w \in Seq(Chars), NEW h \in Nat,
           SentOK(row, n, lost, w, h), h <= Len(w),
           NEW v \in Seq(Chars), \A i \in 1 .. Len(w) : v[i] = w[i]
    PROVE  SentOK(row, n, lost, v, h) /\ SentOK(row, n + 1, lost, v, h)
<1>1. ASSUME NEW i \in 1 .. Len(row)
      PROVE  /\ row[i].to \in 1 .. n /\ row[i].to \in 1 .. n + 1 /\ row[i].char[2] \in 1 .. h
             /\ row[i].char = v[row[i].char[2]]
  <2>1. /\ row[i].to \in 1 .. n /\ row[i].char[2] \in 1 .. h
        /\ row[i].char = w[row[i].char[2]]
    BY DEF SentOK
  <2>2. row[i].to \in 1 .. n + 1 /\ row[i].char[2] \in 1 .. Len(w)
    BY <2>1
  <2> QED
    BY <2>1, <2>2
<1> QED
  BY <1>1 DEF SentOK

\* Rows may be put together in any order.
LEMMA Associative ==
    \A r, s, t \in Seq(Chars) : (r \o s) \o t = r \o (s \o t)
BY ConcatAssociative

\* A character behind two rows is behind the second.
LEMMA AppendBehind ==
    ASSUME NEW r \in Seq(Chars), NEW s \in Seq(Chars), NEW x \in Chars
    PROVE  r \o Append(s, x) = Append(r \o s, x)
<1>1. Append(s, x) = s \o <<x>> /\ <<x>> \in Seq(Chars)
  BY AppendIsConcat
<1>2. r \o s \in Seq(Chars)
  BY ConcatProperties
<1>3. Append(r \o s, x) = (r \o s) \o <<x>>
  BY <1>2, AppendIsConcat
<1> QED
  BY <1>1, <1>3, ConcatAssociative

\* The head of the second of two rows may go to the end of the first.
LEMMA HeadMoves ==
    ASSUME NEW r \in Seq(Chars), NEW s \in Seq(Chars), s # << >>
    PROVE  /\ Head(s) \in Chars /\ Tail(s) \in Seq(Chars)
           /\ Append(r, Head(s)) \in Seq(Chars)
           /\ Append(r, Head(s)) \o Tail(s) = r \o s
<1>1. /\ Head(s) \in Chars /\ Tail(s) \in Seq(Chars) /\ <<Head(s)>> \in Seq(Chars)
      /\ Append(r, Head(s)) \in Seq(Chars)
  OBVIOUS
<1>2. Append(r, Head(s)) = r \o <<Head(s)>>
  BY <1>1, AppendIsConcat
<1>3. s = <<Head(s)>> \o Tail(s)
  <2>1. Len(s) \in Nat \ {0} /\ Head(s) = s[1] /\ Tail(s) = SubSeq(s, 2, Len(s))
    BY EmptySeq, TailIsSubSeq
  <2>2. SubSeq(s, 1, Len(s)) = <<s[1]>> \o SubSeq(s, 1 + 1, Len(s))
    BY <2>1, SubSeqRecursiveFirst
  <2> QED
    BY <2>1, <2>2, SubSeqFull
<1> QED
  BY <1>1, <1>2, <1>3, ConcatAssociative

\* The beginning of a row is a row.
LEMMA RowPrefix ==
    ASSUME NEW r \in Seq(Chars), NEW s \in Seq(Chars), NEW n \in Nat, NEW k \in Nat,
           RowOK(r \o s, n, k)
    PROVE  RowOK(r, n, k)
<1>1. /\ Len(r) \in Nat /\ Len(s) \in Nat /\ Len(r \o s) = Len(r) + Len(s)
      /\ \A i \in 1 .. Len(r) + Len(s) :
           (r \o s)[i] = IF i <= Len(r) THEN r[i] ELSE s[i - Len(r)]
  BY ConcatProperties
<1>2. ASSUME NEW i \in 1 .. Len(r) PROVE i \in 1 .. Len(r \o s) /\ (r \o s)[i] = r[i]
  BY <1>1
<1>3. ASSUME NEW i \in 1 .. Len(r)
      PROVE  r[i][1] \in 1 .. n /\ r[i][2] \in 1 .. k
  BY <1>2 DEF RowOK
<1>4. ASSUME NEW i \in 1 .. Len(r) - 1 PROVE Follows(r[i], r[i + 1])
  <2>1. i \in 1 .. Len(r) /\ i + 1 \in 1 .. Len(r) /\ i \in 1 .. Len(r \o s) - 1
    BY <1>1
  <2>2. Follows((r \o s)[i], (r \o s)[i + 1])
    BY <2>1 DEF RowOK
  <2> QED
    BY <1>2, <2>1, <2>2
<1> QED
  BY <1>3, <1>4 DEF RowOK

\* The next character may follow.
LEMMA RowAppend ==
    ASSUME NEW r \in Seq(Chars), NEW n \in Nat, n >= 1, NEW k \in Nat,
           RowOK(r, n, k), EndOK(r, n, k)
    PROVE  /\ RowOK(Append(r, <<n, k + 1>>), n, k + 1)
           /\ EndOK(Append(r, <<n, k + 1>>), n, k + 1)
<1> DEFINE x == <<n, k + 1>>
           s == Append(r, x)
<1>1. x \in Chars /\ x[1] = n /\ x[2] = k + 1
  BY DEF Chars
<1> HIDE DEF x
<1>2. /\ s \in Seq(Chars) /\ Len(r) \in Nat /\ Len(s) = Len(r) + 1
      /\ s[Len(r) + 1] = x /\ \A i \in 1 .. Len(r) : s[i] = r[i]
  BY <1>1, AppendProperties
<1> HIDE DEF s
<1>3. \A i \in 1 .. Len(s) : i \in 1 .. Len(r) \/ i = Len(r) + 1
  BY <1>2
<1>4. ASSUME NEW i \in 1 .. Len(s)
      PROVE  s[i][1] \in 1 .. n /\ s[i][2] \in 1 .. k + 1
  <2>1. CASE i \in 1 .. Len(r)
    <3>1. r[i][1] \in 1 .. n /\ r[i][2] \in 1 .. k
      BY <2>1 DEF RowOK
    <3> QED
      BY <1>2, <2>1, <3>1
  <2>2. CASE i = Len(r) + 1
    BY <1>1, <1>2, <2>2
  <2> QED
    BY <1>3, <2>1, <2>2
<1>5. ASSUME NEW i \in 1 .. Len(s) - 1 PROVE Follows(s[i], s[i + 1])
  <2>1. CASE i = Len(r)
    <3>1. i \in 1 .. Len(r) /\ r # << >> /\ s[i] = r[i] /\ s[i + 1] = x
      BY <1>2, <2>1
    <3>2. r[i][1] \in 1 .. n /\ r[i][2] \in 1 .. k
      BY <3>1 DEF RowOK
    <3>3. r[i][2] = k \/ r[i][1] < n
      BY <2>1, <3>1 DEF EndOK
    <3> QED
      BY <1>1, <3>1, <3>2, <3>3 DEF Follows
  <2>2. CASE i # Len(r)
    <3>1. i \in 1 .. Len(r) - 1 /\ i \in 1 .. Len(r) /\ i + 1 \in 1 .. Len(r)
      BY <1>2, <2>2
    <3>2. Follows(r[i], r[i + 1])
      BY <3>1 DEF RowOK
    <3> QED
      BY <1>2, <3>1, <3>2
  <2> QED
    BY <2>1, <2>2
<1>6. RowOK(s, n, k + 1)
  BY <1>4, <1>5 DEF RowOK
<1>7. EndOK(s, n, k + 1)
  BY <1>1, <1>2 DEF EndOK
<1> QED
  BY <1>6, <1>7 DEF s, x

\* More connections, and the row still is one, at whose end there may be a
\* character of the new one.
LEMMA RowWider ==
    ASSUME NEW r \in Seq(Chars), NEW n \in Nat, NEW k \in Nat, RowOK(r, n, k)
    PROVE  RowOK(r, n + 1, k) /\ EndOK(r, n + 1, k)
<1>1. \A a \in 1 .. n : a \in 1 .. n + 1 /\ a < n + 1
  OBVIOUS
<1>2. RowOK(r, n + 1, k)
  BY <1>1 DEF RowOK
<1>3. EndOK(r, n + 1, k)
  <2> SUFFICES ASSUME r # << >> PROVE r[Len(r)][1] < n + 1
    BY DEF EndOK
  <2>1. Len(r) \in 1 .. Len(r)
    BY EmptySeq
  <2>2. r[Len(r)][1] \in 1 .. n
    BY <2>1 DEF RowOK
  <2> QED
    BY <1>1, <2>2
<1> QED
  BY <1>2, <1>3

-----------------------------------------------------------------------------
(* Steps.                                                                  *)

\* What the program has read and what waits for it are rows.
LEMMA ComeType ==
    ASSUME StreamTypeOK
    PROVE  read \o inBuffer \in Seq(Chars) /\ Come \in Seq(Chars)
           /\ Len(fed) \in Nat /\ conn \in Nat
<1>1. read \o inBuffer \in Seq(Chars)
  BY ConcatProperties DEF StreamTypeOK
<1>2. Come \in Seq(Chars)
  BY <1>1, ConcatProperties DEF StreamTypeOK, Come
<1> QED
  BY <1>1, <1>2 DEF StreamTypeOK

\* What has been handed over is a part of what was written.
LEMMA HandedOverType ==
    ASSUME StreamTypeOK, WrittenInv
    PROVE  /\ HandedOver \in Nat /\ HandedOver <= Len(written)
           /\ HandedOver + Len(outBuffer) = Len(written)
BY DEF StreamTypeOK, WrittenInv, HandedOver

\* The socket connects or closes, and what had come and was not received is lost.
LEMMA ConnectStep ==
    ASSUME StreamIndInv, Connect \/ Close
    PROVE  StreamIndInv'
<1>1. StreamTypeOK /\ RowOK(Come, conn, Len(fed))
  BY DEF StreamIndInv
<1>2. /\ outBuffer' = outBuffer /\ toPeer' = toPeer /\ written' = written
      /\ inBuffer' = inBuffer /\ read' = read /\ fed' = fed /\ fromPeer' = << >>
      /\ cut' = cut
  BY DEF Connect, Close, outs
<1>3. (conn' = conn /\ open' = FALSE) \/ (conn' = conn + 1 /\ open' = TRUE)
  BY DEF Connect, Close
<1>4. StreamTypeOK'
  <2>1. conn' \in Nat /\ open' \in BOOLEAN /\ (open' => conn' >= 1) /\ << >> \in Seq(Chars)
    <3>1. conn \in Nat /\ conn + 1 \in Nat /\ conn + 1 >= 1 /\ << >> \in Seq(Chars)
      BY <1>1 DEF StreamTypeOK
    <3>2. CASE conn' = conn /\ open' = FALSE
      BY <3>1, <3>2
    <3>3. CASE conn' = conn + 1 /\ open' = TRUE
      BY <3>1, <3>3
    <3> QED
      BY <1>3, <3>2, <3>3
  <2>2. cut' \subseteq 1 .. conn'
    <3>1. cut \subseteq 1 .. conn /\ conn \in Nat
      BY <1>1 DEF StreamTypeOK
    <3>2. 1 .. conn \subseteq 1 .. conn + 1
      BY <3>1
    <3> QED
      BY <1>2, <1>3, <3>1, <3>2
  <2> QED
    BY <1>1, <1>2, <2>1, <2>2 DEF StreamTypeOK
<1>5. Come' = read \o inBuffer
  <2>1. (read \o inBuffer) \o << >> = read \o inBuffer
    BY <1>1, ComeType, ConcatEmptySeq
  <2> QED
    BY <1>2, <2>1 DEF Come
<1>6. RowOK(Come', conn, Len(fed)) /\ Come' \in Seq(Chars)
  BY <1>1, <1>5, ComeType, RowPrefix DEF Come, StreamTypeOK
<1>7. WrittenInv' /\ SentInv' /\ CutInv'
  <2>1. WrittenInv' /\ HandedOver' = HandedOver
    BY <1>2 DEF StreamIndInv, WrittenInv, HandedOver
  <2>2. SentInv'
    <3>1. /\ toPeer \in Seq(Sends) /\ conn \in Nat /\ written \in Seq(Chars)
          /\ HandedOver \in Nat /\ HandedOver <= Len(written)
          /\ SentOK(toPeer, conn, cut, written, HandedOver)
      BY <1>1, HandedOverType DEF StreamIndInv, SentInv, StreamTypeOK
    <3>2. SentOK(toPeer, conn, cut, written, HandedOver) /\ SentOK(toPeer, conn + 1, cut, written, HandedOver)
      BY <3>1, SentWider
    <3> QED
      BY <1>2, <1>3, <2>1, <3>2 DEF SentInv
  <2>3. CutInv'
    <3>1. conn + 1 \notin cut
      BY <1>1 DEF StreamTypeOK
    <3> QED
      BY <1>2, <1>3, <3>1 DEF CutInv
  <2> QED
    BY <2>1, <2>2, <2>3
<1>8. CASE conn' = conn /\ open' = FALSE
  BY <1>2, <1>4, <1>6, <1>7, <1>8 DEF StreamIndInv
<1>9. CASE conn' = conn + 1
  <2>1. RowOK(Come', conn', Len(fed)) /\ EndOK(Come', conn', Len(fed))
    BY <1>1, <1>6, <1>9, ComeType, RowWider
  <2> QED
    BY <1>2, <1>4, <1>7, <2>1 DEF StreamIndInv
<1> QED
  BY <1>3, <1>8, <1>9

\* The writing side is not concerned, and a reset remains.
LEMMA WritesNothing ==
    ASSUME StreamIndInv, conn' = conn, open' = open, UNCHANGED outs,
           peer \in {"reset", "broken"} => peer' \in {"reset", "broken"}
    PROVE  /\ WrittenInv' /\ SentInv' /\ CutInv'
           /\ outBuffer' = outBuffer /\ toPeer' = toPeer /\ cut' = cut /\ written' = written
<1>1. outBuffer' = outBuffer /\ toPeer' = toPeer /\ cut' = cut /\ written' = written
  BY DEF outs
<1>2. HandedOver' = HandedOver
  BY <1>1 DEF HandedOver
<1> QED
  BY <1>1, <1>2 DEF StreamIndInv, WrittenInv, SentInv, CutInv

\* The peer sends a character.
LEMMA PeerSendsStep ==
    ASSUME StreamIndInv, PeerSends
    PROVE  StreamIndInv'
<1> DEFINE x == <<conn, Len(fed) + 1>>
<1>1. StreamTypeOK /\ RowOK(Come, conn, Len(fed)) /\ EndOK(Come, conn, Len(fed))
  BY DEF StreamIndInv, PeerSends
<1>2. /\ open /\ conn' = conn /\ open' = open
      /\ inBuffer' = inBuffer /\ read' = read /\ peer' = peer /\ UNCHANGED outs
      /\ fed' = Append(fed, x) /\ fromPeer' = Append(fromPeer, x)
  BY DEF PeerSends, Char, line
<1>3. x \in Chars
  BY <1>1, ComeType DEF Chars
<1>4. StreamTypeOK' /\ Len(fed') = Len(fed) + 1
  <2>1. outBuffer' = outBuffer /\ toPeer' = toPeer /\ cut' = cut /\ written' = written
    BY <1>2, WritesNothing
  <2>2. /\ fed' \in Seq(Chars) /\ fromPeer' \in Seq(Chars) /\ Len(fed') = Len(fed) + 1
    BY <1>1, <1>2, <1>3 DEF StreamTypeOK
  <2> QED
    BY <1>1, <1>2, <2>1, <2>2 DEF StreamTypeOK
<1>5. Come' = Append(Come, x)
  BY <1>1, <1>2, <1>3, ComeType, AppendBehind DEF Come, StreamTypeOK
<1>6. RowOK(Come', conn', Len(fed')) /\ EndOK(Come', conn', Len(fed'))
  <2>1. conn >= 1
    BY <1>1, <1>2 DEF StreamTypeOK
  <2> QED
    BY <1>1, <1>2, <1>4, <1>5, <2>1, ComeType, RowAppend
<1> QED
  BY <1>2, <1>4, <1>6, WritesNothing DEF StreamIndInv

\* The next character for the stream.
LEMMA CharType == StreamTypeOK => Char(written) \in Chars
BY DEF StreamTypeOK, Char, Chars

\* A step of the writing side.
LEMMA StreamWriteStep ==
    ASSUME StreamIndInv, conn' = conn, open' = open, UNCHANGED ins,
           toPeer' \in Seq(Sends), cut' \subseteq 1 .. conn,
           outBuffer' \in Seq(Chars), written' \in Seq(Chars),
           WrittenInv', SentInv', CutInv'
    PROVE  StreamIndInv'
<1>1. /\ inBuffer' = inBuffer /\ read' = read /\ fed' = fed /\ fromPeer' = fromPeer
      /\ Come' = Come
  BY DEF ins, Come
<1> QED
  BY <1>1 DEF StreamIndInv, StreamTypeOK

\* A step of the reading side.
LEMMA ReadStep ==
    ASSUME StreamIndInv, conn' = conn, open' = open, UNCHANGED outs, fed' = fed,
           peer \in {"reset", "broken"} => peer' \in {"reset", "broken"},
           inBuffer' \in Seq(Chars), fromPeer' \in Seq(Chars), read' \in Seq(Chars),
           Come' = Come
    PROVE  StreamIndInv'
BY WritesNothing DEF StreamIndInv, StreamTypeOK

\* The character that is written next, and the buffer it goes into.
LEMMA WriteNext ==
    ASSUME StreamTypeOK, WrittenInv
    PROVE  LET x == Char(written)
               w == Append(written, x)
           IN  /\ w \in Seq(Chars) /\ Len(w) = Len(written) + 1
               /\ \A i \in 1 .. Len(w) : w[i][2] = i
               /\ \A i \in 1 .. Len(written) : w[i] = written[i]
               /\ w[Len(written) + 1] = x
<1> DEFINE x == Char(written)
           w == Append(written, x)
<1>1. x \in Chars /\ written \in Seq(Chars) /\ x[2] = Len(written) + 1 /\ Len(written) \in Nat
  BY CharType DEF StreamTypeOK, Char
<1> HIDE DEF x
<1>2. /\ w \in Seq(Chars) /\ Len(w) = Len(written) + 1 /\ w[Len(written) + 1] = x
      /\ \A i \in 1 .. Len(written) : w[i] = written[i]
  BY <1>1, AppendProperties
<1> HIDE DEF w
<1>3. ASSUME NEW i \in 1 .. Len(w) PROVE w[i][2] = i
  BY <1>1, <1>2, <1>3 DEF WrittenInv
<1> QED
  BY <1>2, <1>3 DEF w, x

\* A character is put into the buffer.
LEMMA PutStep ==
    ASSUME StreamIndInv, Put
    PROVE  StreamIndInv'
<1> DEFINE x == Char(written)
<1>1. /\ StreamTypeOK /\ WrittenInv /\ SentInv /\ CutInv /\ x \in Chars
      /\ outBuffer \in Seq(Chars) /\ written \in Seq(Chars)
      /\ toPeer \in Seq(Sends) /\ cut \subseteq 1 .. conn /\ conn \in Nat
  BY CharType DEF StreamIndInv, StreamTypeOK
<1>2. /\ conn' = conn /\ open' = open /\ peer' = peer /\ UNCHANGED ins
      /\ toPeer' = toPeer /\ cut' = cut /\ Len(outBuffer) < Size
      /\ outBuffer' = Append(outBuffer, x) /\ written' = Append(written, x)
  BY DEF Put, line
<1>3. /\ written' \in Seq(Chars) /\ Len(written') = Len(written) + 1
      /\ \A i \in 1 .. Len(written') : written'[i][2] = i
      /\ \A i \in 1 .. Len(written) : written'[i] = written[i]
      /\ written'[Len(written) + 1] = x
  BY <1>1, <1>2, WriteNext
<1> HIDE DEF x
<1>4. /\ outBuffer' \in Seq(Chars) /\ Len(outBuffer') = Len(outBuffer) + 1
      /\ \A i \in 1 .. Len(outBuffer) : outBuffer'[i] = outBuffer[i]
      /\ outBuffer'[Len(outBuffer) + 1] = x
  BY <1>1, <1>2, AppendProperties
<1>5. /\ HandedOver \in Nat /\ HandedOver <= Len(written)
      /\ HandedOver + Len(outBuffer) = Len(written)
      /\ Len(written) \in Nat /\ Len(outBuffer) \in Nat /\ Size \in Nat
  BY <1>1, HandedOverType, StreamAssumption
<1>6. HandedOver' = HandedOver
  <2>1. HandedOver' = Len(written') - Len(outBuffer')
    BY DEF HandedOver
  <2> QED
    BY <1>3, <1>4, <1>5, <2>1
<1>7. WrittenInv'
  <2>1. ASSUME NEW i \in 1 .. Len(outBuffer') PROVE outBuffer'[i] = written'[HandedOver + i]
    <3>1. CASE i \in 1 .. Len(outBuffer)
      <4>1. HandedOver + i \in 1 .. Len(written)
        BY <1>5, <3>1
      <4> QED
        BY <1>1, <1>3, <1>4, <3>1, <4>1 DEF WrittenInv
    <3>2. CASE i = Len(outBuffer) + 1
      <4>1. HandedOver + i = Len(written) + 1
        BY <1>5, <3>2
      <4> QED
        BY <1>3, <1>4, <3>2, <4>1
    <3> QED
      BY <1>4, <1>5, <3>1, <3>2
  <2>2. Len(outBuffer') <= Size /\ Len(outBuffer') <= Len(written')
    BY <1>2, <1>3, <1>4, <1>5
  <2> QED
    BY <1>3, <1>6, <2>1, <2>2 DEF WrittenInv
<1>8. SentInv'
  <2>1. SentOK(toPeer, conn, cut, written', HandedOver)
    BY <1>1, <1>3, <1>5, SentWider DEF SentInv
  <2> QED
    BY <1>2, <1>6, <2>1 DEF SentInv
<1>9. CutInv'
  BY <1>1, <1>2 DEF CutInv
<1> QED
  BY <1>1, <1>2, <1>3, <1>4, <1>7, <1>8, <1>9, StreamWriteStep

\* Send takes the buffer or a beginning of it.
LEMMA SendStep ==
    ASSUME StreamIndInv, send(outBuffer)
    PROVE  /\ toPeer' \in Seq(Sends) /\ cut' \subseteq 1 .. conn
           /\ SentOK(toPeer', conn, cut', written, Len(written))
           /\ open /\ conn \in cut' => peer' \in {"reset", "broken"}
<1> DEFINE h == HandedOver
<1>1. /\ StreamTypeOK /\ WrittenInv /\ SentInv /\ CutInv
      /\ outBuffer \in Seq(Chars) /\ written \in Seq(Chars) /\ toPeer \in Seq(Sends)
      /\ cut \subseteq 1 .. conn /\ conn \in Nat
  BY DEF StreamIndInv, StreamTypeOK
<1>2. open /\ peer \in {"open", "closed"} /\ conn >= 1 /\ conn \notin cut
  <2>1. open /\ peer \in {"open", "closed"}
    BY DEF send, CanSend
  <2> QED
    BY <1>1, <2>1 DEF CutInv, StreamTypeOK
<1>3. /\ h \in Nat /\ Len(outBuffer) \in Nat /\ h + Len(outBuffer) = Len(written)
      /\ Len(outBuffer) <= Size
  BY <1>1, HandedOverType DEF WrittenInv
<1>4. /\ \A i \in 1 .. Len(written) : written[i][2] = i
      /\ \A i \in 1 .. Len(outBuffer) : outBuffer[i] = written[h + i]
      /\ SentOK(toPeer, conn, cut, written, h)
  BY <1>1 DEF WrittenInv, SentInv
<1> HIDE DEF h
<1>5. ASSUME NEW s \in Seq(Chars), Len(s) <= Len(outBuffer), NEW more,
             \A i \in 1 .. Len(s) : s[i] = outBuffer[i],
             \/ Len(s) = Len(outBuffer) /\ more = cut
             \/ Len(s) # 0 /\ more = cut \cup {conn},
             Taken(s)
      PROVE  toPeer' \in Seq(Sends) /\ SentOK(toPeer', conn, more, written, Len(written))
  <2>1. \A i \in 1 .. Len(s) : s[i] = written[h + i]
    <3>1. \A i \in 1 .. Len(s) : i \in 1 .. Len(outBuffer)
      BY <1>3, <1>5
    <3> QED
      BY <1>4, <1>5, <3>1
  <2>2. toPeer' = toPeer \o SentOn(conn, s)
    BY <1>5 DEF Taken, SentOn
  <2> DEFINE m == Len(outBuffer)
  <2>3. /\ m \in Nat /\ Len(s) <= m /\ m <= Size /\ h + m <= Len(written) /\ h + m = Len(written)
        /\ \/ Len(s) = m /\ more = cut
           \/ Len(s) # 0 /\ more = cut \cup {conn}
    BY <1>3, <1>5
  <2> HIDE DEF m
  <2>4. /\ toPeer \in Seq(Sends) /\ conn \in Nat /\ conn >= 1 /\ conn \notin cut
        /\ written \in Seq(Chars) /\ \A i \in 1 .. Len(written) : written[i][2] = i
        /\ h \in Nat /\ SentOK(toPeer, conn, cut, written, h) /\ s \in Seq(Chars)
    BY <1>1, <1>2, <1>3, <1>4, <1>5
  <2>5. /\ toPeer \o SentOn(conn, s) \in Seq(Sends)
        /\ SentOK(toPeer \o SentOn(conn, s), conn, more, written, h + m)
    BY <2>1, <2>3, <2>4, SentMore
  <2> QED
    BY <2>2, <2>3, <2>5
<1>6. CASE Taken(outBuffer) /\ UNCHANGED <<peer, cut>>
  BY <1>1, <1>2, <1>3, <1>5, <1>6
<1>7. CASE /\ \E n \in 1 .. Len(outBuffer) - 1 : Taken(SubSeq(outBuffer, 1, n))
           /\ peer' = "reset" /\ cut' = cut \cup {conn}
  <2>1. PICK n \in 1 .. Len(outBuffer) - 1 : Taken(SubSeq(outBuffer, 1, n))
    BY <1>7
  <2>2. /\ SubSeq(outBuffer, 1, n) \in Seq(Chars) /\ Len(SubSeq(outBuffer, 1, n)) = n
        /\ n <= Len(outBuffer) /\ n # 0
        /\ \A i \in 1 .. n : SubSeq(outBuffer, 1, n)[i] = outBuffer[i]
    BY <1>1, <1>3
  <2>3. toPeer' \in Seq(Sends) /\ SentOK(toPeer', conn, cut \cup {conn}, written, Len(written))
    BY <1>5, <2>1, <2>2
  <2>4. cut \cup {conn} \subseteq 1 .. conn
    BY <1>1, <1>2
  <2> QED
    BY <1>7, <2>3, <2>4
<1> QED
  BY <1>6, <1>7 DEF send

\* The buffer is sent, and perhaps a character put into the empty one.
LEMMA FlushStep ==
    ASSUME StreamIndInv, Flush \/ overflow
    PROVE  StreamIndInv'
<1> DEFINE x == Char(written)
<1>1. /\ StreamTypeOK /\ WrittenInv /\ x \in Chars /\ Len(written) \in Nat
      /\ outBuffer \in Seq(Chars) /\ written \in Seq(Chars)
      /\ toPeer \in Seq(Sends) /\ cut \subseteq 1 .. conn /\ conn \in Nat /\ Size \in Nat \ {0}
  BY CharType, StreamAssumption DEF StreamIndInv, StreamTypeOK
<1>2. CASE /\ send(outBuffer) /\ outBuffer' = << >> /\ UNCHANGED <<conn, open, written, ins>>
  <2>1. << >> \in Seq(Chars) /\ Len(outBuffer') = 0
    BY <1>2
  <2>2. HandedOver' = Len(written)
    <3>1. HandedOver' = Len(written) - 0
      BY <1>2, <2>1 DEF HandedOver
    <3> QED
      BY <1>1, <3>1
  <2>3. WrittenInv'
    BY <1>1, <1>2, <2>1 DEF WrittenInv
  <2>4. SentInv' /\ CutInv'
    BY <1>2, <2>2, SendStep DEF SentInv, CutInv
  <2> QED
    BY <1>1, <1>2, <2>1, <2>3, <2>4, SendStep, StreamWriteStep
<1>3. CASE /\ send(outBuffer) /\ outBuffer' = <<x>> /\ written' = Append(written, x)
           /\ UNCHANGED <<conn, open, ins>>
  <2>1. /\ written' \in Seq(Chars) /\ Len(written') = Len(written) + 1
        /\ \A i \in 1 .. Len(written') : written'[i][2] = i
        /\ \A i \in 1 .. Len(written) : written'[i] = written[i]
        /\ written'[Len(written) + 1] = x
    BY <1>1, <1>3, WriteNext
  <2> HIDE DEF x
  <2>2. outBuffer' \in Seq(Chars) /\ Len(outBuffer') = 1 /\ outBuffer'[1] = x
    BY <1>1, <1>3
  <2>3. HandedOver' = Len(written)
    <3>1. HandedOver' = (Len(written) + 1) - 1
      BY <2>1, <2>2 DEF HandedOver
    <3> QED
      BY <1>1, <3>1
  <2>4. WrittenInv'
    <3>1. \A i \in 1 .. Len(outBuffer') : i = 1 /\ outBuffer'[i] = written'[Len(written) + i]
      BY <1>1, <2>1, <2>2
    <3>2. Len(outBuffer') <= Size /\ Len(outBuffer') <= Len(written')
      BY <1>1, <2>1, <2>2
    <3> QED
      BY <2>1, <2>3, <3>1, <3>2 DEF WrittenInv
  <2>5. SentInv' /\ CutInv'
    <3>1. toPeer' \in Seq(Sends) /\ SentOK(toPeer', conn, cut', written, Len(written))
      BY <1>3, SendStep
    <3>2. SentOK(toPeer', conn, cut', written', Len(written))
      <4>1. Len(written) <= Len(written)
        BY <1>1
      <4> DEFINE l == Len(written)
      <4> HIDE DEF l
      <4>2. l \in Nat /\ l <= Len(written) /\ SentOK(toPeer', conn, cut', written, l)
        BY <1>1, <3>1, <4>1 DEF l
      <4>3. SentOK(toPeer', conn, cut', written', l)
        BY <1>1, <2>1, <3>1, <4>2, SentWider
      <4> QED
        BY <4>3 DEF l
    <3> QED
      BY <1>3, <2>3, <3>2, SendStep DEF SentInv, CutInv
  <2> QED
    BY <1>1, <1>3, <2>1, <2>2, <2>4, <2>5, SendStep, StreamWriteStep
<1>4. CASE SendFails
  <2>1. /\ conn' = conn /\ open' = open /\ UNCHANGED ins /\ UNCHANGED outs
        /\ peer \in {"reset", "broken"} => peer' \in {"reset", "broken"}
    BY <1>4 DEF SendFails
  <2>2. /\ WrittenInv' /\ SentInv' /\ CutInv'
        /\ outBuffer' = outBuffer /\ toPeer' = toPeer /\ cut' = cut /\ written' = written
    BY <2>1, WritesNothing
  <2> QED
    BY <1>1, <2>1, <2>2, StreamWriteStep
<1> QED
  BY <1>2, <1>3, <1>4 DEF Flush, overflow, sync

LEMMA StreamGetStep ==
    ASSUME StreamIndInv, Get
    PROVE  StreamIndInv'
<1>1. /\ conn' = conn /\ open' = open /\ UNCHANGED outs /\ fed' = fed /\ peer' = peer
      /\ inBuffer # << >> /\ fromPeer' = fromPeer
      /\ read' = Append(read, Head(inBuffer)) /\ inBuffer' = Tail(inBuffer)
  BY DEF Get, line
<1>2. read \in Seq(Chars) /\ inBuffer \in Seq(Chars) /\ fromPeer \in Seq(Chars)
  BY DEF StreamIndInv, StreamTypeOK
<1>3. /\ Tail(inBuffer) \in Seq(Chars) /\ Append(read, Head(inBuffer)) \in Seq(Chars)
      /\ Append(read, Head(inBuffer)) \o Tail(inBuffer) = read \o inBuffer
  BY <1>1, <1>2, HeadMoves
<1>4. Come' = Come
  BY <1>1, <1>3 DEF Come
<1> QED
  BY <1>1, <1>2, <1>3, <1>4, ReadStep

LEMMA UnderflowStep ==
    ASSUME StreamIndInv, underflow
    PROVE  StreamIndInv'
<1>1. /\ conn' = conn /\ open' = open /\ UNCHANGED outs /\ inBuffer = << >>
      /\ peer \in {"reset", "broken"} => peer' \in {"reset", "broken"}
  BY DEF underflow
<1>2. read \in Seq(Chars) /\ inBuffer \in Seq(Chars) /\ fromPeer \in Seq(Chars)
  BY DEF StreamIndInv, StreamTypeOK
<1>3. ASSUME NEW n \in 1 .. Size, recv(n), Received(n), read' = read, fed' = fed
      PROVE  StreamIndInv'
  <2> DEFINE a == SubSeq(fromPeer, 1, n)
             b == SubSeq(fromPeer, n + 1, Len(fromPeer))
  <2>1. inBuffer' = a /\ fromPeer' = b /\ read' = read /\ fed' = fed /\ n <= Len(fromPeer)
    BY <1>3 DEF recv, Received
  <2>2. Len(fromPeer) \in Nat /\ n \in 0 .. Len(fromPeer) /\ 1 \in 1 .. Len(fromPeer) + 1
        /\ n \in 1 - 1 .. Len(fromPeer) /\ Len(fromPeer) \in n .. Len(fromPeer)
    <3>1. Size \in Nat /\ n \in Nat /\ n >= 1
      BY <1>3, StreamAssumption
    <3> QED
      BY <1>2, <2>1, <3>1
  <2>3. a \in Seq(Chars) /\ b \in Seq(Chars)
    BY <1>2, <2>2
  <2>4. a \o b = fromPeer
    BY <1>2, <2>2, ConcatAdjacentSubSeq, SubSeqFull
  <2>5. (read \o a) \o b = read \o (a \o b)
    BY <1>2, <2>3, Associative, ZenonT(30)
  <2> HIDE DEF a, b
  <2>6. (read \o << >>) \o fromPeer = read \o fromPeer
    BY <1>2, ConcatEmptySeq
  <2>7. Come' = Come
    BY <1>1, <2>1, <2>4, <2>5, <2>6 DEF Come
  <2> QED
    BY <1>1, <1>2, <2>1, <2>3, <2>7, ReadStep
<1>4. ASSUME UNCHANGED ins
      PROVE  StreamIndInv'
  <2>1. inBuffer' = inBuffer /\ fromPeer' = fromPeer /\ read' = read /\ fed' = fed
        /\ Come' = Come
    BY <1>4 DEF ins, Come
  <2> QED
    BY <1>1, <1>2, <2>1, ReadStep
<1> QED
  BY <1>3, <1>4 DEF underflow

-----------------------------------------------------------------------------
(* The invariant.                                                          *)

LEMMA StreamInitInv == StreamInit => StreamIndInv
<1> SUFFICES ASSUME StreamInit PROVE StreamIndInv
  OBVIOUS
<1>1. StreamTypeOK
  <2>1. << >> \in Seq(Chars) /\ << >> \in Seq(Sends)
    BY EmptySeq
  <2> QED
    BY <2>1 DEF StreamInit, StreamTypeOK
<1>2. << >> \o << >> = << >> /\ << >> \in Seq(Chars)
  BY ConcatEmptySeq, EmptySeq
<1>3. WrittenInv /\ SentInv /\ CutInv
  <2>1. Len(<< >>) = 0 /\ HandedOver = 0 /\ Size \in Nat
    BY StreamAssumption DEF StreamInit, HandedOver
  <2>2. WrittenInv
    BY <2>1 DEF StreamInit, WrittenInv
  <2>3. SentInv
    BY <2>1 DEF StreamInit, SentInv, SentOK
  <2> QED
    BY <2>2, <2>3 DEF StreamInit, CutInv
<1>4. Come = << >>
  BY <1>2 DEF StreamInit, Come
<1>5. RowOK(Come, conn, Len(fed))
  BY <1>4 DEF RowOK
<1> QED
  BY <1>1, <1>3, <1>5 DEF StreamIndInv, StreamInit

LEMMA StreamNextInv == StreamIndInv /\ [StreamNext]_streamVars => StreamIndInv'
<1> SUFFICES ASSUME StreamIndInv, [StreamNext]_streamVars PROVE StreamIndInv'
  OBVIOUS
<1>1. CASE PeerEnds \/ Clear \/ UNCHANGED streamVars
  <2>1. /\ conn' = conn /\ open' = open /\ UNCHANGED outs /\ UNCHANGED ins
        /\ peer \in {"reset", "broken"} => peer' \in {"reset", "broken"}
    BY <1>1 DEF PeerEnds, Clear, streamVars, line
  <2>2. inBuffer' = inBuffer /\ read' = read /\ fed' = fed /\ fromPeer' = fromPeer
    BY <2>1 DEF ins
  <2> QED
    BY <2>1, <2>2, WritesNothing DEF StreamIndInv, StreamTypeOK, Come
<1> QED
  BY <1>1, ConnectStep, PeerSendsStep, PutStep, FlushStep, StreamGetStep, UnderflowStep DEF StreamNext

\* The invariant holds in every state.
LEMMA StreamInvariant == StreamSpec => []StreamIndInv
BY StreamInitInv, StreamNextInv, PTL DEF StreamSpec

\* What SocketStreamBuffer sends is what the program wrote and what it gives the
\* program is what the peers have sent, each character once and in turn,
\* whatever sends fail and over whatever connections the stream goes on; what
\* the program wrote has been sent or waits, but for the end of a buffer where
\* a reset has cut a send short.
THEOREM CharactersInTurn == StreamSpec => []InTurn
<1>1. StreamIndInv => InTurn
  <2> SUFFICES ASSUME StreamIndInv PROVE InTurn
    OBVIOUS
  <2>1. Come # << >> => Follows(<<0, 0>>, Come[1])
    <3> SUFFICES ASSUME Come # << >> PROVE Follows(<<0, 0>>, Come[1])
      OBVIOUS
    <3>1. Come \in Seq(Chars) /\ conn \in Nat /\ Len(fed) \in Nat
      BY ComeType DEF StreamIndInv
    <3>2. 1 \in 1 .. Len(Come)
      BY <3>1, EmptySeq
    <3>3. Come[1][1] \in 1 .. conn /\ Come[1][2] \in 1 .. Len(fed)
      BY <3>2 DEF StreamIndInv, RowOK
    <3> QED
      BY <3>1, <3>3 DEF Follows
  <2>2. /\ DOMAIN toPeer = 1 .. Len(toPeer) /\ Len(toPeer) \in Nat
        /\ DOMAIN outBuffer = 1 .. Len(outBuffer)
        /\ \A i \in DOMAIN toPeer : toPeer[i].char = written[Number(i)]
        /\ \A i \in DOMAIN outBuffer : outBuffer[i] = written[HandedOver + i]
    <3>1. /\ DOMAIN toPeer = 1 .. Len(toPeer) /\ Len(toPeer) \in Nat
          /\ DOMAIN outBuffer = 1 .. Len(outBuffer)
      BY DEF StreamIndInv, StreamTypeOK
    <3>2. \A i \in 1 .. Len(toPeer) : Number(i) = toPeer[i].char[2]
      BY <3>1 DEF Number
    <3> QED
      BY <3>1, <3>2 DEF StreamIndInv, SentInv, SentOK, WrittenInv
  <2>3. ASSUME NEW i \in 0 .. Len(toPeer)
        PROVE  \/ Number(i + 1) = Number(i) + 1
               \/ CutBehind(i) /\ Number(i + 1) - Number(i) \in 1 .. Size
    <3>1. SentOK(toPeer, conn, cut, written, HandedOver) /\ HandedOver \in Nat
      BY HandedOverType DEF StreamIndInv, SentInv
    <3>2. CASE i = 0 /\ Len(toPeer) = 0
      <4>1. Number(0) = 0 /\ Number(1) = HandedOver + 1 /\ HandedOver = 0
        BY <2>2, <3>1, <3>2 DEF Number, SentOK
      <4> QED
        BY <3>2, <4>1
    <3>3. CASE i = 0 /\ Len(toPeer) # 0
      <4>1. 1 \in DOMAIN toPeer /\ toPeer[1].char[2] = 1
        BY <2>2, <3>1, <3>3 DEF SentOK
      <4>2. Number(0) = 0 /\ Number(1) = 1
        BY <4>1 DEF Number
      <4> QED
        BY <3>3, <4>2
    <3>4. CASE i \in 1 .. Len(toPeer) - 1
      <4>1. i # 0 /\ i + 1 # 0 /\ i \in DOMAIN toPeer /\ i + 1 \in DOMAIN toPeer
        BY <2>2, <3>4
      <4>2. Number(i) = toPeer[i].char[2] /\ Number(i + 1) = toPeer[i + 1].char[2]
        BY <4>1 DEF Number
      <4>3. /\ Near(toPeer[i], toPeer[i + 1].char[2], cut)
            /\ toPeer[i + 1].char[2] = toPeer[i].char[2] + 1 \/ toPeer[i + 1].to # toPeer[i].to
        BY <3>1, <3>4 DEF SentOK
      <4> QED
        BY <4>1, <4>2, <4>3 DEF Near, CutBehind
    <3>5. CASE i = Len(toPeer) /\ i # 0
      <4>1. /\ i \in DOMAIN toPeer /\ i + 1 # 0 /\ i + 1 \notin DOMAIN toPeer
            /\ ~(i < Len(toPeer))
        BY <2>2, <3>5
      <4>2. Number(i) = toPeer[i].char[2] /\ Number(i + 1) = HandedOver + 1
        BY <3>5, <4>1 DEF Number
      <4>3. Near(toPeer[i], HandedOver + 1, cut)
        BY <3>1, <3>5 DEF SentOK
      <4> QED
        BY <3>5, <4>1, <4>2, <4>3 DEF Near, CutBehind
    <3>6. i = 0 \/ i \in 1 .. Len(toPeer) - 1 \/ (i = Len(toPeer) /\ i # 0)
      <4>1. Len(toPeer) \in Nat /\ i \in 0 .. Len(toPeer)
        BY <2>2
      <4> DEFINE l == Len(toPeer)
      <4> HIDE DEF l
      <4>2. l \in Nat /\ i \in 0 .. l
        BY <4>1 DEF l
      <4>3. i = 0 \/ i \in 1 .. l - 1 \/ (i = l /\ i # 0)
        BY <4>2
      <4> QED
        BY <4>3 DEF l
    <3> QED
      BY <3>2, <3>3, <3>4, <3>5, <3>6
  <2> QED
    BY <2>1, <2>2, <2>3 DEF StreamIndInv, InTurn, Come, RowOK
<1> QED
  BY StreamInvariant, <1>1, PTL

(***************************************************************************)
(* Datagrams.                                                              *)
(***************************************************************************)

-----------------------------------------------------------------------------
(* The inductive invariant.                                                *)

SomePort == Ports \cup {NoPort}

Datagram == [by : UDPSockets, era : Nat, from : Ports, to : SomePort, about : Nat]

DatagramTypeOK ==
    /\ sock \in [UDPSockets -> [open : BOOLEAN, port : SomePort, peer : SomePort]]
    /\ era \in [UDPSockets -> Nat]
    /\ queue \in [UDPSockets -> Seq(Nat)]
    /\ last \in [UDPSockets -> [source : SomePort, about : Nat]]
    /\ net \in Seq(Nat) /\ Len(net) = Len(sent)
    /\ sent \in Seq(Datagram)

\* The kernel gives a port to one object at a time, and to none without a
\* socket.
PortInv ==
    /\ \A o, p \in UDPSockets : sock[o].port = sock[p].port /\ o # p => sock[o].port = NoPort
    /\ \A o \in UDPSockets : ~sock[o].open => sock[o].port = NoPort

\* As long as the sender of a datagram has not given up the port it sent it
\* from, it still has that port.
SourceInv ==
    \A d \in DOMAIN sent :
        /\ sent[d].era <= era[sent[d].by]
        /\ era[sent[d].by] = sent[d].era => sock[sent[d].by].port = sent[d].from

\* What an object has received, and to which of the datagrams it would answer.
LastInv ==
    \A o \in UDPSockets :
        \/ last[o].source = NoPort /\ last[o].about = 0
        \/ last[o].about \in DOMAIN sent /\ last[o].source = sent[last[o].about].from

\* An answer goes to the port the question came from.
AboutInv ==
    \A d \in DOMAIN sent :
        sent[d].about # 0 =>
            sent[d].about \in DOMAIN sent /\ sent[d].to = sent[sent[d].about].from

\* Only what was sent is in a queue.
QueueInv == \A o \in UDPSockets : \A i \in DOMAIN queue[o] : queue[o][i] \in DOMAIN sent

DatagramIndInv ==
    /\ DatagramTypeOK /\ PortInv /\ SourceInv /\ LastInv /\ AboutInv /\ QueueInv
    /\ AnswerFindsAsker

-----------------------------------------------------------------------------
(* What the actions do to the sequences.                                   *)

\* A datagram that is sent becomes the last one, and the others stay.
LEMMA DatagramSent ==
    ASSUME sent \in Seq(Datagram), NEW d \in Datagram, sent' = Append(sent, d)
    PROVE  /\ sent' \in Seq(Datagram)
           /\ Len(sent') = Len(sent) + 1 /\ Len(sent') \in Nat /\ Len(sent') # 0
           /\ DOMAIN sent' = DOMAIN sent \cup {Len(sent')}
           /\ Len(sent') \notin DOMAIN sent
           /\ sent'[Len(sent')] = d
           /\ \A e \in DOMAIN sent : sent'[e] = sent[e]
OBVIOUS

\* What is in the history is a datagram.
LEMMA DatagramType ==
    ASSUME DatagramTypeOK, NEW d \in DOMAIN sent
    PROVE  /\ sent[d] \in Datagram
           /\ sent[d].by \in UDPSockets /\ sent[d].era \in Nat /\ sent[d].from \in Ports
           /\ sent[d].to \in SomePort /\ sent[d].about \in Nat
           /\ d \in Nat /\ d # 0
<1>1. sent[d] \in Datagram /\ d \in Nat /\ d # 0
  BY DEF DatagramTypeOK
<1> QED
  BY <1>1 DEF Datagram

\* An object without a port has sent nothing since it gave one up.
LEMMA SilentWithoutPort ==
    ASSUME DatagramTypeOK, SourceInv, NEW o \in UDPSockets, sock[o].port = NoPort, NoPort \notin Ports
    PROVE  \A d \in DOMAIN sent : sent[d].by = o => sent[d].era < era[o]
<1> SUFFICES ASSUME NEW d \in DOMAIN sent, sent[d].by = o
             PROVE  sent[d].era < era[o]
  OBVIOUS
<1>2. sent[d].from \in Ports /\ sent[d].era \in Nat /\ era[o] \in Nat
  BY DatagramType DEF DatagramTypeOK
<1>3. sent[d].era <= era[o] /\ era[o] # sent[d].era
  BY <1>2 DEF SourceInv
<1> QED
  BY <1>2, <1>3

-----------------------------------------------------------------------------
(* The initial state, and a step of each kind.                             *)

\* Nothing has been sent.
LEMMA DatagramInitInv == DatagramInit => DatagramIndInv
<1> SUFFICES ASSUME DatagramInit PROVE DatagramIndInv
  OBVIOUS
<1>1. sent = << >> /\ DOMAIN sent = {} /\ \A o \in UDPSockets : queue[o] = << >> /\ DOMAIN queue[o] = {}
  BY DEF DatagramInit
<1>2. DatagramTypeOK
  BY DEF DatagramInit, DatagramTypeOK, None, Nothing, SomePort
<1>3. PortInv /\ LastInv
  BY DEF DatagramInit, PortInv, LastInv, None, Nothing
<1> QED
  BY <1>1, <1>2, <1>3 DEF DatagramIndInv, SourceInv, AboutInv, QueueInv, AnswerFindsAsker

\* An object that changes its socket and keeps no port: its era ends, if it
\* had one.  This is bind, close and disconnect.
LEMMA LeavesPort ==
    ASSUME DatagramIndInv, NoPort \notin Ports, NEW o \in UDPSockets,
           UNCHANGED <<last, net, sent>>,
           \E s \in [open : BOOLEAN, port : {NoPort}, peer : SomePort] :
               sock' = [sock EXCEPT ![o] = s],
           era' = [era EXCEPT ![o] = IF sock[o].port # NoPort THEN @ + 1 ELSE @],
           queue' = queue \/ queue' = [queue EXCEPT ![o] = << >>]
    PROVE  DatagramIndInv'
<1> USE DEF DatagramIndInv
<1>1. PICK s \in [open : BOOLEAN, port : {NoPort}, peer : SomePort] :
          sock' = [sock EXCEPT ![o] = s]
  OBVIOUS
<1>2. /\ sock'[o] = s /\ sock'[o].port = NoPort
      /\ \A p \in UDPSockets : p # o => sock'[p] = sock[p] /\ era'[p] = era[p]
      /\ era[o] <= era'[o] /\ era'[o] \in Nat
      /\ sock[o].port # NoPort => era[o] < era'[o]
      /\ sock[o].port = NoPort => era[o] = era'[o]
  BY <1>1 DEF DatagramTypeOK
<1>3. DatagramTypeOK'
  <2>1. queue' \in [UDPSockets -> Seq(Nat)]
    <3>1. queue \in [UDPSockets -> Seq(Nat)] /\ << >> \in Seq(Nat)
      BY DEF DatagramTypeOK
    <3> QED
      BY <3>1
  <2>2. sock' \in [UDPSockets -> [open : BOOLEAN, port : SomePort, peer : SomePort]]
    BY <1>1 DEF DatagramTypeOK, SomePort
  <2> QED
    BY <1>2, <2>1, <2>2 DEF DatagramTypeOK
<1>4. PortInv'
  BY <1>2 DEF PortInv
<1>5. \A d \in DOMAIN sent : sent[d].by \in UDPSockets /\ sent[d].era \in Nat
  BY DatagramType
<1>6. \A d \in DOMAIN sent : sent[d].by = o => sent[d].era < era'[o]
  <2>1. CASE sock[o].port = NoPort
    BY <2>1, <1>2, SilentWithoutPort
  <2>2. CASE sock[o].port # NoPort
    BY <2>2, <1>2, <1>5 DEF SourceInv, DatagramTypeOK
  <2> QED
    BY <2>1, <2>2
<1>7. SourceInv'
  BY <1>2, <1>5, <1>6, SMTT(30) DEF SourceInv, DatagramTypeOK
<1>8. LastInv' /\ AboutInv'
  BY DEF LastInv, AboutInv
<1>9. \A p \in UDPSockets : queue'[p] = queue[p] \/ (queue'[p] = << >> /\ DOMAIN queue'[p] = {})
  BY DEF DatagramTypeOK
<1>10. QueueInv'
  BY <1>9 DEF QueueInv
<1>11. AnswerFindsAsker'
  <2> SUFFICES ASSUME NEW p \in UDPSockets, NEW i \in DOMAIN queue[p], queue'[p] = queue[p],
                      sent[queue[p][i]].about # 0
               PROVE  LET q == sent[sent[queue[p][i]].about]
                      IN  q.by = p \/ era'[q.by] > q.era
    BY <1>9 DEF AnswerFindsAsker
  <2> DEFINE q == sent[sent[queue[p][i]].about]
  <2>1. q.by \in UDPSockets /\ q.era \in Nat
    BY DatagramType DEF QueueInv, AboutInv
  <2>2. q.by = p \/ era[q.by] > q.era
    BY DEF AnswerFindsAsker
  <2>3. era[q.by] \in Nat /\ era'[q.by] \in Nat /\ era[q.by] <= era'[q.by]
    <3>1. era[q.by] \in Nat /\ era[o] \in Nat
      BY <2>1 DEF DatagramTypeOK
    <3> HIDE DEF q
    <3> QED
      BY <1>2, <2>1, <3>1
  <2> HIDE DEF q
  <2>4. q.by = p \/ era'[q.by] > q.era
    BY <2>1, <2>2, <2>3
  <2> QED
    BY <2>4 DEF q
<1> QED
  BY <1>3, <1>4, <1>7, <1>8, <1>10, <1>11

\* A socket gets its port, if it has none, and keeps it if it has one: this is
\* connect, and the first half of sendTo.
LEMMA TakesPort ==
    ASSUME DatagramTypeOK, PortInv, SourceInv, NoPort \notin Ports, NEW o \in UDPSockets,
           NEW s \in [open : {TRUE}, port : SomePort, peer : SomePort],
           s.port = sock[o].port, NEW port \in PortsFor(s),
           sock' = [sock EXCEPT ![o] = [s EXCEPT !.port = port]],
           UNCHANGED era
    PROVE  /\ port \in Ports /\ sock'[o].port = port
           /\ sock' \in [UDPSockets -> [open : BOOLEAN, port : SomePort, peer : SomePort]]
           /\ PortInv'
           /\ \A d \in DOMAIN sent :
                era[sent[d].by] = sent[d].era => sock'[sent[d].by].port = sent[d].from
<1>1. /\ port \in Ports
      /\ sock[o].port # NoPort => port = sock[o].port
      /\ \A p \in UDPSockets : p # o => sock[p].port # port
  <2>1. CASE s.port = NoPort
    BY <2>1 DEF PortsFor, FreePorts
  <2>2. CASE s.port # NoPort
    BY <2>2 DEF DatagramTypeOK, PortsFor, PortInv, SomePort
  <2> QED
    BY <2>1, <2>2
<1>2. /\ sock'[o].port = port /\ sock'[o].open = TRUE
      /\ \A p \in UDPSockets : p # o => sock'[p] = sock[p]
  BY DEF DatagramTypeOK
<1>3. [s EXCEPT !.port = port] \in [open : BOOLEAN, port : SomePort, peer : SomePort]
  BY <1>1 DEF SomePort
<1>4. sock' \in [UDPSockets -> [open : BOOLEAN, port : SomePort, peer : SomePort]]
  BY <1>3 DEF DatagramTypeOK
<1>5. PortInv'
  BY <1>1, <1>2 DEF PortInv
<1>6. ASSUME NEW d \in DOMAIN sent, era[sent[d].by] = sent[d].era
      PROVE  sock'[sent[d].by].port = sent[d].from
  <2>1. sent[d].by \in UDPSockets /\ sent[d].from \in Ports /\ sock[sent[d].by].port = sent[d].from
    BY <1>6, DatagramType DEF SourceInv
  <2> QED
    BY <2>1, <1>1, <1>2
<1> QED
  BY <1>1, <1>2, <1>4, <1>5, <1>6

\* connect changes nothing but the socket.
LEMMA ConnectInv ==
    ASSUME DatagramIndInv, NoPort \notin Ports, NEW o \in UDPSockets, NEW p \in Ports, connectUDP(o, p)
    PROVE  DatagramIndInv'
<1> USE DEF DatagramIndInv
<1> DEFINE s == IF sock[o].open THEN sock[o] ELSE Fresh
<1> DEFINE t == [s EXCEPT !.peer = p]
<1>1. PICK port \in PortsFor(s) :
          sock' = [sock EXCEPT ![o] = [s EXCEPT !.port = port, !.peer = p]]
  BY DEF connectUDP
<1>2. UNCHANGED <<era, queue, last, net, sent>>
  BY DEF connectUDP
<1>3. s \in [open : {TRUE}, port : SomePort, peer : SomePort] /\ s.port = sock[o].port
  <2>1. sock[o] \in [open : BOOLEAN, port : SomePort, peer : SomePort]
    BY DEF DatagramTypeOK
  <2>2. ~sock[o].open => sock[o].port = NoPort
    BY DEF PortInv
  <2>3. CASE sock[o].open
    BY <2>1, <2>3
  <2>4. CASE ~sock[o].open
    BY <2>2, <2>4 DEF Fresh, None, SomePort
  <2> QED
    BY <2>3, <2>4
<1>4. /\ t \in [open : {TRUE}, port : SomePort, peer : SomePort]
      /\ t.port = sock[o].port
      /\ port \in PortsFor(t)
      /\ [s EXCEPT !.port = port, !.peer = p] = [t EXCEPT !.port = port]
  BY <1>1, <1>3 DEF SomePort, PortsFor
<1>5. /\ sock' \in [UDPSockets -> [open : BOOLEAN, port : SomePort, peer : SomePort]]
      /\ PortInv'
      /\ \A d \in DOMAIN sent :
            era[sent[d].by] = sent[d].era => sock'[sent[d].by].port = sent[d].from
  <2> HIDE DEF s, t
  <2> QED
    BY <1>1, <1>2, <1>4, TakesPort
<1> QED
  BY <1>2, <1>5 DEF DatagramTypeOK, SourceInv, LastInv, AboutInv, QueueInv, AnswerFindsAsker

\* sendTo, of a question or of an answer to a datagram that was received.
LEMMA SendInv ==
    ASSUME DatagramIndInv, NoPort \notin Ports, NEW o \in UDPSockets,
           NEW to \in SomePort, NEW about \in Nat, sendTo(o, to, about),
           about # 0 => about \in DOMAIN sent /\ to = sent[about].from
    PROVE  DatagramIndInv'
<1> USE DEF DatagramIndInv
<1>1. PICK port \in PortsFor(sock[o]) :
          /\ sock' = [sock EXCEPT ![o].port = port]
          /\ sent' = Append(sent, [by |-> o, era |-> era[o], from |-> port, to |-> to,
                                   about |-> about])
  BY DEF sendTo
<1>2. sock[o].open /\ UNCHANGED <<era, queue, last>>
      /\ \E n \in 1 .. MaxCopies : net' = Append(net, n)
  BY DEF sendTo
<1>3. /\ sock[o] \in [open : {TRUE}, port : SomePort, peer : SomePort]
      /\ sock' = [sock EXCEPT ![o] = [sock[o] EXCEPT !.port = port]]
  BY <1>1, <1>2 DEF DatagramTypeOK
<1>4. /\ port \in Ports /\ sock'[o].port = port
      /\ sock' \in [UDPSockets -> [open : BOOLEAN, port : SomePort, peer : SomePort]]
      /\ PortInv'
      /\ \A d \in DOMAIN sent :
            era[sent[d].by] = sent[d].era => sock'[sent[d].by].port = sent[d].from
  BY <1>1, <1>2, <1>3, TakesPort
<1> DEFINE new == [by |-> o, era |-> era[o], from |-> port, to |-> to, about |-> about]
<1>5. new \in Datagram
  BY <1>4 DEF Datagram, DatagramTypeOK
<1>6. /\ sent' \in Seq(Datagram)
      /\ Len(sent') \in Nat
      /\ DOMAIN sent' = DOMAIN sent \cup {Len(sent')}
      /\ Len(sent') \notin DOMAIN sent
      /\ sent'[Len(sent')] = new
      /\ \A e \in DOMAIN sent : sent'[e] = sent[e]
  <2>1. sent \in Seq(Datagram) /\ sent' = Append(sent, new)
    BY <1>1 DEF DatagramTypeOK
  <2> HIDE DEF new
  <2> QED
    BY <2>1, <1>5, DatagramSent
<1>7. DatagramTypeOK'
  <2>1. PICK n \in 1 .. MaxCopies : net' = Append(net, n)
    BY <1>2
  <2>2. net \in Seq(Nat) /\ Len(net) = Len(sent) /\ n \in Nat
    BY DatagramsAssumption DEF DatagramTypeOK
  <2>3. net' \in Seq(Nat) /\ Len(net') = Len(net) + 1
    BY <2>1, <2>2
  <2>4. sent \in Seq(Datagram) /\ Len(sent') = Len(sent) + 1
    <3>1. sent \in Seq(Datagram)
      BY DEF DatagramTypeOK
    <3> QED
      BY <1>1, <3>1
  <2> QED
    BY <1>2, <1>4, <1>6, <2>2, <2>3, <2>4 DEF DatagramTypeOK
<1>8. SourceInv'
  <2> SUFFICES ASSUME NEW d \in DOMAIN sent'
               PROVE  /\ sent'[d].era <= era[sent'[d].by]
                      /\ era[sent'[d].by] = sent'[d].era =>
                            sock'[sent'[d].by].port = sent'[d].from
    BY <1>2 DEF SourceInv
  <2>1. CASE d \in DOMAIN sent
    BY <2>1, <1>4, <1>6 DEF SourceInv
  <2>2. CASE d = Len(sent')
    BY <2>2, <1>4, <1>6 DEF DatagramTypeOK
  <2> QED
    BY <1>6, <2>1, <2>2
<1>9. LastInv' /\ QueueInv'
  BY <1>2, <1>6 DEF LastInv, QueueInv
<1>10. AboutInv'
  <2> SUFFICES ASSUME NEW d \in DOMAIN sent', sent'[d].about # 0
               PROVE  /\ sent'[d].about \in DOMAIN sent
                      /\ sent'[d].to = sent[sent'[d].about].from
    BY <1>6 DEF AboutInv
  <2>1. CASE d \in DOMAIN sent
    BY <2>1, <1>6 DEF AboutInv
  <2>2. CASE d = Len(sent')
    BY <2>2, <1>6
  <2> QED
    BY <1>6, <2>1, <2>2
<1>11. AnswerFindsAsker'
  <2> SUFFICES ASSUME NEW p \in UDPSockets, NEW i \in DOMAIN queue[p],
                      sent'[queue[p][i]].about # 0
               PROVE  LET q == sent'[sent'[queue[p][i]].about]
                      IN  q.by = p \/ era[q.by] > q.era
    BY <1>2 DEF AnswerFindsAsker
  <2>1. queue[p][i] \in DOMAIN sent /\ sent'[queue[p][i]] = sent[queue[p][i]]
    BY <1>6 DEF QueueInv
  <2>2. sent[queue[p][i]].about \in DOMAIN sent
    BY <2>1 DEF AboutInv
  <2>3. sent'[sent'[queue[p][i]].about] = sent[sent[queue[p][i]].about]
    BY <1>6, <2>1, <2>2
  <2>4. LET q == sent[sent[queue[p][i]].about] IN q.by = p \/ era[q.by] > q.era
    BY <2>1 DEF AnswerFindsAsker
  <2> QED
    BY <2>3, <2>4
<1> QED
  BY <1>4, <1>7, <1>8, <1>9, <1>10, <1>11

\* recvFrom remembers where the datagram came from.
LEMMA RecvInv ==
    ASSUME DatagramIndInv, NEW o \in UDPSockets, recvFrom(o)
    PROVE  DatagramIndInv'
<1> USE DEF DatagramIndInv
<1> DEFINE d == Head(queue[o])
<1>1. /\ queue[o] # << >> /\ queue[o] \in Seq(Nat)
      /\ last' = [last EXCEPT ![o] = [source |-> sent[d].from, about |-> d]]
      /\ queue' = [queue EXCEPT ![o] = Tail(@)]
      /\ UNCHANGED <<sock, era, net, sent>>
  BY DEF recvFrom, Source, DatagramTypeOK
<1>2. /\ d \in Nat /\ 1 \in DOMAIN queue[o] /\ d = queue[o][1]
      /\ Tail(queue[o]) \in Seq(Nat)
      /\ \A i \in DOMAIN Tail(queue[o]) :
            i + 1 \in DOMAIN queue[o] /\ Tail(queue[o])[i] = queue[o][i + 1]
  BY <1>1
<1>3. d \in DOMAIN sent /\ sent[d].from \in Ports
  BY <1>2, DatagramType DEF QueueInv
<1>4. \A p \in UDPSockets : \A i \in DOMAIN queue'[p] :
          \E j \in DOMAIN queue[p] : queue'[p][i] = queue[p][j]
  <2> SUFFICES ASSUME NEW p \in UDPSockets, NEW i \in DOMAIN queue'[p]
               PROVE  \E j \in DOMAIN queue[p] : queue'[p][i] = queue[p][j]
    OBVIOUS
  <2>1. CASE p = o
    BY <2>1, <1>1, <1>2 DEF DatagramTypeOK
  <2>2. CASE p # o
    BY <2>2, <1>1 DEF DatagramTypeOK
  <2> QED
    BY <2>1, <2>2
<1>5. DatagramTypeOK'
  BY <1>1, <1>2, <1>3 DEF DatagramTypeOK, SomePort
<1>6. LastInv'
  BY <1>1, <1>3 DEF LastInv, DatagramTypeOK
<1>7. QueueInv'
  BY <1>1, <1>4 DEF QueueInv
<1>8. AnswerFindsAsker'
  <2> SUFFICES ASSUME NEW p \in UDPSockets, NEW i \in DOMAIN queue'[p],
                      sent[queue'[p][i]].about # 0
               PROVE  LET q == sent[sent[queue'[p][i]].about]
                      IN  q.by = p \/ era[q.by] > q.era
    BY <1>1 DEF AnswerFindsAsker
  <2>1. PICK j \in DOMAIN queue[p] : queue'[p][i] = queue[p][j]
    BY <1>4
  <2> QED
    BY <2>1 DEF AnswerFindsAsker
<1> QED
  BY <1>1, <1>5, <1>6, <1>7, <1>8 DEF PortInv, SourceInv, AboutInv

\* What is delivered goes to whoever has the port: the one who asked, as long
\* as it has not given up the port it asked from.
LEMMA DeliverInv ==
    ASSUME DatagramIndInv, NoPort \notin Ports, NEW o \in UDPSockets, NEW d \in DOMAIN net, Deliver(d, o)
    PROVE  DatagramIndInv'
<1> USE DEF DatagramIndInv
<1>1. /\ sock[o].port = sent[d].to
      /\ queue' = [queue EXCEPT ![o] = Append(@, d)]
      /\ net[d] > 0 /\ net' = [net EXCEPT ![d] = @ - 1]
      /\ UNCHANGED <<sock, era, last, sent>>
  BY DEF Deliver
<1>2. d \in DOMAIN sent /\ d \in Nat
  <2>1. DOMAIN net = DOMAIN sent
    BY DEF DatagramTypeOK
  <2> QED
    BY <2>1, DatagramType
<1>3. /\ queue[o] \in Seq(Nat)
      /\ Append(queue[o], d) \in Seq(Nat)
      /\ \A i \in DOMAIN Append(queue[o], d) :
            \/ i \in DOMAIN queue[o] /\ Append(queue[o], d)[i] = queue[o][i]
            \/ Append(queue[o], d)[i] = d
  BY <1>2 DEF DatagramTypeOK
<1>4. \A p \in UDPSockets : \A i \in DOMAIN queue'[p] :
          \/ i \in DOMAIN queue[p] /\ queue'[p][i] = queue[p][i]
          \/ p = o /\ queue'[p][i] = d
  <2> SUFFICES ASSUME NEW p \in UDPSockets, NEW i \in DOMAIN queue'[p]
               PROVE  \/ i \in DOMAIN queue[p] /\ queue'[p][i] = queue[p][i]
                      \/ p = o /\ queue'[p][i] = d
    OBVIOUS
  <2>1. CASE p = o
    BY <2>1, <1>1, <1>3 DEF DatagramTypeOK
  <2>2. CASE p # o
    BY <2>2, <1>1 DEF DatagramTypeOK
  <2> QED
    BY <2>1, <2>2
<1>5. DatagramTypeOK'
  <2>1. net \in Seq(Nat) /\ Len(net) = Len(sent) /\ net[d] - 1 \in Nat
    BY <1>1 DEF DatagramTypeOK
  <2>2. net' \in Seq(Nat) /\ Len(net') = Len(net)
    BY <1>1, <2>1
  <2> QED
    BY <1>1, <1>3, <2>1, <2>2 DEF DatagramTypeOK
<1>6. QueueInv'
  BY <1>1, <1>2, <1>4 DEF QueueInv
<1>7. ASSUME sent[d].about # 0
      PROVE  LET q == sent[sent[d].about] IN q.by = o \/ era[q.by] > q.era
  <2> DEFINE q == sent[sent[d].about]
  <2>1. /\ q.by \in UDPSockets /\ q.era \in Nat /\ q.from \in Ports
        /\ sent[d].to = q.from
    BY <1>2, <1>7, DatagramType DEF AboutInv
  <2>2. q.era <= era[q.by] /\ (era[q.by] = q.era => sock[q.by].port = q.from)
    BY <1>2, <1>7 DEF AboutInv, SourceInv
  <2>3. era[q.by] = q.era => q.by = o
    BY <1>1, <2>1, <2>2 DEF PortInv
  <2>4. era[q.by] \in Nat
    BY <2>1 DEF DatagramTypeOK
  <2> HIDE DEF q
  <2>5. q.by = o \/ era[q.by] > q.era
    BY <2>1, <2>2, <2>3, <2>4
  <2> QED
    BY <2>5 DEF q
<1>8. AnswerFindsAsker'
  <2> SUFFICES ASSUME NEW p \in UDPSockets, NEW i \in DOMAIN queue'[p],
                      sent[queue'[p][i]].about # 0
               PROVE  LET q == sent[sent[queue'[p][i]].about]
                      IN  q.by = p \/ era[q.by] > q.era
    BY <1>1 DEF AnswerFindsAsker
  <2>1. CASE i \in DOMAIN queue[p] /\ queue'[p][i] = queue[p][i]
    BY <2>1 DEF AnswerFindsAsker
  <2>2. CASE p = o /\ queue'[p][i] = d
    BY <1>7, <2>2
  <2> QED
    BY <1>4, <2>1, <2>2
<1> QED
  BY <1>1, <1>5, <1>6, <1>8 DEF PortInv, SourceInv, LastInv, AboutInv

-----------------------------------------------------------------------------
(* The theorem.                                                            *)

\* Every step keeps the invariant.
LEMMA DatagramNextInv ==
    ASSUME NoPort \notin Ports, DatagramIndInv, [DatagramNext]_datagramVars
    PROVE  DatagramIndInv'
<1> USE DEF DatagramIndInv
<1>1. ASSUME NEW o \in UDPSockets, bindUDP(o) \/ closeUDP(o)
      PROVE  DatagramIndInv'
  <2>1. None \in [open : BOOLEAN, port : {NoPort}, peer : SomePort]
        /\ Fresh \in [open : BOOLEAN, port : {NoPort}, peer : SomePort]
    BY DEF None, Fresh, SomePort
  <2>2. /\ UNCHANGED <<last, net, sent>>
        /\ \E s \in [open : BOOLEAN, port : {NoPort}, peer : SomePort] : Replace(o, s)
    BY <1>1, <2>1 DEF bindUDP, closeUDP
  <2> QED
    BY <2>2, LeavesPort DEF Replace
<1>2. ASSUME NEW o \in UDPSockets, disconnectUDP(o)
      PROVE  DatagramIndInv'
  <2> DEFINE s == [sock[o] EXCEPT !.port = NoPort, !.peer = NoPort]
  <2>1. sock' = [sock EXCEPT ![o] = s]
    BY <1>2 DEF disconnectUDP, DatagramTypeOK
  <2>2. s \in [open : BOOLEAN, port : {NoPort}, peer : SomePort]
    BY ZenonT(30) DEF DatagramTypeOK, SomePort
  <2>3. /\ UNCHANGED <<last, net, sent>> /\ queue' = queue
        /\ era' = [era EXCEPT ![o] = IF sock[o].port # NoPort THEN @ + 1 ELSE @]
    BY <1>2 DEF disconnectUDP
  <2> QED
    BY <2>1, <2>2, <2>3, LeavesPort
<1>3. ASSUME NEW o \in UDPSockets, Question(o)
      PROVE  DatagramIndInv'
  <2>1. PICK p \in Ports : sendTo(o, p, 0)
    BY <1>3 DEF Question
  <2> QED
    BY <2>1, SendInv DEF SomePort
<1>4. ASSUME NEW o \in UDPSockets, Answer(o)
      PROVE  DatagramIndInv'
  <2>1. /\ last[o].source \in SomePort /\ last[o].about \in Nat
        /\ sendTo(o, last[o].source, last[o].about)
        /\ last[o].about \in DOMAIN sent /\ last[o].source = sent[last[o].about].from
    BY <1>4 DEF Answer, DatagramTypeOK, LastInv
  <2> QED
    BY <2>1, SendInv
<1>5. CASE UNCHANGED datagramVars
  BY <1>5 DEF datagramVars, DatagramTypeOK, PortInv, SourceInv, LastInv, AboutInv, QueueInv,
              AnswerFindsAsker
<1> QED
  BY <1>1, <1>2, <1>3, <1>4, <1>5, ConnectInv, RecvInv, DeliverInv DEF DatagramNext

\* recvFrom gives the source of a datagram, and sendTo reaches whoever has the
\* port: an answer in the queue of an object is about a question of that
\* object, unless the one who asked has given up its port since.
THEOREM AnswerReachesAsker ==
    DatagramSpec => []AnswerFindsAsker
<1>1. NoPort \notin Ports
  BY DatagramsAssumption
<1>2. DatagramIndInv /\ [DatagramNext]_datagramVars => DatagramIndInv'
  BY <1>1, DatagramNextInv
<1>3. DatagramIndInv => AnswerFindsAsker
  BY DEF DatagramIndInv
<1> QED
  BY DatagramInitInv, <1>2, <1>3, PTL DEF DatagramSpec
=============================================================================
