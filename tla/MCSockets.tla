----------------------------- MODULE MCSockets -----------------------------
(***************************************************************************)
(* PracticalSocket on small instances: socket objects and descriptors,     *)
(* addresses, streams and datagrams.  The four share no state, so that one *)
(* behaviour is about one of them, and the others stay as they began.      *)
(***************************************************************************)
EXTENDS Sockets, SocketAddress, SocketStream, Datagrams, TLC

-----------------------------------------------------------------------------
(* Names with one address or two; sockets of both families, one not bound  *)
(* yet, and the address of a local socket.                                 *)

address(f, h, p) == [family |-> f, host |-> h, port |-> p]
four  == address("AF_INET", "h4", 1)
six   == address("AF_INET6", "h6", 1)
free  == address("AF_INET", "any", 0)
other == address("AF_UNIX", "file", 256)

MCLists     == {<<four>>, <<six, four>>}
MCSockaddrs == {six, free, other}

MCntop  == [h4 |-> <<"10.", "0.0.1">>, h6 |-> <<"fe80", "::1">>, any |-> <<"0.0", ".0.0">>]
MCntohs == [p \in {0, 1, 256} |-> CASE p = 1 -> 256 [] p = 256 -> 1 [] OTHER -> 0]

-----------------------------------------------------------------------------
(* One of the four.                                                        *)

VARIABLE which

all == <<which, vars, addressVars, streamVars, datagramVars>>

PartsInit ==
    /\ which \in {"sockets", "addresses", "stream", "datagrams"}
    /\ Init /\ AddressInit /\ StreamInit /\ DatagramInit

PartsNext ==
    /\ UNCHANGED which
    /\ \/ /\ which = "sockets" /\ Next
          /\ UNCHANGED <<addressVars, streamVars, datagramVars>>
       \/ /\ which = "addresses" /\ AddressNext
          /\ UNCHANGED <<vars, streamVars, datagramVars>>
       \/ /\ which = "stream" /\ StreamNext
          /\ UNCHANGED <<vars, addressVars, datagramVars>>
       \/ /\ which = "datagrams" /\ DatagramNext
          /\ UNCHANGED <<vars, addressVars, streamVars>>

PartsSpec == PartsInit /\ [][PartsNext]_all

Symmetry == Permutations(Objects) \cup Permutations(Ports)
=============================================================================
