-------------------------------- MODULE Wire --------------------------------
(***************************************************************************)
(* The UDP path between the 3DS (port 6000) and the PCs (port 6001): three *)
(* kinds of datagram, in flight as a set.  A datagram may be lost,         *)
(* overtaken (a set has no order) or delivered more than once, and is gone *)
(* MaxDelay time units after it was sent.  A socket's receive buffer is    *)
(* part of the flight: a datagram is "received" when recvfrom returns it.  *)
(***************************************************************************)
EXTENDS Integers, FiniteSets

CONSTANTS
    Hosts,      \* the PCs, each one address: its IP with port 6001
    MaxDelay    \* longest flight of a datagram, in time units

ASSUME MaxDelayAssumption == MaxDelay \in Nat

VARIABLE
    net         \* the datagrams in flight

Kinds == {"HELLO", "ACK", "INPUT"}

\* host is the sender of a HELLO, the addressee of an ACK or an INPUT.
Datagrams == [kind : Kinds, host : Hosts, age : 0..MaxDelay]

Datagram(kind, h) == [kind |-> kind, host |-> h, age |-> 0]

\* recvfrom takes d: the network may still hold a second copy of it.
Without(d) == {net \ {d}, net}

\* Every datagram in flight is one unit older.
Aged == {[d EXCEPT !.age = @ + 1] : d \in net}

WireTypeOK == net \subseteq Datagrams
=============================================================================
