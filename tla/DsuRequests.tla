---------------------------- MODULE DsuRequests ----------------------------
(***************************************************************************)
(* DsuConnection with the datagrams that its requests come as: how an      *)
(* emulator frames each of them, and what poll hands on after              *)
(* parse_client_packet has read it (DsuWire).                              *)
(***************************************************************************)
EXTENDS DsuConnection, DsuWire

\* A slot, the first byte of a MAC and an intensity are bytes on the wire.
ASSUME BytesAssumption ==
    /\ \A n \in Slots \cup Macs : n \in Byte
    /\ \A n \in Intensities : n \in Byte

\* SubscribeMode
ModeByte == [All |-> 0, Slot |-> 1, Mac |-> 2]

\* The selector of eight bytes, with zeros where the mode does not look
Selector(mode, slot, mac) == <<mode, slot, mac, 0, 0, 0, 0, 0>>

SelectorOf(id) ==
    Selector(ModeByte[id.mode],
             IF id.mode = "Slot" THEN id.slot ELSE 0,
             IF id.mode = "Mac" THEN id.mac ELSE 0)

ClientId == <<9, 8, 7, 6>>

FromClient(type, payload) == Frame(MagicClient, ClientId, type, payload)

\* A query of ports asks for all four slots, or declares more than there are.
PortCounts == {<<4, 0, 0, 0>>, <<5, 0, 0, 0>>, <<0, 0, 0, 1>>}
AllSlots == <<0, 1, 2, 3>>

\* The datagrams that may stand for a request
DatagramsOf(q) ==
    CASE q.kind = "data" -> {FromClient(Data, SelectorOf(q.id))}
      [] q.kind = "rumble" ->
           {FromClient(Rumble, Selector(1, q.slot, 0) \o <<0, q.to>>)}
      [] q.kind = "query" ->
           {FromClient(Version, <<>>), FromClient(MotorInfo, Selector(0, 0, 0))}
             \cup {FromClient(PortInfo, count \o AllSlots) : count \in PortCounts}

\* q is the request that handle gets for the parsed packet p.
Means(p, q) ==
    CASE q.kind = "data" ->
           /\ p.kind = "data"
           /\ p.id.mode = ModeByte[q.id.mode]
           /\ q.id.mode = "Slot" => p.id.slot = q.id.slot
           /\ q.id.mode = "Mac" => p.id.mac = <<q.id.mac, 0, 0, 0, 0, 0>>
      [] q.kind = "rumble" ->
           /\ p.kind = "rumble"
           /\ p.id.slot = q.slot /\ p.motor = 0 /\ p.intensity = q.to
      [] q.kind = "query" ->
           /\ p.kind \in {"version", "ports", "motors"}
           /\ p.kind = "ports" => p.slots = AllSlots

\* The packet d with another length field and the checksum that goes with it
Declare(d, length) ==
    LET e == [d EXCEPT ![7] = length] IN
    [i \in 1..Len(e) |-> IF i \in 9..12 THEN Crc32[Zeroed(e)][i - 8] ELSE e[i]]

\* d with a byte of the client's id changed
Damaged(d) == [d EXCEPT ![16] = 0]

\* d cut inside its header
Beheaded(d) == {SubSeq(d, 1, n) : n \in 0..HeaderSize - 1}

\* d cut down to a header with some of its payload, d, and d with a byte more
Resized(d) ==
    {SubSeq(d, 1, n) : n \in HeaderSize..Len(d)} \cup {Append(d, 0)}

\* Each size under every length field up to 15 with a checksum that agrees, be
\* it the length of d, the new one or neither
Redeclared(d) == {Declare(e, n) : e \in Resized(d), n \in 0..15}

\* What may come instead of d
Variants(d) ==
    {Damaged(d)} \cup Beheaded(d) \cup Resized(d) \cup Redeclared(d)

\* The parser accepts what is long enough and reads nothing else.
ParserRight(d) ==
    \A e \in Variants(d) : AcceptedIfLongEnough(e) /\ ReadsInside(e)

\* Whether each request is read right; TLC evaluates it once.
Readings ==
    {[request |-> q,
      right |-> \A d \in DatagramsOf(q) :
                   Means(ParseClientPacket(d), q) /\ ParserRight(d)] :
        q \in Requests}

\* What poll takes from the socket is what the client asked for, as
\* parse_client_packet reads it; and of the same datagram with a byte changed,
\* cut short, made longer or with another length declared, a request is made
\* exactly if it still holds one, and no byte beyond its end is read.
RequestsRead == \A r \in Readings : r.request \in inbox => r.right
=============================================================================
