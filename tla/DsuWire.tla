------------------------------- MODULE DsuWire -------------------------------
(***************************************************************************)
(* The wire format of the DSU server: the reader that checks bounds as it  *)
(* goes, the parser of a client's datagram and the framing of a reply      *)
(* (cemuhook/Protocol.cpp, cemuhook/Messages.cpp).                         *)
(*                                                                         *)
(* A datagram is a sequence of bytes, of which the first is byte 0 of the  *)
(* code.  Numbers that are only compared or handed on are their bytes.     *)
(***************************************************************************)
EXTENDS Integers, Sequences

CONSTANT Crc32   \* crc32, as a function from sequences of bytes to four bytes

Byte == 0..255
Word == [1..4 -> Byte]

\* No request: std::nullopt
Refused == [kind |-> "none"]

HeaderSize == 20
MagicServer == <<68, 83, 85, 83>>
MagicClient == <<68, 83, 85, 67>>

\* MsgType, least significant byte first
Version == <<0, 0, 16, 0>>
PortInfo == <<1, 0, 16, 0>>
Data == <<2, 0, 16, 0>>
MotorInfo == <<1, 0, 17, 0>>
Rumble == <<2, 0, 17, 0>>
MsgTypes == {Version, PortInfo, Data, MotorInfo, Rumble}

\* n bytes of d that follow the first k
Field(d, k, n) == [i \in 1..n |-> d[k + i]]

-----------------------------------------------------------------------------
(* ByteReader *)

Reader(len) == [len |-> len, pos |-> 0, ok |-> TRUE]

Has(r, n) == r.ok /\ r.pos + n <= r.len

\* A read beyond the end gives 0 and is remembered; what it gave is dropped
\* with the packet, so the value is not part of the reader.
U8(r) ==
    IF Has(r, 1) THEN [len |-> r.len, pos |-> r.pos + 1, ok |-> r.ok]
    ELSE [len |-> r.len, pos |-> r.pos, ok |-> FALSE]

U32(r) == U8(U8(U8(U8(r))))
U48(r) == U8(U8(U32(r)))

\* read_controller_id
ControllerId(r) == U48(U8(U8(r)))

\* The loop over the slots of a PortInfoQuery
SlotBytes(r, n) ==
    CASE n = 0 -> r
      [] n = 1 -> U8(r)
      [] n = 2 -> U8(U8(r))
      [] n = 3 -> U8(U8(U8(r)))
      [] n = 4 -> U32(r)

-----------------------------------------------------------------------------
(* Framing *)

\* The packet with its checksum held at zero
Zeroed(d) == [i \in 1..Len(d) |-> IF i \in 9..12 THEN 0 ELSE d[i]]

\* The header of frame_packet with checksum c; the length field counts the
\* type and the payload in 16 bits.
Header(magic, c, id, type, payload) ==
    LET length == (Len(payload) + 4) % 65536 IN
    <<magic[1], magic[2], magic[3], magic[4], 233, 3,
      length % 256, length \div 256, c[1], c[2], c[3], c[4],
      id[1], id[2], id[3], id[4], type[1], type[2], type[3], type[4]>>

Packet(magic, c, id, type, payload) ==
    LET header == Header(magic, c, id, type, payload) IN
    [i \in 1..HeaderSize + Len(payload) |->
        IF i <= HeaderSize THEN header[i] ELSE payload[i - HeaderSize]]

\* frame_packet: the checksum is that of the packet that has none.
Frame(magic, id, type, payload) ==
    LET unsigned == Packet(magic, <<0, 0, 0, 0>>, id, type, payload) IN
    Packet(magic, Crc32[unsigned], id, type, payload)

Length(d) == d[7] + 256 * d[8]

\* Mutant: the length field may be less than the four bytes of the type.
HeaderOk_NoMinimum(d) ==
    /\ Len(d) >= HeaderSize
    /\ Field(d, 0, 4) = MagicClient
    /\ Length(d) + 16 <= Len(d)
    /\ \A i \in 1..4 : Crc32[Zeroed(d)][i] = d[8 + i]

\* The conditions under which parse_header does not give up, in their order
HeaderOk(d) ==
    /\ Len(d) >= HeaderSize
    /\ Field(d, 0, 4) = MagicClient
    /\ Length(d) >= 4
    /\ Length(d) + 16 <= Len(d)
    /\ \A i \in 1..4 : Crc32[Zeroed(d)][i] = d[8 + i]

PayloadSize(d) == Length(d) - 4
Type(d) == Field(d, 16, 4)

-----------------------------------------------------------------------------
(* parse_client_packet *)

\* The number of slots asked for: a 32-bit number, at most 4 of it
Count(d) ==
    IF d[21] <= 4 /\ d[22] = 0 /\ d[23] = 0 /\ d[24] = 0 THEN d[21] ELSE 4

Id(d) == [mode |-> d[21], slot |-> d[22], mac |-> Field(d, 22, 6)]

ParseClientPacket(d) ==
    LET r == Reader(PayloadSize(d)) IN
    IF ~HeaderOk(d) THEN Refused
    ELSE
    CASE Type(d) = Version ->
           [kind |-> "version"]
      [] Type(d) = PortInfo /\ U32(r).ok /\ SlotBytes(U32(r), Count(d)).ok ->
           [kind |-> "ports", slots |-> Field(d, 24, Count(d))]
      [] Type(d) = Data /\ ControllerId(r).ok ->
           [kind |-> "data", id |-> Id(d)]
      [] Type(d) = MotorInfo /\ ControllerId(r).ok ->
           [kind |-> "motors", id |-> Id(d)]
      [] Type(d) = Rumble /\ U8(U8(ControllerId(r))).ok ->
           [kind |-> "rumble", id |-> Id(d), motor |-> d[29],
            intensity |-> d[30]]
      [] OTHER -> Refused
-----------------------------------------------------------------------------
(* What the parser promises, as operators that a theorem or an assumption  *)
(* of a run is about                                                       *)

\* The bytes of payload that a packet of this type must have
Needed(d) ==
    CASE Type(d) = Version -> 0
      [] Type(d) = PortInfo -> IF PayloadSize(d) < 4 THEN 4 ELSE 4 + Count(d)
      [] Type(d) \in {Data, MotorInfo} -> 8
      [] Type(d) = Rumble -> 10

\* A request comes of a packet exactly if the payload it declares holds all
\* that its type needs: checking ok() once after a group of reads, and again
\* after the loop over the slots, is as good as checking the length first.
AcceptedIfLongEnough(d) ==
    ParseClientPacket(d) # Refused <=>
        /\ HeaderOk(d)
        /\ Type(d) \in MsgTypes
        /\ Needed(d) <= PayloadSize(d)

\* Whatever is read for a request lies within the datagram that came: the
\* length field is the client's word, and four less than it must not wrap.
ReadsInside(d) ==
    ParseClientPacket(d) # Refused =>
        PayloadSize(d) >= 0 /\ HeaderSize + Needed(d) <= Len(d)

\* A packet that is framed as the server frames its replies has a header that
\* parses to what was framed, unless the payload is too long for the length.
FramesParse(id, type, payload) ==
    LET d == Frame(MagicClient, id, type, payload) IN
    Len(payload) + 4 < 65536 =>
        /\ HeaderOk(d)
        /\ Type(d) = type
        /\ Field(d, 12, 4) = id
        /\ PayloadSize(d) = Len(payload)
        /\ Field(d, HeaderSize, Len(payload)) = payload
=============================================================================
