---------------------------- MODULE DsuWire_proofs ----------------------------
(***************************************************************************)
(* Theorems about DsuWire for every datagram and every checksum function.  *)
(***************************************************************************)
EXTENDS DsuWire, SequenceTheorems, TLAPS

\* A reader somewhere in a slice
Readers == [len : Int, pos : Nat, ok : BOOLEAN]

\* One read moves on by one or fails, and failure is kept.
LEMMA ReadOne ==
    ASSUME NEW r \in Readers
    PROVE  /\ U8(r) \in Readers
           /\ U8(r).len = r.len
           /\ U8(r).ok <=> Has(r, 1)
           /\ U8(r).ok => U8(r).pos = r.pos + 1
<1>1. CASE Has(r, 1)
  BY <1>1 DEF U8, Has, Readers
<1>2. CASE ~Has(r, 1)
  BY <1>2 DEF U8, Has, Readers
<1> QED
  BY <1>1, <1>2

\* The same for groups of reads: checking ok() once at the end of the group
\* tells whether all of it was there.
LEMMA ReadTwo ==
    ASSUME NEW r \in Readers
    PROVE  /\ U8(U8(r)) \in Readers
           /\ U8(U8(r)).len = r.len
           /\ U8(U8(r)).ok <=> Has(r, 2)
           /\ U8(U8(r)).ok => U8(U8(r)).pos = r.pos + 2
<1> DEFINE s == U8(r)
<1>1. s \in Readers /\ s.len = r.len
  BY ReadOne
<1>2. (s.ok <=> Has(r, 1)) /\ (s.ok => s.pos = r.pos + 1)
  BY ReadOne
<1>3. U8(s) \in Readers /\ U8(s).len = r.len
  BY <1>1, ReadOne
<1>4. (U8(s).ok <=> Has(s, 1)) /\ (U8(s).ok => U8(s).pos = s.pos + 1)
  BY <1>1, ReadOne
<1> HIDE DEF s
<1>5. Has(s, 1) <=> Has(r, 2)
  BY <1>1, <1>2 DEF Has, Readers
<1>6. U8(s).ok => U8(s).pos = r.pos + 2
  BY <1>1, <1>2, <1>4 DEF Has, Readers
<1> QED
  BY <1>3, <1>4, <1>5, <1>6 DEF s

LEMMA ReadFour ==
    ASSUME NEW r \in Readers
    PROVE  /\ U32(r) \in Readers
           /\ U32(r).len = r.len
           /\ U32(r).ok <=> Has(r, 4)
           /\ U32(r).ok => U32(r).pos = r.pos + 4
<1> DEFINE s == U8(U8(r))
<1>1. s \in Readers /\ s.len = r.len
  BY ReadTwo
<1>2. (s.ok <=> Has(r, 2)) /\ (s.ok => s.pos = r.pos + 2)
  BY ReadTwo
<1>3. U8(U8(s)) \in Readers /\ U8(U8(s)).len = r.len
  BY <1>1, ReadTwo
<1>4. /\ U8(U8(s)).ok <=> Has(s, 2)
      /\ U8(U8(s)).ok => U8(U8(s)).pos = s.pos + 2
  BY <1>1, ReadTwo
<1>5. U32(r) = U8(U8(s))
  BY DEF U32
<1> HIDE DEF s
<1>6. Has(s, 2) <=> Has(r, 4)
  BY <1>1, <1>2 DEF Has, Readers
<1>7. U8(U8(s)).ok => U8(U8(s)).pos = r.pos + 4
  BY <1>1, <1>2, <1>4 DEF Has, Readers
<1> QED
  BY <1>3, <1>4, <1>5, <1>6, <1>7

LEMMA ReadId ==
    ASSUME NEW r \in Readers
    PROVE  /\ ControllerId(r) \in Readers
           /\ ControllerId(r).len = r.len
           /\ ControllerId(r).ok <=> Has(r, 8)
           /\ ControllerId(r).ok => ControllerId(r).pos = r.pos + 8
<1> DEFINE s == U8(U8(r))
           t == U32(s)
           u == U8(U8(t))
<1>1. /\ s \in Readers /\ s.len = r.len
      /\ s.ok <=> Has(r, 2)
      /\ s.ok => s.pos = r.pos + 2
  BY ReadTwo
<1>2. /\ t \in Readers /\ t.len = s.len
      /\ t.ok <=> Has(s, 4)
      /\ t.ok => t.pos = s.pos + 4
  BY <1>1, ReadFour
<1>3. /\ u \in Readers /\ u.len = t.len
      /\ u.ok <=> Has(t, 2)
      /\ u.ok => u.pos = t.pos + 2
  BY <1>2, ReadTwo
<1>4. ControllerId(r) = u
  BY DEF ControllerId, U48
<1> HIDE DEF s, t, u
<1>5. Has(t, 2) <=> Has(r, 8)
  BY <1>1, <1>2 DEF Has, Readers
<1>6. u.ok => u.pos = r.pos + 8
  BY <1>1, <1>2, <1>3 DEF Has, Readers
<1> QED
  BY <1>1, <1>2, <1>3, <1>4, <1>5, <1>6

LEMMA ReadSlots ==
    ASSUME NEW r \in Readers, r.ok => Has(r, 0), NEW n \in 0..4
    PROVE  SlotBytes(r, n).ok <=> Has(r, n)
<1>1. CASE n = 0
  BY <1>1 DEF SlotBytes, Has
<1>2. CASE n = 1
  BY <1>2, ReadOne DEF SlotBytes
<1>3. CASE n = 2
  BY <1>3, ReadTwo DEF SlotBytes
<1>4. CASE n = 3
  <2> DEFINE s == U8(U8(r))
  <2>1. /\ s \in Readers /\ s.len = r.len
        /\ s.ok <=> Has(r, 2)
        /\ s.ok => s.pos = r.pos + 2
    BY ReadTwo
  <2>2. U8(s).ok <=> Has(s, 1)
    BY <2>1, ReadOne
  <2>3. SlotBytes(r, n) = U8(s)
    BY <1>4 DEF SlotBytes
  <2> HIDE DEF s
  <2> QED
    BY <1>4, <2>1, <2>2, <2>3 DEF Has, Readers
<1>5. CASE n = 4
  BY <1>5, ReadFour DEF SlotBytes
<1> QED
  BY <1>1, <1>2, <1>3, <1>4, <1>5

-----------------------------------------------------------------------------
(* parse_client_packet *)

\* What the header says is a number, and is at least the type
LEMMA HeaderFacts ==
    ASSUME NEW d \in Seq(Byte), HeaderOk(d)
    PROVE  /\ Len(d) \in Nat /\ Len(d) >= 20
           /\ PayloadSize(d) \in Nat
           /\ 20 + PayloadSize(d) <= Len(d)
           /\ Count(d) \in 0..4 \/ PayloadSize(d) < 4
<1>1. Len(d) \in Nat /\ Len(d) >= 20
  BY DEF HeaderOk, HeaderSize
<1>0. \A i \in 1..Len(d) : d[i] \in Nat
  <2>1. \A i \in 1..Len(d) : d[i] \in Byte
    BY ElementOfSeq
  <2>2. \A b \in Byte : b \in Nat
    BY DEF Byte
  <2> QED
    BY <2>1, <2>2
<1>2. d[7] \in Nat /\ d[8] \in Nat
  <2>1. 7 \in 1..Len(d) /\ 8 \in 1..Len(d)
    BY <1>1
  <2> QED
    BY <1>0, <2>1
<1>3. Length(d) \in Nat
  <2>1. \A a, b \in Nat : a + 256 * b \in Nat
    OBVIOUS
  <2> QED
    BY <1>2, <2>1 DEF Length
<1>4. Length(d) >= 4 /\ Length(d) + 16 <= Len(d)
  BY DEF HeaderOk
<1>5. PayloadSize(d) \in Nat /\ 20 + PayloadSize(d) <= Len(d)
  BY <1>1, <1>3, <1>4 DEF PayloadSize
<1>6. ASSUME PayloadSize(d) >= 4 PROVE Count(d) \in 0..4
  <2>1. 21 \in 1..Len(d)
    BY <1>1, <1>5, <1>6
  <2>2. d[21] \in Nat
    BY <1>0, <2>1
  <2>3. CASE d[21] <= 4 /\ d[22] = 0 /\ d[23] = 0 /\ d[24] = 0
    <3>1. Count(d) = d[21]
      BY <2>3 DEF Count
    <3> HIDE DEF Count
    <3> QED
      BY <2>2, <2>3, <3>1
  <2>4. CASE ~(d[21] <= 4 /\ d[22] = 0 /\ d[23] = 0 /\ d[24] = 0)
    BY <2>4 DEF Count
  <2> QED
    BY <2>3, <2>4
<1> QED
  BY <1>1, <1>5, <1>6

\* The types differ.
LEMMA TypesDiffer ==
    /\ Version # PortInfo /\ Version # Data /\ Version # MotorInfo
    /\ Version # Rumble /\ PortInfo # Data /\ PortInfo # MotorInfo
    /\ PortInfo # Rumble /\ Data # MotorInfo /\ Data # Rumble
    /\ MotorInfo # Rumble
BY DEF Version, PortInfo, Data, MotorInfo, Rumble

\* What each type of request takes, once the header is fine
LEMMA KindsAccepted ==
    ASSUME NEW d \in Seq(Byte), HeaderOk(d)
    PROVE  LET r == Reader(PayloadSize(d)) IN
           /\ U32(r).ok /\ SlotBytes(U32(r), Count(d)).ok <=>
                PayloadSize(d) >= 4 /\ PayloadSize(d) >= 4 + Count(d)
           /\ ControllerId(r).ok <=> PayloadSize(d) >= 8
           /\ U8(U8(ControllerId(r))).ok <=> PayloadSize(d) >= 10
<1> DEFINE r == Reader(PayloadSize(d))
<1>1. r \in Readers /\ r.len = PayloadSize(d) /\ r.pos = 0 /\ r.ok = TRUE
  BY HeaderFacts DEF Reader, Readers
<1>2. PayloadSize(d) \in Nat
  BY HeaderFacts
<1>3. /\ U32(r) \in Readers
      /\ U32(r).len = PayloadSize(d)
      /\ U32(r).ok <=> Has(r, 4)
      /\ U32(r).ok => U32(r).pos = 4
  BY <1>1, ReadFour DEF Readers
<1>4. /\ ControllerId(r) \in Readers
      /\ ControllerId(r).len = PayloadSize(d)
      /\ ControllerId(r).ok <=> Has(r, 8)
      /\ ControllerId(r).ok => ControllerId(r).pos = 8
  BY <1>1, ReadId DEF Readers
<1>5. U8(U8(ControllerId(r))).ok <=> Has(ControllerId(r), 2)
  BY <1>4, ReadTwo
<1> HIDE DEF r
<1>6. (Has(r, 4) <=> PayloadSize(d) >= 4) /\ (Has(r, 8) <=> PayloadSize(d) >= 8)
  BY <1>1, <1>2 DEF Has
<1>7. ControllerId(r).ok <=> PayloadSize(d) >= 8
  BY <1>4, <1>6
<1>8. U8(U8(ControllerId(r))).ok <=> PayloadSize(d) >= 10
  BY <1>2, <1>4, <1>5, <1>7 DEF Has
<1>9. ASSUME U32(r).ok
      PROVE  SlotBytes(U32(r), Count(d)).ok <=> PayloadSize(d) >= 4 + Count(d)
  <2>1. U32(r).pos = 4 /\ PayloadSize(d) >= 4
    BY <1>3, <1>6, <1>9
  <2>2. Count(d) \in 0..4
    BY <2>1, <1>2, HeaderFacts
  <2>3. Has(U32(r), 0)
    BY <1>2, <1>3, <1>9, <2>1 DEF Has
  <2>4. SlotBytes(U32(r), Count(d)).ok <=> Has(U32(r), Count(d))
    BY <1>3, <2>2, <2>3, ReadSlots
  <2> QED
    BY <1>2, <1>3, <1>9, <2>1, <2>2, <2>4 DEF Has
<1>10. U32(r).ok <=> PayloadSize(d) >= 4
  BY <1>3, <1>6
<1> QED
  BY <1>7, <1>8, <1>9, <1>10 DEF r

\* A datagram gives a request exactly if the payload it declares holds all
\* that its type needs, for every datagram: no group of reads that runs past
\* the payload is taken for a request, and none that fits is refused.
THEOREM ParserExact ==
    ASSUME NEW d \in Seq(Byte)
    PROVE  AcceptedIfLongEnough(d)
<1>1. CASE ~HeaderOk(d)
  BY <1>1 DEF AcceptedIfLongEnough, ParseClientPacket
<1>2. CASE HeaderOk(d)
  <2> DEFINE r == Reader(PayloadSize(d))
             ports == U32(r).ok /\ SlotBytes(U32(r), Count(d)).ok
             id == ControllerId(r).ok
             command == U8(U8(ControllerId(r))).ok
  <2>1. /\ ports <=> PayloadSize(d) >= 4 /\ PayloadSize(d) >= 4 + Count(d)
        /\ id <=> PayloadSize(d) >= 8
        /\ command <=> PayloadSize(d) >= 10
    BY <1>2, KindsAccepted
  <2>2. /\ PayloadSize(d) \in Nat
        /\ PayloadSize(d) >= 4 => Count(d) \in 0..4
    BY <1>2, HeaderFacts
  <2>3. ParseClientPacket(d) # Refused <=>
          \/ Type(d) = Version
          \/ Type(d) = PortInfo /\ ports
          \/ Type(d) = Data /\ id
          \/ Type(d) = MotorInfo /\ id
          \/ Type(d) = Rumble /\ command
    <3> DEFINE p == ParseClientPacket(d)
    <3>1. CASE Type(d) = Version
      <4>1. p.kind = "version"
        BY <1>2, <3>1, TypesDiffer DEF ParseClientPacket
      <4> QED
        BY <3>1, <4>1 DEF Refused
    <3>2. CASE Type(d) = PortInfo
      BY <1>2, <3>2, TypesDiffer DEF ParseClientPacket, Refused
    <3>3. CASE Type(d) = Data
      BY <1>2, <3>3, TypesDiffer DEF ParseClientPacket, Refused
    <3>4. CASE Type(d) = MotorInfo
      BY <1>2, <3>4, TypesDiffer DEF ParseClientPacket, Refused
    <3>5. CASE Type(d) = Rumble
      BY <1>2, <3>5, TypesDiffer DEF ParseClientPacket, Refused
    <3>6. CASE Type(d) \notin MsgTypes
      BY <1>2, <3>6 DEF ParseClientPacket, Refused, MsgTypes
    <3> QED
      BY <3>1, <3>2, <3>3, <3>4, <3>5, <3>6 DEF MsgTypes
  <2> HIDE DEF ports, id, command
  <2>4. /\ Type(d) = Version => Needed(d) = 0
        /\ Type(d) = PortInfo =>
              Needed(d) = IF PayloadSize(d) < 4 THEN 4 ELSE 4 + Count(d)
        /\ Type(d) \in {Data, MotorInfo} => Needed(d) = 8
        /\ Type(d) = Rumble => Needed(d) = 10
    BY TypesDiffer DEF Needed
  <2>5. /\ Type(d) = Version => (Needed(d) <= PayloadSize(d))
        /\ Type(d) = PortInfo => (ports <=> Needed(d) <= PayloadSize(d))
        /\ Type(d) \in {Data, MotorInfo} => (id <=> Needed(d) <= PayloadSize(d))
        /\ Type(d) = Rumble => (command <=> Needed(d) <= PayloadSize(d))
    BY <2>1, <2>2, <2>4
  <2> QED
    BY <1>2, <2>3, <2>5, TypesDiffer DEF AcceptedIfLongEnough, MsgTypes
<1> QED
  BY <1>1, <1>2

\* Every byte that a request is made of lies within the datagram that came,
\* whatever length the client declared in it.
THEOREM ParserInside ==
    ASSUME NEW d \in Seq(Byte)
    PROVE  ReadsInside(d)
<1> SUFFICES ASSUME ParseClientPacket(d) # Refused
             PROVE  PayloadSize(d) >= 0 /\ HeaderSize + Needed(d) <= Len(d)
  BY DEF ReadsInside
<1>1. HeaderOk(d) /\ Type(d) \in MsgTypes /\ Needed(d) <= PayloadSize(d)
  BY ParserExact DEF AcceptedIfLongEnough
<1>2. /\ PayloadSize(d) \in Nat
      /\ Len(d) \in Nat
      /\ 20 + PayloadSize(d) <= Len(d)
      /\ PayloadSize(d) >= 4 => Count(d) \in 0..4
  BY <1>1, HeaderFacts
<1>3. Needed(d) \in Nat
  <2>1. \/ Needed(d) \in {0, 8, 10}
        \/ Needed(d) = IF PayloadSize(d) < 4 THEN 4 ELSE 4 + Count(d)
    BY <1>1, TypesDiffer DEF Needed, MsgTypes
  <2> QED
    BY <1>2, <2>1
<1> QED
  BY <1>1, <1>2, <1>3 DEF HeaderSize

-----------------------------------------------------------------------------
(* frame_packet *)

\* The word w is behind the first k bytes of d.
WordBehind(d, k, w) ==
    /\ w = [i \in 1..4 |-> w[i]]
    /\ d[k + 1] = w[1] /\ d[k + 2] = w[2] /\ d[k + 3] = w[3] /\ d[k + 4] = w[4]

\* Four bytes in a row are the word they spell.
LEMMA FieldIsWord ==
    ASSUME NEW d, NEW k \in Nat, NEW w, WordBehind(d, k, w)
    PROVE  Field(d, k, 4) = w
<1>1. ASSUME NEW i \in 1..4 PROVE d[k + i] = w[i]
  <2>1. i = 1 \/ i = 2 \/ i = 3 \/ i = 4
    OBVIOUS
  <2> QED
    BY <2>1 DEF WordBehind
<1>2. Field(d, k, 4) = [i \in 1..4 |-> d[k + i]]
  BY DEF Field
<1>3. w = [i \in 1..4 |-> w[i]]
  BY DEF WordBehind
<1> QED
  BY <1>1, <1>2, <1>3

\* n bytes of p behind the header h, as they are and with bytes 9 to 12 zeroed
Behind(h, p, n) ==
    [i \in 1..20 + n |-> IF i <= 20 THEN h[i] ELSE p[i - 20]]
ZeroedBehind(h, p, n) ==
    [i \in 1..20 + n |->
        IF i \in 9..12 THEN 0 ELSE IF i <= 20 THEN h[i] ELSE p[i - 20]]

\* z is h with zeroes for a checksum.
SameButZeroed(h, z) ==
    /\ \A i \in 1..8 : z[i] = h[i]
    /\ \A i \in 9..12 : z[i] = 0
    /\ \A i \in 13..20 : z[i] = h[i]

\* A packet p behind a header h, whose bytes 9 to 12 are then zeroed, is p
\* behind the header z that has zeroes there.
LEMMA ZeroedHeader ==
    ASSUME NEW n \in Nat, NEW h, NEW z, NEW p,
           SameButZeroed(h, z)
    PROVE  ZeroedBehind(h, p, n) = Behind(z, p, n)
<1>1. ASSUME NEW i \in 1..20 + n
      PROVE  (IF i \in 9..12 THEN 0 ELSE IF i <= 20 THEN h[i] ELSE p[i - 20])
               = IF i <= 20 THEN z[i] ELSE p[i - 20]
  <2>1. CASE i \in 1..8
    BY <2>1 DEF SameButZeroed
  <2>2. CASE i \in 9..12
    BY <2>2 DEF SameButZeroed
  <2>3. CASE i \in 13..20
    BY <2>3 DEF SameButZeroed
  <2>4. CASE i > 20
    BY <2>4
  <2> QED
    BY <2>1, <2>2, <2>3, <2>4
<1> QED
  BY <1>1 DEF Behind, ZeroedBehind

\* A packet that frame_packet builds says of itself what is true: its length,
\* its type and its checksum pass the tests of parse_header and its payload is
\* where parse_header looks for it, for every payload that the 16-bit length
\* field can count.  (The magic of a client stands in for the server's.)
THEOREM FramingSound ==
    ASSUME NEW id \in Word, NEW type \in Word, NEW payload \in Seq(Byte)
    PROVE  FramesParse(id, type, payload)
<1> DEFINE n == Len(payload)
           c == Crc32[Packet(MagicClient, <<0, 0, 0, 0>>, id, type, payload)]
           h == Header(MagicClient, c, id, type, payload)
           d == Packet(MagicClient, c, id, type, payload)
<1> SUFFICES ASSUME n + 4 < 65536
             PROVE  /\ HeaderOk(d)
                    /\ Type(d) = type
                    /\ Field(d, 12, 4) = id
                    /\ PayloadSize(d) = n
                    /\ Field(d, HeaderSize, n) = payload
  BY DEF FramesParse, Frame
<1>1. n \in Nat
  OBVIOUS
<1> HIDE DEF n, c
<1>2. /\ h[1] = MagicClient[1] /\ h[2] = MagicClient[2]
      /\ h[3] = MagicClient[3] /\ h[4] = MagicClient[4]
      /\ h[7] = ((n + 4) % 65536) % 256 /\ h[8] = ((n + 4) % 65536) \div 256
      /\ h[9] = c[1] /\ h[10] = c[2] /\ h[11] = c[3] /\ h[12] = c[4]
      /\ h[13] = id[1] /\ h[14] = id[2] /\ h[15] = id[3] /\ h[16] = id[4]
      /\ h[17] = type[1] /\ h[18] = type[2] /\ h[19] = type[3] /\ h[20] = type[4]
  BY DEF Header, n
<1>3. d = [i \in 1..20 + n |-> IF i <= 20 THEN h[i] ELSE payload[i - 20]]
  <2> HIDE DEF h
  <2> QED
    BY DEF Packet, HeaderSize, h, n
<1> HIDE DEF h, d
<1>4. Len(d) = 20 + n
  BY <1>1, <1>3
<1>5. \A i \in 1..20 : d[i] = h[i]
  BY <1>1, <1>3
<1>6. \A i \in 1..n : d[20 + i] = payload[i]
  BY <1>1, <1>3
<1>7. Length(d) = n + 4
  <2>1. d[7] = ((n + 4) % 65536) % 256 /\ d[8] = ((n + 4) % 65536) \div 256
    BY <1>2, <1>5
  <2>2. (n + 4) % 65536 = n + 4
    BY <1>1
  <2> QED
    BY <1>1, <2>1, <2>2 DEF Length
<1>8. Zeroed(d) = Packet(MagicClient, <<0, 0, 0, 0>>, id, type, payload)
  <2> DEFINE z == Header(MagicClient, <<0, 0, 0, 0>>, id, type, payload)
  <2>1. /\ z[1] = h[1] /\ z[2] = h[2] /\ z[3] = h[3] /\ z[4] = h[4]
        /\ z[5] = h[5] /\ z[6] = h[6] /\ z[7] = h[7] /\ z[8] = h[8]
    BY DEF Header, h, n
  <2>2. z[9] = 0 /\ z[10] = 0 /\ z[11] = 0 /\ z[12] = 0
    BY DEF Header
  <2>3. /\ z[13] = h[13] /\ z[14] = h[14] /\ z[15] = h[15] /\ z[16] = h[16]
        /\ z[17] = h[17] /\ z[18] = h[18] /\ z[19] = h[19] /\ z[20] = h[20]
    BY DEF Header, h, n
  <2> HIDE DEF z
  <2>4. Packet(MagicClient, <<0, 0, 0, 0>>, id, type, payload)
          = Behind(z, payload, n)
    BY DEF Packet, HeaderSize, Behind, z, n
  <2>5. Zeroed(d) = ZeroedBehind(h, payload, n)
    <3>1. Zeroed(d) = [i \in 1..20 + n |-> IF i \in 9..12 THEN 0 ELSE d[i]]
      BY <1>4 DEF Zeroed
    <3>2. ASSUME NEW i \in 1..20 + n
          PROVE  d[i] = IF i <= 20 THEN h[i] ELSE payload[i - 20]
      BY <1>3
    <3> QED
      BY <3>1, <3>2 DEF ZeroedBehind
  <2>6. ASSUME NEW i \in 1..8 PROVE z[i] = h[i]
    <3>1. \/ i = 1 \/ i = 2 \/ i = 3 \/ i = 4
          \/ i = 5 \/ i = 6 \/ i = 7 \/ i = 8
      OBVIOUS
    <3> QED
      BY <2>1, <3>1
  <2>7. ASSUME NEW i \in 9..12 PROVE z[i] = 0
    <3>1. i = 9 \/ i = 10 \/ i = 11 \/ i = 12
      OBVIOUS
    <3> QED
      BY <2>2, <3>1
  <2>8. ASSUME NEW i \in 13..20 PROVE z[i] = h[i]
    <3>1. \/ i = 13 \/ i = 14 \/ i = 15 \/ i = 16
          \/ i = 17 \/ i = 18 \/ i = 19 \/ i = 20
      OBVIOUS
    <3> QED
      BY <2>3, <3>1
  <2>9. ZeroedBehind(h, payload, n) = Behind(z, payload, n)
    <3>1. SameButZeroed(h, z)
      BY <2>6, <2>7, <2>8 DEF SameButZeroed
    <3> QED
      BY <1>1, <3>1, ZeroedHeader
  <2> QED
    BY <2>4, <2>5, <2>9
<1>9. Field(d, 0, 4) = MagicClient
  <2>1. MagicClient = [i \in 1..4 |-> MagicClient[i]]
    BY DEF MagicClient
  <2>2. /\ d[0 + 1] = MagicClient[1] /\ d[0 + 2] = MagicClient[2]
        /\ d[0 + 3] = MagicClient[3] /\ d[0 + 4] = MagicClient[4]
    BY <1>2, <1>5
  <2>3. WordBehind(d, 0, MagicClient)
    BY <2>1, <2>2 DEF WordBehind
  <2> QED
    BY <2>3, FieldIsWord
<1>10. \A i \in 1..4 : Crc32[Zeroed(d)][i] = d[8 + i]
  <2>1. Crc32[Zeroed(d)] = c
    BY <1>8 DEF c
  <2>2. d[9] = c[1] /\ d[10] = c[2] /\ d[11] = c[3] /\ d[12] = c[4]
    BY <1>2, <1>5
  <2>3. ASSUME NEW i \in 1..4
        PROVE  c[i] = d[8 + i]
    <3>1. i = 1 \/ i = 2 \/ i = 3 \/ i = 4
      OBVIOUS
    <3>2. 8 + 1 = 9 /\ 8 + 2 = 10 /\ 8 + 3 = 11 /\ 8 + 4 = 12
      OBVIOUS
    <3> QED
      BY <2>2, <3>1, <3>2
  <2> QED
    BY <2>1, <2>3
<1>11. HeaderOk(d)
  BY <1>1, <1>4, <1>7, <1>9, <1>10 DEF HeaderOk, HeaderSize
<1>12. Type(d) = type
  <2>1. type = [i \in 1..4 |-> type[i]]
    BY DEF Word
  <2>2. /\ d[16 + 1] = type[1] /\ d[16 + 2] = type[2]
        /\ d[16 + 3] = type[3] /\ d[16 + 4] = type[4]
    BY <1>2, <1>5
  <2>3. WordBehind(d, 16, type)
    BY <2>1, <2>2 DEF WordBehind
  <2> QED
    BY <2>3, FieldIsWord DEF Type
<1>13. Field(d, 12, 4) = id
  <2>1. id = [i \in 1..4 |-> id[i]]
    BY DEF Word
  <2>2. /\ d[12 + 1] = id[1] /\ d[12 + 2] = id[2]
        /\ d[12 + 3] = id[3] /\ d[12 + 4] = id[4]
    BY <1>2, <1>5
  <2>3. WordBehind(d, 12, id)
    BY <2>1, <2>2 DEF WordBehind
  <2> QED
    BY <2>3, FieldIsWord
<1>14. Field(d, HeaderSize, n) = payload
  <2>1. Field(d, HeaderSize, n) = [i \in 1..n |-> d[20 + i]]
    BY DEF Field, HeaderSize
  <2>2. payload = [i \in 1..n |-> payload[i]]
    BY DEF n
  <2> QED
    BY <1>6, <2>1, <2>2
<1> QED
  BY <1>1, <1>7, <1>9, <1>11, <1>12, <1>13, <1>14 DEF PayloadSize
=============================================================================
