----------------------------- MODULE MCDsuWire -----------------------------
(***************************************************************************)
(* Bounded inputs for DsuWire, with a checksum that depends on the place   *)
(* and the value of every byte, which the .cfg files give to Crc32.  TLC   *)
(* evaluates the assumptions in every run of MCDsuConnection.              *)
(***************************************************************************)
EXTENDS DsuWire

Sum(s) ==
    LET sum[i \in 0..Len(s)] ==
            IF i = 0 THEN 1 ELSE (31 * sum[i - 1] + s[i]) % 65521
    IN  sum[Len(s)]
Checksum ==
    [s \in Seq(Byte) |-> <<Sum(s) % 256, Sum(s) \div 256, Len(s) % 256, 7>>]

AnyId == <<9, 8, 7, 6>>
Unknown == <<3, 0, 16, 0>>

\* Payloads whose first bytes, as a count of slots, are in and out of range
Payloads ==
    {[i \in 1..n |->
        IF i = 1 THEN count[1] ELSE IF i <= 4 THEN count[2] ELSE i] :
        n \in {0, 3, 4, 7, 8, 9, 10},
        count \in {<<0, 0>>, <<3, 0>>, <<5, 0>>, <<1, 1>>}}

Types == MsgTypes \cup {Unknown}

Framed(magic) ==
    {Frame(magic, AnyId, type, payload) : type \in Types, payload \in Payloads}

\* What is too short for a header, or comes from a server, is refused.
ASSUME OthersRefused ==
    /\ \A d \in Framed(MagicServer) : ~HeaderOk(d)
    /\ \A d \in Framed(MagicClient), n \in {0, 3, 19} : ~HeaderOk(SubSeq(d, 1, n))

\* Framing and parsing agree.
ASSUME FramingChecked ==
    \A type \in Types, payload \in Payloads : FramesParse(AnyId, type, payload)

\* The inputs meet every kind of request, and refusals.
ASSUME InputsMeetAll ==
    {ParseClientPacket(d).kind : d \in Framed(MagicClient)}
        = {"none", "version", "ports", "data", "motors", "rumble"}
=============================================================================
