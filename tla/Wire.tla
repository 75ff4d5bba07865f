-------------------------------- MODULE Wire --------------------------------
(***************************************************************************)
(* The packet codec (src/packet/): every packet the connection can send,   *)
(* encoded to a datagram and parsed back.                                  *)
(*                                                                         *)
(* A datagram is a sequence of bytes.  A byte has Base values (256 on the  *)
(* real wire); half-words are 2 bytes, words 4, and every bit field sits   *)
(* where the code puts it, counted from the top bit of its word, so that   *)
(* the layout is the real one at any power of two.  A stream id is the     *)
(* sequence of its bytes, and the UTF-8 replacement is left out.           *)
(***************************************************************************)
EXTENDS SeqNumber, Sequences, SequencesExt, FiniteSets

CONSTANTS
    Base,        \* values of a byte (256)
    RejectBase,  \* first rejection code (1000)
    MaxSid,      \* longest stream id on the wire (512)
    Packets,     \* packets the two ends send each other
    StrayBytes,  \* bytes the path may append
    MaxStray     \* bound: how many of them

Half == Base * Base
Word == Half * Half

\* ControlType, by the name of its variant.
ControlKinds ==
    {"handshake", "keepalive", "ack", "nak", "congestion", "shutdown", "ackack", "dropreq",
     "peererror", "kmreq", "kmrsp"}

ASSUME WireAssumption ==
    /\ Base \in {8, 16, 32, 64, 128, 256}
    /\ SeqSpace = Word \div 2
    /\ RejectBase \in 2 .. Word \div 2 - 1
    /\ MaxSid \in Nat \ {0}
    /\ StrayBytes \subseteq 0 .. Base - 1
    /\ MaxStray \in 0 .. 3
    /\ \A p \in Packets : p.kind = "data" \/ p.control_type.kind \in ControlKinds

HeaderSize == 16
CifSize == 48

None == -1

\* Definitions named Mut... are deliberate bugs; no specification uses them.

-----------------------------------------------------------------------------
\* read_u32, read_u16 and put_u32: big-endian, at a byte offset counted from 0.
BigEndian(value, n) == [i \in 1 .. n |-> (value \div Base ^ (n - i)) % Base]

PutU32(value) == BigEndian(value, 4)
PutU16(value) == BigEndian(value, 2)

ReadU16(buf, off) == buf[off + 1] * Base + buf[off + 2]
ReadU32(buf, off) == ReadU16(buf, off) * Half + ReadU16(buf, off + 2)

From(buf, off) == SubSeq(buf, off + 1, Len(buf))

\* Results of a parser: PacketError.
Fail(error) == [kind |-> "error", error |-> error]
TooShort == Fail("TooShort")
BadCif == Fail("BadCif")
BadHandshake == Fail("BadHandshake")
UnknownControlType == Fail("UnknownControlType")
Failed(result) == result.kind = "error"

-----------------------------------------------------------------------------
\* Data packets.  Word 1 is PP (2 bits), O, KK (2 bits), R, message number.
MsgSpace == Word \div 64

DataWord1(p) ==
    p.position * (Word \div 4) + p.order * (Word \div 8) + p.encryption * (Word \div 32)
      + p.retransmitted * (Word \div 64) + p.msg_number

EncodeData(p) ==
    PutU32(p.seq) \o PutU32(DataWord1(p)) \o PutU32(p.timestamp) \o PutU32(p.dst_socket_id)
      \o p.payload

ParseData(buf) ==
    IF Len(buf) < HeaderSize THEN TooShort
    ELSE LET word1 == ReadU32(buf, 4) IN
         [kind |-> "data",
          seq |-> ReadU32(buf, 0) % SeqSpace,
          position |-> word1 \div (Word \div 4),
          order |-> (word1 \div (Word \div 8)) % 2,
          encryption |-> (word1 \div (Word \div 32)) % 4,
          retransmitted |-> (word1 \div (Word \div 64)) % 2,
          msg_number |-> word1 % MsgSpace,
          timestamp |-> ReadU32(buf, 8),
          dst_socket_id |-> ReadU32(buf, 12),
          payload |-> From(buf, HeaderSize)]

-----------------------------------------------------------------------------
\* ACK: the length of the CIF decides which fields are there.  An ACK holds
\* its optional fields as a sequence of six, None where absent.
AckCif(seq, fields) == [kind |-> "ack_cif", last_ack_seq |-> seq, fields |-> fields]

NoFields == [i \in 1 .. 6 |-> None]

ParseAckCif(cif) ==
    LET words   == Len(cif) \div 4
        present == IF words >= 7 THEN 6 ELSE IF words >= 6 THEN 5 ELSE 3
    IN  IF Len(cif) = 4 THEN AckCif(ReadU32(cif, 0) % SeqSpace, NoFields)
        ELSE IF Len(cif) < 16 THEN BadCif
        ELSE AckCif(ReadU32(cif, 0) % SeqSpace,
                    [i \in 1 .. 6 |-> IF i <= present THEN ReadU32(cif, 4 * i) ELSE None])

\* The longest contiguous prefix of fields that are there.
EncodeAckCif(cif) ==
    LET written == {i \in 1 .. 6 : \A j \in 1 .. i : cif.fields[j] # None} IN
    PutU32(cif.last_ack_seq)
      \o FlattenSeq([i \in 1 .. Cardinality(written) |-> PutU32(cif.fields[i])])

\* NAK: single numbers as they are, a range as two words with the top bit of
\* the first set.
NakRangeFlag == Word \div 2

RangeWords(r) ==
    IF r.first = r.last THEN <<r.first>> ELSE <<r.first + NakRangeFlag, r.last>>

EncodeLossList(list) ==
    FlattenSeq([i \in 1 .. Len(list) |-> FlattenSeq([j \in DOMAIN RangeWords(list[i]) |->
                                                       PutU32(RangeWords(list[i])[j])])])

RECURSIVE LossRanges(_, _)
LossRanges(words, acc) ==
    IF words = <<>> THEN [kind |-> "nak", ranges |-> acc]
    ELSE LET first == words[1] % SeqSpace IN
         IF words[1] < NakRangeFlag
           THEN LossRanges(Tail(words), Append(acc, [first |-> first, last |-> first]))
         ELSE IF Len(words) = 1 THEN BadCif
         ELSE LET last == words[2] % SeqSpace IN
              IF SeqDiff(first, last) > 0 THEN BadCif
              ELSE LossRanges(SubSeq(words, 3, Len(words)),
                              Append(acc, [first |-> first, last |-> last]))

ParseLossList(cif) ==
    LET words == [i \in 1 .. Len(cif) \div 4 |-> ReadU32(cif, 4 * (i - 1))] IN
    IF words = <<>> THEN BadCif ELSE LossRanges(words, <<>>)

MutParseDropRequest(info, cif) ==
    [kind |-> "dropreq", msg_number |-> info % MsgSpace,
     first |-> IF Len(cif) < 4 THEN 0 ELSE ReadU32(cif, 0) % SeqSpace,
     last |-> IF Len(cif) < 8 THEN 0 ELSE ReadU32(cif, 4) % SeqSpace]

ParseDropRequest(info, cif) ==
    IF Len(cif) < 8 THEN BadCif
    ELSE [kind |-> "dropreq", msg_number |-> info % MsgSpace,
          first |-> ReadU32(cif, 0) % SeqSpace, last |-> ReadU32(cif, 4) % SeqSpace]

-----------------------------------------------------------------------------
\* Handshake types.  A rejection carries its code.
FromU32(value) ==
    IF value = 0 THEN [kind |-> "Waveahand", code |-> 0]
    ELSE IF value = 1 THEN [kind |-> "Induction", code |-> 0]
    ELSE IF value = Word - 1 THEN [kind |-> "Conclusion", code |-> 0]
    ELSE IF value = Word - 2 THEN [kind |-> "Agreement", code |-> 0]
    ELSE IF value \in RejectBase .. Word \div 2 - 1 THEN [kind |-> "Rejection", code |-> value]
    ELSE BadHandshake

ToU32(type) ==
    CASE type.kind = "Waveahand"  -> 0
      [] type.kind = "Induction"  -> 1
      [] type.kind = "Conclusion" -> Word - 1
      [] type.kind = "Agreement"  -> Word - 2
      [] type.kind = "Rejection"  -> type.code

\* Extension commands, and the Extension Field bit of each block.
CmdHsReq == 1
CmdHsRsp == 2
CmdKmReq == 3
CmdKmRsp == 4
CmdSid == 5
CmdCongestion == 6

ExtBit(ext) ==
    CASE ext.cmd \in {CmdHsReq, CmdHsRsp} -> 1
      [] ext.cmd \in {CmdKmReq, CmdKmRsp} -> 2
      [] OTHER -> 4

ExtensionBits(exts) == SumSet({ExtBit(exts[i]) : i \in DOMAIN exts})

\* A block: its variant, command and content.  HSREQ and HSRSP hold version,
\* flags, receive latency and send latency; the strings and blobs their bytes.
Ext(variant, cmd, body) == [variant |-> variant, cmd |-> cmd, body |-> body]

\* Each word of a byte string padded with NULs and reversed.
PackBytesWords(bytes) ==
    LET words == (Len(bytes) + 3) \div 4
        Source(i) == 4 * ((i - 1) \div 4) + 4 - ((i - 1) % 4)
    IN  [i \in 1 .. 4 * words |-> IF Source(i) <= Len(bytes) THEN bytes[Source(i)] ELSE 0]

UnpackBytesWords(content) ==
    LET bytes == PackBytesWords(content) IN
    SubSeq(bytes, 1, Max({0} \cup {i \in DOMAIN bytes : bytes[i] # 0}))

HsExtFieldsEncode(f) ==
    PutU32(f[1]) \o PutU32(f[2]) \o PutU32(f[3] * Half + f[4])

MutLatenciesSwapped(content) ==
    <<ReadU32(content, 0), ReadU32(content, 4),
      ReadU32(content, 8) % Half, ReadU32(content, 8) \div Half>>

HsExtFieldsParse(content) ==
    <<ReadU32(content, 0), ReadU32(content, 4),
      ReadU32(content, 8) \div Half, ReadU32(content, 8) % Half>>

ExtContent(ext) ==
    CASE ext.variant = "Hs"     -> HsExtFieldsEncode(ext.body)
      [] ext.variant = "String" -> PackBytesWords(ext.body)
      [] ext.variant \in {"Km", "Invalid", "Unknown"} -> ext.body

EncodeExtension(ext) ==
    PutU16(ext.cmd) \o PutU16(Len(ExtContent(ext)) \div 4) \o ExtContent(ext)

\* Content that fails validation makes the block invalid, not the packet.
ParseExtension(cmd, content) ==
    CASE cmd \in {CmdHsReq, CmdHsRsp} /\ Len(content) >= 12 ->
           Ext("Hs", cmd, HsExtFieldsParse(content))
      [] cmd \in {CmdHsReq, CmdHsRsp} /\ Len(content) < 12 -> Ext("Invalid", cmd, content)
      [] cmd \in {CmdKmReq, CmdKmRsp} -> Ext("Km", cmd, content)
      [] cmd = CmdSid /\ Len(content) \notin 1 .. MaxSid -> Ext("Invalid", cmd, content)
      [] cmd = CmdSid /\ Len(content) \in 1 .. MaxSid ->
           Ext("String", cmd, UnpackBytesWords(content))
      [] cmd = CmdCongestion -> Ext("String", cmd, UnpackBytesWords(content))
      [] OTHER -> Ext("Unknown", cmd, content)

\* Up to three stray bytes after the last block are ignored.
RECURSIVE ParseExtensions(_, _)
ParseExtensions(buf, acc) ==
    IF Len(buf) < 4 THEN [kind |-> "extensions", list |-> acc]
    ELSE LET length == 4 * ReadU16(buf, 2) IN
         IF Len(buf) - 4 < length THEN BadHandshake
         ELSE ParseExtensions(From(buf, 4 + length),
                Append(acc, ParseExtension(ReadU16(buf, 0), SubSeq(buf, 5, 4 + length))))

\* The Extension Field follows the attached blocks, if there are any.
ExtensionField(cif) ==
    IF cif.extensions = <<>> THEN cif.extension_field ELSE ExtensionBits(cif.extensions)

EncodeCif(cif) ==
    PutU32(cif.version) \o PutU16(cif.encryption) \o PutU16(ExtensionField(cif))
      \o PutU32(cif.initial_seq) \o PutU32(cif.mss) \o PutU32(cif.flow_window)
      \o PutU32(ToU32(cif.handshake_type)) \o PutU32(cif.socket_id) \o PutU32(cif.cookie)
      \o cif.peer_ip
      \o FlattenSeq([i \in DOMAIN cif.extensions |-> EncodeExtension(cif.extensions[i])])

ParseCif(buf) ==
    IF Len(buf) < CifSize THEN TooShort
    ELSE IF ReadU32(buf, 8) >= SeqSpace - 1 THEN BadHandshake
    ELSE LET type == FromU32(ReadU32(buf, 20))
             exts == ParseExtensions(From(buf, CifSize), <<>>)
         IN  IF Failed(type) THEN type
             ELSE IF Failed(exts) THEN exts
             ELSE [kind |-> "handshake",
                   version |-> ReadU32(buf, 0),
                   encryption |-> ReadU16(buf, 4),
                   extension_field |-> ReadU16(buf, 6),
                   initial_seq |-> ReadU32(buf, 8),
                   mss |-> ReadU32(buf, 12),
                   flow_window |-> ReadU32(buf, 16),
                   handshake_type |-> type,
                   socket_id |-> ReadU32(buf, 24),
                   cookie |-> ReadU32(buf, 28),
                   peer_ip |-> SubSeq(buf, 33, 48),
                   extensions |-> exts.list]

\* encode_peer_ip: the octets reversed, the other words zero.
EncodePeerIp(octets) == Reverse(octets) \o [i \in 1 .. 12 |-> 0]

-----------------------------------------------------------------------------
\* Control packets: type code and subtype in word 0, word 1 by type.
UserType == Half \div 2 - 1

TypeCode(ct) ==
    CASE ct.kind = "handshake"  -> 0
      [] ct.kind = "keepalive"  -> 1
      [] ct.kind = "ack"        -> 2
      [] ct.kind = "nak"        -> 3
      [] ct.kind = "congestion" -> 4
      [] ct.kind = "shutdown"   -> 5
      [] ct.kind = "ackack"     -> 6
      [] ct.kind = "dropreq"    -> 7
      [] ct.kind = "peererror"  -> 8
      [] ct.kind \in {"kmreq", "kmrsp"} -> UserType

Subtype(ct) ==
    CASE ct.kind = "kmreq" -> CmdKmReq
      [] ct.kind = "kmrsp" -> CmdKmRsp
      [] OTHER -> 0

TypeSpecificInfo(ct) ==
    CASE ct.kind \in {"ack", "ackack"} -> ct.ack_number
      [] ct.kind = "dropreq"   -> ct.msg_number
      [] ct.kind = "peererror" -> ct.code
      [] OTHER -> 0

\* Packets without a CIF carry a word of zeros.
ControlCif(ct) ==
    CASE ct.kind = "handshake" -> EncodeCif(ct)
      [] ct.kind = "ack"       -> EncodeAckCif(ct.cif)
      [] ct.kind = "nak"       -> EncodeLossList(ct.ranges)
      [] ct.kind = "dropreq"   -> PutU32(ct.first) \o PutU32(ct.last)
      [] ct.kind \in {"kmreq", "kmrsp"} -> ct.blob
      [] OTHER -> PutU32(0)

EncodeControl(p) ==
    LET ct == p.control_type IN
    PutU32(Word \div 2 + TypeCode(ct) * Half + Subtype(ct)) \o PutU32(TypeSpecificInfo(ct))
      \o PutU32(p.timestamp) \o PutU32(p.dst_socket_id) \o ControlCif(ct)

ParseControlType(code, subtype, info, cif) ==
    CASE code = 0 -> ParseCif(cif)
      [] code = 1 -> [kind |-> "keepalive"]
      [] code = 2 -> LET ack == ParseAckCif(cif) IN
                     IF Failed(ack) THEN ack
                     ELSE [kind |-> "ack", ack_number |-> info, cif |-> ack]
      [] code = 3 -> ParseLossList(cif)
      [] code = 4 -> [kind |-> "congestion"]
      [] code = 5 -> [kind |-> "shutdown"]
      [] code = 6 -> [kind |-> "ackack", ack_number |-> info]
      [] code = 7 -> ParseDropRequest(info, cif)
      [] code = 8 -> [kind |-> "peererror", code |-> info]
      [] code = UserType /\ subtype = CmdKmReq -> [kind |-> "kmreq", blob |-> cif]
      [] code = UserType /\ subtype = CmdKmRsp -> [kind |-> "kmrsp", blob |-> cif]
      [] OTHER -> UnknownControlType

ParseControl(buf) ==
    IF Len(buf) < HeaderSize THEN TooShort
    ELSE LET word0 == ReadU32(buf, 0)
             ct == ParseControlType((word0 \div Half) % (Half \div 2), word0 % Half,
                                    ReadU32(buf, 4), From(buf, HeaderSize))
         IN  IF Failed(ct) THEN ct
             ELSE [kind |-> "control", timestamp |-> ReadU32(buf, 8),
                   dst_socket_id |-> ReadU32(buf, 12), control_type |-> ct]

\* Any packet, told apart by the top bit of the first byte.
Encode(p) == IF p.kind = "data" THEN EncodeData(p) ELSE EncodeControl(p)

Parse(buf) ==
    IF buf # <<>> /\ buf[1] < Base \div 2 THEN ParseData(buf) ELSE ParseControl(buf)

\* The responder's check of the blocks of a CONCLUSION against its Extension
\* Field (Listener::on_conclusion).
ExtensionsMatch(cif) ==
    LET Has(variant) == \E i \in DOMAIN cif.extensions : cif.extensions[i].variant = variant IN
    /\ cif.extension_field % 2 = 1
    /\ Has("Hs")
    /\ ((cif.extension_field \div 2) % 2 = 1) = Has("Km")

-----------------------------------------------------------------------------
\* A datagram on its way: whole, cut short, or with a few stray bytes behind it.
VARIABLES
    sent,      \* the packet that was encoded
    datagram,  \* the bytes that arrive
    missing,   \* bytes cut from the end
    stray      \* bytes appended to the end

wireVars == <<sent, datagram, missing, stray>>

WireInit ==
    /\ sent \in Packets
    /\ datagram = Encode(sent)
    /\ missing = 0
    /\ stray = 0

CutByte ==
    /\ stray = 0
    /\ datagram # <<>>
    /\ datagram' = Front(datagram)
    /\ missing' = missing + 1
    /\ UNCHANGED <<sent, stray>>

AddByte(b) ==
    /\ missing = 0
    /\ stray < MaxStray
    /\ datagram' = Append(datagram, b)
    /\ stray' = stray + 1
    /\ UNCHANGED <<sent, missing>>

WireNext == CutByte \/ \E b \in StrayBytes : AddByte(b)

WireSpec == WireInit /\ [][WireNext]_wireVars

-----------------------------------------------------------------------------
\* The packet as it goes out: a handshake's Extension Field follows its blocks.
AsSent(p) ==
    IF p.kind = "control" /\ p.control_type.kind = "handshake"
      THEN [p EXCEPT !.control_type.extension_field = ExtensionField(p.control_type)]
      ELSE p

\* Every packet round-trips: a whole datagram parses to the packet that was
\* encoded (packet/mod.rs), and whatever a datagram of any length parses to
\* does so again after it is encoded anew, as when the listener echoes a
\* request in its reply.
RoundTrip ==
    LET got == Parse(datagram) IN
    /\ missing = 0 /\ stray = 0 => got = AsSent(sent)
    /\ ~Failed(got) => Parse(Encode(got)) = AsSent(got)

\* One is a prefix of the other.
Comparable(s, t) == IsPrefix(s, t) \/ IsPrefix(t, s)

\* A conclusion without its tail is refused by the responder, or still carries
\* the same HSREQ and key material.
ConclusionKept(got, p) ==
    LET Blocks(h, variant) == SelectSeq(h.extensions, LAMBDA e : e.variant = variant) IN
    p.handshake_type.kind = "Conclusion" /\ ExtensionsMatch(got) =>
        \A variant \in {"Hs", "Km"} : Blocks(got, variant) = Blocks(p, variant)

\* got says nothing that p does not say.
SaysNoMore(got, p) ==
    CASE p.kind = "ack" -> /\ got.ack_number = p.ack_number
                           /\ got.cif.last_ack_seq = p.cif.last_ack_seq
                           /\ \A i \in 1 .. 6 : got.cif.fields[i] \in {None, p.cif.fields[i]}
      [] p.kind = "nak" -> got.ranges # <<>> /\ IsPrefix(got.ranges, p.ranges)
      [] p.kind = "handshake" -> /\ IsPrefix(got.extensions, p.extensions)
                                 /\ [got EXCEPT !.extensions = p.extensions] = p
                                 /\ ConclusionKept(got, p)
      [] p.kind \in {"kmreq", "kmrsp"} -> Comparable(got.blob, p.blob)
      [] OTHER -> got = p

\* A datagram of the wrong length is refused or says no more than was sent: a
\* field is never read from bytes that are not there, a loss range never loses
\* its end, a missing extension block never turns into another one (the length
\* checks of the parsers in packet/).  Only the byte strings at the end of data
\* and KM packets follow the length.  A conclusion cut at the end of a block never
\* passes for an unencrypted one (the Extension Field check of on_conclusion).
WrongLengthNeverMisread ==
    LET got == Parse(datagram)
        p == AsSent(sent)
    IN  \/ Failed(got)
        \/ /\ got.kind = p.kind
           /\ got.timestamp = p.timestamp
           /\ got.dst_socket_id = p.dst_socket_id
           /\ IF p.kind = "data"
                THEN /\ Comparable(got.payload, p.payload)
                     /\ [got EXCEPT !.payload = p.payload] = p
                ELSE /\ got.control_type.kind = p.control_type.kind
                     /\ SaysNoMore(got.control_type, p.control_type)
=============================================================================
