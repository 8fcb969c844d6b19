------------------------------ MODULE Protocol ------------------------------
(***************************************************************************)
(* The bytes of a client's first packet: variable-length integers, which   *)
(* protocol generation a prefix belongs to, how long the packet is, and    *)
(* the readers and writers of the handshakes (protocol/common.c,           *)
(* handshake.c, handshake_legacy.c, basic.c).                              *)
(*                                                                         *)
(* Bytes are numbers, so the framing is the real one.  Widths and length   *)
(* limits are constants: an instance is narrower than the program but has  *)
(* the same boundaries.                                                    *)
(***************************************************************************)
EXTENDS Naturals, Sequences, FiniteSetsExt, Seqs

CONSTANTS
    VARINT_T_MAXIDX,                \* index of the last byte of the widest varint
    VARINT_T_LAST_MASK,             \* largest value of that byte
    PROTOHANDSHAKE_ADDRESSMAXLEN,
    PROTOHANDSHAKE_USERNAMEMAXLEN,
    LEGACY_FIELD_SIZE,              \* sizeof(p_login_legacy.address), and of .username
    PVERDB_R_1_20_1,                \* newest release whose second frame marks a signature,
    PVERDB_S_1_20_1_RC1,            \* and newest snapshot,
    PVERDB_SNAPBIT,                 \* which is numbered with this bit (PVERDB_SNAPMASK is the others)
    BUFSIZ

Status == 1
Login == 2
Transfer == 3
Unspecified == 0

Semicolon == 59
Colon == 58
Question == 63
Digit0 == 48

From(s, i) == SubSeq(s, i, Len(s))
First(s, i, n) == SubSeq(s, i, i + n - 1)
Power128(n) == <<1, 128, 16384, 2097152>>[n + 1]

\* The position of the first byte in a set, or one past the end.
Find(s, bytes) ==
    CHOOSE i \in 1..(Len(s) + 1) : /\ i <= Len(s) => s[i] \in bytes
                                  /\ \A j \in 1..(i - 1) : s[j] \notin bytes

CString(s) == SubSeq(s, 1, Find(s, {0}) - 1)

----------------------------------------------------------------------------
(* Integers on the wire.                                                   *)

varint_size(n) ==
    CHOOSE k \in 1..(VARINT_T_MAXIDX + 1) : /\ n < Power128(k)
                                            /\ k = 1 \/ n >= Power128(k - 1)

int2varint(n) ==
    [i \in 1..varint_size(n) |->
        ((n \div Power128(i - 1)) % 128) + (IF i < varint_size(n) THEN 128 ELSE 0)]

\* A varint whose last byte is the one given, and the position after it.
Varint(status, value, next) == [status |-> status, value |-> value, next |-> next]
VarintUpTo(s, last) ==
    LET widest == VARINT_T_MAXIDX + 1
        value[i \in 0..last] == IF i = 0 THEN 0 ELSE value[i - 1] + (s[i] % 128) * Power128(i - 1)
    IN  CASE last > widest /\ Len(s) >= widest -> Varint("INVALID", 0, 1)
          [] last > Len(s) /\ Len(s) < widest -> Varint("INCOMPLETE", 0, 1)
          [] last = widest /\ s[last] > VARINT_T_LAST_MASK -> Varint("INVALID", 0, 1)
          [] OTHER -> Varint("COMPLETE", value[last], last + 1)

varint2int(s) == VarintUpTo(s, Find(s, 0..127))

\* A varint between two positions of a buffer; several in a row.
Read(s, at, end) == [varint2int(SubSeq(s, at, end)) EXCEPT !.next = at + @ - 1]
Reads(s, at, end, n) ==
    LET v[i \in 1..n] == Read(s, IF i = 1 THEN at ELSE v[i - 1].next, end)
    IN  v

Complete(v) == v.status = "COMPLETE"

protocol_uint16_read(s, at) == s[at] * 256 + s[at + 1]
protocol_uint16_write(n) == <<n \div 256, n % 256>>

\* Legacy strings carry two bytes a character.
packetexpand(s) == FlattenSeq([i \in 1..Len(s) |-> <<0, s[i]>>])
packetshrink(s) == SelectSeq(s, LAMBDA b : b # 0)

----------------------------------------------------------------------------
(* Which generation a prefix belongs to, and how long its packet is.       *)

Identified(version, intent) == [version |-> version, intent |-> intent]
Unidentified == Identified("UNIDENT", Unspecified)

\* The first frame of a modern handshake: its last byte is the intent.
FrameIdentify(s, frame, end) ==
    LET v == Reads(s, frame.next, end, 2)
    IN  IF /\ Complete(frame) /\ frame.value # 0 /\ end <= Len(s)
           /\ Complete(v[1]) /\ v[1].value = 0
           /\ Complete(v[2]) /\ v[2].next <= end
           /\ s[end] \in {Status, Login, Transfer}
        THEN Identified(IF v[2].value # 0 THEN "MODERN2" ELSE "MODERN1", s[end])
        ELSE Unidentified

LastOf(frame) == frame.next + frame.value - 1
ModernIdentify(s) ==
    LET frame == Read(s, 1, Len(s))
    IN  FrameIdentify(s, frame, LastOf(frame))

Legacy(s) == s[1] = 254 /\ (Len(s) = 1 \/ (s[2] = 1 /\ (Len(s) = 2 \/ s[3] = 250)))

protocol_identify(s) ==
    LET has(c) == \E i \in 4..Len(s) : s[i] = c
    IN  CASE s = <<>> -> Unidentified
          [] s[1] = 1 -> Identified("ORIGPRO", Unspecified)
          [] s[1] = 2 /\ (Len(s) < 2 \/ (s[2] = 0 /\ Len(s) < 3)) -> Unidentified
          [] s[1] = 2 /\ s[2] = 0 ->
                Identified(IF has(Semicolon) /\ has(Colon) THEN "LEGACYL2" ELSE "LEGACYL1", Unspecified)
          [] s[1] = 2 -> Identified(IF s[2] = 31 THEN "LEGACYL3" ELSE "LEGACYL4", Unspecified)
          [] Legacy(s) -> Identified(<<"LEGACYM1", "LEGACYM2", "LEGACYM3">>[IF Len(s) > 3 THEN 3 ELSE Len(s)], Unspecified)
          [] OTHER -> ModernIdentify(s)

Packet(status, size) == [status |-> status, size |-> size]
Whole(s, size) == Packet(IF Len(s) < size THEN "INCOMPLETE" ELSE "COMPLETE", size)

LoginLength(s) ==
    LET name_end == 4 + protocol_uint16_read(s, 3) * 2
    IN  CASE Len(s) < 2 -> Packet("INCOMPLETE", 2)
          [] Len(s) < 4 -> Packet("INCOMPLETE", 4)
          [] s[2] = 0 -> Whole(s, 3 + s[3] * (IF s[4] = 0 THEN 2 ELSE 1))
          [] s[2] = 31 -> Whole(s, name_end)
          [] Len(s) < name_end + 2 -> Packet("INCOMPLETE", name_end + 2)
          [] OTHER -> Whole(s, name_end + 2 + protocol_uint16_read(s, name_end + 1) * 2 + 4)

PingLength(s) ==
    CASE Len(s) < 3 -> Packet("AMBIGUOUS", 3)
      [] Len(s) < 32 -> Packet("INCOMPLETE", 32)
      [] OTHER -> Whole(s, 32 + protocol_uint16_read(s, 31) * 2 + 4)

\* A frame length that is not there yet, or is none at all.
NoFrame(s, v) == Packet(v.status, IF v.status = "INCOMPLETE" THEN Len(s) + 1 ELSE 0)

\* A login or transfer is two frames, a status request one.
SecondLength(s, first, two) ==
    CASE ~Complete(two) -> NoFrame(s, two)
      [] two.value = 0 -> Packet("INVALID", first)
      [] OTHER -> Whole(s, LastOf(two))
FirstLength(s, first, seen) ==
    CASE seen.version = "UNIDENT" -> Packet("INVALID", first)
      [] seen.version = "MODERN1" \/ seen.intent = Status -> Packet("COMPLETE", first)
      [] OTHER -> SecondLength(s, first, Read(s, first + 1, Len(s)))
ModernLength(s) ==
    LET one == Read(s, 1, Len(s))
    IN  CASE ~Complete(one) -> NoFrame(s, one)
          [] one.value = 0 -> Packet("INVALID", 0)
          [] Len(s) < LastOf(one) -> Packet("INCOMPLETE", LastOf(one))
          [] OTHER -> FirstLength(s, LastOf(one), protocol_identify(SubSeq(s, 1, LastOf(one))))

protocol_packet_length(s) ==
    CASE s = <<>> -> Packet("INCOMPLETE", 1)
      [] s[1] = 1 -> Packet("COMPLETE", 1)
      [] s[1] = 2 -> LoginLength(s)
      [] Legacy(s) -> PingLength(s)
      [] OTHER -> ModernLength(s)

----------------------------------------------------------------------------
(* The modern handshake.                                                   *)

NoHandshake ==
    [ok |-> FALSE, id_part1 |-> 0, version |-> 0, address |-> <<>>, address_extra |-> <<>>, port |-> 0,
     nextstate |-> 0, id_part2 |-> 0, named |-> FALSE, username |-> <<>>, signature_data |-> <<>>]

SignatureMarked(version) ==
    \/ version <= PVERDB_R_1_20_1
    \/ version - ((version \div PVERDB_SNAPBIT) % 2) * PVERDB_SNAPBIT <= PVERDB_S_1_20_1_RC1
Joins(intent) == intent \in {Login, Transfer}

\* The second frame: the user's name and whatever the frame still holds.
LoginRead(h, s, size) ==
    LET end == LastOf(size)
        v == Reads(s, size.next, end, 2)
        name == v[2]
        rest == SubSeq(s, LastOf(name) + 1, end)
    IN  IF /\ Complete(size) /\ end <= Len(s)
           /\ Complete(v[1])
           /\ Complete(name) /\ name.value <= PROTOHANDSHAKE_USERNAMEMAXLEN /\ LastOf(name) <= end
        THEN [h EXCEPT !.id_part2 = v[1].value, !.named = TRUE,
                       !.username = CString(First(s, name.next, name.value)),
                       !.signature_data = IF SignatureMarked(h.version) /\ rest # <<>> /\ rest[1] = 1
                                          THEN Tail(rest) ELSE rest]
        ELSE NoHandshake

\* The address of the first frame ends at a zero or a question mark.
Named(h, wire, cut) == [h EXCEPT !.address = SubSeq(wire, 1, cut - 1), !.address_extra = From(wire, cut)]

\* The first frame: what is left of it once id, version and the length of the
\* address are read.
FrameRead(s, size, v) ==
    LET end == LastOf(size)
        length == v[3]
        port_at == LastOf(length) + 1
        wire == First(s, length.next, length.value)
        intent == Read(s, port_at + 2, end)
        first == Named([NoHandshake EXCEPT !.ok = TRUE, !.id_part1 = v[1].value, !.version = v[2].value,
                                           !.port = protocol_uint16_read(s, port_at), !.nextstate = intent.value],
                       wire, Find(wire, {0, Question}))
    IN  IF /\ Complete(size) /\ end <= Len(s)
           /\ \A i \in 1..3 : Complete(v[i])
           /\ length.value \in 1..PROTOHANDSHAKE_ADDRESSMAXLEN
           /\ port_at + 1 <= end
           /\ Complete(intent) /\ intent.next = end + 1
        THEN IF Joins(intent.value) THEN LoginRead(first, s, Read(s, intent.next, Len(s))) ELSE first
        ELSE NoHandshake

packet_read(s) ==
    LET size == Read(s, 1, Len(s))
    IN  FrameRead(s, size, Reads(s, size.next, LastOf(size), 3))

Framed(part) == int2varint(Len(part)) \o part

\* Nothing when a field is missing, too long, or the packet does not fit.
packet_write(h, capacity) ==
    LET part1 == int2varint(h.id_part1) \o int2varint(h.version)
                 \o int2varint(Len(h.address) + Len(h.address_extra)) \o h.address \o h.address_extra
                 \o protocol_uint16_write(h.port) \o int2varint(h.nextstate)
        marker == IF h.signature_data # <<>> /\ SignatureMarked(h.version) THEN <<1>> ELSE <<>>
        login == int2varint(Len(h.username)) \o h.username \o marker \o h.signature_data
        part2 == int2varint(h.id_part2) \o (IF Joins(h.nextstate) THEN login ELSE <<>>)
        packet == Framed(part1) \o Framed(part2)
    IN  IF /\ h.ok /\ Len(h.address) + Len(h.address_extra) <= PROTOHANDSHAKE_ADDRESSMAXLEN
           /\ Joins(h.nextstate) => /\ h.named /\ Len(h.username) <= PROTOHANDSHAKE_USERNAMEMAXLEN
                                    /\ Len(h.signature_data) + Len(h.username) + 8 <= BUFSIZ
           /\ Len(packet) <= capacity
        THEN packet ELSE <<>>

----------------------------------------------------------------------------
(* The legacy login and the legacy ping.                                   *)

NoLogin == [version |-> 0, username |-> <<>>, address |-> <<>>, port |-> 0]

\* A field of the zero-filled copy that packetshrink leaves.
Padded(s, i) == IF i <= Len(s) THEN s[i] ELSE 0
Field(s, i, n) == CString([k \in 1..n |-> Padded(s, i + k - 1)])
Truncated(n) == IF n < LEGACY_FIELD_SIZE THEN n ELSE LEGACY_FIELD_SIZE - 1

packet_read_legacy_login(s, version) ==
    LET q == packetshrink(s)
        field == Field(q, 3, Truncated(Padded(q, 2)))
        split == Find(field, {Semicolon})
        place == From(field, split + 1)
        colon == Max({0} \cup {i \in 1..Len(place) : place[i] = Colon})
        name == Padded(q, 3)
        length == Padded(q, 4 + name)
    IN  CASE version = "LEGACYL2" /\ split > Len(field) -> NoLogin
          [] version = "LEGACYL2" ->
                [NoLogin EXCEPT !.username = SubSeq(field, 1, split - 1), !.address = SubSeq(place, 1, colon - 1)]
          [] name >= LEGACY_FIELD_SIZE \/ length >= LEGACY_FIELD_SIZE -> NoLogin
          [] OTHER -> [NoLogin EXCEPT !.version = Padded(q, 2), !.username = Field(q, 4, name),
                                      !.address = Field(q, 5 + name, length)]

\* Ports in decimal, most significant digit first.
Decimal(n) ==
    LET digits == CHOOSE k \in 1..5 : n < 10 ^ k /\ (k = 1 \/ n >= 10 ^ (k - 1))
    IN  [i \in 1..digits |-> Digit0 + ((n \div 10 ^ (digits - i)) % 10)]

\* The length of a field goes into one byte.
packet_write_legacy_login(l, version) ==
    LET counted(s) == packetexpand(<<Len(s) % 256>> \o s)
    IN  IF version = "LEGACYL2"
        THEN <<2>> \o counted(l.username \o <<Semicolon>> \o l.address \o <<Colon>> \o Decimal(l.port))
        ELSE <<2, l.version>> \o counted(l.username) \o counted(l.address) \o <<0, 0>> \o protocol_uint16_write(l.port)

NoPing == [ok |-> FALSE, version |-> 0, address |-> <<>>, port |-> 0]

\* "MC|PingHost", after the three bytes that announce it.
PingHost == <<254, 1, 250, 0, 11>> \o packetexpand(<<77, 67, 124, 80, 105, 110, 103, 72, 111, 115, 116>>)

packet_read_legacy_motd(s) ==
    LET length == protocol_uint16_read(s, 31)
    IN  IF Len(s) >= 36 /\ length <= (Len(s) - 36) \div 2
        THEN [ok |-> TRUE, version |-> s[30],
              address |-> CString([i \in 1..length |-> s[32 + 2 * i]]),
              port |-> protocol_uint16_read(s, 35 + 2 * length)]
        ELSE NoPing

packet_write_legacy_motd(p) ==
    PingHost \o protocol_uint16_write(Len(p.address) * 2 + 7) \o <<p.version>>
    \o protocol_uint16_write(Len(p.address)) \o packetexpand(p.address)
    \o <<0, 0>> \o protocol_uint16_write(p.port)
=============================================================================
