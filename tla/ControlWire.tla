---------------------------- MODULE ControlWire -----------------------------
(***************************************************************************)
(* The datagrams of the control channel, octet by octet: opcodes           *)
(* (opcode.rs), headers and packets (packet.rs), the tls-auth envelope     *)
(* (session.rs, hmac_auth.rs) and the reassembly of TLS records            *)
(* (reliable.rs).  Widths and offsets are those of the code; an octet is a *)
(* pair <<what it belongs to, number>>, so that octets of different fields *)
(* differ whatever their position.                                         *)
(***************************************************************************)
EXTENDS Integers, TLC, SequencesExt

Byte(n) == <<"byte", n>>
Value(b) == b[2]

\* The octets of a random field: a session id, a random, a string.
Octets(name, width) == [i \in 1 .. width |-> <<name, i>>]

U16(n) == <<Byte((n \div 256) % 256), Byte(n % 256)>>
U32(n) == U16(0) \o U16(n)
FromU16(b) == 256 * Value(b[1]) + Value(b[2])
FromU32(b) == 65536 * FromU16(SubSeq(b, 1, 2)) + FromU16(SubSeq(b, 3, 4))

\* n octets of data from a zero-based offset.
Slice(data, offset, n) == SubSeq(data, offset + 1, offset + n)
From(data, offset) == SubSeq(data, offset + 1, Len(data))

None == -1           \* a missing number; a missing field of octets is << >>
Err == [error |-> TRUE]
Ok(x) == [error |-> FALSE, value |-> x]

SoftResetV1 == 3
ControlV1 == 4
AckV1 == 5
DataV1 == 6
HardResetClientV2 == 7
HardResetServerV2 == 8
DataV2 == 9
HardResetClientV3 == 10
ControlWkcV1 == 11

is_data(op) == op \in {DataV1, DataV2}
is_control(op) == op \in SoftResetV1 .. ControlWkcV1 /\ ~is_data(op)

to_byte(op, key_id) == Byte(8 * op + (key_id % 8))
from_byte(b) == Value(b) \div 8
KeyIdOf(b) == Value(b) % 8

-----------------------------------------------------------------------------
\* A control packet as the session builds it, before the tls-auth envelope.
Control(opcode, key_id, session_id, remote, acks, id, payload) ==
    [opcode |-> opcode, key_id |-> key_id, session_id |-> session_id,
     hmac |-> << >>, packet_id |-> None, timestamp |-> << >>,
     remote_session_id |-> IF acks = << >> THEN << >> ELSE remote,
     acks |-> acks, message_packet_id |-> id, payload |-> payload]

SerializeHeader(p) ==
    <<to_byte(p.opcode, p.key_id)>>
        \o p.session_id \o p.hmac
        \o (IF p.packet_id = None THEN << >> ELSE U32(p.packet_id))
        \o p.timestamp

serialize(p) ==
    IF is_data(p.opcode)
    THEN <<to_byte(p.opcode, p.key_id)>> \o p.peer_id \o p.payload
    ELSE SerializeHeader(p)
            \o <<Byte(Len(p.acks) % 256)>>
            \o FlattenSeq([i \in DOMAIN p.acks |-> U32(p.acks[i])])
            \o (IF p.acks = << >> THEN << >> ELSE p.remote_session_id)
            \o (IF p.message_packet_id = None THEN << >> ELSE U32(p.message_packet_id))
            \o p.payload

MAX_ACK_COUNT == 16

ParseData(data) ==
    LET peer == IF from_byte(data[1]) = DataV2 THEN 3 ELSE 0
    IN  IF Len(data) < 1 + peer THEN Err
        ELSE Ok([opcode |-> from_byte(data[1]), key_id |-> KeyIdOf(data[1]),
                 peer_id |-> Slice(data, 1, peer), payload |-> From(data, 1 + peer)])

\* PacketHeader::parse of a control packet that is long enough for it.
ParseHeader(data, tls_auth) ==
    [opcode |-> from_byte(data[1]), key_id |-> KeyIdOf(data[1]),
     session_id |-> Slice(data, 1, 8),
     hmac |-> IF tls_auth THEN Slice(data, 9, 32) ELSE << >>,
     packet_id |-> IF tls_auth THEN FromU32(Slice(data, 41, 4)) ELSE None,
     timestamp |-> IF tls_auth THEN Slice(data, 45, 4) ELSE << >>]

HeaderSize(tls_auth) == IF tls_auth THEN 49 ELSE 9

\* The ack array, the remote session id that follows a non-empty one, the
\* message id when four octets are left and the packet is not a pure ack.
ParseControl(data, tls_auth) ==
    LET at   == HeaderSize(tls_auth)
        n    == Value(data[at + 1])
        end  == at + 1 + 4 * n
        rest == IF n > 0 THEN end + 8 ELSE end
        id   == from_byte(data[1]) # AckV1 /\ Len(data) >= rest + 4
    IN  IF Len(data) < at + 1 THEN Err
        ELSE IF n > MAX_ACK_COUNT \/ Len(data) < rest THEN Err
        ELSE Ok(ParseHeader(data, tls_auth) @@
                [acks |-> [i \in 1 .. n |-> FromU32(Slice(data, at + 1 + 4 * (i - 1), 4))],
                 remote_session_id |-> IF n > 0 THEN Slice(data, end, 8) ELSE << >>,
                 message_packet_id |-> IF id THEN FromU32(Slice(data, rest, 4)) ELSE None,
                 payload |-> From(data, IF id THEN rest + 4 ELSE rest)])

\* Mutant of parse: a field that is cut short is read on into the zeroes of the
\* receive buffer.
ParseBuffer(data, tls_auth) ==
    IF data = << >> THEN Err
    ELSE IF is_data(from_byte(data[1])) THEN ParseData(data)
    ELSE IF ~ParseControl(data, tls_auth).error THEN ParseControl(data, tls_auth)
    ELSE ParseControl(data \o [i \in 1 .. 64 |-> Byte(0)], tls_auth)

\* Packet::parse
parse(data, tls_auth) ==
    IF data = << >> THEN Err
    ELSE IF is_data(from_byte(data[1])) THEN ParseData(data)
    ELSE IF is_control(from_byte(data[1])) THEN ParseControl(data, tls_auth)
    ELSE Err

-----------------------------------------------------------------------------
\* HmacAuth::from_ta_key: which part of the 256 octets an end signs with and
\* which it checks with; a server without direction takes 0, a client 1.
from_ta_key(key, is_server, direction) ==
    LET keys0 == Slice(key, 64, 32)
        keys1 == Slice(key, 192, 32)
        first == direction = 0 \/ (is_server /\ direction = None)
    IN  IF direction \notin {None, 0, 1} THEN Err
        ELSE Ok(IF first THEN [tx |-> keys0, rx |-> keys1] ELSE [tx |-> keys1, rx |-> keys0])

\* An ideal MAC of 32 octets: equal only for the same key and input.
authenticate(key, input) == <<<<"mac", <<key, input>>>>>> \o Octets("hmac", 31)

\* Mutant of maybe_wrap_tls_auth: the MAC leaves out the message behind the header.
WrapHeaderOnly(data, packet_id, hmac) ==
    LET stamp == U32(packet_id) \o Octets("time", 4)
    IN  Slice(data, 0, 9)
            \o authenticate(hmac.tx, stamp \o Slice(data, 0, 9))
            \o stamp \o From(data, 9)

\* opcode and session id, MAC, packet id and time, the rest; the MAC is over
\* packet id, time and the whole packet without its envelope.
maybe_wrap_tls_auth(data, packet_id, hmac) ==
    LET stamp == U32(packet_id) \o Octets("time", 4)
    IN  Slice(data, 0, 9) \o authenticate(hmac.tx, stamp \o data)
            \o stamp \o From(data, 9)

\* What process_packet puts together again before it checks the MAC.
Verified(data, hmac) ==
    /\ Len(data) >= 49
    /\ Slice(data, 9, 32) = authenticate(hmac.rx,
                                         Slice(data, 41, 8) \o Slice(data, 0, 9) \o From(data, 49))

\* process_packet up to its dispatch: with tls-auth verify, then parse.
open(data, auth) ==
    IF auth # << >> /\ data # << >> /\ ~is_data(from_byte(data[1])) /\ ~Verified(data, auth[1])
    THEN Err
    ELSE parse(data, auth # << >>)

-----------------------------------------------------------------------------
\* A TLS record: type, version and length, then its octets.
Record(type, body) == <<Byte(type), Byte(3), Byte(3)>> \o U16(Len(body)) \o body
Handshake == 22
Application == 23
BodyOf(record) == From(record, 5)

MaxRecordBuffer == 65536

\* Mutant of extract_records: at most one record per call.
ExtractOne(buffer) ==
    LET size == 5 + FromU16(Slice(buffer, 3, 2))
    IN  IF Len(buffer) >= 5 /\ Len(buffer) >= size
        THEN [records |-> <<Slice(buffer, 0, size)>>, buffer |-> From(buffer, size)]
        ELSE [records |-> << >>, buffer |-> buffer]

\* The complete records at the front of the buffer, and what is left of it.
extract_records(buffer) ==
    LET Size(at) == 5 + FromU16(Slice(buffer, at + 3, 2))
        Whole(at) == Len(buffer) >= at + 5 /\ Len(buffer) >= at + Size(at)
        Records[at \in 0 .. Len(buffer)] ==
            IF Whole(at) THEN <<Slice(buffer, at, Size(at))>> \o Records[at + Size(at)]
            ELSE << >>
    IN  [records |-> Records[0], buffer |-> From(buffer, Len(FlattenSeq(Records[0])))]
=============================================================================
