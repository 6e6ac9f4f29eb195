-------------------------------- MODULE Wire --------------------------------
(***************************************************************************)
(* The bytes of the protocol: how Request::serialize lays a request out,   *)
(* how Response::deserialize takes a response apart, and what the server,  *)
(* external, has to do to be understood. Byte sequences are sequences over *)
(* Byte; the widths of the numeric fields are those of protocol_types.h.   *)
(***************************************************************************)
EXTENDS Integers, Sequences

CONSTANTS
    UniqueIdLen,   \* UNIQUE_ID_LEN
    UsernameLen,   \* USERNAME_LEN
    RsaKeyLen,     \* RSA_KEY_LEN
    FileNameLen,   \* FILE_NAME_LEN
    LittleEndian   \* the byte order of the client's host

ASSUME WireAssumption ==
    /\ {UniqueIdLen, UsernameLen, RsaKeyLen, FileNameLen} \subseteq Nat \ {0}
    /\ UniqueIdLen > 1
    /\ LittleEndian \in BOOLEAN

Byte     == 0 .. 255
Bytes(n) == [1 .. n -> Byte]
Zeros(n) == [i \in 1 .. n |-> 0]

\* The numbers of two and of four bytes: their highest byte is one.
U16 == {v \in Nat : v \div 256 \in Byte}
U32 == {v \in Nat : v \div 16777216 \in Byte}

-----------------------------------------------------------------------------
(* Numbers *)

Big16(v)    == <<v \div 256, v % 256>>
Big32(v)    == <<v \div 16777216, (v \div 65536) % 256, (v \div 256) % 256, v % 256>>
Little16(v) == <<v % 256, v \div 256>>
Little32(v) == <<v % 256, (v \div 256) % 256, (v \div 65536) % 256, v \div 16777216>>

\* append_binary_field: the bytes of a number as the host keeps it.
Host16(v) == IF LittleEndian THEN Little16(v) ELSE Big16(v)
Host32(v) == IF LittleEndian THEN Little32(v) ELSE Big32(v)

FromLittle16(b) == b[1] + (256 * b[2])
FromLittle32(b) == b[1] + (256 * b[2]) + (65536 * b[3]) + (16777216 * b[4])

\* read_binary_field: a number as the host takes it from its bytes in memory.
Load16(b) == IF LittleEndian THEN FromLittle16(b) ELSE FromLittle16(<<b[2], b[1]>>)
Load32(b) ==
    IF LittleEndian THEN FromLittle32(b) ELSE FromLittle32(<<b[4], b[3], b[2], b[1]>>)

\* fault variant: ntohs is forgotten
Ntohs_Absent(b) == b

\* ntohs and ntohl, on the bytes in memory.
Ntohs(b) == IF LittleEndian THEN <<b[2], b[1]>> ELSE b
Ntohl(b) == IF LittleEndian THEN <<b[4], b[3], b[2], b[1]>> ELSE b

-----------------------------------------------------------------------------
(* User ids as text, and names in fields of a fixed width *)

\* The characters of a text that should be hexadecimal: the digits, of either
\* case, and what std::stoul lets stand before a number.
HexDigit == 0 .. 15
Plus     == 16
Minus    == 17
Space    == 18
HexChar  == 0 .. 19 \* the last one is any other character

\* bytes_to_hex
ToHex(bytes) ==
    [i \in 1 .. 2 * Len(bytes) |->
        IF i % 2 = 1 THEN bytes[(i + 1) \div 2] \div 16 ELSE bytes[i \div 2] % 16]

\* std::stoul reads both characters: the second is a digit, and the first is one, a
\* sign or a blank.
HexPair(c, d)  == c \in HexDigit \cup {Plus, Minus, Space} /\ d \in HexDigit
HexValue(c, d) ==
    IF c \in HexDigit THEN 16 * c + d ELSE IF c = Minus THEN (256 - d) % 256 ELSE d

\* hex_string_to_byte_array of n bytes; it throws unless the text is one.
IsHex(text, n) ==
    /\ Len(text) = 2 * n
    /\ \A i \in 1 .. n : HexPair(text[2 * i - 1], text[2 * i])

FromHex(text) ==
    [i \in 1 .. Len(text) \div 2 |-> HexValue(text[2 * i - 1], text[2 * i])]

\* set_username, set_file_name: filled with zeros, and cut to leave one.
NameField(name, width) ==
    [i \in 1 .. width |-> IF i =< Len(name) /\ i < width THEN name[i] ELSE 0]

\* A C string: up to the first zero. In a field without one it would go on into
\* what follows; no field that NameField filled is like that.
CString(field) ==
    SubSeq(field, 1,
           (CHOOSE n \in 0 .. Len(field) :
                /\ n < Len(field) => field[n + 1] = 0
                /\ \A i \in 1 .. n : field[i] # 0))

-----------------------------------------------------------------------------
(* Requests *)

RequestRecords ==
    [code : U16, uid : Bytes(UniqueIdLen), username : Seq(Byte),
     publicKey : Bytes(RsaKeyLen), chunkSize : U32, fileSize : U32,
     packet : U16, total : U16, fileName : Seq(Byte), chunk : Seq(Byte)]

\* What each of the functions that send a request says, given the user id as the
\* text in me.info; a field that none of its setters was called for is as the
\* constructors leave it.
Blank(code) ==
    [code |-> code, uid |-> Zeros(UniqueIdLen), username |-> <<>>,
     publicKey |-> Zeros(RsaKeyLen), chunkSize |-> 0, fileSize |-> 0,
     packet |-> 0, total |-> 0, fileName |-> <<>>, chunk |-> <<>>]

Codes == [REGISTRATION |-> 100, PUBLIC_KEY_SEND |-> 101, RE_REGISTRATION |-> 102,
          CREATE_BACKUP |-> 103, CRC_SUCCESS |-> 120, CRC_ERROR |-> 121,
          CRC_FAILURE |-> 122, DISCONNECT |-> 130]

Registration(name) == [Blank(Codes.REGISTRATION) EXCEPT !.username = name]

PublicKeySend(id, name, key) ==
    [Blank(Codes.PUBLIC_KEY_SEND) EXCEPT
        !.uid = FromHex(id), !.username = name, !.publicKey = key]

ReRegistration(id, name) ==
    [Blank(Codes.RE_REGISTRATION) EXCEPT !.uid = FromHex(id), !.username = name]

CreateBackup(id, name, size, packet, total, chunk) ==
    [Blank(Codes.CREATE_BACKUP) EXCEPT
        !.uid = FromHex(id), !.fileName = name, !.fileSize = size, !.packet = packet,
        !.total = total, !.chunkSize = Len(chunk), !.chunk = chunk]

CrcStatus(code, id, name) == [Blank(code) EXCEPT !.uid = FromHex(id), !.fileName = name]

Disconnect == Blank(Codes.DISCONNECT)

\* Without this a name would be cut, or end early.
Fits(name, width) == Len(name) < width /\ \A i \in DOMAIN name : name[i] # 0

\* The requests that the functions above build from names the validators accept.
WellBuilt(r) ==
    /\ Fits(r.username, UsernameLen) /\ Fits(r.fileName, FileNameLen)
    /\ r.code # Codes.CREATE_BACKUP => r.chunk = <<>>

RequestHeaderLen == UniqueIdLen + 1 + 2 + 4

\* enc_chunk_size_t, file_size_t, packet_num_t and total_packets_t
NumbersLen == 4 + 4 + 2 + 2

\* get_registration_payload_size, get_re_registration_payload_size,
\* get_key_exchange_payload_size and get_file_backup_payload_size
FixedPayload == UsernameLen + RsaKeyLen + NumbersLen + FileNameLen

DisconnectPayloadSize == UsernameLen + RsaKeyLen + 4 + FileNameLen

\* fault variant: the chunk is not counted
DeclaredSize_Fixed(r) ==
    IF r.code = Codes.DISCONNECT THEN DisconnectPayloadSize ELSE FixedPayload

\* The payload size each sender sets in the header.
DeclaredSize(r) ==
    CASE r.code = Codes.DISCONNECT    -> DisconnectPayloadSize
      [] r.code = Codes.CREATE_BACKUP -> FixedPayload + Len(r.chunk)
      [] OTHER                        -> FixedPayload

ClientVersion == 3

\* Request::serialize
Header(r) ==
    r.uid \o <<ClientVersion>> \o Host16(r.code) \o Host32(DeclaredSize(r))

Payload(r) ==
    NameField(r.username, UsernameLen) \o r.publicKey
        \o (Host32(r.chunkSize) \o Host32(r.fileSize) \o Host16(r.packet) \o Host16(r.total))
        \o NameField(r.fileName, FileNameLen) \o r.chunk

Serialize(r) == Header(r) \o Payload(r)

-----------------------------------------------------------------------------
(* Responses *)

ResponseHeaderLen == 1 + 2 + 4

\* PAYLOAD_SIZE_FIELD_OFFSET
PayloadSizeAt == 1 + 2

FixedResponsePayload == UniqueIdLen + 4 + FileNameLen + 4

\* `count' bytes of `data' from offset `at' on
Slice(data, at, count) == SubSeq(data, at + 1, at + count)

\* fault variant: the size is taken in the order of the host
PayloadSize_HostOrder(data) == Load32(Slice(data, PayloadSizeAt, 4))

PayloadSize(data) == Load32(Ntohl(Slice(data, PayloadSizeAt, 4)))

\* validate_available_bytes
Available(data, at, count) == at =< Len(data) /\ count =< Len(data) - at

Malformed == [ok |-> FALSE]

\* The fields of a payload of `size' bytes, one after the other: where each one
\* starts and how long it is. What is left over is the encrypted AES key.
KeyLen(size) == size - FixedResponsePayload
UidAt        == ResponseHeaderLen
KeyAt        == UidAt + UniqueIdLen
SizeAt(size) == KeyAt + KeyLen(size)
NameAt(size) == SizeAt(size) + 4
SumAt(size)  == NameAt(size) + FileNameLen

FieldsAvailable(data, size) ==
    /\ Available(data, UidAt, UniqueIdLen)
    /\ Available(data, KeyAt, KeyLen(size))
    /\ Available(data, SizeAt(size), 4)
    /\ Available(data, NameAt(size), FileNameLen)
    /\ Available(data, SumAt(size), 4)

Parsed(data) ==
    LET size == PayloadSize(data)
    IN  [ok       |-> TRUE,
         version  |-> data[1],
         code     |-> Load16(Ntohs(Slice(data, 1, 2))),
         uid      |-> Slice(data, UidAt, UniqueIdLen),
         aesKey   |-> Slice(data, KeyAt, KeyLen(size)),
         size     |-> Load32(Ntohl(Slice(data, SizeAt(size), 4))),
         fileName |-> Slice(data, NameAt(size), FileNameLen),
         checksum |-> Load32(Ntohl(Slice(data, SumAt(size), 4)))]

\* Response::deserialize: every check that fails throws.
WellFormed(data) ==
    /\ Available(data, 0, ResponseHeaderLen)
    /\ PayloadSize(data) >= FixedResponsePayload
    /\ Len(data) >= ResponseHeaderLen + PayloadSize(data)
    /\ FieldsAvailable(data, PayloadSize(data))

Deserialize(data) == IF WellFormed(data) THEN Parsed(data) ELSE Malformed

-----------------------------------------------------------------------------
(* The server: external, known by what the client expects of it *)

Responses ==
    [ok : {TRUE}, version : Byte, code : U16, uid : Bytes(UniqueIdLen), aesKey : Seq(Byte),
     size : U32, fileName : Bytes(FileNameLen), checksum : U32]

ResponsePayload(r) ==
    r.uid \o r.aesKey \o Big32(r.size) \o r.fileName \o Big32(r.checksum)

\* A response whose header claims a payload of `size' bytes.
Claiming(r, size) == <<r.version>> \o Big16(r.code) \o Big32(size) \o ResponsePayload(r)

ResponseBytes(r) == Claiming(r, Len(ResponsePayload(r)))

\* How a server on a little-endian host reads a request: a header, as many bytes
\* as it declares, and the fields in the order in which serialize writes them. A
\* payload that is too short for the fields is read for its code alone.
Read16(data, at)  == FromLittle16(Slice(data, at, 2))
Read32(data, at)  == FromLittle32(Slice(data, at, 4))
ClaimedSize(data) == Read32(data, UniqueIdLen + 3)

NumbersAt   == RequestHeaderLen + UsernameLen + RsaKeyLen
FileNameAt  == NumbersAt + NumbersLen
ChunkAt     == FileNameAt + FileNameLen

ReadRequest(data) ==
    IF Len(data) < ChunkAt
    THEN Blank(Read16(data, UniqueIdLen + 1))
    ELSE [code      |-> Read16(data, UniqueIdLen + 1),
          uid       |-> Slice(data, 0, UniqueIdLen),
          username  |-> CString(Slice(data, RequestHeaderLen, UsernameLen)),
          publicKey |-> Slice(data, RequestHeaderLen + UsernameLen, RsaKeyLen),
          chunkSize |-> Read32(data, NumbersAt),
          fileSize  |-> Read32(data, NumbersAt + 4),
          packet    |-> Read16(data, NumbersAt + 8),
          total     |-> Read16(data, NumbersAt + 10),
          fileName  |-> CString(Slice(data, FileNameAt, FileNameLen)),
          chunk     |-> Slice(data, ChunkAt, Len(data) - ChunkAt)]
=============================================================================
