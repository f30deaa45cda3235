----------------------------- MODULE FrameHeader -----------------------------
(***************************************************************************)
(* FrameHeader::serialize and deserialize (src/network/protocol.cpp) on    *)
(* bytes.                                                                  *)
(***************************************************************************)
EXTENDS Naturals, Sequences, Functions

kProtocolMagic == 1280592961   \* 0x4C544C41, 'LTLA'
kProtocolVersion == 1
kFrameHeaderSize == 12

\* enum class MessageType, without UNKNOWN.
MessageTypes ==
  [HELLO |-> 1, AUTH_REQUEST |-> 2, AUTH_RESPONSE |-> 3, AUTH_OK |-> 4,
   AUTH_FAIL |-> 5, CHAT_MESSAGE |-> 16, CHAT_RECEIPT |-> 17, PING |-> 32,
   PONG |-> 33, PEER_LIST |-> 48, DISCONNECT |-> 64, ERROR_MSG |-> 80,
   FILE_OFFER |-> 96, FILE_ACCEPT |-> 97, FILE_CHUNK |-> 98,
   FILE_COMPLETE |-> 99]

\* static_cast<uint8_t>(type)
ByteOf(type) == IF type = "UNKNOWN" THEN 255 ELSE MessageTypes[type]

\* What the fields of struct FrameHeader can hold.
Byte == {n \in Nat : n < 256}
Word == {n \in Nat : n < 65536}
DoubleWord == {n \in Nat : n \div 65536 < 65536}

FrameHeaders ==
  [magic: DoubleWord, version: Byte, type: DOMAIN MessageTypes \cup {"UNKNOWN"},
   payloadLength: DoubleWord, flags: Word, reserved: Word]

MessageTypeFromByte(byte) ==
  IF byte \in Range(MessageTypes)
    THEN CHOOSE type \in DOMAIN MessageTypes : MessageTypes[type] = byte
    ELSE "UNKNOWN"

\* The bytes that htons and htonl put a number in, the most significant one
\* first; a number keeps its width.
htons(n) == <<(n \div 256) % 256, n % 256>>
htonl(n) == htons(n \div 65536) \o htons(n % 65536)

\* The numbers at position i of the data.
ntohs(data, i) == data[i] * 256 + data[i + 1]
ntohl(data, i) == ntohs(data, i) * 65536 + ntohs(data, i + 2)

\* The twelve bytes end with the flags: `reserved` has no place among them.
Serialize(h) ==
  htonl(h.magic) \o <<h.version, ByteOf(h.type)>>
    \o htonl(h.payloadLength) \o htons(h.flags)

\* Nothing for too few bytes, another magic or another version; `reserved`
\* keeps the value of its initializer.
Deserialize(data) ==
  IF \/ Len(data) < kFrameHeaderSize
     \/ ntohl(data, 1) # kProtocolMagic
     \/ data[5] # kProtocolVersion
    THEN <<>>
    ELSE [magic         |-> ntohl(data, 1),
          version       |-> data[5],
          type          |-> MessageTypeFromByte(data[6]),
          payloadLength |-> ntohl(data, 7),
          flags         |-> ntohs(data, 11),
          reserved      |-> 0]

=============================================================================
