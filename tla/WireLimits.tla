----------------------------- MODULE WireLimits -----------------------------
(***************************************************************************)
(* The bounds of crates/protocol/src/limits.rs and of the rendezvous codec,*)
(* and the exact sizes of what is encoded under them.                      *)
(*                                                                         *)
(* Sizes are in bytes.  A timestamp is given by the bytes its 64-bit value *)
(* takes, 1 to 9.                                                          *)
(***************************************************************************)
EXTENDS Naturals

MAX_PAYLOAD_BYTES == 1048576  \* 1024 * 1024
MAX_OPEN_BODY_BYTES == 1024
MAX_ACK_BODY_BYTES == 1024
MAX_COMPLETED_BODY_BYTES == 1024
MAX_ERROR_BODY_BYTES == 1024
MAX_OFFER_OVERHEAD_BYTES == 16384
MAX_OFFER_BODY_BYTES == MAX_PAYLOAD_BYTES + MAX_OFFER_OVERHEAD_BYTES
MAX_ENVELOPE_BYTES == MAX_PAYLOAD_BYTES + 1024
MAX_CIPHERTEXT_BYTES == MAX_ENVELOPE_BYTES + 16
MAX_SUGGESTED_NAME_BYTES == 128
MAX_WIRE_MESSAGE_BYTES == 1048576  \* 1024 * 1024

TimestampSizes == {1, 2, 3, 5, 9}
-----------------------------------------------------------------------------
\* CBOR: the head of an item with argument n, and a byte or text string.
HeadBytes(n) == IF n < 24 THEN 1 ELSE IF n < 256 THEN 2 ELSE IF n < 65536 THEN 3 ELSE 5
StringBytes(n) == HeadBytes(n) + n

\* SecretEnvelope::encode: a map of six keys.  No name is a null.
EnvelopeBytes(payload, name, created, expires) ==
  1 + 6 + HeadBytes(1) + HeadBytes(1) + (IF name = 0 THEN 1 ELSE StringBytes(name))
    + created + expires + StringBytes(payload)

\* The AEAD adds its tag.
CiphertextBytes(envelope) == envelope + 16

\* encode_response_body of an Offer: a pair of the kind and a map of ten keys.
OfferBodyBytes(payload, ciphertext, expires) ==
  2 + 1 + 10 + HeadBytes(1) + StringBytes(16) + StringBytes(32) + StringBytes(24) + expires + HeadBytes(1)
    + HeadBytes(payload) + StringBytes(ciphertext) + StringBytes(32) + StringBytes(32)

\* The sizes along the way of a payload from SenderActor::new to the stream.
Sealed(payload, name, created, expires) ==
  CiphertextBytes(EnvelopeBytes(payload, name, created, expires))
Framed(payload, name, created, expires) ==
  4 + OfferBodyBytes(payload, Sealed(payload, name, created, expires), expires)
-----------------------------------------------------------------------------
\* Protocol buffers: a varint below 2^28, and a field with a length.
Varint(n) == IF n < 128 THEN 1 ELSE IF n < 16384 THEN 2 ELSE IF n < 2097152 THEN 3 ELSE 4
Field(n) == 1 + Varint(n) + n

NAMESPACE_BYTES == 12 + 32        \* NAMESPACE_PREFIX and ROOM_HEX_BYTES

\* A WireRegister and a DiscoverResponse with that many of them.
RegisterBytes(record, ttl) == Field(NAMESPACE_BYTES) + Field(record) + 1 + Varint(ttl)
DiscoverBytes(count, record, ttl) ==
  count * Field(RegisterBytes(record, ttl)) + Field(8 + NAMESPACE_BYTES) + 1 + 1
PageBytes(count, record, ttl) == 2 + Field(DiscoverBytes(count, record, ttl))

\* The conditions of NodeConfig::validate on discovery pages.
ValidTtl(c) == 1 <= c.max_ttl /\ c.max_ttl <= 86400
validate(c) ==
  /\ ValidTtl(c)
  /\ 512 <= c.record_bytes /\ c.record_bytes <= 16384
  /\ 1 <= c.results /\ c.results <= 64
  /\ c.results * c.record_bytes <= 921600   \* 900 * 1024

\* NodeConfig::default for what a relayed transfer needs.
DEFAULT_MAX_CIRCUIT_BYTES == 2097152  \* 2 * 1024 * 1024
-----------------------------------------------------------------------------
\* Whatever SecretEnvelope::new accepts passes every later bound on its way:
\* the envelope's, the ciphertext's, the Offer body's, and those of a relay
\* circuit with the default configuration.
Deliverable(payload, name, created, expires) ==
  /\ EnvelopeBytes(payload, name, created, expires) <= MAX_ENVELOPE_BYTES
  /\ Sealed(payload, name, created, expires) <= MAX_CIPHERTEXT_BYTES
  /\ Framed(payload, name, created, expires) <= 4 + MAX_OFFER_BODY_BYTES
  /\ Framed(payload, name, created, expires) <= DEFAULT_MAX_CIRCUIT_BYTES

\* Every page of records a valid configuration lets the store serve can be
\* written by the codec.
PageIsWritable(c, count, record, ttl) ==
  validate(c) /\ count <= c.results /\ record <= c.record_bytes /\ ttl <= c.max_ttl
    => PageBytes(count, record, ttl) <= MAX_WIRE_MESSAGE_BYTES
=============================================================================
