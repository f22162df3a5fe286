---------------------------- MODULE TransferWire ----------------------------
(***************************************************************************)
(* One transfer message on one stream: the CBOR bodies and the envelope of *)
(* crates/protocol (message.rs, envelope.rs), their frames (frame.rs) and  *)
(* the reader and writer of crates/network/src/codec.rs.  An envelope is   *)
(* read the same way, its length being that of the decrypted text.         *)
(*                                                                         *)
(* A body is a sequence of CBOR items, each in its shortest form; which    *)
(* longer forms of an integer are read is minicbor's affair.  The peer may *)
(* be of another version or broken: what arrives may have items exchanged, *)
(* left out or added, another declared length, or be cut short.            *)
(***************************************************************************)
EXTENDS WireLimits, Sequences, FiniteSets, SequencesExt

CONSTANTS
  Payloads,      \* payload lengths
  Names,         \* lengths of suggested names; 0 for none
  Values         \* contents of byte strings that differ

Array(n) == [is |-> "array", v |-> n, len |-> 0]
Map(n) == [is |-> "map", v |-> n, len |-> 0]
Uint(n) == [is |-> "uint", v |-> n, len |-> 0]
String(v, n) == [is |-> "bytes", v |-> v, len |-> n]
Name(n) == [is |-> "name", v |-> 0, len |-> n]       \* a text, or null

Huge == 2147483647        \* stands for an integer beyond 32 bits
UintBytes(n) == IF n = Huge THEN 9 ELSE HeadBytes(n)

ItemBytes(i) ==
  CASE i.is \in {"array", "map", "uint"} -> UintBytes(i.v)
    [] i.is = "bytes" -> StringBytes(i.len)
    [] i.is = "name" -> IF i.len = 0 THEN 1 ELSE StringBytes(i.len)

BodyBytes(items) == FoldLeft(LAMBDA n, i : n + ItemBytes(i), 0, items)
-----------------------------------------------------------------------------
\* The fields of each message in the order of their keys: the bound of an
\* integer, or the least and greatest length of a byte string.
u(max) == [is |-> "uint", min |-> 0, max |-> max]
u64 == u(Huge)
fixed(n) == [is |-> "bytes", min |-> n, max |-> n]
upto(n) == [is |-> "bytes", min |-> 0, max |-> n]
name == [is |-> "name", min |-> 0, max |-> MAX_SUGGESTED_NAME_BYTES]

ProtocolErrorCode == 0..9
ContentType == 0..1       \* DotenvRaw, DotenvNormalized

Open == [tag |-> 0, fields |-> <<u(65535), fixed(16), fixed(32), fixed(32)>>]
Acknowledge == [tag |-> 1, fields |-> <<u(65535), fixed(16), fixed(32), fixed(32)>>]
Offer == [tag |-> 0, fields |->
  <<u(65535), fixed(16), fixed(32), fixed(24), u64, u(255), u(MAX_PAYLOAD_BYTES),
    upto(MAX_CIPHERTEXT_BYTES), fixed(32), fixed(32)>>]
Completed == [tag |-> 1, fields |-> <<u(65535), fixed(16)>>]
Error == [tag |-> 2, fields |-> <<u(65535), u(Max(ProtocolErrorCode))>>]

Envelope == [tag |-> 3, fields |->
  <<u(65535), u(Max(ContentType)), name, u64, u64, upto(MAX_PAYLOAD_BYTES)>>]

\* The hard limit of a stream's direction, and of one kind of message.
Limit(direction) == CASE direction = "request" -> MAX_OPEN_BODY_BYTES
                      [] direction = "response" -> MAX_OFFER_BODY_BYTES
                      [] direction = "envelope" -> MAX_ENVELOPE_BYTES
KindLimit(kind) == CASE kind = Open -> MAX_OPEN_BODY_BYTES
                     [] kind = Acknowledge -> MAX_ACK_BODY_BYTES
                     [] kind = Offer -> MAX_OFFER_BODY_BYTES
                     [] kind = Completed -> MAX_COMPLETED_BODY_BYTES
                     [] kind = Error -> MAX_ERROR_BODY_BYTES
                     [] kind = Envelope -> MAX_ENVELOPE_BYTES

\* decode_fixed, and the typed reads of the decoder.
Fits(item, field) ==
  /\ item.is = field.is
  /\ IF field.is \in {"bytes", "name"} THEN item.len \in field.min..field.max
     ELSE item.v <= field.max

\* A message is a pair of its tag and a map; an envelope is the map alone.
Prefix(kind) == IF kind = Envelope THEN <<Map(6)>>
                ELSE <<Array(2), Uint(kind.tag), Map(Len(kind.fields))>>
Value(items, kind, i) == items[Len(Prefix(kind)) + 2 * i]

\* encode_open, encode_offer, ...: key and value alternate.
encode_body(kind, values) ==
  Prefix(kind) \o [i \in 1..(2 * Len(values)) |->
                     IF i % 2 = 1 THEN Uint((i - 1) \div 2) ELSE values[i \div 2]]

\* The version and the timestamps of an envelope are checked as well.
Consistent(items, kind) ==
  kind = Envelope => /\ Value(items, kind, 1) = Uint(1)
                     /\ Value(items, kind, 4).v <= Value(items, kind, 5).v

\* expect_array, the tag, expect_map, expect_key and each field in turn.
StartsWith(items, kind) ==
  LET start == Len(Prefix(kind))
      n == Len(kind.fields)
  IN /\ Len(items) >= start + 2 * n
     /\ SubSeq(items, 1, start) = Prefix(kind)
     /\ \A i \in 1..n : /\ items[start + 2 * i - 1] = Uint(i - 1)
                        /\ Fits(Value(items, kind, i), kind.fields[i])
     /\ Consistent(items, kind)

\* finish_decode: nothing is left over.
Matches_prefix(items, kind) == StartsWith(items, kind)
Matches(items, kind) ==
  StartsWith(items, kind) /\ Len(items) = Len(Prefix(kind)) + 2 * Len(kind.fields)

\* The message that the items are, as a set of at most one.
Decoded(items, kinds) ==
  {[kind |-> k, values |-> [i \in DOMAIN k.fields |-> Value(items, k, i)]] :
     k \in {k \in kinds : Matches(items, k) /\ BodyBytes(items) <= KindLimit(k)}}

decode_request_body(items) == Decoded(items, {Open, Acknowledge})
decode_response_body(items) == Decoded(items, {Offer, Completed, Error})
decode_envelope(items) == Decoded(items, {Envelope})
-----------------------------------------------------------------------------
VARIABLES
  direction, message,   \* what the writer sends
  wire,                 \* the declared length and the items that arrive
  reader,               \* where the reader is
  got                   \* the message it returns, as a set

vars == <<direction, message, wire, reader, got>>

\* Offers as SenderActor builds them from an envelope; the other messages
\* with any contents.
EnvelopeOf(p, n, t, w, v) ==
  [kind |-> Envelope, values |->
     <<Uint(1), Uint(0), Name(n), Uint(t), Uint(w), String(v, p)>>]
OfferOf(p, n, t, v) ==
  [kind |-> Offer, values |->
     <<Uint(1), String(v, 16), String(v, 32), String(v, 24), Uint(t), Uint(1),
       Uint(p), String(v, Sealed(p, n, UintBytes(t), UintBytes(t))), String(v, 32), String(v, 32)>>]

Requests ==
  {[kind |-> k, values |-> <<Uint(1), String(v, 16), String(w, 32), String(v, 32)>>] :
     k \in {Open, Acknowledge}, v \in Values, w \in Values}
Responses ==
  {OfferOf(p, n, t, v) : p \in Payloads, n \in Names, t \in {0, Huge}, v \in Values}
    \cup {[kind |-> Completed, values |-> <<Uint(1), String(v, 16)>>] : v \in Values}
    \cup {[kind |-> Error, values |-> <<Uint(1), Uint(c)>>] : c \in {0, 9}}
Envelopes ==
  {EnvelopeOf(p, n, t, Huge, v) : p \in Payloads, n \in Names, t \in {0, Huge}, v \in Values}

Init ==
  /\ \/ direction = "request" /\ message \in Requests
     \/ direction = "response" /\ message \in Responses
     \/ direction = "envelope" /\ message \in Envelopes
  /\ wire = [declared |-> 0, items |-> <<>>]
  /\ reader = "idle" /\ got = {}

\* What leaves the writer, or what another peer sends in its place.
Exchanged(s, i, j) == [s EXCEPT ![i] = s[j], ![j] = s[i]]
Variants(s) ==
  {s} \cup {Exchanged(s, i, j) : i \in DOMAIN s, j \in DOMAIN s}
      \cup {RemoveAt(s, i) : i \in DOMAIN s}
      \cup {Append(s, s[i]) : i \in DOMAIN s}

\* encode_request_frame and encode_response_frame, with validate_offer and
\* the bound of the kind; then write_frame.
Write ==
  /\ reader = "idle"
  /\ LET body == encode_body(message.kind, message.values)
     IN IF /\ Matches(body, message.kind)
           /\ BodyBytes(body) <= KindLimit(message.kind)
          THEN /\ reader' = "header"
               /\ wire' = [declared |-> BodyBytes(body), items |-> body]
          ELSE reader' = "unsent" /\ UNCHANGED wire
  /\ UNCHANGED <<direction, message, got>>

\* External: another peer's frame.
Foreign ==
  /\ reader = "idle"
  /\ \E items \in Variants(encode_body(message.kind, message.values)) :
       \E declared \in IF direction = "envelope" THEN {BodyBytes(items)}
                       ELSE {0, BodyBytes(Front(items)), BodyBytes(items), BodyBytes(items) + 1,
                             MAX_OPEN_BODY_BYTES + 1, MAX_OFFER_BODY_BYTES + 1} :
         wire' = [declared |-> declared, items |-> items]
  /\ reader' = "header"
  /\ UNCHANGED <<direction, message, got>>

\* read_frame: the header, parse_frame_length and the limit.
ReadHeader ==
  /\ reader = "header"
  /\ IF wire.declared \in 1..Limit(direction)
       THEN reader' = "body" ELSE reader' = "rejected"
  /\ UNCHANGED <<direction, message, wire, got>>

\* read_exact takes as many bytes as declared, if they come, and leaves the
\* rest of the stream; then decode_request_frame or decode_response_frame.  The
\* other lengths that Foreign declares cut an item in two, which no decoder reads.
Taken == {items \in {wire.items, Front(wire.items)} : BodyBytes(items) = wire.declared}

ReadBody ==
  /\ reader = "body"
  /\ got' = UNION {CASE direction = "request" -> decode_request_body(items)
                     [] direction = "response" -> decode_response_body(items)
                     [] direction = "envelope" -> decode_envelope(items) : items \in Taken}
  /\ reader' = IF got' = {} THEN "rejected" ELSE "accepted"
  /\ UNCHANGED <<direction, message, wire>>

\* External: the connection closes.
Cut ==
  /\ reader \in {"header", "body"}
  /\ reader' = "rejected"
  /\ UNCHANGED <<direction, message, wire, got>>

Next == Write \/ Foreign \/ ReadHeader \/ ReadBody \/ Cut

Spec == Init /\ [][Next]_vars
-----------------------------------------------------------------------------
\* What decode returns encodes to exactly the items of the declared length:
\* nothing reordered, unknown, doubled, missing or trailing within a frame is
\* ever taken for a message, no frame is taken for two messages, and what the
\* writer sent arrives as it was.
AcceptedIsCanonical ==
  \A m \in got : /\ IsPrefix(encode_body(m.kind, m.values), wire.items)
                 /\ BodyBytes(encode_body(m.kind, m.values)) = wire.declared
                 /\ Cardinality(got) = 1
=============================================================================
