-------------------------- MODULE WireLimitsProofs --------------------------
(* For every size, what is accepted can be delivered. *)
EXTENDS WireLimits, TLAPS

\* A head takes one to five bytes.
LEMMA HeadBytesBound == \A n \in Nat : HeadBytes(n) \in 1..5
  BY SMT DEF HeadBytes

\* Every payload and name that SecretEnvelope::new accepts fits the envelope,
\* the ciphertext, the Offer frame and a default relay circuit: encode,
\* validate_offer and encode_response_body never refuse it.
THEOREM AcceptedIsDeliverable ==
  \A payload, name \in Nat, created, expires \in TimestampSizes :
    payload <= MAX_PAYLOAD_BYTES /\ name <= MAX_SUGGESTED_NAME_BYTES =>
      Deliverable(payload, name, created, expires)
<1> SUFFICES ASSUME NEW payload \in Nat, NEW name \in Nat,
                    NEW created \in TimestampSizes, NEW expires \in TimestampSizes,
                    payload <= MAX_PAYLOAD_BYTES, name <= MAX_SUGGESTED_NAME_BYTES
             PROVE  Deliverable(payload, name, created, expires)
  OBVIOUS
<1> DEFINE e == EnvelopeBytes(payload, name, created, expires)
<1>1. /\ payload \in Nat /\ payload <= 1048576
      /\ name \in Nat /\ name <= 128
      /\ created \in 1..9 /\ expires \in 1..9
  BY SMT DEF MAX_PAYLOAD_BYTES, MAX_SUGGESTED_NAME_BYTES, TimestampSizes
<1>2. HeadBytes(payload) \in 1..5 /\ HeadBytes(name) \in 1..5 /\ HeadBytes(1) = 1
  BY <1>1, HeadBytesBound, SMT DEF HeadBytes
<1>3. e \in Nat /\ e <= payload + 200
  BY <1>1, <1>2, SMT DEF EnvelopeBytes, StringBytes
<1>4. Sealed(payload, name, created, expires) = e + 16
  BY SMT DEF Sealed, CiphertextBytes
<1>5. HeadBytes(e + 16) \in 1..5
  <2>1. e + 16 \in Nat
    BY <1>3, SMT
  <2> QED BY <2>1, HeadBytesBound, SMT
<1>6. StringBytes(16) = 17 /\ StringBytes(24) = 26 /\ StringBytes(32) = 34
  BY SMT DEF StringBytes, HeadBytes
<1>7. /\ Framed(payload, name, created, expires) \in Nat
      /\ Framed(payload, name, created, expires) <= payload + 500
  <2> HIDE DEF e
  <2> QED BY <1>1, <1>2, <1>3, <1>4, <1>5, <1>6, SMT DEF Framed, OfferBodyBytes, StringBytes
<1>8. QED
  BY <1>1, <1>3, <1>4, <1>7, SMT
     DEF Deliverable, MAX_ENVELOPE_BYTES, MAX_CIPHERTEXT_BYTES, MAX_OFFER_BODY_BYTES,
         MAX_PAYLOAD_BYTES, MAX_OFFER_OVERHEAD_BYTES, DEFAULT_MAX_CIRCUIT_BYTES

\* A varint of what a page holds takes one to four bytes.
LEMMA VarintBound == \A n \in Nat : Varint(n) \in 1..4
  BY SMT DEF Varint

\* For every valid configuration and every page of the store within it, the
\* encoded response is below MAX_WIRE_MESSAGE_BYTES: write_response never
\* refuses a page, so no namespace becomes undiscoverable by growing.
THEOREM PagesAreWritable ==
  \A c \in [max_ttl : Nat, record_bytes : Nat, results : Nat],
     count, record, ttl \in Nat : PageIsWritable(c, count, record, ttl)
<1> SUFFICES ASSUME NEW c \in [max_ttl : Nat, record_bytes : Nat, results : Nat],
                    NEW count \in Nat, NEW record \in Nat, NEW ttl \in Nat,
                    validate(c), count <= c.results, record <= c.record_bytes
             PROVE  PageBytes(count, record, ttl) <= MAX_WIRE_MESSAGE_BYTES
  BY SMT DEF PageIsWritable
<1> DEFINE r == RegisterBytes(record, ttl)
           f == Field(r)
<1>1. /\ c.record_bytes \in Nat /\ c.results \in Nat
      /\ c.results <= 64 /\ c.results * c.record_bytes <= 921600
  BY SMT DEF validate
<1>2. Varint(record) \in 1..4 /\ Varint(ttl) \in 1..4
  BY VarintBound, SMT
<1>3. Varint(NAMESPACE_BYTES) = 1 /\ NAMESPACE_BYTES = 44
  BY SMT DEF Varint, NAMESPACE_BYTES
<1>4. r \in Nat /\ r <= record + 60
  BY <1>2, <1>3, SMT DEF RegisterBytes, Field
<1>5. Varint(r) \in 1..4
  BY <1>4, VarintBound, SMT
<1>6. f \in Nat /\ f <= record + 65
  <2> HIDE DEF r
  <2> QED BY <1>4, <1>5, SMT DEF Field
<1>7. count * f \in Nat /\ count * f <= 925760
  <2> HIDE DEF f
  <2>1. count * f <= c.results * (c.record_bytes + 65)
    <3>1. f <= c.record_bytes + 65
      BY <1>1, <1>6, SMT
    <3> QED BY <1>1, <1>6, <3>1, SMTT(30)
  <2>2. c.results * (c.record_bytes + 65) = c.results * c.record_bytes + c.results * 65
    BY <1>1, SMT
  <2>3. c.results * 65 <= 4160
    BY <1>1, SMT
  <2>4. count * f \in Nat
    BY <1>6, SMT
  <2> QED BY <1>1, <2>1, <2>2, <2>3, <2>4, SMT
<1>8. DiscoverBytes(count, record, ttl) \in Nat
      /\ DiscoverBytes(count, record, ttl) <= 925900
  <2> HIDE DEF f
  <2>1. Field(8 + NAMESPACE_BYTES) = 54
    BY SMT DEF Field, Varint, NAMESPACE_BYTES
  <2>2. DiscoverBytes(count, record, ttl) = count * f + 54 + 1 + 1
    BY <2>1, SMT DEF DiscoverBytes, f, r
  <2> QED BY <1>7, <2>2, SMT
<1>9. Varint(DiscoverBytes(count, record, ttl)) \in 1..4
  BY <1>8, VarintBound, SMT
<1>10. QED
  BY <1>8, <1>9, SMT DEF PageBytes, Field, MAX_WIRE_MESSAGE_BYTES
=============================================================================
