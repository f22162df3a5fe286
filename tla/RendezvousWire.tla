--------------------------- MODULE RendezvousWire ---------------------------
(***************************************************************************)
(* One rendezvous request and its response on a stream of a node:          *)
(* crates/node/src/rendezvous/codec.rs, with the page bounds that          *)
(* NodeConfig::validate and the store put on a response.                   *)
(*                                                                         *)
(* A frame is a varint of its length, seven bits to a byte, and the        *)
(* message.  The 64-bit length is kept as the value of its three lowest    *)
(* groups and whether any higher group is not zero.                        *)
(***************************************************************************)
EXTENDS WireLimits, Sequences, FiniteSets

CONSTANTS
  Lengths,       \* lengths that a client declares in the usual way
  ByteValues,    \* bytes that any client may send
  Configs        \* node configurations

None == "none"

VARIABLES
  config,
  declared,     \* the length a usual client declares
  phase,
  groups,       \* bytes of the prefix read so far
  low, high,    \* the length read so far
  message,      \* the decoded WireMessage: its type and the parts it has
  request       \* what the store is given

reading == <<groups, low, high>>
vars == <<config, declared, phase, reading, message, request>>

\* encode_varint: seven bits to a byte, low bits first.
encode_varint[n \in Nat] ==
  IF n < 128 THEN <<n>> ELSE <<128 + (n % 128)>> \o encode_varint[n \div 128]

Parts == {"register", "unregister", "discover"}
NoMessage == [type |-> None, has |-> {}, fields |-> {}]
AnyBytes == MAX_WIRE_MESSAGE_BYTES + 2     \* a client that sends what it likes

Init ==
  /\ config \in {c \in Configs : validate(c)}
  /\ declared \in Lengths \cup {AnyBytes}
  /\ phase = "prefix" /\ groups = 0 /\ low = 0 /\ high = FALSE
  /\ message = NoMessage /\ request = None

-----------------------------------------------------------------------------
Weight == <<1, 128, 16384>>
TooLong_low == low' > MAX_WIRE_MESSAGE_BYTES
TooLong == high' \/ low' > MAX_WIRE_MESSAGE_BYTES

\* read_frame: one byte of the prefix.
ReadByte ==
  /\ phase = "prefix"
  /\ \E byte \in IF declared = AnyBytes THEN ByteValues ELSE {encode_varint[declared][groups + 1]} :
       IF groups = 9 /\ byte > 1
         THEN phase' = "rejected" /\ UNCHANGED reading
         ELSE /\ groups' = groups + 1
              /\ low' = IF groups < 3 THEN low + (byte % 128) * Weight[groups + 1] ELSE low
              /\ high' = (high \/ (groups >= 3 /\ byte % 128 # 0))
              /\ phase' = IF byte < 128 THEN IF TooLong THEN "rejected" ELSE "payload"
                          ELSE IF groups = 9 THEN "rejected" ELSE "prefix"
  /\ UNCHANGED <<config, declared, message, request>>

\* External: prost decodes the payload, or fails.  Type 5 is none at all.
Decode ==
  /\ phase = "payload"
  /\ \/ /\ \E type \in 0..5, has \in SUBSET Parts,
              fields \in SUBSET {"namespace", "record"} :
            message' = [type |-> type, has |-> has, fields |-> fields]
        /\ phase' = "decoded"
     \/ phase' = "rejected" /\ UNCHANGED message
  /\ groups' = 0 /\ low' = 0 /\ high' = FALSE     \* the payload is used up
  /\ UNCHANGED <<config, declared, request>>

\* Request::try_from: the type says which part is read, and that part must
\* have its required fields.
Request(m) ==
  CASE m.type = 0 /\ "register" \in m.has /\ {"namespace", "record"} \subseteq m.fields
         -> "register"
    [] m.type = 2 /\ "unregister" \in m.has /\ "namespace" \in m.fields -> "unregister"
    [] m.type = 3 /\ "discover" \in m.has -> "discover"
    [] OTHER -> None

TryFrom ==
  /\ phase = "decoded"
  /\ request' = Request(message)
  /\ phase' = IF request' = None THEN "rejected" ELSE "handled"
  /\ UNCHANGED <<config, declared, reading, message>>

\* write_response: a page of the store, within the limits of the
\* configuration, or an error status, which is shorter than a page.
\* Unregister has no response.
WriteResponse ==
  /\ phase = "handled"
  /\ \/ /\ request = "discover"
        /\ \E count \in {0, 1, config.results}, record \in {0, 512, config.record_bytes} :
             phase' = IF PageBytes(count, record, config.max_ttl) > MAX_WIRE_MESSAGE_BYTES
                        THEN "unwritable" ELSE "answered"
     \/ request = "register" /\ phase' = "answered"
     \/ request = "unregister" /\ phase' = "silent"
  /\ UNCHANGED <<config, declared, reading, message, request>>

\* External: the stream ends.
Cut ==
  /\ phase \in {"prefix", "payload"}
  /\ phase' = "rejected"
  /\ UNCHANGED <<config, declared, reading, message, request>>

Next == ReadByte \/ Decode \/ TryFrom \/ WriteResponse \/ Cut

Spec == Init /\ [][Next]_vars
-----------------------------------------------------------------------------
\* A payload is read for lengths within MAX_WIRE_MESSAGE_BYTES only, whatever
\* bytes the prefix had, and a length written by encode_varint is read back
\* as it was: no group is lost, and bits beyond the bound are not cut off.
LengthsAreExact ==
  phase = "payload" =>
    /\ low <= MAX_WIRE_MESSAGE_BYTES /\ ~high /\ groups <= 10
    /\ declared # AnyBytes => low = declared
=============================================================================
