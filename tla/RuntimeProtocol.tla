--------------------------- MODULE RuntimeProtocol ---------------------------
(***************************************************************************)
(* Messages and frames of an isolated process (hmcl-runtime-protocol).  A  *)
(* message is a Bridge map with exactly four fields, the payload a map     *)
(* with exactly the fields of its kind; a frame is a length and a message. *)
(*                                                                         *)
(* A message is [id, kind, fields], its fields in the order of the kind's  *)
(* schema.  Names of kinds and of fields are spelt in one byte.  A frame   *)
(* header is two bytes wide, the fewest that can be cut in the middle.     *)
(***************************************************************************)
EXTENDS BridgeValue

CONSTANTS
    MaxFrame,    \* MAX_FRAME_BYTES
    MaxMessage   \* 4096, for the text of an error

MaxHeader == 65535   \* the longest length that two bytes hold

\* A message nests two deep, and its length fits the header.
ASSUME ProtocolAssumption ==
    MaxDepth >= 2 /\ MaxFrame \in 0..MaxHeader /\ MaxMessage \in Nat

ProtocolVersion == 1

\* The fields of each kind of message, with the constraint on each.
Schema == [
    hello |-> <<>>,
    load |-> <<<<"packageRoot", "text">>, <<"entrypoint", "text">>,
               <<"pluginId", "positive">>, <<"session", "positive">>>>,
    enable |-> <<>>,
    invoke |-> <<<<"operation", "text">>, <<"input", "bytes">>, <<"callbackId", "natural">>>>,
    disable |-> <<>>,
    shutdown |-> <<>>,
    ok |-> <<>>,
    result |-> <<<<"output", "bytes">>>>,
    error |-> <<<<"code", "code">>, <<"message", "message">>>>,
    bridgeInvoke |-> <<<<"operation", "text">>, <<"input", "bytes">>>>,
    retainHandle |-> <<<<"objectId", "positive">>, <<"generation", "positive">>>>,
    releaseHandle |-> <<<<"objectId", "positive">>, <<"generation", "positive">>>>,
    callbackResult |-> <<<<"output", "bytes">>>>,
    callbackError |-> <<<<"code", "code">>>>]

Kinds == DOMAIN Schema
Envelope == <<"protocolVersion", "requestId", "kind", "payload">>
UsesEvenId == {"bridgeInvoke", "retainHandle", "releaseHandle",
               "callbackResult", "callbackError"}

Words == <<"hello", "load", "enable", "invoke", "disable", "shutdown", "ok", "result",
           "error", "bridgeInvoke", "retainHandle", "releaseHandle", "callbackResult",
           "callbackError", "packageRoot", "entrypoint", "pluginId", "session",
           "operation", "input", "callbackId", "output", "code", "message", "objectId",
           "generation", "protocolVersion", "requestId", "kind", "payload">>
Spelt == [w \in ToSet(Words) |-> <<32 + (CHOOSE i \in DOMAIN Words : Words[i] = w)>>]

-----------------------------------------------------------------------------
(* Constraints.                                                            *)

Blank(s) == \A i \in DOMAIN s : s[i] = 32

\* require_text, require_positive, require_nonnegative, require_code.
Allowed(type, x) ==
    CASE type = "text" -> ~Blank(x)
      [] type = "bytes" -> TRUE
      [] type = "positive" -> x \in 1..MaxSigned
      [] type = "natural" -> x \in 0..MaxSigned
      [] type = "code" -> Canonical(x, {45})
      [] type = "message" -> ~Blank(x) /\ Len(x) <= MaxMessage

\* What a field holds in MessageBody.
TypeOf(type) ==
    CASE type = "bytes" -> Seq(Octet)
      [] type \in {"positive", "natural"} -> -128..MaxSigned
      [] OTHER -> Text

\* The struct Message: a kind, with the fields of that kind.
IsTyped(m) ==
    /\ m = [id |-> m.id, kind |-> m.kind, fields |-> [i \in DOMAIN Schema[m.kind] |-> m.fields[i]]]
    /\ m.kind \in Kinds
    /\ \A i \in DOMAIN Schema[m.kind] : m.fields[i] \in TypeOf(Schema[m.kind][i][2])

\* Message::new and MessageBody::validate.
IsMessage(m) ==
    /\ m.id \in 1..MaxSigned
    /\ m.id % 2 = 0 <=> m.kind \in UsesEvenId
    /\ \A i \in DOMAIN m.fields : Allowed(Schema[m.kind][i][2], m.fields[i])

-----------------------------------------------------------------------------
(* A message as a value.                                                   *)

Tag(type) ==
    CASE type = "bytes" -> Bytes
      [] type \in {"positive", "natural"} -> Integer
      [] OTHER -> String

MapOf(names, values) == <<Map, [i \in DOMAIN names |-> <<Spelt[names[i]], values[i]>>]>>
Names(kind) == [i \in DOMAIN Schema[kind] |-> Schema[kind][i][1]]

\* MessageBody::to_value and Message::to_wire.
ToValue(m) ==
    LET payload == [i \in DOMAIN m.fields |-> <<Tag(Schema[m.kind][i][2]), m.fields[i]>>] IN
    MapOf(Envelope, << <<Integer, ProtocolVersion>>, <<Integer, m.id>>,
                       <<String, Spelt[m.kind]>>, MapOf(Names(m.kind), payload) >>)

\* Mutant: fields nobody asked for are passed over.
HasFields(value, names) ==
    /\ value[1] = Map
    /\ \A i \in DOMAIN names : \E j \in DOMAIN value[2] : value[2][j][1] = Spelt[names[i]]

\* exact_map: these fields and no other, in any order.
ExactMap(value, names) ==
    /\ value[1] = Map
    /\ Len(value[2]) = Len(names)
    /\ \A i \in DOMAIN names : \E j \in DOMAIN value[2] : value[2][j][1] = Spelt[names[i]]

Field(value, name) ==
    value[2][CHOOSE j \in DOMAIN value[2] : value[2][j][1] = Spelt[name]][2]

\* MessageBody::from_value and Message::from_wire, of a value.  No message
\* has the kind "none".
NoMessage == [id |-> 0, kind |-> "none", fields |-> <<>>]

FromValue(value) ==
    LET version == Field(value, "protocolVersion")
        request == Field(value, "requestId")
        kind == Field(value, "kind")
        payload == Field(value, "payload")
        k == CHOOSE w \in Kinds : kind[2] = Spelt[w]
        m == [id |-> request[2], kind |-> k,
              fields |-> [i \in DOMAIN Schema[k] |-> Field(payload, Names(k)[i])[2]]]
    IN
    IF /\ ExactMap(value, Envelope)
       /\ version = <<Integer, ProtocolVersion>>
       /\ request[1] = Integer
       /\ kind[1] = String /\ \E w \in Kinds : kind[2] = Spelt[w]
       /\ ExactMap(payload, Names(k))
       /\ \A i \in DOMAIN Schema[k] : Field(payload, Names(k)[i])[1] = Tag(Schema[k][i][2])
       /\ IsMessage(m)
      THEN m ELSE NoMessage

-----------------------------------------------------------------------------
(* Frames.                                                                 *)

Framed(body) == <<Len(body) \div 256, Len(body) % 256>> \o body
Fits(body) == body.ok /\ Len(body.out) \in 1..MaxFrame

\* write_frame: what reaches the stream, nothing when it is refused.
WriteFrame(m) ==
    LET body == ToWire(ToValue(m)) IN
    IF Fits(body) THEN Framed(body.out) ELSE <<>>

Ended(outcome) == [outcome |-> outcome, message |-> NoMessage, rest |-> <<>>]

\* Message::from_wire, with what is left of the stream.
Received(d, rest) ==
    LET m == IF d.ok THEN FromValue(d.got) ELSE NoMessage IN
    IF m = NoMessage THEN Ended("invalid")
    ELSE [outcome |-> "message", message |-> m, rest |-> rest]

\* read_frame of a stream that does not end before the header.
ReadBody(stream) ==
    LET n == 256 * stream[1] + stream[2] IN
    IF Len(stream) >= 2 /\ n \in 1..MaxFrame /\ n + 2 <= Len(stream)
      THEN Received(FromWire(SubSeq(stream, 3, n + 2)), SubSeq(stream, n + 3, Len(stream)))
      ELSE Ended("invalid")

\* Mutant: a header that is cut short counts as the end of the stream.
ReadFrameLeniently(stream) ==
    IF Len(stream) < 2 THEN Ended("end") ELSE ReadBody(stream)

\* read_frame: the end of the stream is clean before a header only.
ReadFrame(stream) == IF stream = <<>> THEN Ended("end") ELSE ReadBody(stream)

\* A reader that calls read_frame until it returns no message: the messages,
\* and how the stream ended.  After a frame, what is left is shorter.
ReadAll(stream) ==
    LET last[k \in 0..Len(stream)] ==
            LET r == ReadFrame(SubSeq(stream, Len(stream) - k + 1, Len(stream))) IN
            IF r.outcome # "message" THEN [messages |-> <<>>, end |-> r.outcome]
            ELSE LET others == last[Len(r.rest)] IN
                 [others EXCEPT !.messages = <<r.message>> \o @]
    IN  last[Len(stream)]
=============================================================================
