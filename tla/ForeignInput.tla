---------------------------- MODULE ForeignInput ----------------------------
(***************************************************************************)
(* What another program hands to this one: the bytes of a value across the *)
(* ABI, the stream of an isolated process's pipe, and the two tables of an *)
(* ABI query.  It is first what the encoder, write_frame or the engine of  *)
(* this repository makes, or another order of map fields, which a foreign  *)
(* encoder may choose.  Then part of it is lost, overwritten or inserted.  *)
(***************************************************************************)
EXTENDS RuntimeProtocol, AbiNegotiation

CONSTANTS
    Values,     \* bound: the values that are encoded
    Streams,    \* bound: the sequences of messages that are written
    Patches,    \* bound: the bytes that damage leaves behind
    MaxDamage,  \* bound: the bytes one damage takes away, unless it cuts
    Sizes,      \* bound: the sizes tables advertise
    Versions    \* bound: the versions tables advertise

ASSUME ForeignInputAssumption ==
    /\ \A s \in Streams : s \in Seq(ToSet(s))
    /\ \A s \in Streams : \A i \in DOMAIN s : IsTyped(s[i]) /\ IsMessage(s[i])
    /\ Values \subseteq Value /\ Patches \subseteq Seq(Octet)
    /\ MaxDamage \in Nat /\ Sizes \subseteq Nat /\ Versions \subseteq Nat

VARIABLES
    about,    \* "value", "stream" or "tables"
    origin,   \* what was encoded, written or prepared
    input,    \* what arrives
    fate,     \* "sent", "cut" or "damaged"
    intact    \* how many bytes of it are sure to be as they were sent

vars == <<about, origin, input, fate, intact>>

\* The messages of a sequence that write_frame does not refuse.
Accepted(messages) ==
    FlattenSeq([i \in DOMAIN messages |->
        IF Fits(ToWire(ToValue(messages[i]))) THEN <<messages[i]>> ELSE <<>>])
OnTheWire(messages) == FlattenSeq([i \in DOMAIN messages |-> WriteFrame(messages[i])])

\* The same map with its fields the other way round, in the envelope and in
\* the payload.
Backwards(map) == <<Map, Reverse(map[2])>>
Foreign(m) == LET value == ToValue(m)
                  payload == value[2][4]
              IN  Backwards(<<Map, [value[2] EXCEPT ![4] = <<payload[1], Backwards(payload[2])>>]>>)

TablePairs ==
    [host : [pointer : Pointers, size : Sizes, version : Versions, slots : {Services}],
     out : [pointer : Pointers, size : Sizes, version : Versions, slots : {{}, Callbacks}]]

Init ==
    /\ \/ /\ about = "value"
          /\ origin \in {v \in Values : ToWire(v).ok}
          /\ input = ToWire(origin).out
       \/ /\ about = "stream"
          /\ origin \in Streams
          /\ input = OnTheWire(origin)
       \/ /\ about = "stream"
          /\ origin \in {s \in Streams : Len(s) = 1 /\ Accepted(s) = s}
          /\ input = Framed(ToWire(Foreign(origin[1])).out)
       \/ /\ about = "tables"
          /\ origin = [host |-> HostTable, out |-> Prepared]
          /\ input = origin
    /\ intact = IF about = "tables" THEN 0 ELSE Len(input)
    /\ fate = "sent"

\* The writer dies, or the length of a value is passed on wrongly.
Cut(n) ==
    /\ n < Len(input)
    /\ input' = SubSeq(input, 1, n)
    /\ intact' = n
    /\ fate' = "cut"
    /\ UNCHANGED <<about, origin>>

\* From the i-th on, n bytes are replaced by a patch.
Damage(i, n, patch) ==
    /\ i + n <= Len(input) + 1
    /\ input' = SubSeq(input, 1, i - 1) \o patch \o SubSeq(input, i + n, Len(input))
    /\ input' # input
    /\ intact' = i - 1
    /\ fate' = "damaged"
    /\ UNCHANGED <<about, origin>>

\* Another host, or another library.
OtherTables(pair) ==
    /\ input' = pair
    /\ fate' = "damaged"
    /\ UNCHANGED <<about, origin, intact>>

Next ==
    \/ /\ about # "tables" /\ fate = "sent"
       /\ \/ \E n \in 0..Len(input) : Cut(n)
          \/ \E i \in 1..(Len(input) + 1), n \in 0..MaxDamage, p \in Patches : Damage(i, n, p)
    \/ about = "tables" /\ fate = "sent" /\ \E pair \in TablePairs : OtherTables(pair)

Spec == Init /\ [][Next]_vars

-----------------------------------------------------------------------------
(* Properties.                                                             *)

\* The two directions of the codec agree on every value and on every limit:
\* what was encoded is decoded, and what is decoded would have been encoded as
\* exactly these bytes.  So no value has two encodings, and the decoder lets
\* nothing through that the encoder refuses.  (Value::to_wire, from_wire.)
ValuesAreCanonical ==
    about = "value" =>
        LET d == FromWire(input) IN
        /\ fate = "sent" => d.ok /\ d.got = origin
        /\ d.ok => ToWire(d.got).ok /\ ToWire(d.got).out = input

\* A reader gets every message whose frame is intact, in order, whatever comes
\* after it; a frame that was refused has left nothing in the stream; and a
\* stream that was cut ends cleanly only between two frames.  (write_frame,
\* read_frame.)
StreamKeepsMessages ==
    about = "stream" =>
        LET sent == Accepted(origin)
            lengths == [k \in 0..Len(sent) |-> Len(OnTheWire(SubSeq(sent, 1, k)))]
            whole == CHOOSE k \in 0..Len(sent) :
                        /\ lengths[k] <= intact
                        /\ k < Len(sent) => lengths[k + 1] > intact
            read == ReadAll(input)
        IN
        /\ Len(read.messages) >= whole
        /\ SubSeq(read.messages, 1, whole) = SubSeq(sent, 1, whole)
        /\ fate = "sent" => read = [messages |-> sent, end |-> "end"]
        /\ fate = "cut" => /\ Len(read.messages) = whole
                             /\ read.end = "end" <=> lengths[whole] = intact

\* A message says everything its frame said: written again it takes as many
\* bytes as were read, and it is read again as the same message.  Nothing in a
\* frame is passed over, though its fields may come in any order.
\* (Message::from_wire, exact_map, Message::new.)
FramesAreExact ==
    about = "stream" =>
        LET read == ReadFrame(input)
            again == WriteFrame(read.message)
        IN  read.outcome = "message" =>
                /\ Len(again) = Len(input) - Len(read.rest)
                /\ ReadFrame(again).message = read.message

\* The checks of the host's table, written three times, agree (see there).
TableChecksAgree == about = "tables" => ChecksAgree(input.host, input.out)
=============================================================================
