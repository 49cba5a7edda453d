----------------------------- MODULE BridgeValue -----------------------------
(***************************************************************************)
(* Bridge Value v1 (hmcl-plugin-sdk, value.rs): the encoder and decoder of *)
(* everything that crosses the ABI or an isolated process's pipes.         *)
(*                                                                         *)
(* Bytes are bytes and the markers are the code's.  Every fixed-width      *)
(* field (a length, an integer, a double) is one byte wide here instead of *)
(* four or eight, with the same edges: the largest signed value is 127,    *)
(* and the doubles that are not finite are a set of bytes.  Text is a      *)
(* sequence of ASCII bytes; a byte from 128 on stands for what is not      *)
(* UTF-8.                                                                  *)
(*                                                                         *)
(* The encoder and the decoder are records that each step passes on, until *)
(* something is refused: Encoder and Decoder of the code, with the two     *)
(* counters both keep against the limits.  The recursion of both runs over *)
(* how many more levels may be entered: MaxDepth + 1 less the code's depth.*)
(***************************************************************************)
EXTENDS Integers, Sequences, SequencesExt

CONSTANTS
    MaxDepth,     \* MAX_DEPTH
    MaxString,    \* MAX_STRING_BYTES
    MaxBytes,     \* MAX_BYTE_BYTES
    MaxEntries,   \* MAX_CONTAINER_ENTRIES
    MaxContent,   \* MAX_TOTAL_CONTENT_BYTES
    MaxValues,    \* MAX_TOTAL_VALUES
    MaxName,      \* 128, for type names and error codes
    NotFinite,    \* the doubles that are infinite or no number
    ErrorCodes    \* the nine texts of BridgeErrorKind::wire_code

MaxSigned == 127   \* i64::MAX

\* Tags, and the MessagePack markers.
Null == 0   Bool == 1   Integer == 2   Float == 3   String == 4
Bytes == 5   Array == 6   Map == 7   Handle == 8   Error == 9
Pair == 146   Triple == 147   Nil == 192   False == 194   True == 195
Bin32 == 198   Float64 == 203   UInt64 == 207   Int64 == 211
Str32 == 219   Array32 == 221

Octet == 0..255
Text == Seq(0..127)
Utf8(s) == s \in Text

\* The limits of what a length counts can be written as one.
ASSUME CodecAssumption ==
    /\ MaxDepth \in Nat /\ MaxContent \in Nat /\ MaxValues \in Nat
    /\ {MaxString, MaxBytes, MaxEntries, MaxName} \subseteq Octet
    /\ NotFinite \subseteq Octet /\ ErrorCodes \subseteq Text

\* A value is a tag with its contents: a byte for Bool, Integer and Float, a
\* sequence for String, Bytes, Array and Error, a sequence of pairs for Map,
\* and <<object_id, generation, type_name>> for a Handle.
Leaves ==
    ({Null} \X {0}) \cup ({Bool} \X {0, 1}) \cup ({Integer} \X (-128..MaxSigned))
    \cup ({Float} \X Octet) \cup ({String} \X Text) \cup ({Bytes} \X Seq(Octet))
    \cup ({Handle} \X (Octet \X Octet \X Text)) \cup ({Error} \X ErrorCodes)

\* The values that nest at most n deep, one level more than is allowed.
ValuesUpTo[n \in 0..(MaxDepth + 1)] ==
    IF n = 0 THEN Leaves
    ELSE Leaves \cup ({Array} \X Seq(ValuesUpTo[n - 1]))
                \cup ({Map} \X Seq(Text \X ValuesUpTo[n - 1]))

Value == ValuesUpTo[MaxDepth + 1]

Lower == 97..122
Digits == 48..57

\* Lower-case words joined by single separators: is_valid_type_name with "."
\* and "-", require_code of the protocol with "-".
Canonical(s, separators) ==
    /\ s # <<>> /\ Len(s) <= MaxName
    /\ s[1] \in Lower /\ Last(s) \notin separators
    /\ \A i \in DOMAIN s :
        /\ s[i] \in Lower \cup Digits \cup separators
        /\ i > 1 /\ s[i] \in separators => s[i - 1] \notin separators

\* HandleValue::new.
IsHandle(h) ==
    /\ h[1] \in 1..MaxSigned /\ h[2] \in 1..MaxSigned
    /\ Canonical(h[3], {45, 46})

UniqueKeys(entries) ==
    \A i, j \in DOMAIN entries : entries[i][1] = entries[j][1] => i = j

Signed(b) == IF b > MaxSigned THEN b - 256 ELSE b
Unsigned(n) == n % 256

-----------------------------------------------------------------------------
(* Both directions.                                                        *)

Refused == [ok |-> FALSE]

\* Encoder, with what it has written.
Writer(out, content, values) ==
    [ok |-> TRUE, out |-> out, content |-> content, values |-> values]
Encoders == [ok : {TRUE}, out : Seq(Octet), content : Nat, values : Nat] \cup {Refused}

\* Decoder, with the input from the offset on and what the last step has read.
Reader(rest, got, content, values) ==
    [ok |-> TRUE, rest |-> rest, got |-> got, content |-> content, values |-> values]
Decoders ==
    [ok : {TRUE}, rest : Seq(Octet), got : {0}, content : Nat, values : Nat] \cup {Refused}

Check(c, condition) == IF c.ok /\ condition THEN c ELSE Refused

\* The code's `?`: the next step is taken if nothing was refused.
Then(c, NextStep(_)) == IF c.ok THEN NextStep(c) ELSE Refused

\* With x as what was read.
Got(c, x) == Reader(c.rest, x, c.content, c.values)

\* One value more.
Enter(c) ==
    Then(Check(c, c.values < MaxValues), LAMBDA d : [d EXCEPT !.values = @ + 1])

AddContent(c, n, limit) ==
    Then(Check(c, n <= limit /\ c.content + n <= MaxContent), LAMBDA d :
        [d EXCEPT !.content = @ + n])

-----------------------------------------------------------------------------
(* Encoder.  `put` is the encoder of what a container holds, which takes   *)
(* such a value and then an encoder.                                       *)

Emit(e, bytes) == Then(e, LAMBDA f : [f EXCEPT !.out = @ \o bytes])
Sized(e, marker, s) == Emit(e, <<marker, Len(s)>> \o s)
PutString(e, s) == Sized(AddContent(e, Len(s), MaxString), Str32, s)
PutName(e, s) == Sized(Check(e, Len(s) <= MaxName), Str32, s)
PutLength(e, n) == Emit(Check(e, n <= MaxEntries), <<Array32, n>>)

\* The items of a sequence, one after the other.
PutAll(put, e, s) ==
    LET after[i \in 0..Len(s)] == IF i = 0 THEN e ELSE put[s[i]][after[i - 1]]
    IN  after[Len(s)]

PutEntry(put) == [kv \in Text \X DOMAIN put |-> [e \in Encoders |->
    put[kv[2]][PutString(Emit(e, <<Pair>>), kv[1])]]]

PutNull(e) == Emit(e, <<Nil>>)
PutBool(e, x) == Emit(e, <<IF x = 0 THEN False ELSE True>>)
PutInteger(e, x) == Emit(e, <<Int64, Unsigned(x)>>)
PutFloat(e, x) == Emit(Check(e, x \notin NotFinite), <<Float64, x>>)
PutBytes(e, x) == Sized(AddContent(e, Len(x), MaxBytes), Bin32, x)
PutArray(put, e, x) == PutAll(put, PutLength(e, Len(x)), x)
PutMap(put, e, x) == PutArray(PutEntry(put), Check(e, UniqueKeys(x)), x)
PutHandle(e, x) ==
    PutName(Emit(Check(e, IsHandle(x)), <<Triple, UInt64, x[1], UInt64, x[2]>>), x[3])

PutContents(put, e, tag, x) ==
    CASE tag = Null -> PutNull(e)
      [] tag = Bool -> PutBool(e, x)
      [] tag = Integer -> PutInteger(e, x)
      [] tag = Float -> PutFloat(e, x)
      [] tag = String -> PutString(e, x)
      [] tag = Bytes -> PutBytes(e, x)
      [] tag = Array -> PutArray(put, e, x)
      [] tag = Map -> PutMap(put, e, x)
      [] tag = Handle -> PutHandle(e, x)
      [] tag = Error -> PutName(e, x)

\* Encoder::value.
PutAt[room \in 0..(MaxDepth + 1)] ==
    [v \in ValuesUpTo[room] |-> [e \in Encoders |->
        IF room = 0 THEN Refused
        ELSE PutContents(PutAt[room - 1], Emit(Enter(e), <<Pair, v[1]>>), v[1], v[2])]]

\* Value::to_wire, as a record with `ok` and the bytes in `out`.
ToWire(value) ==
    PutAt[MaxDepth + 1][value][Writer(<<>>, 0, 0)]

-----------------------------------------------------------------------------
(* Decoder.  `get` is the decoder of what a container holds.               *)

Take(d, n) ==
    Then(Check(d, n <= Len(d.rest)), LAMBDA c :
        Reader(SubSeq(c.rest, n + 1, Len(c.rest)), SubSeq(c.rest, 1, n), c.content, c.values))

Byte(d) ==
    Then(Check(d, d.rest # <<>>), LAMBDA c :
        Reader(Tail(c.rest), Head(c.rest), c.content, c.values))
Expect(d, marker) == Then(Byte(d), LAMBDA c : Check(c, c.got = marker))
Word(d, marker) == Byte(Expect(d, marker))
ReadString(d, n) == Then(Take(d, n), LAMBDA c : Check(c, Utf8(c.got)))

\* A length, and that many bytes; counted or not as content.
GetString(d) ==
    Then(Word(d, Str32), LAMBDA n : ReadString(AddContent(n, n.got, MaxString), n.got))
GetName(d) ==
    Then(Word(d, Str32), LAMBDA n : ReadString(Check(n, n.got <= MaxName), n.got))
GetBytes(d) ==
    Then(Word(d, Bin32), LAMBDA n : Take(AddContent(n, n.got, MaxBytes), n.got))

GetLength(d) == Then(Word(d, Array32), LAMBDA n : Check(n, n.got <= MaxEntries))

\* Three fields one after the other.
GetHandle(d) ==
    Then(Word(Expect(d, Triple), UInt64), LAMBDA object :
    Then(Word(object, UInt64), LAMBDA generation :
    Then(GetName(generation), LAMBDA name :
        LET h == <<object.got, generation.got, name.got>> IN
        Check(Got(name, h), IsHandle(h)))))

Fresh(d) == Then(d, LAMBDA c : Got(c, 0))

\* One item more, behind the ones already in `got`; and n of them.
GetItem(item, d) ==
    Then(d, LAMBDA items : Then(item[Fresh(items)], LAMBDA c :
        Got(c, Append(items.got, c.got))))

GetAll(item, d, n) ==
    LET after[i \in 0..n] == IF i = 0 THEN Got(d, <<>>) ELSE GetItem(item, after[i - 1])
    IN  after[n]

GetEntry(get) == [d \in Decoders |->
    Then(GetString(Expect(d, Pair)), LAMBDA key :
    Then(get[Fresh(key)], LAMBDA c : Got(c, <<key.got, c.got>>)))]

GetNull(d) == Then(Expect(d, Nil), LAMBDA c : Got(c, 0))
GetBool(d) == Then(Byte(d), LAMBDA c :
    Check(Got(c, IF c.got = True THEN 1 ELSE 0), c.got \in {False, True}))
GetInteger(d) == Then(Word(d, Int64), LAMBDA c : Got(c, Signed(c.got)))
GetFloat(d) == Then(Word(d, Float64), LAMBDA c : Check(c, c.got \notin NotFinite))
GetArray(get, d) == Then(GetLength(d), LAMBDA c : GetAll(get, c, c.got))
GetMap(get, d) == Then(GetArray(GetEntry(get), d), LAMBDA c : Check(c, UniqueKeys(c.got)))
GetError(d) == Then(GetName(d), LAMBDA c : Check(c, c.got \in ErrorCodes))

GetContents(get, d, tag) ==
    CASE tag = Null -> GetNull(d)
      [] tag = Bool -> GetBool(d)
      [] tag = Integer -> GetInteger(d)
      [] tag = Float -> GetFloat(d)
      [] tag = String -> GetString(d)
      [] tag = Bytes -> GetBytes(d)
      [] tag = Array -> GetArray(get, d)
      [] tag = Map -> GetMap(get, d)
      [] tag = Handle -> GetHandle(d)
      [] tag = Error -> GetError(d)
      [] OTHER -> Refused

\* Decoder::value.
GetAt[room \in 0..(MaxDepth + 1)] == [d \in Decoders |->
    IF room = 0 THEN Refused
    ELSE Then(Byte(Expect(Enter(d), Pair)), LAMBDA h :
         Then(GetContents(GetAt[room - 1], h, h.got), LAMBDA c :
             Got(c, <<h.got, c.got>>)))]

Decoder(input) == Reader(input, 0, 0, 0)

\* Mutant: what follows the value is not looked at.
FromWirePrefix(input) == GetAt[MaxDepth + 1][Decoder(input)]

\* Value::from_wire: one complete value, in `got`.
FromWire(input) ==
    Then(GetAt[MaxDepth + 1][Decoder(input)], LAMBDA d : Check(d, d.rest = <<>>))
=============================================================================
