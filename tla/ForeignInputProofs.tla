-------------------------- MODULE ForeignInputProofs --------------------------
(***************************************************************************)
(* What holds of every input of ForeignInput, for all limits, all depths,  *)
(* all values and all tables: the two directions of the value codec are    *)
(* inverses of each other, a reader gets the messages of a stream whose    *)
(* frames are intact and no frame says more than its message, and the      *)
(* checks of a table agree.                                                *)
(*                                                                         *)
(* The codec is proved along its own structure.  For each field, then for  *)
(* the contents behind each tag, for a list, for an entry and for a level  *)
(* of nesting there is one lemma for each direction: the encoder refuses,  *)
(* or appends bytes which the decoder reads back wherever they stand and   *)
(* whatever follows; and the decoder refuses, or has read such bytes.  The *)
(* names end in ...All (bytes written are read) and in ...Some (bytes read *)
(* were written).  CodecRoundTrip is the induction over the depth.         *)
(*                                                                         *)
(* Messages are proved on top of the codec.  Says relates a value to the   *)
(* message it is read as, in whatever order its fields come.  Values that  *)
(* say the same message cost the same bytes, content and values, because a *)
(* cost is a sum over the entries of a map (Costs, SumInAnyOrder,          *)
(* SameSize).  A frame is found wherever it stands (IsFrame), so a reader  *)
(* takes frames one after the other (FirstFrames), and of a frame that is  *)
(* cut it reads no message (FrameCut).                                     *)
(*                                                                         *)
(* Concatenation and short tuples are behind names of their own, so that   *)
(* the provers see only the facts that are cited about them.               *)
(***************************************************************************)
EXTENDS ForeignInput, SequenceTheorems, WellFoundedInduction, TLAPS

-----------------------------------------------------------------------------
(* Bytes.                                                                  *)

\* Induction over the naturals, for a set in place of an operator.
LEMMA SetInduction ==
  ASSUME NEW S, 0 \in S, \A n \in Nat : n \in S => n + 1 \in S
  PROVE  Nat \subseteq S
<1> DEFINE R == OpToRel(<, Nat)
<1> DEFINE T == Nat \ S
<1>1. SUFFICES ASSUME T # {} PROVE FALSE
  OBVIOUS
<1>2. IsWellFoundedOn(R, Nat)
  BY NatLessThanWellFounded, Zenon
<1>3. PICK x \in T : \A y \in T : <<y, x>> \notin R
  <2> HIDE DEF R
  <2> T \subseteq Nat OBVIOUS
  <2> HIDE DEF T
  <2> QED BY <1>1, <1>2, WFMin
<1>4. x \in Nat /\ x # 0 /\ x \notin S
  OBVIOUS
<1>5. x - 1 \in Nat /\ x - 1 \notin S
  BY <1>4
<1>6. <<x - 1, x>> \in R
  BY <1>4, <1>5 DEF OpToRel
<1> QED BY <1>3, <1>5, <1>6

\* Bytes that are written or read, and their concatenation.
Wire == Seq(Octet)
One(b) == <<b>>
Two(m, b) == <<m, b>>
s \bullet t == s \o t
Prefixed(m, s) == Two(m, Len(s)) \bullet s

LEMMA WireConcat ==
  ASSUME NEW s \in Wire, NEW t \in Wire
  PROVE  s \bullet t \in Wire
BY ConcatProperties DEF Wire, \bullet

LEMMA WireAssoc ==
  ASSUME NEW s \in Wire, NEW t \in Wire, NEW u \in Wire
  PROVE  (s \bullet t) \bullet u = s \bullet (t \bullet u)
BY ConcatAssociative DEF Wire, \bullet

LEMMA Joined ==
  ASSUME NEW s \in Wire, NEW t \in Wire
  PROVE  /\ Len(s) <= Len(s \bullet t)
         /\ SubSeq(s \bullet t, 1, Len(s)) = s
         /\ SubSeq(s \bullet t, Len(s) + 1, Len(s \bullet t)) = t
<1> USE DEF Wire, \bullet
<1> DEFINE u == s \o t
<1>1. /\ u \in Seq(Octet) /\ Len(u) = Len(s) + Len(t)
      /\ \A i \in 1..(Len(s) + Len(t)) : u[i] = IF i <= Len(s) THEN s[i] ELSE t[i - Len(s)]
  BY ConcatProperties
<1>2. Len(s) \in Nat /\ Len(t) \in Nat
  BY LenProperties
<1>3. \A i \in 1..Len(u) : u[i] \in Octet
  BY <1>1, ElementOfSeq
<1> HIDE DEF u
<1>4. SubSeq(u, 1, Len(s)) = s
  <2>1. /\ SubSeq(u, 1, Len(s)) \in Seq(Octet)
        /\ Len(SubSeq(u, 1, Len(s))) = Len(s)
        /\ \A i \in 1..Len(s) : SubSeq(u, 1, Len(s))[i] = u[i]
    <3>1. \A i \in 1..Len(s) : u[i] \in Octet
      BY <1>1, <1>2, <1>3
    <3> HIDE DEF Octet
    <3>2. /\ SubSeq(u, 1, Len(s)) \in Seq(Octet)
          /\ Len(SubSeq(u, 1, Len(s))) = IF 1 <= Len(s) THEN Len(s) - 1 + 1 ELSE 0
          /\ \A i \in 1..(Len(s) - 1 + 1) : SubSeq(u, 1, Len(s))[i] = u[1 + i - 1]
      BY <3>1, <1>2, SubSeqProperties
    <3> QED BY <3>2, <1>2
  <2>2. \A i \in 1..Len(s) : u[i] = s[i]
    BY <1>1, <1>2
  <2> DEFINE p == SubSeq(u, 1, Len(s))
  <2>3. p \in Seq(Octet) /\ Len(p) = Len(s) /\ \A i \in 1..Len(s) : p[i] = s[i]
    BY <2>1, <2>2
  <2> HIDE DEF Octet, p
  <2>4. p = s
    BY <2>3, SeqEqual
  <2> QED BY <2>4 DEF p
<1>5. SubSeq(u, Len(s) + 1, Len(u)) = t
  <2> DEFINE r == SubSeq(u, Len(s) + 1, Len(u))
  <2>1. \A i \in (Len(s) + 1)..Len(u) : u[i] \in Octet
    BY <1>2, <1>3
  <2>2. /\ r \in Seq(Octet)
        /\ Len(r) = IF Len(s) + 1 <= Len(u) THEN Len(u) - (Len(s) + 1) + 1 ELSE 0
        /\ \A i \in 1..(Len(u) - (Len(s) + 1) + 1) : r[i] = u[Len(s) + 1 + i - 1]
    <3> HIDE DEF Octet
    <3> QED BY <2>1, <1>1, <1>2, SubSeqProperties
  <2> HIDE DEF r
  <2>3. Len(r) = Len(t)
    BY <2>2, <1>1, <1>2
  <2>4. ASSUME NEW i \in 1..Len(t) PROVE r[i] = t[i]
    <3>1. i \in 1..(Len(u) - (Len(s) + 1) + 1) /\ Len(s) + 1 + i - 1 = Len(s) + i
      BY <1>1, <1>2
    <3>2. r[i] = u[Len(s) + i]
      BY <2>2, <3>1
    <3>3. /\ Len(s) + i \in 1..(Len(s) + Len(t)) /\ ~(Len(s) + i <= Len(s))
          /\ (Len(s) + i) - Len(s) = i
      BY <1>2
    <3>4. u[Len(s) + i] = t[(Len(s) + i) - Len(s)]
      BY <1>1, <3>3
    <3> QED BY <3>2, <3>3, <3>4
  <2>5. r = t
    <3>1. r \in Seq(Octet)
      BY <2>2
    <3> HIDE DEF Octet
    <3> QED BY <2>3, <2>4, <3>1, SeqEqual
  <2> QED BY <2>5 DEF r
<1> QED BY <1>1, <1>2, <1>4, <1>5 DEF u

LEMMA Divided ==
  ASSUME NEW r \in Wire, NEW n \in Nat, n <= Len(r)
  PROVE  \E s \in Wire, t \in Wire : Len(s) = n /\ r = s \bullet t
<1> USE DEF Wire, \bullet
<1>1. Len(r) \in Nat /\ \A i \in 1..Len(r) : r[i] \in Octet
  BY LenProperties, ElementOfSeq
<1> HIDE DEF Octet
<1>2. SubSeq(r, 1, n) \in Seq(Octet) /\ Len(SubSeq(r, 1, n)) = n
  <2>1. \A i \in 1..n : r[i] \in Octet
    BY <1>1
  <2>2. /\ SubSeq(r, 1, n) \in Seq(Octet)
        /\ Len(SubSeq(r, 1, n)) = IF 1 <= n THEN n - 1 + 1 ELSE 0
    BY <2>1, SubSeqProperties
  <2> QED BY <2>2
<1>3. SubSeq(r, n + 1, Len(r)) \in Seq(Octet)
  <2>1. \A i \in (n + 1)..Len(r) : r[i] \in Octet
    BY <1>1
  <2> QED BY <1>1, <2>1, SubSeqProperties
<1>4. SubSeq(r, 1, n) \o SubSeq(r, n + 1, Len(r)) = SubSeq(r, 1, Len(r))
  <2>1. 1 \in 1..(Len(r) + 1) /\ n \in (1 - 1)..Len(r) /\ Len(r) \in n..Len(r)
    BY <1>1
  <2> QED BY <2>1, ConcatAdjacentSubSeq
<1>5. SubSeq(r, 1, Len(r)) = r
  BY SubSeqFull
<1> QED BY <1>2, <1>3, <1>4, <1>5, Zenon

-----------------------------------------------------------------------------
(* The steps of the decoder: what each reads when the bytes are there, and *)
(* what bytes were there when it has read something.                       *)

LEMMA TakeAll ==
  ASSUME NEW s \in Wire, NEW t \in Wire, NEW g, NEW c, NEW v
  PROVE  Take(Reader(s \bullet t, g, c, v), Len(s)) = Reader(t, s, c, v)
BY Joined DEF Take, Then, Check, Reader

LEMMA TakeSome ==
  ASSUME NEW r \in Wire, NEW g, NEW c, NEW v, NEW n \in Nat
  PROVE  \/ Take(Reader(r, g, c, v), n) = Refused
         \/ \E s \in Wire, t \in Wire : Len(s) = n /\ r = s \bullet t
<1>1. CASE n <= Len(r)
  BY <1>1, Divided
<1>2. CASE ~(n <= Len(r))
  BY <1>2 DEF Take, Then, Check, Reader, Refused
<1> QED BY <1>1, <1>2

LEMMA OneIsWire ==
  ASSUME NEW b \in Octet
  PROVE  One(b) \in Wire
BY DEF Wire, One

LEMMA FirstByte ==
  ASSUME NEW b \in Octet, NEW t \in Wire
  PROVE  /\ One(b) \bullet t # <<>>
         /\ Head(One(b) \bullet t) = b /\ Tail(One(b) \bullet t) = t
<1> DEFINE u == One(b) \bullet t
<1>1. /\ u \in Seq(Octet) /\ Len(u) = 1 + Len(t) /\ u[1] = b
      /\ \A i \in 1..Len(t) : u[i + 1] = t[i]
  BY DEF Wire, One, \bullet
<1>2. u # <<>> /\ Len(t) \in Nat /\ t \in Seq(Octet)
  BY <1>1 DEF Wire
<1> HIDE DEF u, Octet
<1>3. Head(u) = b
  BY <1>1, <1>2
<1>4. Tail(u) \in Seq(Octet) /\ Len(Tail(u)) = Len(t) /\ \A i \in 1..Len(t) : Tail(u)[i] = u[i + 1]
  BY <1>1, <1>2, HeadTailProperties
<1>5. Tail(u) = t
  BY <1>1, <1>2, <1>4, SeqEqual
<1> QED BY <1>2, <1>3, <1>5 DEF u

LEMMA OneFirst ==
  ASSUME NEW r \in Wire, r # <<>>
  PROVE  \E b \in Octet, t \in Wire : r = One(b) \bullet t
<1>1. r \in Seq(Octet) /\ Head(r) \in Octet /\ Tail(r) \in Seq(Octet)
  <2> HIDE DEF Octet
  <2> QED BY HeadTailProperties DEF Wire
<1>2. 1 \in 1..Len(r) /\ Len(r) \in 1..Len(r) /\ Head(r) = r[1]
  BY <1>1, EmptySeq
<1>3. SubSeq(r, 1, Len(r)) = <<r[1]>> \o SubSeq(r, 1 + 1, Len(r))
  <2> HIDE DEF Octet
  <2> QED BY <1>1, <1>2, SubSeqRecursiveFirst
<1>4. SubSeq(r, 1, Len(r)) = r /\ SubSeq(r, 2, Len(r)) = Tail(r)
  BY <1>1, SubSeqFull, TailIsSubSeq
<1>5. r = One(Head(r)) \bullet Tail(r)
  BY <1>2, <1>3, <1>4 DEF One, \bullet
<1> QED BY <1>1, <1>5 DEF Wire

LEMMA ByteAll ==
  ASSUME NEW b \in Octet, NEW t \in Wire, NEW g, NEW c, NEW v
  PROVE  Byte(Reader(One(b) \bullet t, g, c, v)) = Reader(t, b, c, v)
BY FirstByte DEF Byte, Then, Check, Reader

LEMMA ByteSome ==
  ASSUME NEW r \in Wire, NEW g, NEW c, NEW v
  PROVE  \/ Byte(Reader(r, g, c, v)) = Refused
         \/ \E b \in Octet, t \in Wire : r = One(b) \bullet t
<1>1. CASE r = <<>>
  BY <1>1 DEF Byte, Then, Check, Reader, Refused
<1> QED BY <1>1, OneFirst

LEMMA ExpectAll ==
  ASSUME NEW m \in Octet, NEW t \in Wire, NEW g, NEW c, NEW v
  PROVE  Expect(Reader(One(m) \bullet t, g, c, v), m) = Reader(t, m, c, v)
BY ByteAll DEF Expect, Then, Check, Reader

LEMMA ExpectSome ==
  ASSUME NEW r \in Wire, NEW g, NEW c, NEW v, NEW m \in Octet
  PROVE  \/ Expect(Reader(r, g, c, v), m) = Refused
         \/ \E t \in Wire : r = One(m) \bullet t
<1>1. CASE Byte(Reader(r, g, c, v)) = Refused
  BY <1>1 DEF Expect, Then, Refused
<1>2. ASSUME NEW b \in Octet, NEW t \in Wire, r = One(b) \bullet t, b # m
      PROVE  Expect(Reader(r, g, c, v), m) = Refused
  <2>1. Byte(Reader(r, g, c, v)) = Reader(t, b, c, v)
    BY <1>2, ByteAll
  <2> QED BY <1>2, <2>1 DEF Expect, Then, Check, Reader
<1> QED BY <1>1, <1>2, ByteSome

LEMMA TwoIsWire ==
  ASSUME NEW b \in Octet, NEW m \in Octet
  PROVE  Two(m, b) \in Wire /\ Two(m, b) = One(m) \bullet One(b)
BY DEF Wire, Two, One, \bullet

LEMMA TwoFirst ==
  ASSUME NEW b \in Octet, NEW m \in Octet, NEW t \in Wire
  PROVE  Two(m, b) \bullet t = One(m) \bullet (One(b) \bullet t)
BY TwoIsWire, OneIsWire, WireAssoc

LEMMA WordAll ==
  ASSUME NEW m \in Octet, NEW b \in Octet, NEW t \in Wire, NEW g, NEW c, NEW v
  PROVE  Word(Reader(Two(m, b) \bullet t, g, c, v), m) = Reader(t, b, c, v)
<1>1. One(b) \bullet t \in Wire
  BY OneIsWire, WireConcat
<1>2. Expect(Reader(Two(m, b) \bullet t, g, c, v), m) = Reader(One(b) \bullet t, m, c, v)
  BY <1>1, TwoFirst, ExpectAll
<1> QED BY <1>2, ByteAll DEF Word

LEMMA ByteRefused == Byte(Refused) = Refused
BY DEF Byte, Then, Check, Refused

LEMMA WordSome ==
  ASSUME NEW r \in Wire, NEW g, NEW c, NEW v, NEW m \in Octet
  PROVE  \/ Word(Reader(r, g, c, v), m) = Refused
         \/ \E b \in Octet, t \in Wire : r = Two(m, b) \bullet t
<1>1. CASE Expect(Reader(r, g, c, v), m) = Refused
  BY <1>1, ByteRefused DEF Word
<1>2. ASSUME NEW u \in Wire, r = One(m) \bullet u
      PROVE  \/ Word(Reader(r, g, c, v), m) = Refused
             \/ \E b \in Octet, t \in Wire : u = One(b) \bullet t
  <2>1. Expect(Reader(r, g, c, v), m) = Reader(u, m, c, v)
    BY <1>2, ExpectAll
  <2> QED BY <2>1, ByteSome DEF Word
<1>3. ASSUME NEW u \in Wire, r = One(m) \bullet u, NEW b \in Octet, NEW t \in Wire, u = One(b) \bullet t
      PROVE  r = Two(m, b) \bullet t
  BY <1>3, TwoFirst
<1> QED BY <1>1, <1>2, <1>3, ExpectSome

LEMMA MarkersAreBytes ==
  /\ Pair \in Octet /\ Triple \in Octet /\ Nil \in Octet /\ False \in Octet /\ True \in Octet
  /\ Bin32 \in Octet /\ Float64 \in Octet /\ UInt64 \in Octet /\ Int64 \in Octet
  /\ Str32 \in Octet /\ Array32 \in Octet
BY DEF Pair, Triple, Nil, False, True, Bin32, Float64, UInt64, Int64, Str32, Array32, Octet

LEMMA AddContentCases ==
  ASSUME NEW r, NEW g, NEW c, NEW v, NEW n, NEW limit
  PROVE  /\ n <= limit /\ c + n <= MaxContent =>
              /\ AddContent(Writer(r, c, v), n, limit) = Writer(r, c + n, v)
              /\ AddContent(Reader(r, g, c, v), n, limit) = Reader(r, g, c + n, v)
         /\ ~(n <= limit /\ c + n <= MaxContent) =>
              /\ AddContent(Writer(r, c, v), n, limit) = Refused
              /\ AddContent(Reader(r, g, c, v), n, limit) = Refused
BY DEF AddContent, Then, Check, Writer, Reader, Refused

\* The same for the writer alone.
LEMMA ContentWritten ==
  ASSUME NEW r, NEW c, NEW v, NEW n, NEW limit
  PROVE  /\ n <= limit /\ c + n <= MaxContent =>
              AddContent(Writer(r, c, v), n, limit) = Writer(r, c + n, v)
         /\ ~(n <= limit /\ c + n <= MaxContent) =>
              AddContent(Writer(r, c, v), n, limit) = Refused
BY DEF AddContent, Then, Check, Writer, Refused

LEMMA TextIsWire ==
  ASSUME NEW s \in Text
  PROVE  s \in Wire
<1>1. 0..127 \subseteq Octet
  BY DEF Octet
<1>2. s \in Seq(0..127)
  BY DEF Text
<1> QED BY <1>1, <1>2, SeqMonotonic DEF Wire

LEMMA WireLen ==
  ASSUME NEW s \in Wire
  PROVE  Len(s) \in Nat /\ \A n \in Octet : Len(s) <= n => Len(s) \in Octet
<1>1. Len(s) \in Nat
  BY LenProperties DEF Wire
<1>2. ASSUME NEW k \in Nat, NEW n \in Octet, k <= n
      PROVE  k \in Octet
  BY <1>2 DEF Octet
<1> QED BY <1>1, <1>2

LEMMA SizedPut ==
  ASSUME NEW o, NEW c, NEW v, NEW m, NEW s
  PROVE  Sized(Writer(o, c, v), m, s) = Writer(o \bullet Prefixed(m, s), c, v)
BY DEF Sized, Emit, Then, Writer, Prefixed, Two, \bullet

LEMMA SizedRefused ==
  ASSUME NEW m, NEW s
  PROVE  Sized(Refused, m, s) = Refused
BY DEF Sized, Emit, Then, Refused

LEMMA PrefixedIsWire ==
  ASSUME NEW m \in Octet, NEW s \in Wire, Len(s) \in Octet
  PROVE  Prefixed(m, s) \in Wire
BY TwoIsWire, WireConcat DEF Prefixed

LEMMA PrefixedFirst ==
  ASSUME NEW m \in Octet, NEW s \in Wire, Len(s) \in Octet, NEW t \in Wire
  PROVE  Prefixed(m, s) \bullet t = Two(m, Len(s)) \bullet (s \bullet t)
BY TwoIsWire, WireAssoc DEF Prefixed

LEMMA WordPrefixed ==
  ASSUME NEW m \in Octet, NEW s \in Wire, Len(s) \in Octet, NEW t \in Wire,
         NEW g, NEW c, NEW v
  PROVE  Word(Reader(Prefixed(m, s) \bullet t, g, c, v), m) = Reader(s \bullet t, Len(s), c, v)
<1>1. s \bullet t \in Wire
  BY WireConcat
<1> QED BY <1>1, PrefixedFirst, WordAll

LEMMA TakeRefused ==
  ASSUME NEW n
  PROVE  Take(Refused, n) = Refused /\ ReadString(Refused, n) = Refused
BY DEF Take, ReadString, Then, Check, Refused

\* Reading back a string of n bytes.
LEMMA ReadStringAll ==
  ASSUME NEW s \in Text, NEW t \in Wire, NEW g, NEW c, NEW v
  PROVE  ReadString(Reader(s \bullet t, g, c, v), Len(s)) = Reader(t, s, c, v)
<1>1. Take(Reader(s \bullet t, g, c, v), Len(s)) = Reader(t, s, c, v)
  BY TextIsWire, TakeAll
<1> QED BY <1>1 DEF ReadString, Then, Check, Utf8, Reader

LEMMA ReadStringSome ==
  ASSUME NEW r \in Wire, NEW g, NEW c, NEW v, NEW n \in Nat
  PROVE  \/ ReadString(Reader(r, g, c, v), n) = Refused
         \/ \E s \in Text, t \in Wire : Len(s) = n /\ r = s \bullet t
<1>1. CASE Take(Reader(r, g, c, v), n) = Refused
  BY <1>1 DEF ReadString, Then, Refused
<1>2. ASSUME NEW s \in Wire, NEW t \in Wire, Len(s) = n, r = s \bullet t, s \notin Text
      PROVE  ReadString(Reader(r, g, c, v), n) = Refused
  <2>1. Take(Reader(r, g, c, v), Len(s)) = Reader(t, s, c, v)
    BY <1>2, TakeAll
  <2> QED BY <1>2, <2>1 DEF ReadString, Then, Check, Utf8, Reader
<1> QED BY <1>1, <1>2, TakeSome

LEMMA GetNameAll ==
  ASSUME NEW s \in Text, Len(s) <= MaxName, NEW t \in Wire, NEW g, NEW c, NEW v
  PROVE  /\ GetName(Reader(Prefixed(Str32, s) \bullet t, g, c, v)) = Reader(t, s, c, v)
         /\ Prefixed(Str32, s) \in Wire
<1>1. s \in Wire /\ Len(s) \in Octet /\ Str32 \in Octet
  BY TextIsWire, WireLen, MarkersAreBytes, CodecAssumption
<1>2. Word(Reader(Prefixed(Str32, s) \bullet t, g, c, v), Str32) = Reader(s \bullet t, Len(s), c, v)
  BY <1>1, WordPrefixed
<1>3. ReadString(Reader(s \bullet t, Len(s), c, v), Len(s)) = Reader(t, s, c, v)
  BY ReadStringAll
<1>4. Check(Reader(s \bullet t, Len(s), c, v), Len(s) <= MaxName) = Reader(s \bullet t, Len(s), c, v)
  BY DEF Check, Reader
<1>5. GetName(Reader(Prefixed(Str32, s) \bullet t, g, c, v))
        = ReadString(Check(Reader(s \bullet t, Len(s), c, v), Len(s) <= MaxName), Len(s))
  BY <1>2 DEF GetName, Then, Reader
<1> QED BY <1>1, <1>3, <1>4, <1>5, PrefixedIsWire

LEMMA GetNameSome ==
  ASSUME NEW r \in Wire, NEW g, NEW c, NEW v
  PROVE  \/ GetName(Reader(r, g, c, v)) = Refused
         \/ \E s \in Text, t \in Wire : Len(s) <= MaxName /\ r = Prefixed(Str32, s) \bullet t
<1> DEFINE d == Reader(r, g, c, v)
<1>1. CASE Word(d, Str32) = Refused
  BY <1>1 DEF GetName, Then, Refused
<1>2. ASSUME NEW n \in Octet, NEW u \in Wire, r = Two(Str32, n) \bullet u
      PROVE  \/ GetName(d) = Refused
             \/ \E s \in Text, t \in Wire : Len(s) <= MaxName /\ r = Prefixed(Str32, s) \bullet t
  <2>1. Word(d, Str32) = Reader(u, n, c, v)
    BY <1>2, WordAll, MarkersAreBytes
  <2>2. GetName(d) = ReadString(Check(Reader(u, n, c, v), n <= MaxName), n)
    BY <2>1 DEF GetName, Then, Reader
  <2>3. CASE ~(n <= MaxName)
    <3>1. Check(Reader(u, n, c, v), n <= MaxName) = Refused
      BY <2>3 DEF Check
    <3> QED BY <2>2, <3>1, TakeRefused
  <2>4. CASE n <= MaxName
    <3>1. Check(Reader(u, n, c, v), n <= MaxName) = Reader(u, n, c, v)
      BY <2>4 DEF Check, Reader
    <3>2. n \in Nat
      BY DEF Octet
    <3>3. ASSUME NEW s \in Text, NEW t \in Wire, Len(s) = n, u = s \bullet t
          PROVE  r = Prefixed(Str32, s) \bullet t
      BY <1>2, <3>3, TextIsWire, PrefixedFirst, MarkersAreBytes
    <3> QED BY <2>2, <2>4, <3>1, <3>2, <3>3, ReadStringSome
  <2> QED BY <2>3, <2>4
<1> QED BY <1>1, <1>2, WordSome, MarkersAreBytes

LEMMA GetStringAll ==
  ASSUME NEW s \in Text, NEW t \in Wire, NEW g, NEW c, NEW v,
         Len(s) <= MaxString, c + Len(s) <= MaxContent
  PROVE  /\ GetString(Reader(Prefixed(Str32, s) \bullet t, g, c, v)) = Reader(t, s, c + Len(s), v)
         /\ Prefixed(Str32, s) \in Wire
<1>1. s \in Wire /\ Len(s) \in Octet /\ Str32 \in Octet
  BY TextIsWire, WireLen, MarkersAreBytes, CodecAssumption
<1> DEFINE n == Reader(s \bullet t, Len(s), c, v)
<1>2. Word(Reader(Prefixed(Str32, s) \bullet t, g, c, v), Str32) = n
  BY <1>1, WordPrefixed
<1>3. n.ok /\ n.got = Len(s)
  BY DEF Reader
<1>4. AddContent(n, Len(s), MaxString) = Reader(s \bullet t, Len(s), c + Len(s), v)
  BY AddContentCases
<1>5. ReadString(Reader(s \bullet t, Len(s), c + Len(s), v), Len(s)) = Reader(t, s, c + Len(s), v)
  BY ReadStringAll
<1> HIDE DEF n
<1>6. GetString(Reader(Prefixed(Str32, s) \bullet t, g, c, v)) = ReadString(AddContent(n, Len(s), MaxString), Len(s))
  BY <1>2, <1>3 DEF GetString, Then
<1> QED BY <1>1, <1>4, <1>5, <1>6, PrefixedIsWire

LEMMA GetStringSome ==
  ASSUME NEW r \in Wire, NEW g, NEW c \in Nat, NEW v
  PROVE  \/ GetString(Reader(r, g, c, v)) = Refused
         \/ \E s \in Text, t \in Wire : /\ Len(s) <= MaxString /\ c + Len(s) <= MaxContent
                                        /\ r = Prefixed(Str32, s) \bullet t
<1> DEFINE d == Reader(r, g, c, v)
<1>1. CASE Word(d, Str32) = Refused
  BY <1>1 DEF GetString, Then, Refused
<1>2. ASSUME NEW n \in Octet, NEW u \in Wire, r = Two(Str32, n) \bullet u
      PROVE  \/ GetString(d) = Refused
             \/ \E s \in Text, t \in Wire : /\ Len(s) <= MaxString /\ c + Len(s) <= MaxContent
                                            /\ r = Prefixed(Str32, s) \bullet t
  <2> DEFINE w == Reader(u, n, c, v)
  <2>1. Word(d, Str32) = w
    BY <1>2, WordAll, MarkersAreBytes
  <2>2. w.ok /\ w.got = n
    BY DEF Reader
  <2>3. GetString(d) = ReadString(AddContent(w, n, MaxString), n)
    <3> HIDE DEF w, d
    <3> QED BY <2>1, <2>2 DEF GetString, Then
  <2>4. CASE ~(n <= MaxString /\ c + n <= MaxContent)
    BY <2>3, <2>4, AddContentCases, TakeRefused
  <2>5. CASE n <= MaxString /\ c + n <= MaxContent
    <3>1. AddContent(w, n, MaxString) = Reader(u, n, c + n, v)
      BY <2>5, AddContentCases
    <3>2. n \in Nat
      BY DEF Octet
    <3>3. ASSUME NEW s \in Text, NEW t \in Wire, Len(s) = n, u = s \bullet t
          PROVE  r = Prefixed(Str32, s) \bullet t
      BY <1>2, <3>3, TextIsWire, PrefixedFirst, MarkersAreBytes
    <3>4. \/ ReadString(Reader(u, n, c + n, v), n) = Refused
          \/ \E s \in Text, t \in Wire : Len(s) = n /\ u = s \bullet t
      BY <3>2, ReadStringSome
    <3> QED BY <2>3, <2>5, <3>1, <3>3, <3>4
  <2> QED BY <2>4, <2>5
<1> QED BY <1>1, <1>2, WordSome, MarkersAreBytes

LEMMA GetBytesAll ==
  ASSUME NEW s \in Wire, NEW t \in Wire, NEW g, NEW c, NEW v,
         Len(s) <= MaxBytes, c + Len(s) <= MaxContent
  PROVE  /\ GetBytes(Reader(Prefixed(Bin32, s) \bullet t, g, c, v)) = Reader(t, s, c + Len(s), v)
         /\ Prefixed(Bin32, s) \in Wire
<1>1. Len(s) \in Octet /\ Bin32 \in Octet
  BY WireLen, MarkersAreBytes, CodecAssumption
<1> DEFINE n == Reader(s \bullet t, Len(s), c, v)
<1>2. Word(Reader(Prefixed(Bin32, s) \bullet t, g, c, v), Bin32) = n
  BY <1>1, WordPrefixed
<1>3. n.ok /\ n.got = Len(s)
  BY DEF Reader
<1>4. AddContent(n, Len(s), MaxBytes) = Reader(s \bullet t, Len(s), c + Len(s), v)
  BY AddContentCases
<1>5. Take(Reader(s \bullet t, Len(s), c + Len(s), v), Len(s)) = Reader(t, s, c + Len(s), v)
  BY TakeAll
<1> HIDE DEF n
<1>6. GetBytes(Reader(Prefixed(Bin32, s) \bullet t, g, c, v)) = Take(AddContent(n, Len(s), MaxBytes), Len(s))
  BY <1>2, <1>3 DEF GetBytes, Then
<1> QED BY <1>1, <1>4, <1>5, <1>6, PrefixedIsWire

LEMMA GetBytesSome ==
  ASSUME NEW r \in Wire, NEW g, NEW c \in Nat, NEW v
  PROVE  \/ GetBytes(Reader(r, g, c, v)) = Refused
         \/ \E s \in Wire, t \in Wire : /\ Len(s) <= MaxBytes /\ c + Len(s) <= MaxContent
                                        /\ r = Prefixed(Bin32, s) \bullet t
<1> DEFINE d == Reader(r, g, c, v)
<1>1. CASE Word(d, Bin32) = Refused
  BY <1>1 DEF GetBytes, Then, Refused
<1>2. ASSUME NEW n \in Octet, NEW u \in Wire, r = Two(Bin32, n) \bullet u
      PROVE  \/ GetBytes(d) = Refused
             \/ \E s \in Wire, t \in Wire : /\ Len(s) <= MaxBytes /\ c + Len(s) <= MaxContent
                                            /\ r = Prefixed(Bin32, s) \bullet t
  <2> DEFINE w == Reader(u, n, c, v)
  <2>1. Word(d, Bin32) = w
    BY <1>2, WordAll, MarkersAreBytes
  <2>2. w.ok /\ w.got = n
    BY DEF Reader
  <2>3. GetBytes(d) = Take(AddContent(w, n, MaxBytes), n)
    <3> HIDE DEF w, d
    <3> QED BY <2>1, <2>2 DEF GetBytes, Then
  <2>4. CASE ~(n <= MaxBytes /\ c + n <= MaxContent)
    BY <2>3, <2>4, AddContentCases, TakeRefused
  <2>5. CASE n <= MaxBytes /\ c + n <= MaxContent
    <3>1. AddContent(w, n, MaxBytes) = Reader(u, n, c + n, v)
      BY <2>5, AddContentCases
    <3>2. n \in Nat
      BY DEF Octet
    <3>3. ASSUME NEW s \in Wire, NEW t \in Wire, Len(s) = n, u = s \bullet t
          PROVE  r = Prefixed(Bin32, s) \bullet t
      BY <1>2, <3>3, PrefixedFirst, MarkersAreBytes
    <3>4. \/ Take(Reader(u, n, c + n, v), n) = Refused
          \/ \E s \in Wire, t \in Wire : Len(s) = n /\ u = s \bullet t
      BY <3>2, TakeSome
    <3> QED BY <2>3, <2>5, <3>1, <3>3, <3>4
  <2> QED BY <2>4, <2>5
<1> QED BY <1>1, <1>2, WordSome, MarkersAreBytes

LEMMA GetLengthAll ==
  ASSUME NEW n \in Nat, n <= MaxEntries, NEW t \in Wire, NEW g, NEW c, NEW v
  PROVE  /\ GetLength(Reader(Two(Array32, n) \bullet t, g, c, v)) = Reader(t, n, c, v)
         /\ Two(Array32, n) \in Wire
<1>1. n \in Octet
  BY CodecAssumption DEF Octet
<1>2. Word(Reader(Two(Array32, n) \bullet t, g, c, v), Array32) = Reader(t, n, c, v)
  BY <1>1, WordAll, MarkersAreBytes
<1>3. Two(Array32, n) \in Wire
  BY <1>1, TwoIsWire, MarkersAreBytes
<1> QED BY <1>2, <1>3 DEF GetLength, Then, Check, Reader

LEMMA GetLengthSome ==
  ASSUME NEW r \in Wire, NEW g, NEW c, NEW v
  PROVE  \/ GetLength(Reader(r, g, c, v)) = Refused
         \/ \E n \in Octet, t \in Wire : n <= MaxEntries /\ r = Two(Array32, n) \bullet t
<1> DEFINE d == Reader(r, g, c, v)
<1>1. CASE Word(d, Array32) = Refused
  BY <1>1 DEF GetLength, Then, Refused
<1>2. ASSUME NEW n \in Octet, NEW t \in Wire, r = Two(Array32, n) \bullet t, ~(n <= MaxEntries)
      PROVE  GetLength(d) = Refused
  <2>1. Word(d, Array32) = Reader(t, n, c, v)
    BY <1>2, WordAll, MarkersAreBytes
  <2> QED BY <1>2, <2>1 DEF GetLength, Then, Check, Reader
<1> QED BY <1>1, <1>2, WordSome, MarkersAreBytes

-----------------------------------------------------------------------------
(* The contents behind each tag that holds no values.                      *)

LEMMA PutContentsCases ==
  ASSUME NEW put, NEW e, NEW x
  PROVE  /\ PutContents(put, e, Null, x) = PutNull(e)
         /\ PutContents(put, e, Bool, x) = PutBool(e, x)
         /\ PutContents(put, e, Integer, x) = PutInteger(e, x)
         /\ PutContents(put, e, Float, x) = PutFloat(e, x)
         /\ PutContents(put, e, String, x) = PutString(e, x)
         /\ PutContents(put, e, Bytes, x) = PutBytes(e, x)
         /\ PutContents(put, e, Array, x) = PutArray(put, e, x)
         /\ PutContents(put, e, Map, x) = PutMap(put, e, x)
         /\ PutContents(put, e, Handle, x) = PutHandle(e, x)
         /\ PutContents(put, e, Error, x) = PutName(e, x)
BY DEF PutContents, Null, Bool, Integer, Float, String, Bytes, Array, Map, Handle, Error

LEMMA GetContentsCases ==
  ASSUME NEW get, NEW d
  PROVE  /\ GetContents(get, d, Null) = GetNull(d)
         /\ GetContents(get, d, Bool) = GetBool(d)
         /\ GetContents(get, d, Integer) = GetInteger(d)
         /\ GetContents(get, d, Float) = GetFloat(d)
         /\ GetContents(get, d, String) = GetString(d)
         /\ GetContents(get, d, Bytes) = GetBytes(d)
         /\ GetContents(get, d, Array) = GetArray(get, d)
         /\ GetContents(get, d, Map) = GetMap(get, d)
         /\ GetContents(get, d, Handle) = GetHandle(d)
         /\ GetContents(get, d, Error) = GetError(d)
         /\ \A tag : tag \notin 0..9 => GetContents(get, d, tag) = Refused
BY DEF GetContents, Null, Bool, Integer, Float, String, Bytes, Array, Map, Handle, Error

\* The bytes w are what the encoder writes for the contents x behind the tag,
\* and what the decoder reads as x, both with the same counters after it.
ContentsAgree(put, get, tag, x, w, c, v, c2, v2) ==
    /\ \A o \in Wire : PutContents(put, Writer(o, c, v), tag, x) = Writer(o \bullet w, c2, v2)
    /\ \A t \in Wire : GetContents(get, Reader(w \bullet t, tag, c, v), tag) = Reader(t, x, c2, v2)

\* Behind the tag, each direction refuses or does what the other undoes.
ContentsRoundTrip(put, get, tag, X) ==
    /\ \A x \in X, o \in Wire, c \in Nat, v \in Nat :
         \/ PutContents(put, Writer(o, c, v), tag, x) = Refused
         \/ \E w \in Wire, c2 \in Nat, v2 \in Nat :
              ContentsAgree(put, get, tag, x, w, c, v, c2, v2)
    /\ \A r \in Wire, c \in Nat, v \in Nat :
         \/ GetContents(get, Reader(r, tag, c, v), tag) = Refused
         \/ \E x \in X, w \in Wire, t \in Wire, c2 \in Nat, v2 \in Nat :
              r = w \bullet t /\ ContentsAgree(put, get, tag, x, w, c, v, c2, v2)

LEMMA EmitWriter ==
  ASSUME NEW o, NEW c, NEW v, NEW b
  PROVE  Emit(Writer(o, c, v), b) = Writer(o \bullet b, c, v) /\ Emit(Refused, b) = Refused
BY DEF Emit, Then, Writer, Refused, \bullet

LEMMA ReaderFields ==
  ASSUME NEW r, NEW g, NEW c, NEW v
  PROVE  /\ Reader(r, g, c, v).ok /\ Reader(r, g, c, v).got = g
         /\ \A x : Got(Reader(r, g, c, v), x) = Reader(r, x, c, v)
         /\ ~Refused.ok
<1>1. Reader(r, g, c, v).ok /\ Reader(r, g, c, v).got = g
  BY DEF Reader
<1>2. \A x : Got(Reader(r, g, c, v), x) = Reader(r, x, c, v)
  BY DEF Reader, Got
<1>3. ~Refused.ok
  BY DEF Refused
<1> QED BY <1>1, <1>2, <1>3

LEMMA NullRoundTrip ==
  ASSUME NEW put, NEW get
  PROVE  ContentsRoundTrip(put, get, Null, {0})
<1>1. One(Nil) \in Wire
  BY OneIsWire, MarkersAreBytes
<1>2. ASSUME NEW c \in Nat, NEW v \in Nat
      PROVE  ContentsAgree(put, get, Null, 0, One(Nil), c, v, c, v)
  <2>1. ASSUME NEW o \in Wire
        PROVE  PutContents(put, Writer(o, c, v), Null, 0) = Writer(o \bullet One(Nil), c, v)
    <3>1. PutNull(Writer(o, c, v)) = Emit(Writer(o, c, v), One(Nil))
      BY DEF PutNull, One
    <3> QED BY <3>1, PutContentsCases, EmitWriter
  <2>2. ASSUME NEW t \in Wire
        PROVE  GetContents(get, Reader(One(Nil) \bullet t, Null, c, v), Null) = Reader(t, 0, c, v)
    <3>1. Expect(Reader(One(Nil) \bullet t, Null, c, v), Nil) = Reader(t, Nil, c, v)
      BY ExpectAll, MarkersAreBytes
    <3>2. GetNull(Reader(One(Nil) \bullet t, Null, c, v)) = Reader(t, 0, c, v)
      BY <3>1, ReaderFields DEF GetNull, Then
    <3> QED BY <3>2, GetContentsCases
  <2> QED BY <2>1, <2>2 DEF ContentsAgree
<1>3. ASSUME NEW r \in Wire, NEW c \in Nat, NEW v \in Nat
      PROVE  \/ GetContents(get, Reader(r, Null, c, v), Null) = Refused
             \/ \E t \in Wire : r = One(Nil) \bullet t
  <2>1. CASE Expect(Reader(r, Null, c, v), Nil) = Refused
    BY <2>1, GetContentsCases, ReaderFields DEF GetNull, Then
  <2> QED BY <2>1, ExpectSome, MarkersAreBytes
<1> QED BY <1>1, <1>2, <1>3 DEF ContentsRoundTrip

LEMMA BoolRoundTrip ==
  ASSUME NEW put, NEW get
  PROVE  ContentsRoundTrip(put, get, Bool, {0, 1})
<1> DEFINE spelt(x) == IF x = 0 THEN False ELSE True
<1>1. ASSUME NEW x \in {0, 1}
      PROVE  spelt(x) \in Octet /\ One(spelt(x)) \in Wire
  BY OneIsWire, MarkersAreBytes
<1>2. ASSUME NEW x \in {0, 1}, NEW c \in Nat, NEW v \in Nat
      PROVE  ContentsAgree(put, get, Bool, x, One(spelt(x)), c, v, c, v)
  <2>1. ASSUME NEW o \in Wire
        PROVE  PutContents(put, Writer(o, c, v), Bool, x) = Writer(o \bullet One(spelt(x)), c, v)
    <3>1. PutBool(Writer(o, c, v), x) = Emit(Writer(o, c, v), One(spelt(x)))
      BY DEF PutBool, One
    <3> HIDE DEF spelt
    <3> QED BY <3>1, PutContentsCases, EmitWriter
  <2>2. ASSUME NEW t \in Wire
        PROVE  GetContents(get, Reader(One(spelt(x)) \bullet t, Bool, c, v), Bool) = Reader(t, x, c, v)
    <3>1. spelt(x) \in {False, True} /\ x = IF spelt(x) = True THEN 1 ELSE 0
      BY DEF False, True
    <3> DEFINE d == Reader(One(spelt(x)) \bullet t, Bool, c, v)
    <3> HIDE DEF spelt
    <3>2. Byte(d) = Reader(t, spelt(x), c, v)
      BY <1>1, ByteAll
    <3> HIDE DEF d
    <3>3. Got(Reader(t, spelt(x), c, v), IF spelt(x) = True THEN 1 ELSE 0) = Reader(t, x, c, v)
      BY <3>1, ReaderFields
    <3>4. GetBool(d) = Reader(t, x, c, v)
      BY <3>1, <3>2, <3>3, ReaderFields DEF GetBool, Then, Check
    <3> QED BY <3>4, GetContentsCases DEF d
  <2> QED BY <2>1, <2>2 DEF ContentsAgree
<1>3. ASSUME NEW r \in Wire, NEW c \in Nat, NEW v \in Nat
      PROVE  \/ GetContents(get, Reader(r, Bool, c, v), Bool) = Refused
             \/ \E x \in {0, 1}, t \in Wire : r = One(spelt(x)) \bullet t
  <2> DEFINE d == Reader(r, Bool, c, v)
  <2>1. CASE Byte(d) = Refused
    BY <2>1, GetContentsCases, ReaderFields DEF GetBool, Then
  <2>2. ASSUME NEW b \in Octet, NEW t \in Wire, r = One(b) \bullet t, b \notin {False, True}
        PROVE  GetContents(get, d, Bool) = Refused
    <3>1. Byte(d) = Reader(t, b, c, v)
      BY <2>2, ByteAll
    <3> HIDE DEF d
    <3>2. GetBool(d) = Refused
      BY <2>2, <3>1, ReaderFields DEF GetBool, Then, Check
    <3> QED BY <3>2, GetContentsCases
  <2>3. ASSUME NEW b \in {False, True}
        PROVE  \E x \in {0, 1} : b = spelt(x)
    BY DEF False, True
  <2> HIDE DEF spelt
  <2> QED BY <2>1, <2>2, <2>3, ByteSome
<1> HIDE DEF spelt
<1> QED BY <1>1, <1>2, <1>3 DEF ContentsRoundTrip

LEMMA SignedUnsigned ==
  /\ \A x \in -128..MaxSigned : Unsigned(x) \in Octet /\ Signed(Unsigned(x)) = x
  /\ \A b \in Octet : Signed(b) \in -128..MaxSigned /\ Unsigned(Signed(b)) = b
<1>1. ASSUME NEW x \in -128..127
      PROVE  /\ x % 256 = IF x < 0 THEN x + 256 ELSE x
             /\ x % 256 \in 0..255
  OBVIOUS
<1>2. ASSUME NEW x \in -128..MaxSigned
      PROVE  Unsigned(x) \in Octet /\ Signed(Unsigned(x)) = x
  BY <1>1 DEF Signed, Unsigned, MaxSigned, Octet
<1>3. ASSUME NEW b \in Octet
      PROVE  Signed(b) \in -128..MaxSigned /\ Unsigned(Signed(b)) = b
  <2>1. Signed(b) \in -128..127 /\ b = IF Signed(b) < 0 THEN Signed(b) + 256 ELSE Signed(b)
    BY DEF Signed, MaxSigned, Octet
  <2> QED BY <2>1, <1>1 DEF Unsigned, MaxSigned
<1> QED BY <1>2, <1>3

LEMMA IntegerRoundTrip ==
  ASSUME NEW put, NEW get
  PROVE  ContentsRoundTrip(put, get, Integer, -128..MaxSigned)
<1> DEFINE X == -128..MaxSigned
<1> HIDE DEF X
<1>1. /\ \A x \in X : Unsigned(x) \in Octet /\ Signed(Unsigned(x)) = x
      /\ \A b \in Octet : Signed(b) \in X /\ Unsigned(Signed(b)) = b
  BY SignedUnsigned DEF X
<1>2. ASSUME NEW x \in X, NEW c \in Nat, NEW v \in Nat
      PROVE  /\ Two(Int64, Unsigned(x)) \in Wire
             /\ ContentsAgree(put, get, Integer, x, Two(Int64, Unsigned(x)), c, v, c, v)
  <2>1. ASSUME NEW o \in Wire
        PROVE  PutContents(put, Writer(o, c, v), Integer, x)
                 = Writer(o \bullet Two(Int64, Unsigned(x)), c, v)
    <3>1. PutInteger(Writer(o, c, v), x) = Emit(Writer(o, c, v), Two(Int64, Unsigned(x)))
      BY DEF PutInteger, Two
    <3> QED BY <3>1, PutContentsCases, EmitWriter
  <2>2. ASSUME NEW t \in Wire
        PROVE  GetContents(get, Reader(Two(Int64, Unsigned(x)) \bullet t, Integer, c, v), Integer)
                 = Reader(t, x, c, v)
    <3> DEFINE d == Reader(Two(Int64, Unsigned(x)) \bullet t, Integer, c, v)
    <3>1. Word(d, Int64) = Reader(t, Unsigned(x), c, v)
      BY <1>1, WordAll, MarkersAreBytes
    <3> HIDE DEF d
    <3>2. GetInteger(d) = Reader(t, Signed(Unsigned(x)), c, v)
      BY <3>1, ReaderFields DEF GetInteger, Then
    <3> QED BY <1>1, <3>2, GetContentsCases DEF d
  <2>3. Two(Int64, Unsigned(x)) \in Wire
    BY <1>1, TwoIsWire, MarkersAreBytes
  <2> QED BY <2>1, <2>2, <2>3 DEF ContentsAgree
<1>3. ASSUME NEW r \in Wire, NEW c \in Nat, NEW v \in Nat
      PROVE  \/ GetContents(get, Reader(r, Integer, c, v), Integer) = Refused
             \/ \E x \in X, t \in Wire : r = Two(Int64, Unsigned(x)) \bullet t
  <2>1. CASE Word(Reader(r, Integer, c, v), Int64) = Refused
    BY <2>1, GetContentsCases, ReaderFields DEF GetInteger, Then
  <2>2. ASSUME NEW b \in Octet, NEW t \in Wire, r = Two(Int64, b) \bullet t
        PROVE  r = Two(Int64, Unsigned(Signed(b))) \bullet t
    BY <1>1, <2>2
  <2> QED BY <1>1, <2>1, <2>2, WordSome, MarkersAreBytes
<1>4. ContentsRoundTrip(put, get, Integer, X)
  BY <1>2, <1>3 DEF ContentsRoundTrip
<1> QED BY <1>4 DEF X

LEMMA FloatRoundTrip ==
  ASSUME NEW put, NEW get
  PROVE  ContentsRoundTrip(put, get, Float, Octet)
<1>1. ASSUME NEW x \in Octet
      PROVE  Two(Float64, x) \in Wire
  BY TwoIsWire, MarkersAreBytes
<1>2. ASSUME NEW x \in Octet, x \notin NotFinite, NEW c \in Nat, NEW v \in Nat
      PROVE  ContentsAgree(put, get, Float, x, Two(Float64, x), c, v, c, v)
  <2>1. ASSUME NEW o \in Wire
        PROVE  PutContents(put, Writer(o, c, v), Float, x) = Writer(o \bullet Two(Float64, x), c, v)
    <3>1. Check(Writer(o, c, v), x \notin NotFinite) = Writer(o, c, v)
      BY <1>2 DEF Check, Writer
    <3>2. PutFloat(Writer(o, c, v), x) = Emit(Writer(o, c, v), Two(Float64, x))
      BY <3>1 DEF PutFloat, Two
    <3> QED BY <3>2, PutContentsCases, EmitWriter
  <2>2. ASSUME NEW t \in Wire
        PROVE  GetContents(get, Reader(Two(Float64, x) \bullet t, Float, c, v), Float)
                 = Reader(t, x, c, v)
    <3> DEFINE d == Reader(Two(Float64, x) \bullet t, Float, c, v)
    <3>1. Word(d, Float64) = Reader(t, x, c, v)
      BY WordAll, MarkersAreBytes
    <3> HIDE DEF d
    <3>2. GetFloat(d) = Reader(t, x, c, v)
      BY <1>2, <3>1, ReaderFields DEF GetFloat, Then, Check
    <3> QED BY <3>2, GetContentsCases DEF d
  <2> QED BY <2>1, <2>2 DEF ContentsAgree
<1>3. ASSUME NEW x \in Octet, x \in NotFinite, NEW o, NEW c, NEW v
      PROVE  PutContents(put, Writer(o, c, v), Float, x) = Refused
  <2>1. Check(Writer(o, c, v), x \notin NotFinite) = Refused
    BY <1>3 DEF Check
  <2>2. PutFloat(Writer(o, c, v), x) = Refused
    BY <2>1, EmitWriter DEF PutFloat
  <2> QED BY <2>2, PutContentsCases
<1>4. ASSUME NEW r \in Wire, NEW c \in Nat, NEW v \in Nat
      PROVE  \/ GetContents(get, Reader(r, Float, c, v), Float) = Refused
             \/ \E x \in Octet, t \in Wire : x \notin NotFinite /\ r = Two(Float64, x) \bullet t
  <2> DEFINE d == Reader(r, Float, c, v)
  <2>1. CASE Word(d, Float64) = Refused
    BY <2>1, GetContentsCases, ReaderFields DEF GetFloat, Then
  <2>2. ASSUME NEW x \in Octet, NEW t \in Wire, x \in NotFinite, r = Two(Float64, x) \bullet t
        PROVE  GetContents(get, d, Float) = Refused
    <3>1. Word(d, Float64) = Reader(t, x, c, v)
      BY <2>2, WordAll, MarkersAreBytes
    <3> HIDE DEF d
    <3>2. GetFloat(d) = Refused
      BY <2>2, <3>1, ReaderFields DEF GetFloat, Then, Check
    <3> QED BY <3>2, GetContentsCases
  <2> QED BY <2>1, <2>2, WordSome, MarkersAreBytes
<1> QED BY <1>1, <1>2, <1>3, <1>4 DEF ContentsRoundTrip

LEMMA PutNameCases ==
  ASSUME NEW o, NEW c, NEW v, NEW s
  PROVE  /\ Len(s) <= MaxName =>
              PutName(Writer(o, c, v), s) = Writer(o \bullet Prefixed(Str32, s), c, v)
         /\ ~(Len(s) <= MaxName) => PutName(Writer(o, c, v), s) = Refused
         /\ PutName(Refused, s) = Refused
<1>1. ASSUME Len(s) <= MaxName
      PROVE  PutName(Writer(o, c, v), s) = Writer(o \bullet Prefixed(Str32, s), c, v)
  <2>1. Check(Writer(o, c, v), Len(s) <= MaxName) = Writer(o, c, v)
    BY <1>1 DEF Check, Writer
  <2> QED BY <2>1, SizedPut DEF PutName
<1>2. ASSUME ~(Len(s) <= MaxName)
      PROVE  PutName(Writer(o, c, v), s) = Refused
  <2>1. Check(Writer(o, c, v), Len(s) <= MaxName) = Refused
    BY <1>2 DEF Check
  <2> QED BY <2>1, SizedRefused DEF PutName
<1>3. PutName(Refused, s) = Refused
  <2>1. Check(Refused, Len(s) <= MaxName) = Refused
    BY DEF Check, Refused
  <2> QED BY <2>1, SizedRefused DEF PutName
<1> QED BY <1>1, <1>2, <1>3

LEMMA StringRoundTrip ==
  ASSUME NEW put, NEW get
  PROVE  ContentsRoundTrip(put, get, String, Text)
<1> DEFINE fits(x, c) == Len(x) <= MaxString /\ c + Len(x) <= MaxContent
<1>1. ASSUME NEW x \in Text, NEW c \in Nat
      PROVE  c + Len(x) \in Nat
  BY TextIsWire, WireLen
<1>2. ASSUME NEW x \in Text, NEW c \in Nat, NEW v \in Nat, fits(x, c)
      PROVE  /\ Prefixed(Str32, x) \in Wire
             /\ ContentsAgree(put, get, String, x, Prefixed(Str32, x), c, v, c + Len(x), v)
  <2>1. ASSUME NEW o \in Wire
        PROVE  PutContents(put, Writer(o, c, v), String, x)
                 = Writer(o \bullet Prefixed(Str32, x), c + Len(x), v)
    <3>1. PutString(Writer(o, c, v), x) = Writer(o \bullet Prefixed(Str32, x), c + Len(x), v)
      <4>1. AddContent(Writer(o, c, v), Len(x), MaxString) = Writer(o, c + Len(x), v)
        BY <1>2, ContentWritten
      <4> QED BY <4>1, SizedPut DEF PutString
    <3> QED BY <3>1, PutContentsCases
  <2>2. ASSUME NEW t \in Wire
        PROVE  /\ GetContents(get, Reader(Prefixed(Str32, x) \bullet t, String, c, v), String)
                    = Reader(t, x, c + Len(x), v)
               /\ Prefixed(Str32, x) \in Wire
    BY <1>2, GetStringAll, GetContentsCases
  <2>3. <<>> \in Wire
    BY DEF Wire
  <2> QED BY <2>1, <2>2, <2>3 DEF ContentsAgree
<1>3. ASSUME NEW x \in Text, NEW o, NEW c \in Nat, NEW v, ~fits(x, c)
      PROVE  PutContents(put, Writer(o, c, v), String, x) = Refused
  <2>1. PutString(Writer(o, c, v), x) = Refused
    BY <1>3, AddContentCases, SizedRefused DEF PutString
  <2> QED BY <2>1, PutContentsCases
<1>4. ASSUME NEW r \in Wire, NEW c \in Nat, NEW v \in Nat
      PROVE  \/ GetContents(get, Reader(r, String, c, v), String) = Refused
             \/ \E x \in Text, t \in Wire : fits(x, c) /\ r = Prefixed(Str32, x) \bullet t
  BY GetStringSome, GetContentsCases
<1> HIDE DEF fits
<1> QED BY <1>1, <1>2, <1>3, <1>4 DEF ContentsRoundTrip

LEMMA BytesRoundTrip ==
  ASSUME NEW put, NEW get
  PROVE  ContentsRoundTrip(put, get, Bytes, Wire)
<1> DEFINE fits(x, c) == Len(x) <= MaxBytes /\ c + Len(x) <= MaxContent
<1>1. ASSUME NEW x \in Wire, NEW c \in Nat
      PROVE  c + Len(x) \in Nat
  BY WireLen
<1>2. ASSUME NEW x \in Wire, NEW c \in Nat, NEW v \in Nat, fits(x, c)
      PROVE  /\ Prefixed(Bin32, x) \in Wire
             /\ ContentsAgree(put, get, Bytes, x, Prefixed(Bin32, x), c, v, c + Len(x), v)
  <2>1. ASSUME NEW o \in Wire
        PROVE  PutContents(put, Writer(o, c, v), Bytes, x)
                 = Writer(o \bullet Prefixed(Bin32, x), c + Len(x), v)
    <3>1. PutBytes(Writer(o, c, v), x) = Writer(o \bullet Prefixed(Bin32, x), c + Len(x), v)
      <4>1. AddContent(Writer(o, c, v), Len(x), MaxBytes) = Writer(o, c + Len(x), v)
        BY <1>2, ContentWritten
      <4> QED BY <4>1, SizedPut DEF PutBytes
    <3> QED BY <3>1, PutContentsCases
  <2>2. ASSUME NEW t \in Wire
        PROVE  /\ GetContents(get, Reader(Prefixed(Bin32, x) \bullet t, Bytes, c, v), Bytes)
                    = Reader(t, x, c + Len(x), v)
               /\ Prefixed(Bin32, x) \in Wire
    BY <1>2, GetBytesAll, GetContentsCases
  <2>3. <<>> \in Wire
    BY DEF Wire
  <2> QED BY <2>1, <2>2, <2>3 DEF ContentsAgree
<1>3. ASSUME NEW x \in Wire, NEW o, NEW c \in Nat, NEW v, ~fits(x, c)
      PROVE  PutContents(put, Writer(o, c, v), Bytes, x) = Refused
  <2>1. PutBytes(Writer(o, c, v), x) = Refused
    BY <1>3, AddContentCases, SizedRefused DEF PutBytes
  <2> QED BY <2>1, PutContentsCases
<1>4. ASSUME NEW r \in Wire, NEW c \in Nat, NEW v \in Nat
      PROVE  \/ GetContents(get, Reader(r, Bytes, c, v), Bytes) = Refused
             \/ \E x \in Wire, t \in Wire : fits(x, c) /\ r = Prefixed(Bin32, x) \bullet t
  BY GetBytesSome, GetContentsCases
<1> HIDE DEF fits
<1> QED BY <1>1, <1>2, <1>3, <1>4 DEF ContentsRoundTrip

LEMMA ErrorRoundTrip ==
  ASSUME NEW put, NEW get
  PROVE  ContentsRoundTrip(put, get, Error, ErrorCodes)
<1>1. ErrorCodes \subseteq Text
  BY CodecAssumption
<1>2. ASSUME NEW x \in ErrorCodes, Len(x) <= MaxName, NEW c \in Nat, NEW v \in Nat
      PROVE  /\ Prefixed(Str32, x) \in Wire
             /\ ContentsAgree(put, get, Error, x, Prefixed(Str32, x), c, v, c, v)
  <2>1. ASSUME NEW o \in Wire
        PROVE  PutContents(put, Writer(o, c, v), Error, x) = Writer(o \bullet Prefixed(Str32, x), c, v)
    BY <1>2, PutNameCases, PutContentsCases
  <2>2. ASSUME NEW t \in Wire
        PROVE  /\ GetContents(get, Reader(Prefixed(Str32, x) \bullet t, Error, c, v), Error)
                    = Reader(t, x, c, v)
               /\ Prefixed(Str32, x) \in Wire
    <3> DEFINE d == Reader(Prefixed(Str32, x) \bullet t, Error, c, v)
    <3>1. GetName(d) = Reader(t, x, c, v) /\ Prefixed(Str32, x) \in Wire
      BY <1>1, <1>2, GetNameAll
    <3> HIDE DEF d
    <3>2. GetError(d) = Reader(t, x, c, v)
      BY <3>1, ReaderFields DEF GetError, Then, Check
    <3> QED BY <3>1, <3>2, GetContentsCases DEF d
  <2>3. <<>> \in Wire
    BY DEF Wire
  <2> QED BY <2>1, <2>2, <2>3 DEF ContentsAgree
<1>3. ASSUME NEW x \in ErrorCodes, ~(Len(x) <= MaxName), NEW o, NEW c, NEW v
      PROVE  PutContents(put, Writer(o, c, v), Error, x) = Refused
  BY <1>3, PutNameCases, PutContentsCases
<1>4. ASSUME NEW r \in Wire, NEW c \in Nat, NEW v \in Nat
      PROVE  \/ GetContents(get, Reader(r, Error, c, v), Error) = Refused
             \/ \E x \in ErrorCodes, t \in Wire :
                  Len(x) <= MaxName /\ r = Prefixed(Str32, x) \bullet t
  <2> DEFINE d == Reader(r, Error, c, v)
  <2>1. CASE GetName(d) = Refused
    <3> HIDE DEF d
    <3>1. GetError(d) = Refused
      BY <2>1, ReaderFields DEF GetError, Then
    <3> QED BY <3>1, GetContentsCases DEF d
  <2>2. ASSUME NEW x \in Text, NEW t \in Wire, Len(x) <= MaxName, x \notin ErrorCodes,
               r = Prefixed(Str32, x) \bullet t
        PROVE  GetContents(get, d, Error) = Refused
    <3>1. GetName(d) = Reader(t, x, c, v)
      BY <2>2, GetNameAll
    <3> HIDE DEF d
    <3>2. GetError(d) = Refused
      BY <2>2, <3>1, ReaderFields DEF GetError, Then, Check
    <3> QED BY <3>2, GetContentsCases
  <2> QED BY <2>1, <2>2, GetNameSome
<1> QED BY <1>2, <1>3, <1>4 DEF ContentsRoundTrip

\* The bytes of a handle in front of its type name.
Ids(a, b) == <<Triple, UInt64, a, UInt64, b>>

LEMMA IdsFirst ==
  ASSUME NEW a \in Octet, NEW b \in Octet, NEW t \in Wire
  PROVE  /\ Ids(a, b) \in Wire
         /\ Ids(a, b) \bullet t = One(Triple) \bullet (Two(UInt64, a) \bullet (Two(UInt64, b) \bullet t))
<1>1. /\ One(Triple) \in Wire /\ Two(UInt64, a) \in Wire /\ Two(UInt64, b) \in Wire
      /\ Two(UInt64, a) \bullet Two(UInt64, b) \in Wire
  BY OneIsWire, TwoIsWire, MarkersAreBytes, WireConcat
<1>2. Ids(a, b) = One(Triple) \bullet (Two(UInt64, a) \bullet Two(UInt64, b))
  BY DEF Ids, One, Two, \bullet
<1>3. Ids(a, b) \in Wire
  BY <1>1, <1>2, WireConcat
<1>4. Ids(a, b) \bullet t = One(Triple) \bullet ((Two(UInt64, a) \bullet Two(UInt64, b)) \bullet t)
  BY <1>1, <1>2, WireAssoc
<1>5. (Two(UInt64, a) \bullet Two(UInt64, b)) \bullet t = Two(UInt64, a) \bullet (Two(UInt64, b) \bullet t)
  BY <1>1, WireAssoc
<1> QED BY <1>3, <1>4, <1>5

\* The contents of a handle.
IsTriple(x) == x \in Octet \X Octet \X Text

LEMMA TripleFields ==
  ASSUME NEW x, IsTriple(x)
  PROVE  x[1] \in Octet /\ x[2] \in Octet /\ x[3] \in Text /\ x = <<x[1], x[2], x[3]>>
BY DEF IsTriple

LEMMA ReadTriple ==
  ASSUME NEW a \in Octet, NEW b \in Octet, NEW s \in Text
  PROVE  IsTriple(<<a, b, s>>) /\ <<a, b, s>>[1] = a /\ <<a, b, s>>[2] = b /\ <<a, b, s>>[3] = s
BY DEF IsTriple

\* What the reader of a handle has read before it looks at the handle.
Read3(d, a, b, n) ==
    /\ Word(Expect(d, Triple), UInt64).ok
    /\ Word(Expect(d, Triple), UInt64).got = a
    /\ Word(Word(Expect(d, Triple), UInt64), UInt64).ok
    /\ Word(Word(Expect(d, Triple), UInt64), UInt64).got = b
    /\ GetName(Word(Word(Expect(d, Triple), UInt64), UInt64)) = n

LEMMA GetHandleCases ==
  ASSUME NEW d, NEW a, NEW b, NEW n, Read3(d, a, b, n)
  PROVE  /\ n = Refused => GetHandle(d) = Refused
         /\ n.ok => GetHandle(d) = Check(Got(n, <<a, b, n.got>>), IsHandle(<<a, b, n.got>>))
<1>1. GetHandle(d) = Then(GetName(Word(Word(Expect(d, Triple), UInt64), UInt64)), LAMBDA name :
          Check(Got(name, <<a, b, name.got>>), IsHandle(<<a, b, name.got>>)))
  BY DEF GetHandle, Then, Read3
<1>2. GetHandle(d) = IF n.ok THEN Check(Got(n, <<a, b, n.got>>), IsHandle(<<a, b, n.got>>)) ELSE Refused
  BY <1>1 DEF Then, Read3
<1> QED BY <1>2, ReaderFields

LEMMA GetHandleRefused ==
  ASSUME NEW d,
         \/ Word(Expect(d, Triple), UInt64) = Refused
         \/ Word(Word(Expect(d, Triple), UInt64), UInt64) = Refused
  PROVE  GetHandle(d) = Refused
<1>1. ~Refused.ok
  BY ReaderFields
<1>2. CASE Word(Expect(d, Triple), UInt64) = Refused
  BY <1>1, <1>2 DEF GetHandle, Then
<1>3. CASE Word(Word(Expect(d, Triple), UInt64), UInt64) = Refused
  BY <1>1, <1>3 DEF GetHandle, Then
<1> QED BY <1>2, <1>3

LEMMA HandleIds ==
  ASSUME NEW a \in Octet, NEW b \in Octet, NEW t \in Wire, NEW g, NEW c, NEW v
  PROVE  /\ Word(Expect(Reader(Ids(a, b) \bullet t, g, c, v), Triple), UInt64)
              = Reader(Two(UInt64, b) \bullet t, a, c, v)
         /\ Word(Reader(Two(UInt64, b) \bullet t, a, c, v), UInt64) = Reader(t, b, c, v)
<1>1. Two(UInt64, b) \bullet t \in Wire /\ UInt64 \in Octet /\ Triple \in Octet
  BY TwoIsWire, WireConcat, MarkersAreBytes
<1>2. Two(UInt64, a) \bullet (Two(UInt64, b) \bullet t) \in Wire
  BY <1>1, TwoIsWire, WireConcat
<1>3. Expect(Reader(Ids(a, b) \bullet t, g, c, v), Triple)
        = Reader(Two(UInt64, a) \bullet (Two(UInt64, b) \bullet t), Triple, c, v)
  BY <1>1, <1>2, IdsFirst, ExpectAll
<1>4. Word(Reader(Two(UInt64, a) \bullet (Two(UInt64, b) \bullet t), Triple, c, v), UInt64)
        = Reader(Two(UInt64, b) \bullet t, a, c, v)
  BY <1>1, WordAll
<1>5. Word(Reader(Two(UInt64, b) \bullet t, a, c, v), UInt64) = Reader(t, b, c, v)
  BY <1>1, WordAll
<1> QED BY <1>3, <1>4, <1>5

LEMMA HandleSome ==
  ASSUME NEW r \in Wire, NEW g, NEW c, NEW v
  PROVE  \/ GetHandle(Reader(r, g, c, v)) = Refused
         \/ \E a \in Octet, b \in Octet, t \in Wire : r = Ids(a, b) \bullet t
<1> DEFINE d == Reader(r, g, c, v)
<1>1. UInt64 \in Octet /\ Triple \in Octet
  BY MarkersAreBytes
<1>2. CASE Expect(d, Triple) = Refused
  <2>1. Word(Refused, UInt64) = Refused
    BY ByteRefused DEF Word, Expect, Then, Refused
  <2> QED BY <1>2, <2>1, GetHandleRefused
<1>3. ASSUME NEW t1 \in Wire, r = One(Triple) \bullet t1
      PROVE  \/ GetHandle(d) = Refused
             \/ \E a \in Octet, b \in Octet, t \in Wire : r = Ids(a, b) \bullet t
  <2>1. Expect(d, Triple) = Reader(t1, Triple, c, v)
    BY <1>1, <1>3, ExpectAll
  <2>2. CASE Word(Reader(t1, Triple, c, v), UInt64) = Refused
    BY <2>1, <2>2, GetHandleRefused
  <2>3. ASSUME NEW a \in Octet, NEW t2 \in Wire, t1 = Two(UInt64, a) \bullet t2
        PROVE  \/ GetHandle(d) = Refused
               \/ \E b \in Octet, t \in Wire : r = Ids(a, b) \bullet t
    <3>1. Word(Expect(d, Triple), UInt64) = Reader(t2, a, c, v)
      BY <1>1, <2>1, <2>3, WordAll
    <3>2. CASE Word(Reader(t2, a, c, v), UInt64) = Refused
      BY <3>1, <3>2, GetHandleRefused
    <3>3. ASSUME NEW b \in Octet, NEW t \in Wire, t2 = Two(UInt64, b) \bullet t
          PROVE  r = Ids(a, b) \bullet t
      BY <1>3, <2>3, <3>3, IdsFirst
    <3> QED BY <1>1, <3>2, <3>3, WordSome
  <2> QED BY <1>1, <2>2, <2>3, WordSome
<1> QED BY <1>1, <1>2, <1>3, ExpectSome

LEMMA HandleRoundTrip ==
  ASSUME NEW put, NEW get
  PROVE  ContentsRoundTrip(put, get, Handle, Octet \X Octet \X Text)
<1> DEFINE X == Octet \X Octet \X Text
<1> DEFINE spelt(x) == Ids(x[1], x[2]) \bullet Prefixed(Str32, x[3])
<1>X. \A x : x \in X <=> IsTriple(x)
  BY DEF IsTriple
<1> HIDE DEF X
<1>1. ASSUME NEW x \in X, Len(x[3]) <= MaxName
      PROVE  /\ Prefixed(Str32, x[3]) \in Wire /\ spelt(x) \in Wire
             /\ \A t \in Wire : spelt(x) \bullet t = Ids(x[1], x[2]) \bullet (Prefixed(Str32, x[3]) \bullet t)
  <2>1. x[1] \in Octet /\ x[2] \in Octet /\ x[3] \in Text
    BY <1>X, TripleFields
  <2>0. <<>> \in Wire
    BY DEF Wire
  <2>2. Prefixed(Str32, x[3]) \in Wire /\ Ids(x[1], x[2]) \in Wire
    BY <1>1, <2>0, <2>1, GetNameAll, IdsFirst
  <2> QED BY <2>2, WireConcat, WireAssoc
<1>2. ASSUME NEW x \in X, IsHandle(x), Len(x[3]) <= MaxName, NEW c \in Nat, NEW v \in Nat
      PROVE  ContentsAgree(put, get, Handle, x, spelt(x), c, v, c, v)
  <2>0. x[1] \in Octet /\ x[2] \in Octet /\ x[3] \in Text /\ x = <<x[1], x[2], x[3]>>
    BY <1>X, TripleFields
  <2>1. ASSUME NEW o \in Wire
        PROVE  PutContents(put, Writer(o, c, v), Handle, x) = Writer(o \bullet spelt(x), c, v)
    <3>1. Check(Writer(o, c, v), IsHandle(x)) = Writer(o, c, v)
      BY <1>2 DEF Check, Writer
    <3>2. PutHandle(Writer(o, c, v), x) = PutName(Writer(o \bullet Ids(x[1], x[2]), c, v), x[3])
      BY <3>1, EmitWriter DEF PutHandle, Ids
    <3>3. PutHandle(Writer(o, c, v), x)
            = Writer((o \bullet Ids(x[1], x[2])) \bullet Prefixed(Str32, x[3]), c, v)
      BY <1>2, <3>2, PutNameCases
    <3>4. Ids(x[1], x[2]) \in Wire
      BY <2>0, IdsFirst
    <3>5. (o \bullet Ids(x[1], x[2])) \bullet Prefixed(Str32, x[3]) = o \bullet spelt(x)
      BY <1>1, <1>2, <3>4, WireAssoc
    <3> QED BY <3>3, <3>5, PutContentsCases
  <2>2. ASSUME NEW t \in Wire
        PROVE  GetContents(get, Reader(spelt(x) \bullet t, Handle, c, v), Handle) = Reader(t, x, c, v)
    <3> DEFINE d == Reader(spelt(x) \bullet t, Handle, c, v)
    <3> DEFINE u == Prefixed(Str32, x[3]) \bullet t
    <3>1. u \in Wire /\ d = Reader(Ids(x[1], x[2]) \bullet u, Handle, c, v)
      BY <1>1, <1>2, WireConcat
    <3>5. GetName(Reader(u, x[2], c, v)) = Reader(t, x[3], c, v)
      BY <1>2, <2>0, GetNameAll
    <3> HIDE DEF u, d
    <3>2. Word(Expect(d, Triple), UInt64) = Reader(Two(UInt64, x[2]) \bullet u, x[1], c, v)
      BY <2>0, <3>1, HandleIds
    <3>3. Word(Reader(Two(UInt64, x[2]) \bullet u, x[1], c, v), UInt64) = Reader(u, x[2], c, v)
      BY <2>0, <3>1, HandleIds
    <3>6. Read3(d, x[1], x[2], Reader(t, x[3], c, v))
      BY <3>2, <3>3, <3>5, ReaderFields DEF Read3
    <3>7. GetHandle(d) = Check(Got(Reader(t, x[3], c, v), <<x[1], x[2], x[3]>>),
                               IsHandle(<<x[1], x[2], x[3]>>))
      BY <3>6, GetHandleCases, ReaderFields
    <3>8. GetHandle(d) = Check(Reader(t, x, c, v), IsHandle(x))
      BY <2>0, <3>7, ReaderFields
    <3>9. Check(Reader(t, x, c, v), IsHandle(x)) = Reader(t, x, c, v)
      BY <1>2 DEF Check, Reader
    <3> QED BY <3>8, <3>9, GetContentsCases DEF d
  <2> QED BY <2>1, <2>2 DEF ContentsAgree
<1>3. ASSUME NEW x \in X, ~(IsHandle(x) /\ Len(x[3]) <= MaxName), NEW o, NEW c, NEW v
      PROVE  PutContents(put, Writer(o, c, v), Handle, x) = Refused
  <2>1. CASE ~IsHandle(x)
    <3>1. Check(Writer(o, c, v), IsHandle(x)) = Refused
      BY <2>1 DEF Check
    <3>2. PutHandle(Writer(o, c, v), x) = Refused
      BY <3>1, EmitWriter, PutNameCases DEF PutHandle
    <3> QED BY <3>2, PutContentsCases
  <2>2. CASE IsHandle(x) /\ ~(Len(x[3]) <= MaxName)
    <3>1. Check(Writer(o, c, v), IsHandle(x)) = Writer(o, c, v)
      BY <2>2 DEF Check, Writer
    <3>2. PutHandle(Writer(o, c, v), x) = PutName(Writer(o \bullet Ids(x[1], x[2]), c, v), x[3])
      BY <3>1, EmitWriter DEF PutHandle, Ids
    <3>3. PutHandle(Writer(o, c, v), x) = Refused
      BY <2>2, <3>2, PutNameCases
    <3> QED BY <3>3, PutContentsCases
  <2> QED BY <1>3, <2>1, <2>2
<1>4. ASSUME NEW r \in Wire, NEW c \in Nat, NEW v \in Nat
      PROVE  \/ GetContents(get, Reader(r, Handle, c, v), Handle) = Refused
             \/ \E x \in X, t \in Wire :
                  IsHandle(x) /\ Len(x[3]) <= MaxName /\ r = spelt(x) \bullet t
  <2> DEFINE d == Reader(r, Handle, c, v)
  <2>1. CASE GetHandle(d) = Refused
    BY <2>1, GetContentsCases
  <2>2. ASSUME NEW a \in Octet, NEW b \in Octet, NEW u \in Wire, r = Ids(a, b) \bullet u
        PROVE  \/ GetContents(get, d, Handle) = Refused
               \/ \E x \in X, t \in Wire :
                    IsHandle(x) /\ Len(x[3]) <= MaxName /\ r = spelt(x) \bullet t
    <3>1. /\ Word(Expect(d, Triple), UInt64) = Reader(Two(UInt64, b) \bullet u, a, c, v)
          /\ Word(Reader(Two(UInt64, b) \bullet u, a, c, v), UInt64) = Reader(u, b, c, v)
      BY <2>2, HandleIds
    <3>2. Read3(d, a, b, GetName(Reader(u, b, c, v)))
      <4> HIDE DEF d
      <4> QED BY <3>1, ReaderFields DEF Read3
    <3>3. CASE GetName(Reader(u, b, c, v)) = Refused
      <4> HIDE DEF d
      <4>1. GetHandle(d) = Refused
        BY <3>2, <3>3, GetHandleCases
      <4> QED BY <4>1, GetContentsCases DEF d
    <3>4. ASSUME NEW s \in Text, NEW t \in Wire, Len(s) <= MaxName, u = Prefixed(Str32, s) \bullet t
          PROVE  \/ GetContents(get, d, Handle) = Refused
                 \/ \E x \in X, t_1 \in Wire :
                      IsHandle(x) /\ Len(x[3]) <= MaxName /\ r = spelt(x) \bullet t_1
      <4> DEFINE x == <<a, b, s>>
      <4>1. x \in X /\ x[1] = a /\ x[2] = b /\ x[3] = s
        BY <1>X, ReadTriple
      <4>2. GetName(Reader(u, b, c, v)) = Reader(t, s, c, v)
        BY <3>4, GetNameAll
      <4> HIDE DEF d
      <4>3. GetHandle(d) = Check(Reader(t, x, c, v), IsHandle(x))
        BY <3>2, <4>2, GetHandleCases, ReaderFields
      <4> HIDE DEF x
      <4>4. CASE ~IsHandle(x)
        <5>1. Check(Reader(t, x, c, v), IsHandle(x)) = Refused
          BY <4>4 DEF Check
        <5> QED BY <4>3, <5>1, GetContentsCases
      <4>5. CASE IsHandle(x)
        <5>1. spelt(x) \bullet t = Ids(x[1], x[2]) \bullet (Prefixed(Str32, x[3]) \bullet t)
          BY <1>1, <3>4, <4>1
        <5>2. r = spelt(x) \bullet t
          BY <2>2, <3>4, <4>1, <5>1
        <5> QED BY <3>4, <4>1, <4>5, <5>2
      <4> QED BY <4>4, <4>5
    <3> QED BY <3>3, <3>4, GetNameSome
  <2> QED BY <2>1, <2>2, HandleSome
<1>5. ContentsRoundTrip(put, get, Handle, X)
  <2> HIDE DEF spelt
  <2> QED BY <1>1, <1>2, <1>3, <1>4 DEF ContentsRoundTrip
<1> QED BY <1>5 DEF X

-----------------------------------------------------------------------------
(* Lists, by induction over their length.                                  *)

\* f is the recursive function that PutAll writes n items of s with.
IsPutting(put, e, s, n, f) == f = [i \in 0..n |-> IF i = 0 THEN e ELSE put[s[i]][f[i - 1]]]

LEMMA PuttingExists ==
  ASSUME NEW put, NEW e, NEW s, NEW n \in Nat
  PROVE  \E f : IsPutting(put, e, s, n, f)
<1> DEFINE S == {k \in Nat : \E f : IsPutting(put, e, s, k, f)}
<1>1. 0 \in S
  <2>1. IsPutting(put, e, s, 0, [i \in 0..0 |-> e])
    BY DEF IsPutting
  <2> QED BY <2>1
<1>2. ASSUME NEW k \in Nat, k \in S
      PROVE  k + 1 \in S
  <2>1. PICK f : IsPutting(put, e, s, k, f)
    BY <1>2
  <2> DEFINE g == [i \in 0..(k + 1) |-> IF i = k + 1 THEN put[s[k + 1]][f[k]] ELSE f[i]]
  <2> DEFINE h == [i \in 0..(k + 1) |-> IF i = 0 THEN e ELSE put[s[i]][g[i - 1]]]
  <2>2. ASSUME NEW i \in 0..(k + 1)
        PROVE  g[i] = h[i]
    <3>1. CASE i = k + 1
      BY <3>1
    <3>2. CASE i = 0
      BY <2>1, <3>2 DEF IsPutting
    <3>3. CASE i # 0 /\ i # k + 1
      <4>1. i \in 0..k /\ i - 1 \in 0..k /\ i - 1 # k + 1
        BY <3>3
      <4>2. f[i] = put[s[i]][f[i - 1]]
        BY <2>1, <3>3, <4>1 DEF IsPutting
      <4> QED BY <3>3, <4>1, <4>2
    <3> QED BY <3>1, <3>2, <3>3
  <2>3. g = h
    BY <2>2
  <2>4. IsPutting(put, e, s, k + 1, g)
    BY <2>3 DEF IsPutting
  <2> QED BY <2>4
<1> HIDE DEF S
<1>3. Nat \subseteq S
  BY <1>1, <1>2, SetInduction
<1> QED BY <1>3 DEF S

LEMMA PutAllIs ==
  ASSUME NEW put, NEW e, NEW s, Len(s) \in Nat
  PROVE  \E f : IsPutting(put, e, s, Len(s), f) /\ PutAll(put, e, s) = f[Len(s)]
<1> DEFINE a == CHOOSE f : IsPutting(put, e, s, Len(s), f)
<1>1. IsPutting(put, e, s, Len(s), a)
  BY PuttingExists
<1>2. PutAll(put, e, s) = a[Len(s)]
  BY DEF PutAll, IsPutting
<1> QED BY <1>1, <1>2

\* One item more.
More(s, x) == Append(s, x)

LEMMA MoreProperties ==
  ASSUME NEW V, NEW s \in Seq(V), NEW x \in V
  PROVE  /\ More(s, x) \in Seq(V) /\ Len(More(s, x)) = Len(s) + 1 /\ Len(s) \in Nat
         /\ More(s, x)[Len(s) + 1] = x
         /\ \A i \in 1..Len(s) : More(s, x)[i] = s[i]
BY AppendProperties, LenProperties DEF More

LEMMA IsMore ==
  ASSUME NEW V, NEW s \in Seq(V), NEW n \in Nat, Len(s) = n + 1
  PROVE  \E u \in Seq(V), x \in V : s = More(u, x) /\ Len(u) = n
<1>1. s # <<>>
  OBVIOUS
<1>2. PICK u \in Seq(V), x \in V : s = Append(u, x)
  BY <1>1, SequenceEmptyOrAppend
<1>3. Len(u) = n
  BY <1>2, AppendProperties, LenProperties
<1> QED BY <1>2, <1>3 DEF More

LEMMA PutAllEmpty ==
  ASSUME NEW put, NEW e, NEW s, Len(s) = 0
  PROVE  PutAll(put, e, s) = e
<1>1. PICK f : IsPutting(put, e, s, 0, f) /\ PutAll(put, e, s) = f[0]
  BY PutAllIs
<1>2. 0 \in Nat
  OBVIOUS
<1>3. f[0] = e
  BY <1>1, <1>2 DEF IsPutting
<1> QED BY <1>1, <1>3

LEMMA PutAllMore ==
  ASSUME NEW V, NEW put, NEW e, NEW s \in Seq(V), NEW x \in V
  PROVE  PutAll(put, e, More(s, x)) = put[x][PutAll(put, e, s)]
<1>0. /\ Len(s) \in Nat /\ Len(More(s, x)) = Len(s) + 1 /\ More(s, x)[Len(s) + 1] = x
      /\ \A i \in 1..Len(s) : More(s, x)[i] = s[i]
  BY AppendProperties, LenProperties DEF More
<1> DEFINE n == Len(s)
<1> DEFINE u == More(s, x)
<1>1. /\ n \in Nat /\ Len(u) = n + 1 /\ u[n + 1] = x
      /\ \A i \in 1..n : u[i] = s[i]
  BY <1>0
<1>11. n + 1 \in Nat
  BY <1>1
<1>2. PICK f : IsPutting(put, e, u, n + 1, f) /\ PutAll(put, e, u) = f[n + 1]
  BY <1>1, PutAllIs
<1>3. PICK g : IsPutting(put, e, s, n, g) /\ PutAll(put, e, s) = g[n]
  BY <1>1, PutAllIs
<1> HIDE DEF n, u
<1>4. /\ f[0] = e /\ \A i \in 1..(n + 1) : f[i] = put[u[i]][f[i - 1]]
  BY <1>11, <1>2 DEF IsPutting
<1>5. /\ g[0] = e /\ \A i \in 1..n : g[i] = put[s[i]][g[i - 1]]
  BY <1>1, <1>3 DEF IsPutting
<1> DEFINE S == {k \in Nat : k <= n => f[k] = g[k]}
<1>6. 0 \in S
  BY <1>4, <1>5
<1>7. ASSUME NEW k \in Nat, k \in S
      PROVE  k + 1 \in S
  <2>1. SUFFICES ASSUME k + 1 <= n PROVE f[k + 1] = g[k + 1]
    OBVIOUS
  <2>2. f[k] = g[k] /\ k + 1 \in 1..n /\ k + 1 \in 1..(n + 1) /\ (k + 1) - 1 = k
    BY <1>1, <1>7, <2>1
  <2>3. f[k + 1] = put[u[k + 1]][f[k]] /\ g[k + 1] = put[s[k + 1]][g[k]]
    BY <1>4, <1>5, <2>2
  <2> QED BY <1>1, <2>2, <2>3
<1>8. f[n] = g[n]
  <2> HIDE DEF S
  <2>1. Nat \subseteq S
    BY <1>6, <1>7, SetInduction
  <2> QED BY <1>1, <2>1 DEF S
<1>9. n + 1 \in 1..(n + 1) /\ (n + 1) - 1 = n
  BY <1>1
<1>10. f[n + 1] = put[x][f[n]]
  BY <1>1, <1>4, <1>9
<1> QED BY <1>2, <1>3, <1>8, <1>10 DEF u

\* f is the recursive function that GetAll reads n items with.
IsGetting(item, d, n, f) ==
    f = [i \in 0..n |-> IF i = 0 THEN Got(d, <<>>) ELSE GetItem(item, f[i - 1])]

LEMMA GettingExists ==
  ASSUME NEW item, NEW d, NEW n \in Nat
  PROVE  \E f : IsGetting(item, d, n, f)
<1> DEFINE S == {k \in Nat : \E f : IsGetting(item, d, k, f)}
<1>1. 0 \in S
  <2>1. IsGetting(item, d, 0, [i \in 0..0 |-> Got(d, <<>>)])
    BY DEF IsGetting
  <2> QED BY <2>1
<1>2. ASSUME NEW k \in Nat, k \in S
      PROVE  k + 1 \in S
  <2>1. PICK f : IsGetting(item, d, k, f)
    BY <1>2
  <2> DEFINE g == [i \in 0..(k + 1) |-> IF i = k + 1 THEN GetItem(item, f[k]) ELSE f[i]]
  <2> DEFINE h == [i \in 0..(k + 1) |-> IF i = 0 THEN Got(d, <<>>) ELSE GetItem(item, g[i - 1])]
  <2>2. ASSUME NEW i \in 0..(k + 1)
        PROVE  g[i] = h[i]
    <3>1. CASE i = k + 1
      BY <3>1
    <3>2. CASE i = 0
      BY <2>1, <3>2 DEF IsGetting
    <3>3. CASE i # 0 /\ i # k + 1
      <4>1. i \in 0..k /\ i - 1 \in 0..k /\ i - 1 # k + 1
        BY <3>3
      <4>2. f[i] = GetItem(item, f[i - 1])
        BY <2>1, <3>3, <4>1 DEF IsGetting
      <4> QED BY <3>3, <4>1, <4>2
    <3> QED BY <3>1, <3>2, <3>3
  <2>3. g = h
    BY <2>2
  <2>4. IsGetting(item, d, k + 1, g)
    BY <2>3 DEF IsGetting
  <2> QED BY <2>4
<1> HIDE DEF S
<1>3. Nat \subseteq S
  BY <1>1, <1>2, SetInduction
<1> QED BY <1>3 DEF S

LEMMA GetAllIs ==
  ASSUME NEW item, NEW d, NEW n \in Nat
  PROVE  \E f : IsGetting(item, d, n, f) /\ GetAll(item, d, n) = f[n]
<1> DEFINE a == CHOOSE f : IsGetting(item, d, n, f)
<1>1. IsGetting(item, d, n, a)
  BY GettingExists
<1>2. GetAll(item, d, n) = a[n]
  BY DEF GetAll, IsGetting
<1> QED BY <1>1, <1>2

LEMMA GetAllEmpty ==
  ASSUME NEW item, NEW d
  PROVE  GetAll(item, d, 0) = Got(d, <<>>)
<1>1. PICK f : IsGetting(item, d, 0, f) /\ GetAll(item, d, 0) = f[0]
  BY GetAllIs
<1> QED BY <1>1 DEF IsGetting

LEMMA GetAllMore ==
  ASSUME NEW item, NEW d, NEW n \in Nat
  PROVE  GetAll(item, d, n + 1) = GetItem(item, GetAll(item, d, n))
<1>1. n + 1 \in Nat
  OBVIOUS
<1>2. PICK f : IsGetting(item, d, n + 1, f) /\ GetAll(item, d, n + 1) = f[n + 1]
  BY <1>1, GetAllIs
<1>3. PICK g : IsGetting(item, d, n, g) /\ GetAll(item, d, n) = g[n]
  BY GetAllIs
<1>4. /\ f[0] = Got(d, <<>>) /\ \A i \in 1..(n + 1) : f[i] = GetItem(item, f[i - 1])
  BY <1>1, <1>2 DEF IsGetting
<1>5. /\ g[0] = Got(d, <<>>) /\ \A i \in 1..n : g[i] = GetItem(item, g[i - 1])
  BY <1>3 DEF IsGetting
<1> DEFINE S == {k \in Nat : k <= n => f[k] = g[k]}
<1>6. 0 \in S
  BY <1>4, <1>5
<1>7. ASSUME NEW k \in Nat, k \in S
      PROVE  k + 1 \in S
  <2>1. SUFFICES ASSUME k + 1 <= n PROVE f[k + 1] = g[k + 1]
    OBVIOUS
  <2>2. f[k] = g[k] /\ k + 1 \in 1..n /\ k + 1 \in 1..(n + 1) /\ (k + 1) - 1 = k
    BY <1>7, <2>1
  <2>3. f[k + 1] = GetItem(item, f[k]) /\ g[k + 1] = GetItem(item, g[k])
    BY <1>4, <1>5, <2>2
  <2> QED BY <2>2, <2>3
<1>8. f[n] = g[n]
  <2> HIDE DEF S
  <2>1. Nat \subseteq S
    BY <1>6, <1>7, SetInduction
  <2> QED BY <2>1 DEF S
<1>9. n + 1 \in 1..(n + 1) /\ (n + 1) - 1 = n
  OBVIOUS
<1>10. f[n + 1] = GetItem(item, f[n])
  BY <1>4, <1>9
<1> QED BY <1>2, <1>3, <1>8, <1>10

\* As ContentsAgree and ContentsRoundTrip, for whole values.
ItemAgrees(put, get, x, w, c, v, c2, v2) ==
    /\ \A o \in Wire : put[x][Writer(o, c, v)] = Writer(o \bullet w, c2, v2)
    /\ \A t \in Wire : get[Reader(w \bullet t, 0, c, v)] = Reader(t, x, c2, v2)

RoundTrip(put, get, V) ==
    /\ \A x \in V : put[x][Refused] = Refused
    /\ \A x \in V, o \in Wire, c \in Nat, v \in Nat :
         \/ put[x][Writer(o, c, v)] = Refused
         \/ \E w \in Wire, c2 \in Nat, v2 \in Nat : ItemAgrees(put, get, x, w, c, v, c2, v2)
    /\ \A r \in Wire, c \in Nat, v \in Nat :
         \/ get[Reader(r, 0, c, v)] = Refused
         \/ \E x \in V, w \in Wire, t \in Wire, c2 \in Nat, v2 \in Nat :
              r = w \bullet t /\ ItemAgrees(put, get, x, w, c, v, c2, v2)

\* As ItemAgrees, for the values of s one after the other.
ListAgrees(put, get, s, w, c, v, c2, v2) ==
    /\ \A o \in Wire : PutAll(put, Writer(o, c, v), s) = Writer(o \bullet w, c2, v2)
    /\ \A t \in Wire, g \in Nat :
         GetAll(get, Reader(w \bullet t, g, c, v), Len(s)) = Reader(t, s, c2, v2)

LEMMA GetItemCases ==
  ASSUME NEW item, NEW r, NEW s, NEW c, NEW v
  PROVE  /\ item[Reader(r, 0, c, v)] = Refused => GetItem(item, Reader(r, s, c, v)) = Refused
         /\ \A t, x, c2, v2 : item[Reader(r, 0, c, v)] = Reader(t, x, c2, v2)
              => GetItem(item, Reader(r, s, c, v)) = Reader(t, More(s, x), c2, v2)
         /\ GetItem(item, Refused) = Refused
<1> DEFINE d == Reader(r, s, c, v)
<1>1. Fresh(d) = Reader(r, 0, c, v) /\ d.ok /\ d.got = s
  BY ReaderFields DEF Fresh, Then
<1> HIDE DEF d
<1>2. ASSUME item[Reader(r, 0, c, v)] = Refused
      PROVE  GetItem(item, d) = Refused
  <2>1. item[Fresh(d)] = Refused
    BY <1>1, <1>2
  <2> QED BY <1>1, <2>1, ReaderFields DEF GetItem, Then
<1>3. ASSUME NEW t, NEW x, NEW c2, NEW v2, item[Reader(r, 0, c, v)] = Reader(t, x, c2, v2)
      PROVE  GetItem(item, d) = Reader(t, More(s, x), c2, v2)
  <2>1. item[Fresh(d)] = Reader(t, x, c2, v2)
    BY <1>1, <1>3
  <2>2. GetItem(item, d) = Got(Reader(t, x, c2, v2), More(s, x))
    BY <1>1, <2>1, ReaderFields DEF GetItem, Then, More
  <2> QED BY <2>2, ReaderFields
<1>4. GetItem(item, Refused) = Refused
  BY ReaderFields DEF GetItem, Then
<1> QED BY <1>2, <1>3, <1>4 DEF d

\* One more item agrees when the items before it and it do.
LEMMA ListGrows ==
  ASSUME NEW put, NEW get, NEW V, NEW s \in Seq(V), NEW x \in V,
         NEW w \in Wire, NEW u \in Wire, NEW c, NEW v, NEW c2, NEW v2, NEW c3, NEW v3,
         ListAgrees(put, get, s, w, c, v, c2, v2), ItemAgrees(put, get, x, u, c2, v2, c3, v3)
  PROVE  ListAgrees(put, get, More(s, x), w \bullet u, c, v, c3, v3)
<1>0. Len(More(s, x)) = Len(s) + 1 /\ Len(s) \in Nat
  BY AppendProperties, LenProperties DEF More
<1>1. ASSUME NEW o \in Wire
      PROVE  PutAll(put, Writer(o, c, v), More(s, x)) = Writer(o \bullet (w \bullet u), c3, v3)
  <2>1. PutAll(put, Writer(o, c, v), s) = Writer(o \bullet w, c2, v2)
    BY DEF ListAgrees
  <2>2. put[x][Writer(o \bullet w, c2, v2)] = Writer((o \bullet w) \bullet u, c3, v3)
    BY WireConcat DEF ItemAgrees
  <2>3. PutAll(put, Writer(o, c, v), More(s, x)) = put[x][PutAll(put, Writer(o, c, v), s)]
    BY PutAllMore
  <2> QED BY <2>1, <2>2, <2>3, WireAssoc
<1>2. ASSUME NEW t \in Wire, NEW g \in Nat
      PROVE  GetAll(get, Reader((w \bullet u) \bullet t, g, c, v), Len(More(s, x)))
               = Reader(t, More(s, x), c3, v3)
  <2>1. u \bullet t \in Wire /\ (w \bullet u) \bullet t = w \bullet (u \bullet t)
    BY WireConcat, WireAssoc
  <2>2. GetAll(get, Reader((w \bullet u) \bullet t, g, c, v), Len(s)) = Reader(u \bullet t, s, c2, v2)
    BY <2>1 DEF ListAgrees
  <2>3. get[Reader(u \bullet t, 0, c2, v2)] = Reader(t, x, c3, v3)
    BY DEF ItemAgrees
  <2>4. GetItem(get, Reader(u \bullet t, s, c2, v2)) = Reader(t, More(s, x), c3, v3)
    BY <2>3, GetItemCases
  <2>5. GetAll(get, Reader((w \bullet u) \bullet t, g, c, v), Len(s) + 1)
          = GetItem(get, GetAll(get, Reader((w \bullet u) \bullet t, g, c, v), Len(s)))
    BY <1>0, GetAllMore
  <2> QED BY <1>0, <2>2, <2>4, <2>5
<1> QED BY <1>1, <1>2 DEF ListAgrees

\* The empty input.
NoBytes == <<>>

LEMMA NoBytesIsWire ==
  NoBytes \in Wire /\ \A s \in Wire : s \bullet NoBytes = s /\ NoBytes \bullet s = s
<1>1. ASSUME NEW s \in Seq(Octet)
      PROVE  s \o <<>> = s /\ <<>> \o s = s
  <2> HIDE DEF Octet
  <2> QED BY ConcatEmptySeq
<1>2. <<>> \in Seq(Octet)
  BY EmptySeq, Zenon
<1> QED BY <1>1, <1>2 DEF NoBytes, Wire, \bullet

LEMMA ListEmpty ==
  ASSUME NEW put, NEW get, NEW s, s = <<>>, NEW c, NEW v
  PROVE  ListAgrees(put, get, s, NoBytes, c, v, c, v)
<1>1. Len(s) = 0
  OBVIOUS
<1>2. ASSUME NEW o \in Wire
      PROVE  PutAll(put, Writer(o, c, v), s) = Writer(o \bullet NoBytes, c, v)
  BY <1>1, PutAllEmpty, NoBytesIsWire
<1>3. ASSUME NEW t \in Wire, NEW g \in Nat
      PROVE  GetAll(get, Reader(NoBytes \bullet t, g, c, v), Len(s)) = Reader(t, s, c, v)
  <2>1. GetAll(get, Reader(t, g, c, v), 0) = Got(Reader(t, g, c, v), <<>>)
    BY GetAllEmpty
  <2> QED BY <1>1, <2>1, ReaderFields, NoBytesIsWire
<1> QED BY <1>2, <1>3 DEF ListAgrees

LEMMA ListPut ==
  ASSUME NEW put, NEW get, NEW V, RoundTrip(put, get, V), NEW c \in Nat, NEW v \in Nat,
         NEW o \in Wire, NEW s \in Seq(V)
  PROVE  \/ PutAll(put, Writer(o, c, v), s) = Refused
         \/ \E w \in Wire, c2 \in Nat, v2 \in Nat : ListAgrees(put, get, s, w, c, v, c2, v2)
<1> DEFINE done(u) ==
      \/ PutAll(put, Writer(o, c, v), u) = Refused
      \/ \E w \in Wire, c2 \in Nat, v2 \in Nat : ListAgrees(put, get, u, w, c, v, c2, v2)
<1> DEFINE S == {n \in Nat : \A u \in Seq(V) : Len(u) = n => done(u)}
<1>1. 0 \in S
  <2>1. ASSUME NEW u \in Seq(V), Len(u) = 0
        PROVE  done(u)
    <3>1. u = <<>>
      BY <2>1, EmptySeq
    <3> QED BY <3>1, ListEmpty, NoBytesIsWire
  <2> QED BY <2>1
<1>2. ASSUME NEW n \in Nat, n \in S
      PROVE  n + 1 \in S
  <2>1. ASSUME NEW u \in Seq(V), NEW x \in V, Len(u) = n
        PROVE  done(More(u, x))
    <3>1. done(u)
      BY <1>2, <2>1
    <3>2. PutAll(put, Writer(o, c, v), More(u, x)) = put[x][PutAll(put, Writer(o, c, v), u)]
      BY PutAllMore
    <3>3. CASE PutAll(put, Writer(o, c, v), u) = Refused
      BY <3>2, <3>3 DEF RoundTrip
    <3>4. ASSUME NEW w \in Wire, NEW c2 \in Nat, NEW v2 \in Nat,
                 ListAgrees(put, get, u, w, c, v, c2, v2)
          PROVE  done(More(u, x))
      <4>1. PutAll(put, Writer(o, c, v), u) = Writer(o \bullet w, c2, v2) /\ o \bullet w \in Wire
        BY <3>4, WireConcat DEF ListAgrees
      <4>2. CASE put[x][Writer(o \bullet w, c2, v2)] = Refused
        BY <3>2, <4>1, <4>2
      <4>3. ASSUME NEW y \in Wire, NEW c3 \in Nat, NEW v3 \in Nat,
                   ItemAgrees(put, get, x, y, c2, v2, c3, v3)
            PROVE  done(More(u, x))
        <5>1. ListAgrees(put, get, More(u, x), w \bullet y, c, v, c3, v3)
          BY <3>4, <4>3, ListGrows
        <5> QED BY <5>1, WireConcat
      <4> QED BY <4>1, <4>2, <4>3 DEF RoundTrip
    <3> QED BY <3>1, <3>3, <3>4
  <2> HIDE DEF done
  <2> QED BY <2>1, IsMore
<1> HIDE DEF S
<1>3. Nat \subseteq S
  BY <1>1, <1>2, SetInduction
<1>4. Len(s) \in Nat
  BY LenProperties
<1> HIDE DEF done
<1>5. done(s)
  BY <1>3, <1>4 DEF S
<1> QED BY <1>5 DEF done

\* A list of n items in front of r.
ListReads(put, get, V, r, c, v, n) ==
    \E s \in Seq(V), w \in Wire, t \in Wire, c2 \in Nat, v2 \in Nat :
      Len(s) = n /\ r = w \bullet t /\ ListAgrees(put, get, s, w, c, v, c2, v2)

LEMMA ListGet ==
  ASSUME NEW put, NEW get, NEW V, RoundTrip(put, get, V), NEW c \in Nat, NEW v \in Nat,
         NEW r \in Wire, NEW g \in Nat, NEW n \in Nat
  PROVE  \/ GetAll(get, Reader(r, g, c, v), n) = Refused
         \/ ListReads(put, get, V, r, c, v, n)
<1> DEFINE done(m) ==
      \/ GetAll(get, Reader(r, g, c, v), m) = Refused
      \/ \E s \in Seq(V), w \in Wire, t \in Wire, c2 \in Nat, v2 \in Nat :
           Len(s) = m /\ r = w \bullet t /\ ListAgrees(put, get, s, w, c, v, c2, v2)
<1> DEFINE S == {m \in Nat : done(m)}
<1>1. 0 \in S
  <2>1. <<>> \in Seq(V) /\ Len(<<>>) = 0
    BY EmptySeq
  <2>2. ListAgrees(put, get, <<>>, NoBytes, c, v, c, v)
    BY ListEmpty
  <2>3. r = NoBytes \bullet r /\ NoBytes \in Wire
    BY NoBytesIsWire
  <2> QED BY <2>1, <2>2, <2>3
<1>2. ASSUME NEW m \in Nat, m \in S
      PROVE  m + 1 \in S
  <2>0. GetAll(get, Reader(r, g, c, v), m + 1) = GetItem(get, GetAll(get, Reader(r, g, c, v), m))
    BY GetAllMore
  <2>1. ASSUME GetAll(get, Reader(r, g, c, v), m) = Refused
        PROVE  done(m + 1)
    BY <2>0, <2>1, GetItemCases
  <2>2. ASSUME NEW s \in Seq(V), NEW w \in Wire, NEW t \in Wire, NEW c2 \in Nat, NEW v2 \in Nat,
               Len(s) = m, r = w \bullet t, ListAgrees(put, get, s, w, c, v, c2, v2)
        PROVE  done(m + 1)
    <3>1. GetAll(get, Reader(r, g, c, v), m) = Reader(t, s, c2, v2)
      BY <2>2 DEF ListAgrees
    <3>2. CASE get[Reader(t, 0, c2, v2)] = Refused
      BY <2>0, <3>1, <3>2, GetItemCases
    <3>3. ASSUME NEW x \in V, NEW y \in Wire, NEW t2 \in Wire, NEW c3 \in Nat, NEW v3 \in Nat,
                 t = y \bullet t2, ItemAgrees(put, get, x, y, c2, v2, c3, v3)
          PROVE  done(m + 1)
      <4>1. ListAgrees(put, get, More(s, x), w \bullet y, c, v, c3, v3)
        BY <2>2, <3>3, ListGrows
      <4>2. More(s, x) \in Seq(V) /\ Len(More(s, x)) = m + 1
        BY <2>2, AppendProperties DEF More
      <4>3. r = (w \bullet y) \bullet t2 /\ w \bullet y \in Wire
        BY <2>2, <3>3, WireConcat, WireAssoc
      <4> QED BY <4>1, <4>2, <4>3
    <3> QED BY <3>2, <3>3 DEF RoundTrip
  <2>3. done(m)
    BY <1>2
  <2>4. done(m + 1)
    BY <2>1, <2>2, <2>3
  <2> HIDE DEF done
  <2> QED BY <2>4
<1> HIDE DEF S
<1>3. Nat \subseteq S
  BY <1>1, <1>2, SetInduction
<1> HIDE DEF done
<1>5. done(n)
  BY <1>3 DEF S
<1> QED BY <1>5 DEF done, ListReads

-----------------------------------------------------------------------------
(* Entries of a map, which are values to a list.                           *)

LEMMA Coders ==
  /\ \A o \in Wire, c \in Nat, v \in Nat : Writer(o, c, v) \in Encoders
  /\ \A r \in Wire, c \in Nat, v \in Nat : Reader(r, 0, c, v) \in Decoders
  /\ Refused \in Encoders /\ Refused \in Decoders
<1> DEFINE W == Wire
<1>1. /\ Encoders = [ok : {TRUE}, out : W, content : Nat, values : Nat] \cup {Refused}
      /\ Decoders = [ok : {TRUE}, rest : W, got : {0}, content : Nat, values : Nat] \cup {Refused}
  BY DEF Encoders, Decoders, Wire
<1> HIDE DEF W
<1>2. \A o \in W, c \in Nat, v \in Nat : Writer(o, c, v) \in Encoders
  BY <1>1 DEF Writer
<1>3. \A r \in W, c \in Nat, v \in Nat : Reader(r, 0, c, v) \in Decoders
  BY <1>1 DEF Reader
<1> QED BY <1>1, <1>2, <1>3 DEF W

LEMMA PutStringCases ==
  ASSUME NEW o, NEW c, NEW v, NEW s
  PROVE  /\ Len(s) <= MaxString /\ c + Len(s) <= MaxContent =>
              PutString(Writer(o, c, v), s) = Writer(o \bullet Prefixed(Str32, s), c + Len(s), v)
         /\ ~(Len(s) <= MaxString /\ c + Len(s) <= MaxContent) =>
              PutString(Writer(o, c, v), s) = Refused
         /\ PutString(Refused, s) = Refused
<1>1. ASSUME Len(s) <= MaxString, c + Len(s) <= MaxContent
      PROVE  PutString(Writer(o, c, v), s) = Writer(o \bullet Prefixed(Str32, s), c + Len(s), v)
  BY <1>1, AddContentCases, SizedPut DEF PutString
<1>2. ASSUME ~(Len(s) <= MaxString /\ c + Len(s) <= MaxContent)
      PROVE  PutString(Writer(o, c, v), s) = Refused
  BY <1>2, AddContentCases, SizedRefused DEF PutString
<1>3. PutString(Refused, s) = Refused
  <2>1. AddContent(Refused, Len(s), MaxString) = Refused
    BY DEF AddContent, Then, Check, Refused
  <2> QED BY <2>1, SizedRefused DEF PutString
<1> QED BY <1>1, <1>2, <1>3

\* A name with a value of V.
IsEntry(kv, V) == kv \in Text \X V

LEMMA EntryFields ==
  ASSUME NEW V
  PROVE  /\ \A kv : IsEntry(kv, V) => kv[1] \in Text /\ kv[2] \in V /\ kv = <<kv[1], kv[2]>>
         /\ \A k \in Text, x \in V : /\ IsEntry(<<k, x>>, V)
                                     /\ <<k, x>>[1] = k /\ <<k, x>>[2] = x
BY DEF IsEntry

LEMMA PutEntryIs ==
  ASSUME NEW put, NEW kv, IsEntry(kv, DOMAIN put), NEW e \in Encoders
  PROVE  PutEntry(put)[kv][e] = put[kv[2]][PutString(Emit(e, One(Pair)), kv[1])]
BY DEF PutEntry, IsEntry, One

LEMMA GetEntryIs ==
  ASSUME NEW get, NEW d \in Decoders
  PROVE  /\ GetString(Expect(d, Pair)) = Refused => GetEntry(get)[d] = Refused
         /\ \A k : GetString(Expect(d, Pair)) = k /\ k.ok =>
              /\ get[Fresh(k)] = Refused => GetEntry(get)[d] = Refused
              /\ get[Fresh(k)].ok =>
                   GetEntry(get)[d] = Got(get[Fresh(k)], <<k.got, get[Fresh(k)].got>>)
<1>1. GetEntry(get)[d] =
        IF GetString(Expect(d, Pair)).ok
        THEN IF get[Fresh(GetString(Expect(d, Pair)))].ok
             THEN Got(get[Fresh(GetString(Expect(d, Pair)))],
                      <<GetString(Expect(d, Pair)).got, get[Fresh(GetString(Expect(d, Pair)))].got>>)
             ELSE Refused
        ELSE Refused
  BY DEF GetEntry, Then
<1> QED BY <1>1, ReaderFields

\* A name in front of the bytes of its value.
EntryBytes(k, w) == One(Pair) \bullet (Prefixed(Str32, k) \bullet w)

LEMMA EntryBytesFirst ==
  ASSUME NEW k \in Text, Len(k) <= MaxString,
         NEW w \in Wire, NEW t \in Wire, NEW o \in Wire
  PROVE  /\ EntryBytes(k, w) \in Wire
         /\ EntryBytes(k, w) \bullet t = One(Pair) \bullet (Prefixed(Str32, k) \bullet (w \bullet t))
         /\ Prefixed(Str32, k) \bullet (w \bullet t) \in Wire
         /\ (o \bullet One(Pair)) \bullet Prefixed(Str32, k) \in Wire
         /\ o \bullet EntryBytes(k, w) = ((o \bullet One(Pair)) \bullet Prefixed(Str32, k)) \bullet w
<1>1. k \in Wire /\ Len(k) \in Octet /\ Str32 \in Octet
  BY TextIsWire, WireLen, MarkersAreBytes, CodecAssumption
<1> DEFINE p == Prefixed(Str32, k)
<1> DEFINE q == One(Pair)
<1>2. p \in Wire /\ q \in Wire
  BY <1>1, PrefixedIsWire, OneIsWire, MarkersAreBytes
<1> HIDE DEF p, q
<1>3. /\ p \bullet w \in Wire /\ w \bullet t \in Wire /\ p \bullet (w \bullet t) \in Wire
      /\ q \bullet (p \bullet w) \in Wire /\ o \bullet q \in Wire /\ (o \bullet q) \bullet p \in Wire
  BY <1>2, WireConcat
<1>4. (q \bullet (p \bullet w)) \bullet t = q \bullet ((p \bullet w) \bullet t)
  BY <1>2, <1>3, WireAssoc
<1>5. (p \bullet w) \bullet t = p \bullet (w \bullet t)
  BY <1>2, WireAssoc
<1>6. ((o \bullet q) \bullet p) \bullet w = (o \bullet q) \bullet (p \bullet w)
  BY <1>2, <1>3, WireAssoc
<1>7. (o \bullet q) \bullet (p \bullet w) = o \bullet (q \bullet (p \bullet w))
  BY <1>2, <1>3, WireAssoc
<1> QED BY <1>3, <1>4, <1>5, <1>6, <1>7 DEF EntryBytes, p, q

\* The key, then the value behind it.
LEMMA EntryAgrees ==
  ASSUME NEW put, NEW get, NEW kv, IsEntry(kv, DOMAIN put),
         NEW c \in Nat, NEW v \in Nat, NEW w \in Wire, NEW c2 \in Nat, NEW v2 \in Nat,
         Len(kv[1]) <= MaxString, c + Len(kv[1]) <= MaxContent,
         ItemAgrees(put, get, kv[2], w, c + Len(kv[1]), v, c2, v2)
  PROVE  /\ ItemAgrees(PutEntry(put), GetEntry(get), kv, EntryBytes(kv[1], w), c, v, c2, v2)
         /\ EntryBytes(kv[1], w) \in Wire
<1> DEFINE k == kv[1]
<1> DEFINE x == kv[2]
<1>1. k \in Text /\ kv = <<k, x>>
  BY EntryFields
<1>2. EntryBytes(k, w) \in Wire
  BY <1>1, EntryBytesFirst, NoBytesIsWire
<1>3. ASSUME NEW o \in Wire
      PROVE  PutEntry(put)[kv][Writer(o, c, v)] = Writer(o \bullet EntryBytes(k, w), c2, v2)
  <2> DEFINE p == (o \bullet One(Pair)) \bullet Prefixed(Str32, k)
  <2>1. p \in Wire /\ o \bullet EntryBytes(k, w) = p \bullet w
    BY <1>1, EntryBytesFirst, NoBytesIsWire
  <2>2. PutEntry(put)[kv][Writer(o, c, v)] = put[x][PutString(Emit(Writer(o, c, v), One(Pair)), k)]
    BY Coders, PutEntryIs
  <2>3. PutString(Emit(Writer(o, c, v), One(Pair)), k) = Writer(p, c + Len(k), v)
    BY EmitWriter, PutStringCases
  <2> HIDE DEF p
  <2>4. put[x][Writer(p, c + Len(k), v)] = Writer(p \bullet w, c2, v2)
    BY <2>1 DEF ItemAgrees
  <2> QED BY <2>1, <2>2, <2>3, <2>4
<1>4. ASSUME NEW t \in Wire
      PROVE  GetEntry(get)[Reader(EntryBytes(k, w) \bullet t, 0, c, v)] = Reader(t, kv, c2, v2)
  <2> DEFINE d == Reader(EntryBytes(k, w) \bullet t, 0, c, v)
  <2> DEFINE u == w \bullet t
  <2>0. d \in Decoders
    BY <1>2, Coders, WireConcat
  <2>1. /\ EntryBytes(k, w) \bullet t = One(Pair) \bullet (Prefixed(Str32, k) \bullet u)
        /\ Prefixed(Str32, k) \bullet u \in Wire /\ u \in Wire
    <3>1. Len(k) <= MaxString
      OBVIOUS
    <3>2. u \in Wire
      BY WireConcat
    <3> HIDE DEF k
    <3>3. /\ EntryBytes(k, w) \bullet t = One(Pair) \bullet (Prefixed(Str32, k) \bullet (w \bullet t))
          /\ Prefixed(Str32, k) \bullet (w \bullet t) \in Wire
      BY <1>1, <3>1, EntryBytesFirst, NoBytesIsWire
    <3> QED BY <3>2, <3>3
  <2> HIDE DEF u
  <2>2. Expect(d, Pair) = Reader(Prefixed(Str32, k) \bullet u, Pair, c, v)
    BY <2>1, ExpectAll, MarkersAreBytes
  <2> HIDE DEF d
  <2>3. GetString(Expect(d, Pair)) = Reader(u, k, c + Len(k), v)
    BY <1>1, <2>1, <2>2, GetStringAll
  <2>4. Fresh(Reader(u, k, c + Len(k), v)) = Reader(u, 0, c + Len(k), v)
    BY ReaderFields DEF Fresh, Then
  <2>5. get[Reader(u, 0, c + Len(k), v)] = Reader(t, x, c2, v2)
    BY DEF ItemAgrees, u
  <2>6. GetEntry(get)[d] = Got(Reader(t, x, c2, v2), <<k, x>>)
    <3> DEFINE h == Reader(u, k, c + Len(k), v)
    <3>1. h.ok /\ h.got = k /\ Reader(t, x, c2, v2).ok /\ Reader(t, x, c2, v2).got = x
      <4> HIDE DEF k, x
      <4> QED BY ReaderFields
    <3>2. GetString(Expect(d, Pair)) = h /\ get[Fresh(h)] = Reader(t, x, c2, v2)
      BY <2>3, <2>4, <2>5
    <3> HIDE DEF h, k, x
    <3> QED BY <2>0, <3>1, <3>2, GetEntryIs
  <2>7. Got(Reader(t, x, c2, v2), kv) = Reader(t, kv, c2, v2)
    BY ReaderFields
  <2> QED BY <1>1, <2>6, <2>7 DEF d
<1>5. ItemAgrees(PutEntry(put), GetEntry(get), kv, EntryBytes(k, w), c, v, c2, v2)
  <2> HIDE DEF k
  <2> QED BY <1>3, <1>4 DEF ItemAgrees
<1> QED BY <1>2, <1>5

LEMMA EntryRoundTrip ==
  ASSUME NEW put, NEW get, RoundTrip(put, get, DOMAIN put)
  PROVE  RoundTrip(PutEntry(put), GetEntry(get), Text \X DOMAIN put)
<1> DEFINE V == DOMAIN put
<1> DEFINE E == Text \X V
<1>0. \A kv : kv \in E <=> IsEntry(kv, V)
  BY DEF IsEntry
<1> HIDE DEF E
<1> DEFINE fits(k, c) == Len(k) <= MaxString /\ c + Len(k) <= MaxContent
<1>1. ASSUME NEW k \in Text, NEW c \in Nat
      PROVE  c + Len(k) \in Nat
  BY TextIsWire, WireLen
<1>2. ASSUME NEW kv \in E
      PROVE  /\ kv[1] \in Text /\ kv[2] \in V /\ IsEntry(kv, DOMAIN put)
             /\ put[kv[2]][Refused] = Refused
  BY <1>0, EntryFields DEF RoundTrip
<1>3. ASSUME NEW kv \in E
      PROVE  PutEntry(put)[kv][Refused] = Refused
  <2>1. PutEntry(put)[kv][Refused] = put[kv[2]][PutString(Emit(Refused, One(Pair)), kv[1])]
    BY <1>2, Coders, PutEntryIs
  <2> QED BY <1>2, <2>1, EmitWriter, PutStringCases
<1>4. ASSUME NEW kv \in E, NEW o \in Wire, NEW c \in Nat, NEW v \in Nat
      PROVE  \/ PutEntry(put)[kv][Writer(o, c, v)] = Refused
             \/ \E w \in Wire, c2 \in Nat, v2 \in Nat :
                  ItemAgrees(PutEntry(put), GetEntry(get), kv, w, c, v, c2, v2)
  <2> DEFINE k == kv[1]
  <2> DEFINE x == kv[2]
  <2>0. k \in Text /\ x \in V
    BY <1>2
  <2>1. PutEntry(put)[kv][Writer(o, c, v)] = put[x][PutString(Writer(o \bullet One(Pair), c, v), k)]
    BY <1>2, Coders, PutEntryIs, EmitWriter
  <2>2. CASE ~fits(k, c)
    BY <1>2, <2>1, <2>2, PutStringCases
  <2>3. CASE fits(k, c)
    <3> DEFINE p == (o \bullet One(Pair)) \bullet Prefixed(Str32, k)
    <3>1. p \in Wire
      BY <2>0, <2>3, EntryBytesFirst, NoBytesIsWire
    <3>2. PutString(Writer(o \bullet One(Pair), c, v), k) = Writer(p, c + Len(k), v)
      BY <2>3, PutStringCases
    <3> HIDE DEF p
    <3>3. CASE put[x][Writer(p, c + Len(k), v)] = Refused
      BY <2>1, <3>2, <3>3
    <3>4. ASSUME NEW w \in Wire, NEW c2 \in Nat, NEW v2 \in Nat,
                 ItemAgrees(put, get, x, w, c + Len(k), v, c2, v2)
          PROVE  \E w_1 \in Wire, c2_1 \in Nat, v2_1 \in Nat :
                  ItemAgrees(PutEntry(put), GetEntry(get), kv, w_1, c, v, c2_1, v2_1)
      BY <1>2, <2>3, <3>4, EntryAgrees
    <3>5. c + Len(k) \in Nat
      BY <1>1, <2>0
    <3> HIDE DEF k, x
    <3> QED BY <2>0, <3>1, <3>3, <3>4, <3>5 DEF RoundTrip
  <2> QED BY <2>2, <2>3
<1>5. ASSUME NEW r \in Wire, NEW c \in Nat, NEW v \in Nat
      PROVE  \/ GetEntry(get)[Reader(r, 0, c, v)] = Refused
             \/ \E kv \in E, w \in Wire, t \in Wire, c2 \in Nat, v2 \in Nat :
                  /\ r = w \bullet t
                  /\ ItemAgrees(PutEntry(put), GetEntry(get), kv, w, c, v, c2, v2)
  <2> DEFINE d == Reader(r, 0, c, v)
  <2> DEFINE goal ==
             \/ GetEntry(get)[Reader(r, 0, c, v)] = Refused
             \/ \E kv \in E, w \in Wire, t \in Wire, c2 \in Nat, v2 \in Nat :
                  /\ r = w \bullet t
                  /\ ItemAgrees(PutEntry(put), GetEntry(get), kv, w, c, v, c2, v2)
  <2>0. d \in Decoders
    BY Coders
  <2>1. CASE Expect(d, Pair) = Refused
    <3>1. GetString(Refused) = Refused
      BY ByteRefused DEF GetString, Word, Expect, Then, Refused
    <3> QED BY <2>0, <2>1, <3>1, GetEntryIs
  <2>2. ASSUME NEW t1 \in Wire, r = One(Pair) \bullet t1
        PROVE  goal
    <3>1. Expect(d, Pair) = Reader(t1, Pair, c, v)
      BY <2>2, ExpectAll, MarkersAreBytes
    <3>2. CASE GetString(Reader(t1, Pair, c, v)) = Refused
      BY <2>0, <3>1, <3>2, GetEntryIs
    <3>3. ASSUME NEW k \in Text, NEW t2 \in Wire, fits(k, c), t1 = Prefixed(Str32, k) \bullet t2
          PROVE  goal
      <4>1. GetString(Expect(d, Pair)) = Reader(t2, k, c + Len(k), v)
        BY <3>1, <3>3, GetStringAll
      <4>2. Fresh(Reader(t2, k, c + Len(k), v)) = Reader(t2, 0, c + Len(k), v)
        BY ReaderFields DEF Fresh, Then
      <4>3. CASE get[Reader(t2, 0, c + Len(k), v)] = Refused
        <5>1. GetEntry(get)[d] = Refused
          <6> DEFINE h == Reader(t2, k, c + Len(k), v)
          <6>1. h.ok /\ get[Fresh(h)] = Refused
            BY <4>2, <4>3, ReaderFields
          <6>2. GetString(Expect(d, Pair)) = h
            BY <4>1
          <6> HIDE DEF d, h
          <6> QED BY <2>0, <6>1, <6>2, GetEntryIs
        <5> QED BY <5>1
      <4>4. ASSUME NEW x \in V, NEW w \in Wire, NEW t \in Wire, NEW c2 \in Nat, NEW v2 \in Nat,
                   t2 = w \bullet t, ItemAgrees(put, get, x, w, c + Len(k), v, c2, v2)
            PROVE  goal
        <5> DEFINE kv == <<k, x>>
        <5>1. kv \in E /\ IsEntry(kv, DOMAIN put) /\ kv[1] = k /\ kv[2] = x
          BY <1>0, EntryFields
        <5> HIDE DEF kv
        <5>2. /\ ItemAgrees(PutEntry(put), GetEntry(get), kv, EntryBytes(k, w), c, v, c2, v2)
              /\ EntryBytes(k, w) \in Wire
          BY <3>3, <4>4, <5>1, EntryAgrees
        <5>3. r = EntryBytes(k, w) \bullet t
          BY <2>2, <3>3, <4>4, EntryBytesFirst, NoBytesIsWire
        <5> QED BY <5>1, <5>2, <5>3
      <4>5. c + Len(k) \in Nat
        BY <1>1
      <4> HIDE DEF goal
      <4> QED BY <4>3, <4>4, <4>5 DEF RoundTrip
    <3> HIDE DEF goal
    <3> QED BY <3>2, <3>3, GetStringSome
  <2> QED BY <2>1, <2>2, ExpectSome, MarkersAreBytes
<1>6. RoundTrip(PutEntry(put), GetEntry(get), E)
  BY <1>3, <1>4, <1>5 DEF RoundTrip
<1> QED BY <1>6 DEF E

-----------------------------------------------------------------------------
(* Arrays and maps: a length in front of a list.                           *)

LEMMA PutAllRefused ==
  ASSUME NEW put, NEW V, \A x \in V : put[x][Refused] = Refused, NEW s \in Seq(V)
  PROVE  PutAll(put, Refused, s) = Refused
<1> DEFINE S == {n \in Nat : \A u \in Seq(V) : Len(u) = n => PutAll(put, Refused, u) = Refused}
<1>1. 0 \in S
  BY PutAllEmpty
<1>2. ASSUME NEW n \in Nat, n \in S
      PROVE  n + 1 \in S
  <2>1. ASSUME NEW u \in Seq(V), NEW x \in V, Len(u) = n
        PROVE  PutAll(put, Refused, More(u, x)) = Refused
    <3>1. PutAll(put, Refused, u) = Refused
      BY <1>2, <2>1
    <3> QED BY <3>1, PutAllMore
  <2> QED BY <2>1, IsMore
<1> HIDE DEF S
<1>3. Nat \subseteq S
  BY <1>1, <1>2, SetInduction
<1>4. Len(s) \in Nat
  BY LenProperties
<1> QED BY <1>3, <1>4 DEF S

\* As ContentsAgree, for an array.
ArrayAgrees(put, get, x, w, c, v, c2, v2) ==
    /\ \A o \in Wire : PutArray(put, Writer(o, c, v), x) = Writer(o \bullet w, c2, v2)
    /\ \A t \in Wire, g \in Nat : GetArray(get, Reader(w \bullet t, g, c, v)) = Reader(t, x, c2, v2)

LEMMA PutLengthCases ==
  ASSUME NEW o, NEW c, NEW v, NEW n
  PROVE  /\ n <= MaxEntries =>
              PutLength(Writer(o, c, v), n) = Writer(o \bullet Two(Array32, n), c, v)
         /\ ~(n <= MaxEntries) => PutLength(Writer(o, c, v), n) = Refused
         /\ PutLength(Refused, n) = Refused
<1>1. ASSUME n <= MaxEntries
      PROVE  PutLength(Writer(o, c, v), n) = Writer(o \bullet Two(Array32, n), c, v)
  <2>1. Check(Writer(o, c, v), n <= MaxEntries) = Writer(o, c, v)
    BY <1>1 DEF Check, Writer
  <2> QED BY <2>1, EmitWriter DEF PutLength, Two
<1>2. ASSUME ~(n <= MaxEntries)
      PROVE  PutLength(Writer(o, c, v), n) = Refused
  <2>1. Check(Writer(o, c, v), n <= MaxEntries) = Refused
    BY <1>2 DEF Check
  <2> QED BY <2>1, EmitWriter DEF PutLength
<1>3. PutLength(Refused, n) = Refused
  <2>1. Check(Refused, n <= MaxEntries) = Refused
    BY DEF Check, Refused
  <2> QED BY <2>1, EmitWriter DEF PutLength
<1> QED BY <1>1, <1>2, <1>3

\* A length in front of a list that agrees makes an array that does.
LEMMA ArrayOfList ==
  ASSUME NEW put, NEW get, NEW V, NEW x \in Seq(V), Len(x) <= MaxEntries,
         NEW w \in Wire, NEW c, NEW v, NEW c2, NEW v2, ListAgrees(put, get, x, w, c, v, c2, v2)
  PROVE  /\ ArrayAgrees(put, get, x, Two(Array32, Len(x)) \bullet w, c, v, c2, v2)
         /\ Two(Array32, Len(x)) \bullet w \in Wire
         /\ \A t \in Wire : Two(Array32, Len(x)) \bullet (w \bullet t)
                              = (Two(Array32, Len(x)) \bullet w) \bullet t
<1> DEFINE n == Len(x)
<1> DEFINE l == Two(Array32, n)
<1>1. n \in Nat /\ n <= MaxEntries
  BY LenProperties
<1>2. l \in Wire
  <2> HIDE DEF n
  <2> QED BY <1>1, GetLengthAll, NoBytesIsWire
<1>3. ASSUME NEW t \in Wire
      PROVE  /\ l \bullet (w \bullet t) = (l \bullet w) \bullet t
             /\ l \bullet w \in Wire /\ w \bullet t \in Wire
  <2> HIDE DEF l
  <2> QED BY <1>2, WireConcat, WireAssoc
<1>4. ASSUME NEW o \in Wire
      PROVE  PutArray(put, Writer(o, c, v), x) = Writer(o \bullet (l \bullet w), c2, v2)
  <2>1. PutArray(put, Writer(o, c, v), x) = PutAll(put, Writer(o \bullet l, c, v), x)
    BY <1>1, PutLengthCases DEF PutArray
  <2> HIDE DEF l
  <2>2. PutAll(put, Writer(o \bullet l, c, v), x) = Writer((o \bullet l) \bullet w, c2, v2)
    BY <1>2, WireConcat DEF ListAgrees
  <2>3. (o \bullet l) \bullet w = o \bullet (l \bullet w)
    BY <1>2, WireAssoc
  <2> QED BY <2>1, <2>2, <2>3
<1>5. ASSUME NEW t \in Wire, NEW g \in Nat
      PROVE  GetArray(get, Reader((l \bullet w) \bullet t, g, c, v)) = Reader(t, x, c2, v2)
  <2> DEFINE d == Reader((l \bullet w) \bullet t, g, c, v)
  <2>1. GetLength(Reader(l \bullet (w \bullet t), g, c, v)) = Reader(w \bullet t, n, c, v)
    <3> HIDE DEF n
    <3> QED BY <1>1, <1>3, GetLengthAll
  <2>2. GetLength(d) = Reader(w \bullet t, n, c, v)
    <3> HIDE DEF l, n
    <3> QED BY <1>3, <2>1
  <2>3. GetAll(get, Reader(w \bullet t, n, c, v), n) = Reader(t, x, c2, v2)
    BY <1>1 DEF ListAgrees
  <2> HIDE DEF d, n
  <2>4. GetArray(get, d) = Reader(t, x, c2, v2)
    <3> DEFINE h == Reader(w \bullet t, n, c, v)
    <3>1. h.ok /\ h.got = n
      BY ReaderFields
    <3>2. GetLength(d) = h /\ GetAll(get, h, n) = Reader(t, x, c2, v2)
      BY <2>2, <2>3
    <3> HIDE DEF h
    <3> QED BY <3>1, <3>2 DEF GetArray, Then
  <2> QED BY <2>4 DEF d
<1> QED BY <1>3, <1>4, <1>5, NoBytesIsWire DEF ArrayAgrees

LEMMA ArrayPut ==
  ASSUME NEW put, NEW get, NEW V, RoundTrip(put, get, V),
         NEW c \in Nat, NEW v \in Nat, NEW o \in Wire, NEW x \in Seq(V)
  PROVE  \/ PutArray(put, Writer(o, c, v), x) = Refused
         \/ \E w \in Wire, c2 \in Nat, v2 \in Nat : ArrayAgrees(put, get, x, w, c, v, c2, v2)
<1> DEFINE l == Two(Array32, Len(x))
<1>0. \A y \in V : put[y][Refused] = Refused
  BY DEF RoundTrip
<1>1. CASE ~(Len(x) <= MaxEntries)
  BY <1>0, <1>1, PutLengthCases, PutAllRefused DEF PutArray
<1>2. CASE Len(x) <= MaxEntries
  <2>1. PutArray(put, Writer(o, c, v), x) = PutAll(put, Writer(o \bullet l, c, v), x)
    BY <1>2, PutLengthCases DEF PutArray
  <2>2. l \in Wire /\ o \bullet l \in Wire
    <3>1. Len(x) \in Nat
      BY LenProperties
    <3>2. l \in Wire
      BY <1>2, <3>1, GetLengthAll, NoBytesIsWire
    <3> HIDE DEF l
    <3> QED BY <3>2, WireConcat
  <2> HIDE DEF l
  <2>3. \/ PutAll(put, Writer(o \bullet l, c, v), x) = Refused
        \/ \E w \in Wire, c2 \in Nat, v2 \in Nat : ListAgrees(put, get, x, w, c, v, c2, v2)
    BY <2>2, ListPut
  <2>4. ASSUME NEW w \in Wire, NEW c2 \in Nat, NEW v2 \in Nat,
               ListAgrees(put, get, x, w, c, v, c2, v2)
        PROVE  \E y \in Wire, c3 \in Nat, v3 \in Nat : ArrayAgrees(put, get, x, y, c, v, c3, v3)
    <3> DEFINE y == Two(Array32, Len(x)) \bullet w
    <3>1. ArrayAgrees(put, get, x, y, c, v, c2, v2) /\ y \in Wire
      BY <1>2, <2>4, ArrayOfList
    <3> HIDE DEF y
    <3> QED BY <2>4, <3>1
  <2> QED BY <2>1, <2>3, <2>4
<1> QED BY <1>1, <1>2

LEMMA ArrayGet ==
  ASSUME NEW put, NEW get, NEW V, RoundTrip(put, get, V),
         NEW c \in Nat, NEW v \in Nat, NEW r \in Wire, NEW g \in Nat
  PROVE  \/ GetArray(get, Reader(r, g, c, v)) = Refused
         \/ \E x \in Seq(V), w \in Wire, t \in Wire, c2 \in Nat, v2 \in Nat :
              r = w \bullet t /\ ArrayAgrees(put, get, x, w, c, v, c2, v2)
<1> DEFINE goal ==
      \/ GetArray(get, Reader(r, g, c, v)) = Refused
      \/ \E x \in Seq(V), w \in Wire, t \in Wire, c2 \in Nat, v2 \in Nat :
           r = w \bullet t /\ ArrayAgrees(put, get, x, w, c, v, c2, v2)
<1>0. ASSUME NEW u \in Wire, NEW n \in Nat
      PROVE  \/ GetAll(get, Reader(u, n, c, v), n) = Refused
             \/ ListReads(put, get, V, u, c, v, n)
  <2> HIDE DEF goal
  <2> QED BY ListGet
<1>1. CASE GetLength(Reader(r, g, c, v)) = Refused
  BY <1>1, ReaderFields DEF GetArray, Then
<1>2. ASSUME NEW n \in Octet, NEW u \in Wire, n <= MaxEntries, r = Two(Array32, n) \bullet u
      PROVE  goal
  <2>1. n \in Nat
    BY DEF Octet
  <2>2. GetLength(Reader(r, g, c, v)) = Reader(u, n, c, v)
    BY <1>2, <2>1, GetLengthAll
  <2>3. GetArray(get, Reader(r, g, c, v)) = GetAll(get, Reader(u, n, c, v), n)
    BY <2>2, ReaderFields DEF GetArray, Then
  <2>4. ASSUME NEW x \in Seq(V), NEW w \in Wire, NEW t \in Wire, NEW c2 \in Nat, NEW v2 \in Nat,
               Len(x) = n, u = w \bullet t, ListAgrees(put, get, x, w, c, v, c2, v2)
        PROVE  goal
    <3> DEFINE y == Two(Array32, n) \bullet w
    <3>1. y \in Wire /\ r = y \bullet t /\ ArrayAgrees(put, get, x, y, c, v, c2, v2)
      BY <1>2, <2>4, ArrayOfList
    <3> HIDE DEF y
    <3> QED BY <3>1
  <2> HIDE DEF goal
  <2>5. \/ GetAll(get, Reader(u, n, c, v), n) = Refused
        \/ \E x \in Seq(V), w \in Wire, t \in Wire, c2 \in Nat, v2 \in Nat :
             Len(x) = n /\ u = w \bullet t /\ ListAgrees(put, get, x, w, c, v, c2, v2)
    BY <1>0, <2>1 DEF ListReads
  <2>6. CASE GetAll(get, Reader(u, n, c, v), n) = Refused
    BY <2>3, <2>6 DEF goal
  <2> QED BY <2>4, <2>5, <2>6
<1> HIDE DEF goal
<1>3. goal
  BY <1>1, <1>2, GetLengthSome DEF goal
<1> QED BY <1>3 DEF goal

LEMMA TagsAreNat ==
  /\ Array \in Nat /\ Map \in Nat
BY DEF Array, Map

LEMMA ArrayRoundTrip ==
  ASSUME NEW put, NEW get, NEW V, RoundTrip(put, get, V)
  PROVE  ContentsRoundTrip(put, get, Array, Seq(V))
<1>1. ASSUME NEW x, NEW w, NEW c, NEW v, NEW c2, NEW v2,
             ArrayAgrees(put, get, x, w, c, v, c2, v2)
      PROVE  ContentsAgree(put, get, Array, x, w, c, v, c2, v2)
  BY <1>1, PutContentsCases, GetContentsCases, TagsAreNat DEF ArrayAgrees, ContentsAgree
<1>2. ASSUME NEW x \in Seq(V), NEW o \in Wire, NEW c \in Nat, NEW v \in Nat
      PROVE  \/ PutContents(put, Writer(o, c, v), Array, x) = Refused
             \/ \E w \in Wire, c2 \in Nat, v2 \in Nat :
                  ContentsAgree(put, get, Array, x, w, c, v, c2, v2)
  BY <1>1, ArrayPut, PutContentsCases
<1>3. ASSUME NEW r \in Wire, NEW c \in Nat, NEW v \in Nat
      PROVE  \/ GetContents(get, Reader(r, Array, c, v), Array) = Refused
             \/ \E x \in Seq(V), w \in Wire, t \in Wire, c2 \in Nat, v2 \in Nat :
                  r = w \bullet t /\ ContentsAgree(put, get, Array, x, w, c, v, c2, v2)
  BY <1>1, ArrayGet, GetContentsCases, TagsAreNat
<1> QED BY <1>2, <1>3 DEF ContentsRoundTrip

LEMMA MapRoundTrip ==
  ASSUME NEW put, NEW get, RoundTrip(put, get, DOMAIN put)
  PROVE  ContentsRoundTrip(put, get, Map, Seq(Text \X DOMAIN put))
<1> DEFINE E == Text \X DOMAIN put
<1> DEFINE pe == PutEntry(put)
<1> DEFINE ge == GetEntry(get)
<1>0. RoundTrip(pe, ge, E)
  BY EntryRoundTrip
<1>9. /\ \A e, x : PutMap(put, e, x) = PutArray(pe, Check(e, UniqueKeys(x)), x)
      /\ \A d : GetMap(get, d) = Then(GetArray(ge, d), LAMBDA c : Check(c, UniqueKeys(c.got)))
  BY DEF PutMap, GetMap
<1> HIDE DEF E, pe, ge
<1>1. ASSUME NEW x, NEW w, NEW c, NEW v, NEW c2, NEW v2, UniqueKeys(x),
             ArrayAgrees(pe, ge, x, w, c, v, c2, v2)
      PROVE  ContentsAgree(put, get, Map, x, w, c, v, c2, v2)
  <2>1. ASSUME NEW o \in Wire
        PROVE  PutContents(put, Writer(o, c, v), Map, x) = Writer(o \bullet w, c2, v2)
    <3>1. Check(Writer(o, c, v), UniqueKeys(x)) = Writer(o, c, v)
      BY <1>1 DEF Check, Writer
    <3>2. PutMap(put, Writer(o, c, v), x) = PutArray(pe, Writer(o, c, v), x)
      BY <1>9, <3>1
    <3>3. PutArray(pe, Writer(o, c, v), x) = Writer(o \bullet w, c2, v2)
      BY <1>1 DEF ArrayAgrees
    <3> QED BY <3>2, <3>3, PutContentsCases
  <2>2. ASSUME NEW t \in Wire
        PROVE  GetContents(get, Reader(w \bullet t, Map, c, v), Map) = Reader(t, x, c2, v2)
    <3> DEFINE d == Reader(w \bullet t, Map, c, v)
    <3>1. GetArray(ge, d) = Reader(t, x, c2, v2)
      BY <1>1, TagsAreNat DEF ArrayAgrees
    <3> HIDE DEF d
    <3>2. GetMap(get, d) = Check(Reader(t, x, c2, v2), UniqueKeys(x))
      BY <1>9, <3>1, ReaderFields DEF Then
    <3>3. Check(Reader(t, x, c2, v2), UniqueKeys(x)) = Reader(t, x, c2, v2)
      BY <1>1 DEF Check, Reader
    <3> QED BY <3>2, <3>3, GetContentsCases DEF d
  <2> QED BY <2>1, <2>2 DEF ContentsAgree
<1>2. ASSUME NEW x \in Seq(E), NEW o \in Wire, NEW c \in Nat, NEW v \in Nat
      PROVE  \/ PutContents(put, Writer(o, c, v), Map, x) = Refused
             \/ \E w \in Wire, c2 \in Nat, v2 \in Nat :
                  ContentsAgree(put, get, Map, x, w, c, v, c2, v2)
  <2>1. CASE ~UniqueKeys(x)
    <3>1. Check(Writer(o, c, v), UniqueKeys(x)) = Refused
      BY <2>1 DEF Check
    <3>2. PutMap(put, Writer(o, c, v), x) = PutAll(pe, PutLength(Refused, Len(x)), x)
      BY <1>9, <3>1 DEF PutArray
    <3>3. \A y \in E : pe[y][Refused] = Refused
      BY <1>0 DEF RoundTrip
    <3> QED BY <3>2, <3>3, PutLengthCases, PutAllRefused, PutContentsCases
  <2>2. CASE UniqueKeys(x)
    <3>1. Check(Writer(o, c, v), UniqueKeys(x)) = Writer(o, c, v)
      BY <2>2 DEF Check, Writer
    <3>2. PutMap(put, Writer(o, c, v), x) = PutArray(pe, Writer(o, c, v), x)
      BY <1>9, <3>1
    <3>3. \/ PutArray(pe, Writer(o, c, v), x) = Refused
          \/ \E w \in Wire, c2 \in Nat, v2 \in Nat : ArrayAgrees(pe, ge, x, w, c, v, c2, v2)
      BY <1>0, ArrayPut
    <3> QED BY <1>1, <2>2, <3>2, <3>3, PutContentsCases
  <2> QED BY <2>1, <2>2
<1>3. ASSUME NEW r \in Wire, NEW c \in Nat, NEW v \in Nat
      PROVE  \/ GetContents(get, Reader(r, Map, c, v), Map) = Refused
             \/ \E x \in Seq(E), w \in Wire, t \in Wire, c2 \in Nat, v2 \in Nat :
                  r = w \bullet t /\ ContentsAgree(put, get, Map, x, w, c, v, c2, v2)
  <2> DEFINE d == Reader(r, Map, c, v)
  <2>1. \/ GetArray(ge, d) = Refused
        \/ \E x \in Seq(E), w \in Wire, t \in Wire, c2 \in Nat, v2 \in Nat :
             r = w \bullet t /\ ArrayAgrees(pe, ge, x, w, c, v, c2, v2)
    BY <1>0, ArrayGet, TagsAreNat
  <2>2. CASE GetArray(ge, d) = Refused
    <3> HIDE DEF d
    <3>1. GetMap(get, d) = Refused
      BY <1>9, <2>2, ReaderFields DEF Then
    <3> QED BY <3>1, GetContentsCases DEF d
  <2>3. ASSUME NEW x \in Seq(E), NEW w \in Wire, NEW t \in Wire, NEW c2 \in Nat, NEW v2 \in Nat,
               r = w \bullet t, ArrayAgrees(pe, ge, x, w, c, v, c2, v2), ~UniqueKeys(x)
        PROVE  GetContents(get, d, Map) = Refused
    <3>1. GetArray(ge, d) = Reader(t, x, c2, v2)
      BY <2>3, TagsAreNat DEF ArrayAgrees
    <3> HIDE DEF d
    <3>2. GetMap(get, d) = Check(Reader(t, x, c2, v2), UniqueKeys(x))
      BY <1>9, <3>1, ReaderFields DEF Then
    <3>3. Check(Reader(t, x, c2, v2), UniqueKeys(x)) = Refused
      BY <2>3 DEF Check
    <3> QED BY <3>2, <3>3, GetContentsCases
  <2> QED BY <1>1, <2>1, <2>2, <2>3
<1>4. ContentsRoundTrip(put, get, Map, Seq(E))
  BY <1>2, <1>3 DEF ContentsRoundTrip
<1> QED BY <1>4 DEF E

-----------------------------------------------------------------------------
(* Levels of nesting, by induction over how many may be entered.           *)

\* The values one level above those of V.
Above(V) == Leaves \cup ({Array} \X Seq(V)) \cup ({Map} \X Seq(Text \X V))

LEMMA ValuesExist ==
  ASSUME NEW n \in Nat
  PROVE  \E f : f = [i \in 0..n |-> IF i = 0 THEN Leaves ELSE Above(f[i - 1])]
<1> DEFINE is(f, k) == f = [i \in 0..k |-> IF i = 0 THEN Leaves ELSE Above(f[i - 1])]
<1> DEFINE S == {k \in Nat : \E f : is(f, k)}
<1>1. 0 \in S
  <2>1. is([i \in 0..0 |-> Leaves], 0)
    OBVIOUS
  <2> HIDE DEF is
  <2> QED BY <2>1
<1>2. ASSUME NEW k \in Nat, k \in S
      PROVE  k + 1 \in S
  <2>1. PICK f : is(f, k)
    BY <1>2
  <2> DEFINE g == [i \in 0..(k + 1) |-> IF i = k + 1 THEN Above(f[k]) ELSE f[i]]
  <2> DEFINE h == [i \in 0..(k + 1) |-> IF i = 0 THEN Leaves ELSE Above(g[i - 1])]
  <2>2. ASSUME NEW i \in 0..(k + 1)
        PROVE  g[i] = h[i]
    <3>1. CASE i = k + 1
      BY <3>1
    <3>2. CASE i = 0
      BY <2>1, <3>2
    <3>3. CASE i # 0 /\ i # k + 1
      <4>1. i \in 0..k /\ i - 1 \in 0..k /\ i - 1 # k + 1
        BY <3>3
      <4>2. f[i] = Above(f[i - 1])
        BY <2>1, <3>3, <4>1
      <4> QED BY <3>3, <4>1, <4>2
    <3> QED BY <3>1, <3>2, <3>3
  <2>3. g = h
    BY <2>2
  <2>4. is(g, k + 1)
    BY <2>3
  <2> HIDE DEF is
  <2> QED BY <2>4
<1> HIDE DEF S
<1>3. Nat \subseteq S
  BY <1>1, <1>2, SetInduction
<1> QED BY <1>3 DEF S

LEMMA ValuesUpToIs ==
  /\ ValuesUpTo[0] = Leaves
         /\ \A n \in 0..MaxDepth : ValuesUpTo[n + 1] = Above(ValuesUpTo[n])
<1> DEFINE M == MaxDepth + 1
<1> DEFINE is(f) == f = [i \in 0..M |-> IF i = 0 THEN Leaves ELSE Above(f[i - 1])]
<1>0. MaxDepth \in Nat /\ M \in Nat
  BY CodecAssumption
<1> DEFINE a == CHOOSE f : is(f)
<1>1. is(a)
  <2>1. \E f : is(f)
    BY <1>0, ValuesExist
  <2> HIDE DEF is
  <2> QED BY <2>1
<1>2. ValuesUpTo = a
  BY DEF ValuesUpTo, Above
<1>3. is(ValuesUpTo)
  <2> HIDE DEF is, a
  <2> QED BY <1>1, <1>2
<1> HIDE DEF a
<1>4. ValuesUpTo[0] = Leaves
  BY <1>0, <1>3
<1>5. ASSUME NEW n \in 0..MaxDepth
      PROVE  ValuesUpTo[n + 1] = Above(ValuesUpTo[n])
  BY <1>0, <1>3
<1> QED BY <1>4, <1>5

\* Encoder::value with p for what a container holds.
PutLevel(p, room) ==
    [v \in ValuesUpTo[room] |-> [e \in Encoders |->
        IF room = 0 THEN Refused
        ELSE PutContents(p, Emit(Enter(e), <<Pair, v[1]>>), v[1], v[2])]]

LEMMA PutLevelZero ==
  ASSUME NEW p, NEW q
  PROVE  PutLevel(p, 0) = PutLevel(q, 0)
BY DEF PutLevel

LEMMA PutExists ==
  ASSUME NEW n \in Nat
  PROVE  \E f : f = [i \in 0..n |-> PutLevel(f[i - 1], i)]
<1> DEFINE is(f, k) == f = [i \in 0..k |-> PutLevel(f[i - 1], i)]
<1> DEFINE S == {k \in Nat : \E f : is(f, k)}
<1>1. 0 \in S
  <2> DEFINE g == [i \in 0..0 |-> PutLevel(0, 0)]
  <2> DEFINE h == [i \in 0..0 |-> PutLevel(g[i - 1], i)]
  <2>1. ASSUME NEW i \in 0..0
        PROVE  g[i] = h[i]
    <3>1. i = 0 /\ PutLevel(0, 0) = PutLevel(g[0 - 1], 0)
      BY PutLevelZero
    <3> QED BY <3>1
  <2>2. g = h
    BY <2>1
  <2>3. is(g, 0)
    BY <2>2
  <2> HIDE DEF is
  <2> QED BY <2>3
<1>2. ASSUME NEW k \in Nat, k \in S
      PROVE  k + 1 \in S
  <2>1. PICK f : is(f, k)
    BY <1>2
  <2> DEFINE g == [i \in 0..(k + 1) |-> IF i = k + 1 THEN PutLevel(f[k], k + 1) ELSE f[i]]
  <2> DEFINE h == [i \in 0..(k + 1) |-> PutLevel(g[i - 1], i)]
  <2>2. ASSUME NEW i \in 0..(k + 1)
        PROVE  g[i] = h[i]
    <3>1. CASE i = k + 1
      BY <3>1
    <3>2. CASE i = 0
      <4>1. f[0] = PutLevel(f[0 - 1], 0) /\ PutLevel(f[0 - 1], 0) = PutLevel(g[0 - 1], 0)
        BY <2>1, PutLevelZero
      <4> QED BY <3>2, <4>1
    <3>3. CASE i # 0 /\ i # k + 1
      <4>1. i \in 0..k /\ i - 1 \in 0..k /\ i - 1 # k + 1
        BY <3>3
      <4>2. f[i] = PutLevel(f[i - 1], i)
        BY <2>1, <3>3, <4>1
      <4> QED BY <3>3, <4>1, <4>2
    <3> QED BY <3>1, <3>2, <3>3
  <2>3. g = h
    BY <2>2
  <2>4. is(g, k + 1)
    BY <2>3
  <2> HIDE DEF is
  <2> QED BY <2>4
<1> HIDE DEF S
<1>3. Nat \subseteq S
  BY <1>1, <1>2, SetInduction
<1> QED BY <1>3 DEF S

LEMMA PutAtIs ==
  /\ \E p : PutAt[0] = PutLevel(p, 0)
         /\ \A n \in 0..MaxDepth : PutAt[n + 1] = PutLevel(PutAt[n], n + 1)
<1> DEFINE M == MaxDepth + 1
<1> DEFINE is(f) == f = [i \in 0..M |-> PutLevel(f[i - 1], i)]
<1>0. MaxDepth \in Nat /\ M \in Nat
  BY CodecAssumption
<1> DEFINE a == CHOOSE f : is(f)
<1>1. is(a)
  <2>1. \E f : is(f)
    BY <1>0, PutExists
  <2> HIDE DEF is
  <2> QED BY <2>1
<1>2. PutAt = a
  BY DEF PutAt, PutLevel
<1>3. is(PutAt)
  <2> HIDE DEF is, a
  <2> QED BY <1>1, <1>2
<1> HIDE DEF a
<1>4. PutAt[0] = PutLevel(PutAt[0 - 1], 0)
  BY <1>0, <1>3
<1>5. ASSUME NEW n \in 0..MaxDepth
      PROVE  PutAt[n + 1] = PutLevel(PutAt[n], n + 1)
  BY <1>0, <1>3
<1> QED BY <1>4, <1>5

\* Decoder::value with g for what a container holds.
GetLevel(g, room) == [d \in Decoders |->
    IF room = 0 THEN Refused
    ELSE Then(Byte(Expect(Enter(d), Pair)), LAMBDA h :
         Then(GetContents(g, h, h.got), LAMBDA c :
             Got(c, <<h.got, c.got>>)))]

LEMMA GetLevelZero ==
  ASSUME NEW p, NEW q
  PROVE  GetLevel(p, 0) = GetLevel(q, 0)
BY DEF GetLevel

LEMMA GetExists ==
  ASSUME NEW n \in Nat
  PROVE  \E f : f = [i \in 0..n |-> GetLevel(f[i - 1], i)]
<1> DEFINE is(f, k) == f = [i \in 0..k |-> GetLevel(f[i - 1], i)]
<1> DEFINE S == {k \in Nat : \E f : is(f, k)}
<1>1. 0 \in S
  <2> DEFINE g == [i \in 0..0 |-> GetLevel(0, 0)]
  <2> DEFINE h == [i \in 0..0 |-> GetLevel(g[i - 1], i)]
  <2>1. ASSUME NEW i \in 0..0
        PROVE  g[i] = h[i]
    <3>1. i = 0 /\ GetLevel(0, 0) = GetLevel(g[0 - 1], 0)
      BY GetLevelZero
    <3> QED BY <3>1
  <2>2. g = h
    BY <2>1
  <2>3. is(g, 0)
    BY <2>2
  <2> HIDE DEF is
  <2> QED BY <2>3
<1>2. ASSUME NEW k \in Nat, k \in S
      PROVE  k + 1 \in S
  <2>1. PICK f : is(f, k)
    BY <1>2
  <2> DEFINE g == [i \in 0..(k + 1) |-> IF i = k + 1 THEN GetLevel(f[k], k + 1) ELSE f[i]]
  <2> DEFINE h == [i \in 0..(k + 1) |-> GetLevel(g[i - 1], i)]
  <2>2. ASSUME NEW i \in 0..(k + 1)
        PROVE  g[i] = h[i]
    <3>1. CASE i = k + 1
      BY <3>1
    <3>2. CASE i = 0
      <4>1. f[0] = GetLevel(f[0 - 1], 0) /\ GetLevel(f[0 - 1], 0) = GetLevel(g[0 - 1], 0)
        BY <2>1, GetLevelZero
      <4> QED BY <3>2, <4>1
    <3>3. CASE i # 0 /\ i # k + 1
      <4>1. i \in 0..k /\ i - 1 \in 0..k /\ i - 1 # k + 1
        BY <3>3
      <4>2. f[i] = GetLevel(f[i - 1], i)
        BY <2>1, <3>3, <4>1
      <4> QED BY <3>3, <4>1, <4>2
    <3> QED BY <3>1, <3>2, <3>3
  <2>3. g = h
    BY <2>2
  <2>4. is(g, k + 1)
    BY <2>3
  <2> HIDE DEF is
  <2> QED BY <2>4
<1> HIDE DEF S
<1>3. Nat \subseteq S
  BY <1>1, <1>2, SetInduction
<1> QED BY <1>3 DEF S

LEMMA GetAtIs ==
  /\ \E g : GetAt[0] = GetLevel(g, 0)
         /\ \A n \in 0..MaxDepth : GetAt[n + 1] = GetLevel(GetAt[n], n + 1)
<1> DEFINE M == MaxDepth + 1
<1> DEFINE is(f) == f = [i \in 0..M |-> GetLevel(f[i - 1], i)]
<1>0. MaxDepth \in Nat /\ M \in Nat
  BY CodecAssumption
<1> DEFINE a == CHOOSE f : is(f)
<1>1. is(a)
  <2>1. \E f : is(f)
    BY <1>0, GetExists
  <2> HIDE DEF is
  <2> QED BY <2>1
<1>2. GetAt = a
  BY DEF GetAt, GetLevel
<1>3. is(GetAt)
  <2> HIDE DEF is, a
  <2> QED BY <1>1, <1>2
<1> HIDE DEF a
<1>4. GetAt[0] = GetLevel(GetAt[0 - 1], 0)
  BY <1>0, <1>3
<1>5. ASSUME NEW n \in 0..MaxDepth
      PROVE  GetAt[n + 1] = GetLevel(GetAt[n], n + 1)
  BY <1>0, <1>3
<1> QED BY <1>4, <1>5

\* What stands behind each tag of a value, above the values of V.
InContents(tag, x, V) ==
    \/ tag = Null /\ x \in {0}
    \/ tag = Bool /\ x \in {0, 1}
    \/ tag = Integer /\ x \in -128..MaxSigned
    \/ tag = Float /\ x \in Octet
    \/ tag = String /\ x \in Text
    \/ tag = Bytes /\ x \in Wire
    \/ tag = Array /\ x \in Seq(V)
    \/ tag = Map /\ x \in Seq(Text \X V)
    \/ tag = Handle /\ x \in Octet \X Octet \X Text
    \/ tag = Error /\ x \in ErrorCodes

LEMMA AboveIs ==
  ASSUME NEW V
  PROVE  /\ \A y \in Above(V) : y = <<y[1], y[2]>> /\ InContents(y[1], y[2], V)
         /\ \A tag, x : InContents(tag, x, V) => <<tag, x>> \in Above(V)
         /\ \A tag, x : <<tag, x>>[1] = tag /\ <<tag, x>>[2] = x
<1> DEFINE Signeds == -128..MaxSigned
<1> DEFINE Lists == Seq(V)
<1> DEFINE Entries == Seq(Text \X V)
<1> DEFINE Triples == Octet \X Octet \X Text
<1> DEFINE W == Seq(Octet)
<1>1. Above(V) = ({Null} \X {0}) \cup ({Bool} \X {0, 1}) \cup ({Integer} \X Signeds)
    \cup ({Float} \X Octet) \cup ({String} \X Text) \cup ({Bytes} \X W)
    \cup ({Handle} \X Triples) \cup ({Error} \X ErrorCodes)
    \cup ({Array} \X Lists) \cup ({Map} \X Entries)
  BY DEF Above, Leaves
<1>2. \A tag, x : InContents(tag, x, V) <=>
    \/ tag = Null /\ x \in {0}
    \/ tag = Bool /\ x \in {0, 1}
    \/ tag = Integer /\ x \in Signeds
    \/ tag = Float /\ x \in Octet
    \/ tag = String /\ x \in Text
    \/ tag = Bytes /\ x \in W
    \/ tag = Array /\ x \in Lists
    \/ tag = Map /\ x \in Entries
    \/ tag = Handle /\ x \in Triples
    \/ tag = Error /\ x \in ErrorCodes
  BY DEF InContents, Wire
<1> HIDE DEF Signeds, Lists, Entries, Triples, W
<1>3. ASSUME NEW y \in Above(V)
      PROVE  y = <<y[1], y[2]>> /\ InContents(y[1], y[2], V)
  BY <1>1, <1>2
<1>4. ASSUME NEW tag, NEW x, InContents(tag, x, V)
      PROVE  <<tag, x>> \in Above(V)
  BY <1>1, <1>2, <1>4
<1> QED BY <1>3, <1>4

LEMMA LeavesAreAbove == Leaves \subseteq Above({})
BY DEF Above

LEMMA TagsAreBytes ==
  ASSUME NEW V, NEW tag, NEW x, InContents(tag, x, V)
  PROVE  tag \in Octet
BY DEF InContents, Octet, Null, Bool, Integer, Float, String, Bytes, Array, Map, Handle, Error

\* All that a level of the two codecs does behind the tag.
AllContents(put, get, V) ==
    /\ \A tag, x : InContents(tag, x, V) => \A o \in Wire, c \in Nat, v \in Nat :
         \/ PutContents(put, Writer(o, c, v), tag, x) = Refused
         \/ \E w \in Wire, c2 \in Nat, v2 \in Nat :
              ContentsAgree(put, get, tag, x, w, c, v, c2, v2)
    /\ \A tag \in Octet, r \in Wire, c \in Nat, v \in Nat :
         \/ GetContents(get, Reader(r, tag, c, v), tag) = Refused
         \/ \E x : \E w \in Wire, t \in Wire, c2 \in Nat, v2 \in Nat :
              /\ InContents(tag, x, V) /\ r = w \bullet t
              /\ ContentsAgree(put, get, tag, x, w, c, v, c2, v2)

LEMMA AllContentsRead ==
  ASSUME NEW put, NEW get, NEW V, AllContents(put, get, V),
         NEW tag \in Octet, NEW r \in Wire, NEW c \in Nat, NEW v \in Nat
  PROVE  \/ GetContents(get, Reader(r, tag, c, v), tag) = Refused
         \/ \E x : \E w \in Wire, t \in Wire, c2 \in Nat, v2 \in Nat :
              /\ InContents(tag, x, V) /\ r = w \bullet t
              /\ ContentsAgree(put, get, tag, x, w, c, v, c2, v2)
BY DEF AllContents

LEMMA AllContentsRoundTrip ==
  ASSUME NEW put, NEW get, RoundTrip(put, get, DOMAIN put)
  PROVE  AllContents(put, get, DOMAIN put)
<1> DEFINE V == DOMAIN put
<1> DEFINE Signeds == -128..MaxSigned
<1> DEFINE Lists == Seq(V)
<1> DEFINE Entries == Seq(Text \X V)
<1> DEFINE Triples == Octet \X Octet \X Text
<1>1. /\ ContentsRoundTrip(put, get, Null, {0})
      /\ ContentsRoundTrip(put, get, Bool, {0, 1})
      /\ ContentsRoundTrip(put, get, Integer, Signeds)
      /\ ContentsRoundTrip(put, get, Float, Octet)
      /\ ContentsRoundTrip(put, get, String, Text)
      /\ ContentsRoundTrip(put, get, Bytes, Wire)
      /\ ContentsRoundTrip(put, get, Array, Lists)
      /\ ContentsRoundTrip(put, get, Map, Entries)
      /\ ContentsRoundTrip(put, get, Handle, Triples)
      /\ ContentsRoundTrip(put, get, Error, ErrorCodes)
  <2>1. ContentsRoundTrip(put, get, Null, {0})
    BY NullRoundTrip
  <2>2. ContentsRoundTrip(put, get, Bool, {0, 1})
    BY BoolRoundTrip
  <2>3. ContentsRoundTrip(put, get, Integer, Signeds)
    BY IntegerRoundTrip
  <2>4. ContentsRoundTrip(put, get, Float, Octet)
    BY FloatRoundTrip
  <2>5. ContentsRoundTrip(put, get, String, Text) /\ ContentsRoundTrip(put, get, Bytes, Wire)
    BY StringRoundTrip, BytesRoundTrip
  <2>6. ContentsRoundTrip(put, get, Array, Lists)
    BY ArrayRoundTrip
  <2>7. ContentsRoundTrip(put, get, Map, Entries)
    BY MapRoundTrip
  <2>8. ContentsRoundTrip(put, get, Handle, Triples) /\ ContentsRoundTrip(put, get, Error, ErrorCodes)
    BY HandleRoundTrip, ErrorRoundTrip
  <2> QED BY <2>1, <2>2, <2>3, <2>4, <2>5, <2>6, <2>7, <2>8
<1>2. \A tag, x : InContents(tag, x, V) <=>
    \/ tag = Null /\ x \in {0}
    \/ tag = Bool /\ x \in {0, 1}
    \/ tag = Integer /\ x \in Signeds
    \/ tag = Float /\ x \in Octet
    \/ tag = String /\ x \in Text
    \/ tag = Bytes /\ x \in Wire
    \/ tag = Array /\ x \in Lists
    \/ tag = Map /\ x \in Entries
    \/ tag = Handle /\ x \in Triples
    \/ tag = Error /\ x \in ErrorCodes
  BY DEF InContents
<1> HIDE DEF V, Signeds, Lists, Entries, Triples
<1>3. \A tag, x : InContents(tag, x, V) =>
        \E X : x \in X /\ ContentsRoundTrip(put, get, tag, X)
  BY <1>1, <1>2
<1>4. ASSUME NEW tag \in Octet
      PROVE  \/ tag \notin 0..9
             \/ \E X : /\ ContentsRoundTrip(put, get, tag, X)
                       /\ \A x \in X : InContents(tag, x, V)
  <2>1. tag \in 0..9 => \/ tag = Null \/ tag = Bool \/ tag = Integer \/ tag = Float \/ tag = String
                        \/ tag = Bytes \/ tag = Array \/ tag = Map \/ tag = Handle \/ tag = Error
    BY DEF Null, Bool, Integer, Float, String, Bytes, Array, Map, Handle, Error
  <2> HIDE DEF Octet
  <2>2. ASSUME NEW X, NEW T, ContentsRoundTrip(put, get, T, X), \A x \in X : InContents(T, x, V), tag = T
        PROVE  \E Y : ContentsRoundTrip(put, get, tag, Y) /\ \A x \in Y : InContents(tag, x, V)
    BY <2>2
  <2> QED BY <1>1, <1>2, <2>1
<1>5. ASSUME NEW tag, NEW x, NEW o \in Wire, NEW c \in Nat, NEW v \in Nat, InContents(tag, x, V)
      PROVE  \/ PutContents(put, Writer(o, c, v), tag, x) = Refused
             \/ \E w \in Wire, c2 \in Nat, v2 \in Nat :
                  ContentsAgree(put, get, tag, x, w, c, v, c2, v2)
  BY <1>3, <1>5 DEF ContentsRoundTrip
<1>6. ASSUME NEW tag \in Octet, NEW r \in Wire, NEW c \in Nat, NEW v \in Nat
      PROVE  \/ GetContents(get, Reader(r, tag, c, v), tag) = Refused
             \/ \E x : \E w \in Wire, t \in Wire, c2 \in Nat, v2 \in Nat :
                  /\ InContents(tag, x, V) /\ r = w \bullet t
                  /\ ContentsAgree(put, get, tag, x, w, c, v, c2, v2)
  <2>1. CASE tag \notin 0..9
    BY <2>1, GetContentsCases
  <2>2. ASSUME NEW X, ContentsRoundTrip(put, get, tag, X), \A x \in X : InContents(tag, x, V)
        PROVE  \/ GetContents(get, Reader(r, tag, c, v), tag) = Refused
               \/ \E x : \E w \in Wire, t \in Wire, c2 \in Nat, v2 \in Nat :
                    /\ InContents(tag, x, V) /\ r = w \bullet t
                    /\ ContentsAgree(put, get, tag, x, w, c, v, c2, v2)
    <3>1. \/ GetContents(get, Reader(r, tag, c, v), tag) = Refused
          \/ \E x \in X, w \in Wire, t \in Wire, c2 \in Nat, v2 \in Nat :
               r = w \bullet t /\ ContentsAgree(put, get, tag, x, w, c, v, c2, v2)
      <4> HIDE DEF Octet
      <4> QED BY <2>2 DEF ContentsRoundTrip
    <3> QED BY <2>2, <3>1
  <2> QED BY <1>4, <2>1, <2>2
<1> QED BY <1>5, <1>6 DEF AllContents, V

LEMMA PutContentsRefused ==
  ASSUME NEW put, NEW get, RoundTrip(put, get, DOMAIN put),
         NEW tag, NEW x, InContents(tag, x, DOMAIN put)
  PROVE  PutContents(put, Refused, tag, x) = Refused
<1> DEFINE V == DOMAIN put
<1>1. /\ \A b : Emit(Refused, b) = Refused
      /\ \A m, s : Sized(Refused, m, s) = Refused
      /\ \A n, l : AddContent(Refused, n, l) = Refused
      /\ \A P : Check(Refused, P) = Refused
      /\ \A s : PutName(Refused, s) = Refused
      /\ \A s : PutString(Refused, s) = Refused
      /\ \A n : PutLength(Refused, n) = Refused
  <2>1. \A n, l : AddContent(Refused, n, l) = Refused
    BY DEF AddContent, Then, Check, Refused
  <2>2. \A P : Check(Refused, P) = Refused
    BY ReaderFields DEF Check
  <2> QED BY <2>1, <2>2, EmitWriter, SizedRefused, PutNameCases, PutStringCases, PutLengthCases
<1>2. /\ PutNull(Refused) = Refused /\ PutBool(Refused, x) = Refused
      /\ PutInteger(Refused, x) = Refused /\ PutBytes(Refused, x) = Refused
  BY <1>1 DEF PutNull, PutBool, PutInteger, PutBytes
<1>3. PutFloat(Refused, x) = Refused
  <2>1. Check(Refused, x \notin NotFinite) = Refused
    BY ReaderFields DEF Check
  <2> QED BY <1>1, <2>1 DEF PutFloat
<1>4. PutHandle(Refused, x) = Refused
  <2>1. Check(Refused, IsHandle(x)) = Refused
    BY ReaderFields DEF Check
  <2> QED BY <1>1, <2>1 DEF PutHandle
<1>5. ASSUME x \in Seq(V)
      PROVE  PutArray(put, Refused, x) = Refused
  BY <1>1, <1>5, PutAllRefused DEF PutArray, RoundTrip
<1>6. ASSUME x \in Seq(Text \X V)
      PROVE  PutMap(put, Refused, x) = Refused
  <2> DEFINE pe == PutEntry(put)
  <2> DEFINE E == Text \X V
  <2>1. \A y \in E : pe[y][Refused] = Refused
    BY EntryRoundTrip DEF RoundTrip
  <2>2. Check(Refused, UniqueKeys(x)) = Refused
    BY ReaderFields DEF Check
  <2>3. PutMap(put, Refused, x) = PutAll(pe, Refused, x)
    BY <1>1, <2>2 DEF PutMap, PutArray
  <2> HIDE DEF pe, E
  <2>4. x \in Seq(E)
    BY <1>6 DEF E
  <2> QED BY <2>1, <2>3, <2>4, PutAllRefused
<1> HIDE DEF V
<1> QED BY <1>1, <1>2, <1>3, <1>4, <1>5, <1>6, PutContentsCases DEF InContents, V

LEMMA EnterCases ==
  ASSUME NEW r, NEW g, NEW c, NEW v
  PROVE  /\ v < MaxValues =>
              /\ Enter(Writer(r, c, v)) = Writer(r, c, v + 1)
              /\ Enter(Reader(r, g, c, v)) = Reader(r, g, c, v + 1)
         /\ ~(v < MaxValues) =>
              Enter(Writer(r, c, v)) = Refused /\ Enter(Reader(r, g, c, v)) = Refused
         /\ Enter(Refused) = Refused
BY DEF Enter, Then, Check, Writer, Reader, Refused

LEMMA PutLevelIs ==
  ASSUME NEW put, NEW m \in Nat \ {0}, NEW y \in ValuesUpTo[m], NEW e \in Encoders
  PROVE  PutLevel(put, m)[y][e] = PutContents(put, Emit(Enter(e), Two(Pair, y[1])), y[1], y[2])
BY DEF PutLevel, Two

LEMMA GetLevelIs ==
  ASSUME NEW get, NEW m \in Nat \ {0}, NEW d \in Decoders
  PROVE  /\ Word(Enter(d), Pair) = Refused => GetLevel(get, m)[d] = Refused
         /\ \A h : Word(Enter(d), Pair) = h /\ h.ok =>
              /\ GetContents(get, h, h.got) = Refused => GetLevel(get, m)[d] = Refused
              /\ GetContents(get, h, h.got).ok => GetLevel(get, m)[d]
                   = Got(GetContents(get, h, h.got), <<h.got, GetContents(get, h, h.got).got>>)
<1> DEFINE b == Word(Enter(d), Pair)
<1>1. GetLevel(get, m)[d] =
        IF b.ok
        THEN IF GetContents(get, b, b.got).ok
             THEN Got(GetContents(get, b, b.got), <<b.got, GetContents(get, b, b.got).got>>)
             ELSE Refused
        ELSE Refused
  BY DEF GetLevel, Then, Word
<1> HIDE DEF b
<1>2. b = Refused => GetLevel(get, m)[d] = Refused
  BY <1>1, ReaderFields
<1>3. b.ok /\ GetContents(get, b, b.got) = Refused => GetLevel(get, m)[d] = Refused
  BY <1>1, ReaderFields
<1>4. b.ok /\ GetContents(get, b, b.got).ok => GetLevel(get, m)[d]
        = Got(GetContents(get, b, b.got), <<b.got, GetContents(get, b, b.got).got>>)
  BY <1>1
<1> QED BY <1>2, <1>3, <1>4 DEF b

LEMMA HeaderFirst ==
  ASSUME NEW tag \in Octet, NEW w \in Wire, NEW t \in Wire, NEW o \in Wire
  PROVE  /\ Two(Pair, tag) \bullet w \in Wire /\ o \bullet Two(Pair, tag) \in Wire
         /\ w \bullet t \in Wire
         /\ (Two(Pair, tag) \bullet w) \bullet t = Two(Pair, tag) \bullet (w \bullet t)
         /\ (o \bullet Two(Pair, tag)) \bullet w = o \bullet (Two(Pair, tag) \bullet w)
<1> DEFINE p == Two(Pair, tag)
<1>1. p \in Wire
  BY TwoIsWire, MarkersAreBytes
<1> HIDE DEF p
<1>2. /\ p \bullet w \in Wire /\ o \bullet p \in Wire /\ w \bullet t \in Wire
      /\ (p \bullet w) \bullet t = p \bullet (w \bullet t)
      /\ (o \bullet p) \bullet w = o \bullet (p \bullet w)
  BY <1>1, WireConcat, WireAssoc
<1> QED BY <1>2 DEF p

\* A value agrees when its contents do, one value more being counted.
LEMMA LevelAgrees ==
  ASSUME NEW put, NEW get, NEW m \in Nat \ {0}, NEW tag \in Octet, NEW x,
         <<tag, x>> \in ValuesUpTo[m],
         NEW c \in Nat, NEW v \in Nat, v < MaxValues, NEW w \in Wire, NEW c2, NEW v2,
         ContentsAgree(put, get, tag, x, w, c, v + 1, c2, v2)
  PROVE  /\ ItemAgrees(PutLevel(put, m), GetLevel(get, m), <<tag, x>>,
                       Two(Pair, tag) \bullet w, c, v, c2, v2)
         /\ Two(Pair, tag) \bullet w \in Wire
<1> DEFINE y == <<tag, x>>
<1>0. y[1] = tag /\ y[2] = x /\ y \in ValuesUpTo[m] /\ v + 1 \in Nat
  OBVIOUS
<1>9. Two(Pair, tag) \bullet w \in Wire
  BY HeaderFirst
<1> HIDE DEF y
<1>1. ASSUME NEW o \in Wire
      PROVE  PutLevel(put, m)[y][Writer(o, c, v)]
               = Writer(o \bullet (Two(Pair, tag) \bullet w), c2, v2)
  <2>1. PutLevel(put, m)[y][Writer(o, c, v)]
          = PutContents(put, Emit(Enter(Writer(o, c, v)), Two(Pair, tag)), tag, x)
    BY <1>0, PutLevelIs, Coders
  <2>2. Emit(Enter(Writer(o, c, v)), Two(Pair, tag)) = Writer(o \bullet Two(Pair, tag), c, v + 1)
    BY EnterCases, EmitWriter
  <2>3. PutContents(put, Writer(o \bullet Two(Pair, tag), c, v + 1), tag, x)
          = Writer((o \bullet Two(Pair, tag)) \bullet w, c2, v2)
    BY HeaderFirst DEF ContentsAgree
  <2>4. (o \bullet Two(Pair, tag)) \bullet w = o \bullet (Two(Pair, tag) \bullet w)
    BY HeaderFirst
  <2> QED BY <2>1, <2>2, <2>3, <2>4
<1>2. ASSUME NEW t \in Wire
      PROVE  GetLevel(get, m)[Reader((Two(Pair, tag) \bullet w) \bullet t, 0, c, v)]
               = Reader(t, y, c2, v2)
  <2> DEFINE d == Reader((Two(Pair, tag) \bullet w) \bullet t, 0, c, v)
  <2> DEFINE h == Reader(w \bullet t, tag, c, v + 1)
  <2>1. d \in Decoders
    BY Coders, HeaderFirst, WireConcat
  <2>2. Enter(d) = Reader(Two(Pair, tag) \bullet (w \bullet t), 0, c, v + 1)
    BY EnterCases, HeaderFirst
  <2>3. Word(Reader(Two(Pair, tag) \bullet (w \bullet t), 0, c, v + 1), Pair) = h
    <3>1. w \bullet t \in Wire /\ Pair \in Octet
      BY WireConcat, MarkersAreBytes
    <3> QED BY <3>1, WordAll
  <2>4. GetContents(get, h, tag) = Reader(t, x, c2, v2)
    BY DEF ContentsAgree
  <2>5. h.ok /\ h.got = tag /\ Reader(t, x, c2, v2).ok /\ Reader(t, x, c2, v2).got = x
    BY ReaderFields
  <2> HIDE DEF d, h
  <2>6. GetLevel(get, m)[d] = Got(Reader(t, x, c2, v2), <<tag, x>>)
    BY <2>1, <2>2, <2>3, <2>4, <2>5, GetLevelIs
  <2>7. Got(Reader(t, x, c2, v2), y) = Reader(t, y, c2, v2)
    BY ReaderFields
  <2> QED BY <2>6, <2>7 DEF d, y
<1>3. ItemAgrees(PutLevel(put, m), GetLevel(get, m), y, Two(Pair, tag) \bullet w, c, v, c2, v2)
  BY <1>1, <1>2 DEF ItemAgrees
<1> QED BY <1>3, <1>9 DEF y

LEMMA LevelRoundTrip ==
  ASSUME NEW put, NEW get, NEW m \in Nat \ {0},
         ValuesUpTo[m] = Above(DOMAIN put), RoundTrip(put, get, DOMAIN put)
  PROVE  RoundTrip(PutLevel(put, m), GetLevel(get, m), ValuesUpTo[m])
<1> DEFINE V == DOMAIN put
<1> DEFINE U == ValuesUpTo[m]
<1> DEFINE p == PutLevel(put, m)
<1> DEFINE g == GetLevel(get, m)
<1>0. AllContents(put, get, V)
  BY AllContentsRoundTrip
<1>1. ASSUME NEW y \in U
      PROVE  /\ InContents(y[1], y[2], V) /\ y[1] \in Octet /\ y = <<y[1], y[2]>>
             /\ PutContents(put, Refused, y[1], y[2]) = Refused
  <2>1. InContents(y[1], y[2], V) /\ y = <<y[1], y[2]>>
    BY AboveIs
  <2>2. y[1] \in Octet
    BY <2>1, TagsAreBytes
  <2>3. PutContents(put, Refused, y[1], y[2]) = Refused
    BY <2>1, PutContentsRefused
  <2> QED BY <2>1, <2>2, <2>3
<1>2. ASSUME NEW tag, NEW x, InContents(tag, x, V)
      PROVE  <<tag, x>> \in U
  BY <1>2, AboveIs
<1>3. \A y \in U, e \in Encoders :
        p[y][e] = PutContents(put, Emit(Enter(e), Two(Pair, y[1])), y[1], y[2])
  BY PutLevelIs
<1>4. ASSUME NEW y \in U
      PROVE  p[y][Refused] = Refused
  BY <1>1, <1>3, Coders, EnterCases, EmitWriter
<1>5. ASSUME NEW y \in U, NEW o \in Wire, NEW c \in Nat, NEW v \in Nat
      PROVE  \/ p[y][Writer(o, c, v)] = Refused
             \/ \E w \in Wire, c2 \in Nat, v2 \in Nat : ItemAgrees(p, g, y, w, c, v, c2, v2)
  <2> DEFINE tag == y[1]
  <2> DEFINE x == y[2]
  <2>0. /\ InContents(tag, x, V) /\ tag \in Octet /\ y = <<tag, x>>
        /\ PutContents(put, Refused, tag, x) = Refused
        /\ p[y][Writer(o, c, v)]
             = PutContents(put, Emit(Enter(Writer(o, c, v)), Two(Pair, tag)), tag, x)
    BY <1>1, <1>3, Coders
  <2> HIDE DEF tag, x
  <2>1. CASE ~(v < MaxValues)
    <3>1. Enter(Writer(o, c, v)) = Refused
      BY <2>1, EnterCases
    <3>2. Emit(Refused, Two(Pair, tag)) = Refused
      BY EmitWriter
    <3> QED BY <2>0, <3>1, <3>2
  <2>2. CASE v < MaxValues
    <3>1. /\ Emit(Enter(Writer(o, c, v)), Two(Pair, tag)) = Writer(o \bullet Two(Pair, tag), c, v + 1)
          /\ o \bullet Two(Pair, tag) \in Wire /\ v + 1 \in Nat
      <4>1. Emit(Enter(Writer(o, c, v)), Two(Pair, tag)) = Writer(o \bullet Two(Pair, tag), c, v + 1)
        <5>1. Enter(Writer(o, c, v)) = Writer(o, c, v + 1)
          BY <2>2, EnterCases
        <5> QED BY <5>1, EmitWriter
      <4>2. o \bullet Two(Pair, tag) \in Wire
        BY <2>0, HeaderFirst
      <4> QED BY <4>1, <4>2
    <3>2. \/ PutContents(put, Writer(o \bullet Two(Pair, tag), c, v + 1), tag, x) = Refused
          \/ \E w \in Wire, c2 \in Nat, v2 \in Nat :
               ContentsAgree(put, get, tag, x, w, c, v + 1, c2, v2)
      BY <1>0, <2>0, <3>1 DEF AllContents
    <3>3. ASSUME NEW w \in Wire, NEW c2 \in Nat, NEW v2 \in Nat,
                 ContentsAgree(put, get, tag, x, w, c, v + 1, c2, v2)
          PROVE  \E z \in Wire, c3 \in Nat, v3 \in Nat : ItemAgrees(p, g, y, z, c, v, c3, v3)
      <4>1. <<tag, x>> \in U
        BY <2>0
      <4> DEFINE z == Two(Pair, tag) \bullet w
      <4>2. ItemAgrees(p, g, <<tag, x>>, z, c, v, c2, v2) /\ z \in Wire
        BY <2>0, <2>2, <3>3, <4>1, LevelAgrees
      <4> HIDE DEF z, p, g
      <4> QED BY <2>0, <3>3, <4>2
    <3> QED BY <2>0, <3>1, <3>2, <3>3
  <2> QED BY <2>1, <2>2
<1>6. ASSUME NEW r \in Wire, NEW c \in Nat, NEW v \in Nat
      PROVE  \/ g[Reader(r, 0, c, v)] = Refused
             \/ \E y \in U, w \in Wire, t \in Wire, c2 \in Nat, v2 \in Nat :
                  r = w \bullet t /\ ItemAgrees(p, g, y, w, c, v, c2, v2)
  <2> DEFINE d == Reader(r, 0, c, v)
  <2> DEFINE goal ==
        \/ g[d] = Refused
        \/ \E y \in U, w \in Wire, t \in Wire, c2 \in Nat, v2 \in Nat :
             r = w \bullet t /\ ItemAgrees(p, g, y, w, c, v, c2, v2)
  <2>0. d \in Decoders
    BY Coders
  <2>1. CASE ~(v < MaxValues)
    <3>1. Enter(d) = Refused
      BY <2>1, EnterCases
    <3>2. Word(Refused, Pair) = Refused
      BY ByteRefused DEF Word, Expect, Then, Refused
    <3>3. g[d] = Refused
      BY <2>0, <3>1, <3>2, GetLevelIs
    <3> QED BY <3>3
  <2>2. CASE v < MaxValues
    <3>0. Enter(d) = Reader(r, 0, c, v + 1) /\ v + 1 \in Nat
      BY <2>2, EnterCases
    <3>1. ASSUME Word(Reader(r, 0, c, v + 1), Pair) = Refused
          PROVE  goal
      <4>1. g[d] = Refused
        BY <2>0, <3>0, <3>1, GetLevelIs
      <4> QED BY <4>1
    <3>2. ASSUME NEW tag \in Octet, NEW u \in Wire, r = Two(Pair, tag) \bullet u
          PROVE  goal
      <4> DEFINE h == Reader(u, tag, c, v + 1)
      <4>1. Word(Enter(d), Pair) = h
        BY <3>0, <3>2, WordAll, MarkersAreBytes
      <4>2. h.ok /\ h.got = tag
        BY ReaderFields
      <4>3. ASSUME GetContents(get, h, tag) = Refused
            PROVE  goal
        <5> HIDE DEF h, d
        <5>1. g[d] = Refused
          BY <2>0, <4>1, <4>2, <4>3, GetLevelIs
        <5> QED BY <5>1
      <4>4. ASSUME NEW x, NEW w \in Wire, NEW t \in Wire, NEW c2 \in Nat, NEW v2 \in Nat,
                   InContents(tag, x, V), u = w \bullet t,
                   ContentsAgree(put, get, tag, x, w, c, v + 1, c2, v2)
            PROVE  goal
        <5> DEFINE y == <<tag, x>>
        <5> DEFINE z == Two(Pair, tag) \bullet w
        <5>1. y \in U
          BY <1>2, <4>4
        <5>2. ItemAgrees(p, g, y, z, c, v, c2, v2) /\ z \in Wire
          BY <2>2, <4>4, <5>1, LevelAgrees
        <5>3. r = z \bullet t
          BY <3>2, <4>4, HeaderFirst
        <5> HIDE DEF y, z
        <5> QED BY <5>1, <5>2, <5>3
      <4>5. \/ GetContents(get, h, tag) = Refused
            \/ \E x : \E w \in Wire, t \in Wire, c2 \in Nat, v2 \in Nat :
                 /\ InContents(tag, x, V) /\ u = w \bullet t
                 /\ ContentsAgree(put, get, tag, x, w, c, v + 1, c2, v2)
        <5> HIDE DEF goal
        <5> QED BY <1>0, <3>0, <3>2, AllContentsRead
      <4> HIDE DEF goal, h
      <4>6. ASSUME GetContents(get, h, tag) # Refused
            PROVE  goal
        <5>1. PICK x : \E w \in Wire, t \in Wire, c2 \in Nat, v2 \in Nat :
                         /\ InContents(tag, x, V) /\ u = w \bullet t
                         /\ ContentsAgree(put, get, tag, x, w, c, v + 1, c2, v2)
          BY <4>5, <4>6
        <5> QED BY <4>4, <5>1
      <4> QED BY <4>3, <4>6
    <3> HIDE DEF goal
    <3>3. goal
      BY <3>1, <3>2, WordSome, MarkersAreBytes
    <3> QED BY <3>3 DEF goal
  <2> QED BY <2>1, <2>2
<1>7. RoundTrip(p, g, U)
  <2> HIDE DEF p, g, U
  <2> QED BY <1>4, <1>5, <1>6 DEF RoundTrip
<1> QED BY <1>7

\* The induction over the depth: at every depth, with every limit, the encoder
\* and the decoder are inverses on the values that nest no deeper.
LEMMA CodecRoundTrip ==
  ASSUME NEW n \in 0..(MaxDepth + 1)
  PROVE  RoundTrip(PutAt[n], GetAt[n], ValuesUpTo[n]) /\ DOMAIN PutAt[n] = ValuesUpTo[n]
<1> DEFINE done(m) == RoundTrip(PutAt[m], GetAt[m], ValuesUpTo[m]) /\ DOMAIN PutAt[m] = ValuesUpTo[m]
<1> DEFINE S == {m \in Nat : m <= MaxDepth + 1 => done(m)}
<1>0. MaxDepth \in Nat
  BY CodecAssumption
<1>1. 0 \in S
  <2>1. PICK q : PutAt[0] = PutLevel(q, 0)
    BY PutAtIs
  <2>2. PICK g : GetAt[0] = GetLevel(g, 0)
    BY GetAtIs
  <2>3. /\ DOMAIN PutAt[0] = ValuesUpTo[0]
        /\ \A y \in ValuesUpTo[0], e \in Encoders : PutAt[0][y][e] = Refused
    BY <2>1 DEF PutLevel
  <2>4. \A d \in Decoders : GetAt[0][d] = Refused
    BY <2>2 DEF GetLevel
  <2>5. RoundTrip(PutAt[0], GetAt[0], ValuesUpTo[0])
    BY <2>3, <2>4, Coders DEF RoundTrip
  <2> QED BY <2>3, <2>5
<1>2. ASSUME NEW m \in Nat, m \in S
      PROVE  m + 1 \in S
  <2>1. SUFFICES ASSUME m + 1 <= MaxDepth + 1
                 PROVE  done(m + 1)
    OBVIOUS
  <2>2. m \in 0..MaxDepth /\ m + 1 \in Nat \ {0} /\ m <= MaxDepth + 1
    BY <1>0, <2>1
  <2>3. done(m)
    BY <1>2, <2>2
  <2>4. /\ PutAt[m + 1] = PutLevel(PutAt[m], m + 1)
        /\ GetAt[m + 1] = GetLevel(GetAt[m], m + 1)
        /\ ValuesUpTo[m + 1] = Above(ValuesUpTo[m])
    BY <2>2, PutAtIs, GetAtIs, ValuesUpToIs
  <2>5. RoundTrip(PutLevel(PutAt[m], m + 1), GetLevel(GetAt[m], m + 1), ValuesUpTo[m + 1])
    BY <2>2, <2>3, <2>4, LevelRoundTrip
  <2>6. DOMAIN PutLevel(PutAt[m], m + 1) = ValuesUpTo[m + 1]
    BY DEF PutLevel
  <2> QED BY <2>4, <2>5, <2>6
<1> HIDE DEF S
<1>3. Nat \subseteq S
  BY <1>1, <1>2, SetInduction
<1> HIDE DEF done
<1>4. done(n)
  BY <1>0, <1>3 DEF S
<1> QED BY <1>4 DEF done

-----------------------------------------------------------------------------
(* The tables of services and of callbacks.                                *)

\* What a query reads of its tables is advertised by them, and what it writes
\* fits the output: read_table_header, negotiate_plugin_api_v1 and the copy in
\* initialize_inner.
THEOREM NothingReadPastTheEnd ==
  ASSUME NEW host \in Table(Services), NEW out \in Table(Callbacks)
  PROVE  StaysWithinTables(host, out)
<1>1. host.size \in Nat /\ out.size \in Nat
  BY DEF Table
<1>2. HostRead(host, out) <= SizeField \/ HostRead(host, out) <= host.size
  BY <1>1 DEF HostRead, HeaderRead, SizeField, HeaderSize
<1>3. OutRead(host, out) <= SizeField \/ OutRead(host, out) <= out.size
  BY <1>1 DEF OutRead, HeaderRead, SizeField, HeaderSize
<1>4. InitializeRead(host) <= SizeField \/ InitializeRead(host) <= host.size
  BY <1>1 DEF InitializeRead, Initialize, HeaderRead, SizeField, HeaderSize, HostPrefix
<1>5. Written(host, out) <= out.size
  BY <1>1 DEF Written, Negotiate, PluginPrefix, HostPrefix
<1>6. Negotiate(host, out) # "Ok" => Query(host, out) = out /\ Written(host, out) = 0
  BY DEF Query, Written
<1> QED
  BY <1>2, <1>3, <1>4, <1>5, <1>6 DEF StaysWithinTables

\* The host's table is checked in three places of two crates, and all three
\* draw the same line: negotiate_plugin_api_v1, initialize_inner and
\* PluginContext::from_raw.
THEOREM ChecksAlwaysAgree ==
  ASSUME NEW host \in Table(Services), NEW out \in Table(Callbacks)
  PROVE  ChecksAgree(host, out)
<1>1. host.size \in Nat /\ out.size \in Nat
  BY DEF Table
<1>2. Initialize(host) = Negotiate(host, Prepared)
  BY <1>1 DEF Initialize, Negotiate, Readable, Prepared, HostPrefix, PluginPrefix, V1
<1>3. host.pointer = "aligned" => (FromRaw(host) = "Ok" <=> Initialize(host) = "Ok")
  BY DEF FromRaw, Initialize
<1>4. ASSUME Negotiate(host, Prepared) = "Ok"
      PROVE  Load(Negotiate(host, Prepared), Query(host, Prepared)) = "Loaded"
  <2>1. /\ Query(host, Prepared).size = PluginPrefix
        /\ Query(host, Prepared).version = V1
        /\ Query(host, Prepared).slots = Callbacks
    BY <1>4 DEF Query, Prepared
  <2> QED
    BY <1>4, <2>1 DEF Load, PluginPrefix, V1
<1>5. Load(Negotiate(host, Prepared), Query(host, Prepared)) = "Loaded"
          => Negotiate(host, Prepared) = "Ok"
  BY DEF Load
<1>6. Negotiate(host, out) = "Ok" => Initialize(host) = "Ok"
  BY <1>1 DEF Negotiate, Initialize, Readable, HostPrefix, PluginPrefix, V1
<1> QED
  BY <1>2, <1>3, <1>4, <1>5, <1>6 DEF ChecksAgree

-----------------------------------------------------------------------------
(* The two directions of a value.                                          *)

LEMMA TopRoundTrip ==
  RoundTrip(PutAt[MaxDepth + 1], GetAt[MaxDepth + 1], Value)
<1>1. MaxDepth + 1 \in 0..(MaxDepth + 1)
  BY CodecAssumption
<1> QED BY <1>1, CodecRoundTrip DEF Value

LEMMA WriterFields ==
  ASSUME NEW o, NEW c, NEW v
  PROVE  Writer(o, c, v).ok /\ Writer(o, c, v).out = o
BY DEF Writer

LEMMA ToWireIs ==
  ASSUME NEW x \in Value
  PROVE  \/ ToWire(x) = Refused
         \/ \E w \in Wire, c \in Nat, v \in Nat :
              /\ ToWire(x) = Writer(w, c, v)
              /\ ItemAgrees(PutAt[MaxDepth + 1], GetAt[MaxDepth + 1], x, w, 0, 0, c, v)
<1> DEFINE put == PutAt[MaxDepth + 1]
<1> DEFINE get == GetAt[MaxDepth + 1]
<1>1. RoundTrip(put, get, Value)
  BY TopRoundTrip
<1>2. ToWire(x) = put[x][Writer(NoBytes, 0, 0)]
  BY DEF ToWire, NoBytes
<1> HIDE DEF put, get
<1>3. NoBytes \in Wire /\ 0 \in Nat
  BY NoBytesIsWire
<1>4. \/ put[x][Writer(NoBytes, 0, 0)] = Refused
      \/ \E w \in Wire, c \in Nat, v \in Nat : ItemAgrees(put, get, x, w, 0, 0, c, v)
  BY <1>1, <1>3 DEF RoundTrip
<1>5. ASSUME NEW w \in Wire, NEW c \in Nat, NEW v \in Nat, ItemAgrees(put, get, x, w, 0, 0, c, v)
      PROVE  ToWire(x) = Writer(w, c, v)
  <2>1. put[x][Writer(NoBytes, 0, 0)] = Writer(NoBytes \bullet w, c, v)
    BY <1>3, <1>5 DEF ItemAgrees
  <2> QED BY <1>2, <2>1, NoBytesIsWire
<1>6. \/ ToWire(x) = Refused
      \/ \E w \in Wire, c \in Nat, v \in Nat :
           ToWire(x) = Writer(w, c, v) /\ ItemAgrees(put, get, x, w, 0, 0, c, v)
  BY <1>2, <1>4, <1>5
<1> QED BY <1>6 DEF put, get

LEMMA FromWireIs ==
  ASSUME NEW x, NEW w \in Wire, NEW c, NEW v, NEW t \in Wire,
         ItemAgrees(PutAt[MaxDepth + 1], GetAt[MaxDepth + 1], x, w, 0, 0, c, v)
  PROVE  /\ t = NoBytes => FromWire(w \bullet t) = Reader(NoBytes, x, c, v)
         /\ t # NoBytes => FromWire(w \bullet t) = Refused
<1> DEFINE get == GetAt[MaxDepth + 1]
<1>1. get[Reader(w \bullet t, 0, 0, 0)] = Reader(t, x, c, v)
  BY DEF ItemAgrees
<1>2. FromWire(w \bullet t) = Then(get[Reader(w \bullet t, 0, 0, 0)], LAMBDA d : Check(d, d.rest = <<>>))
  BY DEF FromWire, Decoder
<1> HIDE DEF get
<1>3. Reader(t, x, c, v).ok /\ Reader(t, x, c, v).rest = t
  BY DEF Reader
<1>4. FromWire(w \bullet t) = Check(Reader(t, x, c, v), t = NoBytes)
  BY <1>1, <1>2, <1>3 DEF Then, NoBytes
<1>5. t = NoBytes => Check(Reader(t, x, c, v), t = NoBytes) = Reader(NoBytes, x, c, v)
  BY <1>3 DEF Check
<1>6. t # NoBytes => Check(Reader(t, x, c, v), t = NoBytes) = Refused
  BY DEF Check
<1> QED BY <1>4, <1>5, <1>6

\* What was encoded is decoded again, for all values and limits: the decoder
\* refuses nothing that the encoder wrote and takes nothing for another value.
\* (Value::to_wire, Value::from_wire.)
THEOREM EncodedIsDecoded ==
  ASSUME NEW x \in Value, ToWire(x).ok
  PROVE  /\ ToWire(x).out \in Seq(Octet)
         /\ FromWire(ToWire(x).out).ok /\ FromWire(ToWire(x).out).got = x
<1>1. ToWire(x) # Refused
  BY ReaderFields
<1>2. PICK w \in Wire, c \in Nat, v \in Nat :
        /\ ToWire(x) = Writer(w, c, v)
        /\ ItemAgrees(PutAt[MaxDepth + 1], GetAt[MaxDepth + 1], x, w, 0, 0, c, v)
  BY <1>1, ToWireIs
<1>3. ToWire(x).out = w
  BY <1>2, WriterFields
<1>4. w \bullet NoBytes = w /\ NoBytes \in Wire
  BY NoBytesIsWire
<1>5. FromWire(w) = Reader(NoBytes, x, c, v)
  BY <1>2, <1>4, FromWireIs
<1>6. Reader(NoBytes, x, c, v).ok /\ Reader(NoBytes, x, c, v).got = x
  BY ReaderFields
<1>7. w \in Seq(Octet)
  BY DEF Wire
<1> QED BY <1>3, <1>5, <1>6, <1>7

\* What is decoded would have been encoded as exactly these bytes: the decoder
\* lets nothing through that the encoder refuses, no limit differs between the
\* two, and no value has two encodings.  (Decoder::value, Encoder::value.)
THEOREM DecodedIsEncoded ==
  ASSUME NEW bytes \in Seq(Octet), FromWire(bytes).ok
  PROVE  /\ FromWire(bytes).got \in Value
         /\ ToWire(FromWire(bytes).got).ok /\ ToWire(FromWire(bytes).got).out = bytes
<1> DEFINE put == PutAt[MaxDepth + 1]
<1> DEFINE get == GetAt[MaxDepth + 1]
<1>1. RoundTrip(put, get, Value) /\ bytes \in Wire /\ 0 \in Nat
  BY TopRoundTrip DEF Wire
<1>2. \/ get[Reader(bytes, 0, 0, 0)] = Refused
      \/ \E x \in Value, w \in Wire, t \in Wire, c \in Nat, v \in Nat :
           bytes = w \bullet t /\ ItemAgrees(put, get, x, w, 0, 0, c, v)
  <2> HIDE DEF put, get
  <2> QED BY <1>1 DEF RoundTrip
<1>3. get[Reader(bytes, 0, 0, 0)] # Refused
  <2>1. FromWire(bytes) = Then(get[Reader(bytes, 0, 0, 0)], LAMBDA d : Check(d, d.rest = <<>>))
    BY DEF FromWire, Decoder
  <2> HIDE DEF get
  <2> QED BY <2>1, ReaderFields DEF Then
<1>4. PICK x \in Value, w \in Wire, t \in Wire, c \in Nat, v \in Nat :
        bytes = w \bullet t /\ ItemAgrees(put, get, x, w, 0, 0, c, v)
  BY <1>2, <1>3
<1>5. t = NoBytes
  <2>1. FromWire(bytes) # Refused
    BY ReaderFields
  <2> QED BY <1>4, <2>1, FromWireIs
<1>6. bytes = w
  BY <1>4, <1>5, NoBytesIsWire
<1>7. FromWire(bytes) = Reader(NoBytes, x, c, v)
  BY <1>4, <1>5, FromWireIs
<1>8. FromWire(bytes).got = x
  BY <1>7, ReaderFields
<1>9. ToWire(x) = Writer(w, c, v)
  <2>1. ToWire(x) = put[x][Writer(NoBytes, 0, 0)]
    BY DEF ToWire, NoBytes
  <2> HIDE DEF put, get
  <2>2. put[x][Writer(NoBytes, 0, 0)] = Writer(NoBytes \bullet w, c, v)
    BY <1>4, NoBytesIsWire DEF ItemAgrees
  <2> QED BY <2>1, <2>2, NoBytesIsWire
<1> QED BY <1>6, <1>8, <1>9, WriterFields

\* No encoding starts with another: where a value ends is said by its own
\* bytes, so that a reader of several never takes a part of one for a whole.
\* (Decoder::value, which is not told where its input ends.)
THEOREM NoEncodingStartsAnother ==
  ASSUME NEW x \in Value, NEW y \in Value, ToWire(x).ok, ToWire(y).ok,
         NEW t \in Seq(Octet), ToWire(y).out = ToWire(x).out \o t
  PROVE  x = y /\ t = <<>>
<1>1. ToWire(x) # Refused
  BY ReaderFields
<1>2. PICK w \in Wire, c \in Nat, v \in Nat :
        /\ ToWire(x) = Writer(w, c, v)
        /\ ItemAgrees(PutAt[MaxDepth + 1], GetAt[MaxDepth + 1], x, w, 0, 0, c, v)
  BY <1>1, ToWireIs
<1>3. ToWire(x).out = w /\ t \in Wire
  BY <1>2, WriterFields DEF Wire
<1>4. ToWire(y).out = w \bullet t
  BY <1>3 DEF \bullet
<1>5. FromWire(w \bullet t).ok /\ FromWire(w \bullet t).got = y
  BY <1>4, EncodedIsDecoded
<1>6. t = NoBytes
  <2>1. FromWire(w \bullet t) # Refused
    BY <1>5, ReaderFields
  <2> QED BY <1>2, <1>3, <2>1, FromWireIs
<1>7. FromWire(w \bullet t) = Reader(NoBytes, x, c, v)
  BY <1>2, <1>3, <1>6, FromWireIs
<1> QED BY <1>5, <1>6, <1>7, ReaderFields DEF NoBytes

-----------------------------------------------------------------------------
(* The names of fields and of kinds, which the spelling keeps apart.       *)

LEMMA WordsAre ==
  /\ {"hello", "load", "enable", "invoke", "disable", "shutdown", "ok", "result",
      "error", "bridgeInvoke", "retainHandle", "releaseHandle", "callbackResult",
      "callbackError"} \subseteq ToSet(Words)
  /\ {"packageRoot", "entrypoint", "pluginId", "session",
           "operation", "input", "callbackId", "output", "code", "message", "objectId",
           "generation", "protocolVersion", "requestId", "kind", "payload"} \subseteq ToSet(Words)
<1>1. \A i \in 1..30 : Words[i] \in ToSet(Words)
  BY DEF ToSet, Words
<1>2. /\ Words[1] = "hello" /\ Words[2] = "load" /\ Words[3] = "enable"
  BY DEF Words
<1> QED BY <1>1 DEF Words

LEMMA SpeltInjective ==
  ASSUME NEW a \in ToSet(Words), NEW b \in ToSet(Words), Spelt[a] = Spelt[b]
  PROVE  a = b
<1> DEFINE at(w) == CHOOSE i \in DOMAIN Words : Words[i] = w
<1>1. Words[at(a)] = a /\ Words[at(b)] = b
  BY DEF ToSet
<1>2. at(a) \in 1..30 /\ at(b) \in 1..30
  <2>1. DOMAIN Words = 1..30
    BY DEF Words
  <2> QED BY <2>1 DEF ToSet
<1>3. Spelt[a] = <<32 + at(a)>> /\ Spelt[b] = <<32 + at(b)>>
  BY DEF Spelt
<1> HIDE DEF at
<1>4. 32 + at(a) = 32 + at(b)
  <2>1. \A x, y : <<x>> = <<y>> => x = y
    OBVIOUS
  <2> QED BY <1>3, <2>1
<1> QED BY <1>1, <1>2, <1>4

FieldKinds == {"text", "bytes", "positive", "natural", "code", "message"}

\* At most four fields, of different names that can be spelt.
Named(fields) ==
  /\ Len(fields) \in 0..4 /\ DOMAIN fields = 1..Len(fields)
  /\ \A i \in 1..Len(fields) : /\ fields[i][1] \in ToSet(Words)
        /\ fields[i][2] \in FieldKinds
  /\ \A i, j \in 1..Len(fields) : fields[i][1] = fields[j][1] => i = j

LEMMA NoFields == Named(<<>>)
BY DEF Named
LEMMA OneField ==
  ASSUME NEW a \in ToSet(Words), NEW x \in FieldKinds
  PROVE  Named(<< <<a, x>> >>)
BY DEF Named
LEMMA TwoFields ==
  ASSUME NEW a \in ToSet(Words), NEW x \in FieldKinds,
     NEW b \in ToSet(Words), NEW y \in FieldKinds, a # b
  PROVE  Named(<< <<a, x>>, <<b, y>> >>)
BY DEF Named

LEMMA SchemaNamed ==
  ASSUME NEW k \in Kinds
  PROVE  Named(Schema[k])
<1>1. CASE k = "load"
  <2>1. Schema[k] = <<<<"packageRoot", "text">>, <<"entrypoint", "text">>,
               <<"pluginId", "positive">>, <<"session", "positive">>>>
    BY <1>1 DEF Schema
  <2> QED BY <2>1, WordsAre DEF Named, FieldKinds
<1>2. CASE k = "invoke"
  <2>1. Schema[k] = <<<<"operation", "text">>, <<"input", "bytes">>, <<"callbackId", "natural">>>>
    BY <1>2 DEF Schema
  <2> QED BY <2>1, WordsAre DEF Named, FieldKinds
<1>3. CASE k \in {"hello", "enable", "disable", "shutdown", "ok"}
  BY <1>3, NoFields DEF Schema
<1>4. CASE k = "result" \/ k = "callbackResult"
  <2>1. Schema[k] = << <<"output", "bytes">> >>
    BY <1>4 DEF Schema
  <2>2. "output" \in ToSet(Words) /\ "bytes" \in FieldKinds
    BY WordsAre DEF FieldKinds
  <2> QED BY <2>1, <2>2, OneField
<1>5. CASE k = "callbackError"
  <2>1. Schema[k] = << <<"code", "code">> >>
    BY <1>5 DEF Schema
  <2>2. "code" \in ToSet(Words) /\ "code" \in FieldKinds
    BY WordsAre DEF FieldKinds
  <2> QED BY <2>1, <2>2, OneField
<1>7. CASE k = "error"
  <2>1. Schema[k] = << <<"code", "code">>, <<"message", "message">> >>
    BY <1>7 DEF Schema
  <2>2. "code" \in ToSet(Words) /\ "message" \in ToSet(Words)
    BY WordsAre
  <2>3. "code" # "message" /\ "code" \in FieldKinds /\ "message" \in FieldKinds
    BY DEF FieldKinds
  <2> QED BY <2>1, <2>2, <2>3, TwoFields
<1>8. CASE k = "bridgeInvoke"
  <2>1. Schema[k] = << <<"operation", "text">>, <<"input", "bytes">> >>
    BY <1>8 DEF Schema
  <2>2. "operation" \in ToSet(Words) /\ "input" \in ToSet(Words)
    BY WordsAre
  <2>3. "operation" # "input" /\ "text" \in FieldKinds /\ "bytes" \in FieldKinds
    BY DEF FieldKinds
  <2> QED BY <2>1, <2>2, <2>3, TwoFields
<1>9. CASE k = "retainHandle" \/ k = "releaseHandle"
  <2>1. Schema[k] = << <<"objectId", "positive">>, <<"generation", "positive">> >>
    BY <1>9 DEF Schema
  <2>2. "objectId" \in ToSet(Words) /\ "generation" \in ToSet(Words)
    BY WordsAre
  <2>3. "objectId" # "generation" /\ "positive" \in FieldKinds /\ "positive" \in FieldKinds
    BY DEF FieldKinds
  <2> QED BY <2>1, <2>2, <2>3, TwoFields
<1>6. k \in {"hello", "load", "enable", "invoke", "disable", "shutdown", "ok", "result",
      "error", "bridgeInvoke", "retainHandle", "releaseHandle", "callbackResult",
      "callbackError"}
  BY DEF Kinds, Schema
<1> QED BY <1>1, <1>2, <1>3, <1>4, <1>5, <1>6, <1>7, <1>8, <1>9

LEMMA KindsAreWords == Kinds \subseteq ToSet(Words) /\ "none" \notin Kinds
<1>1. Kinds = {"hello", "load", "enable", "invoke", "disable", "shutdown", "ok", "result",
      "error", "bridgeInvoke", "retainHandle", "releaseHandle", "callbackResult",
      "callbackError"}
  BY DEF Kinds, Schema
<1> QED BY <1>1, WordsAre

-----------------------------------------------------------------------------
(* A map that has exactly the fields of a schema, in whatever order.       *)

\* At most four different names that can be spelt.
Naming(names) ==
    /\ Len(names) \in 0..4 /\ DOMAIN names = 1..Len(names)
    /\ \A i \in 1..Len(names) : names[i] \in ToSet(Words)
    /\ \A i, j \in 1..Len(names) : names[i] = names[j] => i = j

LEMMA EnvelopeNames == Naming(Envelope) /\ Len(Envelope) = 4
<1>1. Envelope = <<"protocolVersion", "requestId", "kind", "payload">>
  BY DEF Envelope
<1> QED BY <1>1, WordsAre DEF Naming

LEMMA KindNames ==
  ASSUME NEW k \in Kinds
  PROVE  /\ Naming(Names(k)) /\ Len(Names(k)) = Len(Schema[k])
         /\ DOMAIN Schema[k] = 1..Len(Schema[k])
         /\ \A i \in 1..Len(Schema[k]) : Names(k)[i] = Schema[k][i][1]
<1> DEFINE n == Len(Schema[k])
<1> DEFINE f == [i \in 1..n |-> Schema[k][i][1]]
<1>1. Named(Schema[k])
  BY SchemaNamed
<1>2. n \in 0..4 /\ DOMAIN Schema[k] = 1..n
  BY <1>1 DEF Named
<1>3. Names(k) = f
  BY <1>2 DEF Names
<1>4. /\ \A i \in 1..n : f[i] \in ToSet(Words)
      /\ \A i, j \in 1..n : f[i] = f[j] => i = j
  BY <1>1 DEF Named
<1>5. DOMAIN f = 1..n /\ n \in Nat
  BY <1>2
<1> HIDE DEF n
<1>6. Len(f) = n
  BY <1>5
<1>7. \A i \in 1..n : f[i] = Schema[k][i][1]
  OBVIOUS
<1> HIDE DEF f
<1>8. Naming(f)
  BY <1>2, <1>4, <1>5, <1>6 DEF Naming
<1> QED BY <1>2, <1>3, <1>6, <1>7, <1>8 DEF n

\* The entries of a map with these names.
EntriesOf(names, values) == [i \in DOMAIN names |-> <<Spelt[names[i]], values[i]>>]

LEMMA NamesDiffer ==
  ASSUME NEW names, Naming(names)
  PROVE  \A i, j \in 1..Len(names) : Spelt[names[i]] = Spelt[names[j]] => i = j
BY SpeltInjective DEF Naming

LEMMA MapOfIs ==
  ASSUME NEW names, NEW values, Naming(names)
  PROVE  /\ MapOf(names, values) = <<Map, EntriesOf(names, values)>>
         /\ Len(EntriesOf(names, values)) = Len(names) /\ DOMAIN EntriesOf(names, values) = 1..Len(names)
         /\ \A i \in 1..Len(names) : EntriesOf(names, values)[i] = <<Spelt[names[i]], values[i]>>
         /\ UniqueKeys(EntriesOf(names, values))
         /\ ExactMap(MapOf(names, values), names)
         /\ \A i \in 1..Len(names) : Field(MapOf(names, values), names[i]) = values[i]
<1> DEFINE n == Len(names)
<1> DEFINE e == EntriesOf(names, values)
<1> DEFINE x == MapOf(names, values)
<1>1. n \in 0..4 /\ n \in Nat /\ DOMAIN names = 1..n
  BY DEF Naming
<1>2. x = <<Map, e>>
  BY DEF MapOf, EntriesOf
<1>3. DOMAIN e = 1..n /\ \A i \in 1..n : e[i] = <<Spelt[names[i]], values[i]>>
  BY <1>1 DEF EntriesOf
<1>4. Len(e) = n
  BY <1>1, <1>3
<1>5. \A i \in 1..n : e[i][1] = Spelt[names[i]] /\ e[i][2] = values[i]
  BY <1>3
<1>6. \A i, j \in 1..n : Spelt[names[i]] = Spelt[names[j]] => i = j
  BY NamesDiffer
<1>7. x[1] = Map /\ x[2] = e
  BY <1>2
<1> HIDE DEF e, x, n
<1>8. UniqueKeys(e)
  BY <1>3, <1>5, <1>6 DEF UniqueKeys
<1>9. ExactMap(x, names)
  BY <1>1, <1>3, <1>4, <1>5, <1>7 DEF ExactMap, n
<1>10. ASSUME NEW i \in 1..n
       PROVE  Field(x, names[i]) = values[i]
  <2> DEFINE at == CHOOSE j \in 1..n : e[j][1] = Spelt[names[i]]
  <2>1. at \in 1..n /\ e[at][1] = Spelt[names[i]]
    BY <1>5
  <2>2. at = i
    BY <1>5, <1>6, <2>1
  <2>3. Field(x, names[i]) = e[at][2]
    BY <1>3, <1>7 DEF Field
  <2> HIDE DEF at
  <2> QED BY <1>5, <2>2, <2>3
<1> QED BY <1>2, <1>3, <1>4, <1>8, <1>9, <1>10 DEF e, x, n

\* p puts the entries of s in the order of the names.
Orders(p, s, names, value) ==
    /\ \A i \in 1..Len(names) : p[i] \in 1..Len(names)
    /\ \A i, j \in 1..Len(names) : p[i] = p[j] => i = j
    /\ \A i \in 1..Len(names) : s[p[i]] = <<Spelt[names[i]], Field(value, names[i])>>

LEMMA ExactOrder ==
  ASSUME NEW names, Naming(names), NEW value, ExactMap(value, names),
         NEW V, value[2] \in Seq(Text \X V)
  PROVE  /\ \E p : Orders(p, value[2], names, value)
         /\ \A i \in 1..Len(names) : Field(value, names[i]) \in V
<1> DEFINE n == Len(names)
<1> DEFINE s == value[2]
<1>1. n \in 0..4 /\ n \in Nat /\ DOMAIN names = 1..n
  BY DEF Naming
<1>2. Len(s) = n /\ DOMAIN s = 1..n
  BY DEF ExactMap
<1>3. \A i \in 1..n : \E j \in 1..n : s[j][1] = Spelt[names[i]]
  BY <1>1, <1>2 DEF ExactMap
<1>4. \A j \in 1..n : IsEntry(s[j], V)
  BY <1>2, ElementOfSeq DEF IsEntry
<1> DEFINE p == [i \in 1..n |-> CHOOSE j \in 1..n : s[j][1] = Spelt[names[i]]]
<1>5. \A i \in 1..n : p[i] \in 1..n /\ s[p[i]][1] = Spelt[names[i]]
  BY <1>3
<1>6. \A i \in 1..n : Field(value, names[i]) = s[p[i]][2]
  BY <1>2 DEF Field
<1>7. \A i, j \in 1..n : p[i] = p[j] => i = j
  <2> HIDE DEF p
  <2> QED BY <1>5, NamesDiffer
<1> HIDE DEF p, s, n
<1>8. ASSUME NEW i \in 1..n
      PROVE  s[p[i]] = <<Spelt[names[i]], Field(value, names[i])>> /\ Field(value, names[i]) \in V
  <2>1. IsEntry(s[p[i]], V) /\ s[p[i]][1] = Spelt[names[i]] /\ Field(value, names[i]) = s[p[i]][2]
    BY <1>4, <1>5, <1>6
  <2> DEFINE q == s[p[i]]
  <2>2. q = <<q[1], q[2]>> /\ q[2] \in V
    <3> HIDE DEF q
    <3>1. IsEntry(q, V)
      BY <2>1 DEF q
    <3> QED BY <3>1, EntryFields
  <2> QED BY <2>1, <2>2
<1>9. Orders(p, s, names, value)
  BY <1>5, <1>7, <1>8 DEF Orders, n
<1> QED BY <1>8, <1>9 DEF s, n

-----------------------------------------------------------------------------
(* What a value says when it is read as a message.                         *)

\* The value says the message m: Message::from_wire takes it for m.
Says(value, m) ==
    /\ IsTyped(m) /\ IsMessage(m)
    /\ ExactMap(value, Envelope)
    /\ Field(value, "protocolVersion") = <<Integer, ProtocolVersion>>
    /\ Field(value, "requestId") = <<Integer, m.id>>
    /\ Field(value, "kind") = <<String, Spelt[m.kind]>>
    /\ ExactMap(Field(value, "payload"), Names(m.kind))
    /\ \A i \in DOMAIN Schema[m.kind] :
         Field(Field(value, "payload"), Names(m.kind)[i]) = <<Tag(Schema[m.kind][i][2]), m.fields[i]>>

\* What FromValue makes of a value, whether or not it is a message.
MadeOf(value, k) ==
    [id |-> Field(value, "requestId")[2], kind |-> k,
     fields |-> [i \in DOMAIN Schema[k] |-> Field(Field(value, "payload"), Names(k)[i])[2]]]
IsMade(value, k) ==
    /\ ExactMap(value, Envelope)
    /\ Field(value, "protocolVersion") = <<Integer, ProtocolVersion>>
    /\ Field(value, "requestId")[1] = Integer
    /\ Field(value, "kind")[1] = String /\ \E w \in Kinds : Field(value, "kind")[2] = Spelt[w]
    /\ ExactMap(Field(value, "payload"), Names(k))
    /\ \A i \in DOMAIN Schema[k] :
         Field(Field(value, "payload"), Names(k)[i])[1] = Tag(Schema[k][i][2])
    /\ IsMessage(MadeOf(value, k))
KindOf(value) == CHOOSE w \in Kinds : Field(value, "kind")[2] = Spelt[w]

LEMMA FromValueIs ==
  ASSUME NEW value
  PROVE  FromValue(value) = IF IsMade(value, KindOf(value)) THEN MadeOf(value, KindOf(value)) ELSE NoMessage
BY DEF FromValue, IsMade, MadeOf, KindOf

LEMMA MessagesAreNotNone ==
  ASSUME NEW m, m.kind \in Kinds
  PROVE  m # NoMessage
BY KindsAreWords DEF NoMessage

LEMMA KindOfIs ==
  ASSUME NEW value, NEW k \in Kinds, Field(value, "kind")[2] = Spelt[k]
  PROVE  KindOf(value) = k
<1> DEFINE w == KindOf(value)
<1>1. w \in Kinds /\ Spelt[w] = Spelt[k]
  BY DEF KindOf
<1> HIDE DEF w
<1>2. w = k
  BY <1>1, KindsAreWords, SpeltInjective
<1> QED BY <1>2 DEF w

LEMMA SaysRead ==
  ASSUME NEW value, NEW m, Says(value, m)
  PROVE  FromValue(value) = m /\ m # NoMessage
<1> DEFINE k == m.kind
<1> DEFINE payload == Field(value, "payload")
<1>1. k \in Kinds /\ m = [id |-> m.id, kind |-> k, fields |-> [i \in DOMAIN Schema[k] |-> m.fields[i]]]
  BY DEF Says, IsTyped
<1>2. \A t, x : <<t, x>>[1] = t /\ <<t, x>>[2] = x
  OBVIOUS
<1>3. /\ Field(value, "requestId")[1] = Integer /\ Field(value, "requestId")[2] = m.id
      /\ Field(value, "kind")[1] = String /\ Field(value, "kind")[2] = Spelt[k]
  BY <1>2 DEF Says
<1>4. KindOf(value) = k
  BY <1>1, <1>3, KindOfIs
<1>5. \A i \in DOMAIN Schema[k] : /\ Field(payload, Names(k)[i])[1] = Tag(Schema[k][i][2])
                                  /\ Field(payload, Names(k)[i])[2] = m.fields[i]
  BY <1>2 DEF Says
<1>6. MadeOf(value, k) = m
  BY <1>1, <1>3, <1>5 DEF MadeOf
<1>7. IsMade(value, k)
  <2>1. /\ ExactMap(value, Envelope)
        /\ Field(value, "protocolVersion") = <<Integer, ProtocolVersion>>
        /\ ExactMap(payload, Names(k)) /\ IsMessage(m)
    BY DEF Says
  <2> QED BY <1>1, <1>3, <1>5, <1>6, <2>1 DEF IsMade
<1> QED BY <1>1, <1>4, <1>6, <1>7, FromValueIs, MessagesAreNotNone

LEMMA FieldTypes ==
  ASSUME NEW t \in {"text", "bytes", "positive", "natural", "code", "message"}, NEW x, NEW V
  PROVE  InContents(Tag(t), x, V) <=> x \in TypeOf(t)
<1>1. CASE t = "bytes"
  BY <1>1 DEF InContents, Tag, TypeOf, Wire, Null, Bool, Integer, Float, String, Bytes, Array, Map, Handle, Error
<1>2. CASE t \in {"positive", "natural"}
  BY <1>2 DEF InContents, Tag, TypeOf, Null, Bool, Integer, Float, String, Bytes, Array, Map, Handle, Error
<1>3. CASE t \notin {"bytes", "positive", "natural"}
  BY <1>3 DEF InContents, Tag, TypeOf, Null, Bool, Integer, Float, String, Bytes, Array, Map, Handle, Error
<1> QED BY <1>1, <1>2, <1>3

\* The values of each level, from the outside of a message.
LEMMA Levels ==
  /\ MaxDepth \in Nat /\ MaxDepth - 1 \in Nat /\ MaxDepth - 2 \in Nat
  /\ MaxDepth - 1 \in 0..MaxDepth /\ MaxDepth - 2 \in 0..MaxDepth
  /\ Value = Above(ValuesUpTo[MaxDepth])
  /\ ValuesUpTo[MaxDepth] = Above(ValuesUpTo[MaxDepth - 1])
  /\ ValuesUpTo[MaxDepth - 1] = Above(ValuesUpTo[MaxDepth - 2])
<1>1. MaxDepth \in Nat /\ MaxDepth >= 2
  BY CodecAssumption, ProtocolAssumption
<1>2. /\ MaxDepth - 1 \in 0..MaxDepth /\ MaxDepth - 2 \in 0..MaxDepth /\ MaxDepth \in 0..MaxDepth
      /\ (MaxDepth - 1) + 1 = MaxDepth /\ (MaxDepth - 2) + 1 = MaxDepth - 1
  BY <1>1
<1>3. \A n \in 0..MaxDepth : ValuesUpTo[n + 1] = Above(ValuesUpTo[n])
  BY ValuesUpToIs
<1>4. ValuesUpTo[MaxDepth + 1] = Above(ValuesUpTo[MaxDepth])
  BY <1>2, <1>3
<1>5. ValuesUpTo[(MaxDepth - 1) + 1] = Above(ValuesUpTo[MaxDepth - 1])
  BY <1>2, <1>3
<1>6. ValuesUpTo[(MaxDepth - 2) + 1] = Above(ValuesUpTo[MaxDepth - 2])
  BY <1>2, <1>3
<1> QED BY <1>1, <1>2, <1>4, <1>5, <1>6 DEF Value

LEMMA MapsAreAbove ==
  ASSUME NEW V, NEW x
  PROVE  /\ x \in Above(V) /\ x[1] = Map => x[2] \in Seq(Text \X V) /\ x = <<Map, x[2]>>
         /\ x \in Seq(Text \X V) => <<Map, x>> \in Above(V)
<1>1. /\ \A e : InContents(Map, e, V) <=> e \in Seq(Text \X V)
  BY DEF InContents, Null, Bool, Integer, Float, String, Bytes, Array, Map, Handle, Error
<1> QED BY <1>1, AboveIs

LEMMA ReadSays ==
  ASSUME NEW value \in Value, FromValue(value) # NoMessage
  PROVE  Says(value, FromValue(value))
<1> DEFINE k == KindOf(value)
<1> DEFINE m == FromValue(value)
<1> DEFINE payload == Field(value, "payload")
<1>1. IsMade(value, k) /\ m = MadeOf(value, k)
  BY FromValueIs
<1>2. k \in Kinds /\ Field(value, "kind")[2] = Spelt[k]
  BY <1>1 DEF IsMade, KindOf
<1> HIDE DEF k
<1>3. /\ m.id = Field(value, "requestId")[2] /\ m.kind = k
      /\ \A i \in DOMAIN Schema[k] : m.fields[i] = Field(payload, Names(k)[i])[2]
      /\ m = [id |-> m.id, kind |-> k, fields |-> [i \in DOMAIN Schema[k] |-> m.fields[i]]]
  BY <1>1, SMTT(30) DEF MadeOf
<1>4. /\ ExactMap(value, Envelope) /\ ExactMap(payload, Names(k))
      /\ Field(value, "protocolVersion") = <<Integer, ProtocolVersion>>
      /\ Field(value, "requestId")[1] = Integer /\ Field(value, "kind")[1] = String
      /\ \A i \in DOMAIN Schema[k] : Field(payload, Names(k)[i])[1] = Tag(Schema[k][i][2])
      /\ IsMessage(m)
  BY <1>1 DEF IsMade
<1> HIDE DEF m
<1>5. value[2] \in Seq(Text \X ValuesUpTo[MaxDepth])
  <2>1. value[1] = Map
    BY <1>4 DEF ExactMap
  <2> QED BY <2>1, Levels, MapsAreAbove
<1>6. \A i \in 1..4 : Field(value, Envelope[i]) \in ValuesUpTo[MaxDepth]
  BY <1>4, <1>5, EnvelopeNames, ExactOrder
<1>7. /\ Field(value, "requestId") \in ValuesUpTo[MaxDepth] /\ Field(value, "kind") \in ValuesUpTo[MaxDepth]
      /\ payload \in ValuesUpTo[MaxDepth]
  <2>1. Envelope[2] = "requestId" /\ Envelope[3] = "kind" /\ Envelope[4] = "payload"
    BY DEF Envelope
  <2> QED BY <1>6, <2>1
<1>8. \A V : \A y \in Above(V) : y = <<y[1], y[2]>> /\ InContents(y[1], y[2], V)
  BY AboveIs
<1>9. /\ Field(value, "requestId") = <<Integer, m.id>>
      /\ Field(value, "kind") = <<String, Spelt[k]>>
  BY <1>2, <1>3, <1>4, <1>7, <1>8, Levels
<1>10. payload[2] \in Seq(Text \X ValuesUpTo[MaxDepth - 1])
  <2>1. payload[1] = Map
    BY <1>4 DEF ExactMap
  <2> HIDE DEF payload
  <2> QED BY <1>7, <2>1, Levels, MapsAreAbove
<1> HIDE DEF payload
<1>11. ASSUME NEW i \in DOMAIN Schema[k]
       PROVE  /\ Field(payload, Names(k)[i]) = <<Tag(Schema[k][i][2]), m.fields[i]>>
              /\ m.fields[i] \in TypeOf(Schema[k][i][2])
  <2> DEFINE f == Field(payload, Names(k)[i])
  <2> DEFINE t == Schema[k][i][2]
  <2>1. f \in ValuesUpTo[MaxDepth - 1]
    BY <1>2, <1>4, <1>10, KindNames, ExactOrder
  <2>2. f[1] = Tag(t) /\ f[2] = m.fields[i]
    BY <1>3, <1>4
  <2>3. t \in {"text", "bytes", "positive", "natural", "code", "message"}
    BY <1>2, SchemaNamed DEF Named, FieldKinds
  <2> HIDE DEF f, t
  <2>4. f = <<Tag(t), m.fields[i]>> /\ InContents(Tag(t), m.fields[i], ValuesUpTo[MaxDepth - 2])
    BY <1>8, <2>1, <2>2, Levels
  <2>5. m.fields[i] \in TypeOf(t)
    BY <2>3, <2>4, FieldTypes
  <2> QED BY <2>4, <2>5 DEF f, t
<1>12. IsTyped(m)
  BY <1>2, <1>3, <1>11 DEF IsTyped
<1>13. Says(value, m)
  BY <1>3, <1>4, <1>9, <1>11, <1>12 DEF Says, payload
<1> QED BY <1>13 DEF m

-----------------------------------------------------------------------------
(* The values that are written of a message: the one of this repository,   *)
(* and a foreign one with its fields in another order.                     *)

LEMMA SpeltIsText ==
  ASSUME NEW w \in ToSet(Words)
  PROVE  Spelt[w] \in Text
<1> DEFINE at == CHOOSE i \in DOMAIN Words : Words[i] = w
<1>1. DOMAIN Words = 1..30
  BY DEF Words
<1>2. at \in 1..30
  BY <1>1 DEF ToSet
<1>3. Spelt[w] = <<32 + at>>
  BY DEF Spelt
<1> HIDE DEF at
<1>4. 32 + at \in 0..127
  BY <1>2
<1> DEFINE b == 32 + at
<1> HIDE DEF b
<1>5. <<b>> \in Seq(0..127)
  <2>1. b \in 0..127
    BY <1>4 DEF b
  <2>2. \A S : \A x \in S : <<x>> \in Seq(S)
    OBVIOUS
  <2> QED BY <2>1, <2>2
<1> QED BY <1>3, <1>5 DEF Text, b

LEMMA EntriesAre ==
  ASSUME NEW names, NEW values, Naming(names), NEW i \in 1..Len(names)
  PROVE  /\ EntriesOf(names, values)[i][1] = Spelt[names[i]]
         /\ EntriesOf(names, values)[i][2] = values[i]
<1>1. EntriesOf(names, values)[i] = <<Spelt[names[i]], values[i]>>
  BY MapOfIs
<1> QED BY <1>1

\* s has these entries in some order.
Rearranges(s, entries, n) ==
    /\ Len(s) = n /\ DOMAIN s = 1..n
    /\ \A i \in 1..n : \E j \in 1..n : s[j] = entries[i]
    /\ \A j \in 1..n : \E i \in 1..n : s[j] = entries[i]

LEMMA Rearranged ==
  ASSUME NEW names, NEW values, Naming(names), NEW s,
         Rearranges(s, EntriesOf(names, values), Len(names))
  PROVE  /\ ExactMap(<<Map, s>>, names)
         /\ \A i \in 1..Len(names) : Field(<<Map, s>>, names[i]) = values[i]
<1> DEFINE n == Len(names)
<1> DEFINE e == EntriesOf(names, values)
<1> DEFINE x == <<Map, s>>
<1>1. n \in Nat /\ DOMAIN names = 1..n
  BY DEF Naming
<1>2. x[1] = Map /\ x[2] = s
  OBVIOUS
<1>3. \A i \in 1..n : e[i][1] = Spelt[names[i]] /\ e[i][2] = values[i]
  BY EntriesAre
<1> HIDE DEF x, e, n
<1>4. Len(s) = n /\ DOMAIN s = 1..n
  BY DEF Rearranges, e, n
<1>7. ASSUME NEW i \in 1..n
      PROVE  \E j \in 1..n : s[j][1] = Spelt[names[i]]
  <2>1. PICK j \in 1..n : s[j] = e[i]
    BY DEF Rearranges, e, n
  <2>2. s[j][1] = Spelt[names[i]]
    BY <1>3, <2>1
  <2> QED BY <2>2
<1>5. ExactMap(x, names)
  BY <1>1, <1>2, <1>4, <1>7 DEF ExactMap, n
<1>6. ASSUME NEW i \in 1..n
      PROVE  Field(x, names[i]) = values[i]
  <2> DEFINE at == CHOOSE j \in 1..n : s[j][1] = Spelt[names[i]]
  <2>1. \E j \in 1..n : s[j][1] = Spelt[names[i]]
    BY <1>7
  <2>2. at \in 1..n /\ s[at][1] = Spelt[names[i]]
    BY <2>1
  <2>3. Field(x, names[i]) = s[at][2]
    BY <1>2, <1>4 DEF Field
  <2> HIDE DEF at
  <2>4. PICK l \in 1..n : s[at] = e[l]
    BY <2>2 DEF Rearranges, e, n
  <2>5. s[at][1] = Spelt[names[l]] /\ s[at][2] = values[l]
    BY <1>3, <2>4
  <2>6. l = i
    BY <2>2, <2>5, NamesDiffer DEF n
  <2> QED BY <2>3, <2>5, <2>6
<1> QED BY <1>5, <1>6 DEF x, n

LEMMA BackwardsIs ==
  ASSUME NEW names, NEW values, Naming(names)
  PROVE  LET back == Backwards(MapOf(names, values)) IN
         /\ ExactMap(back, names)
         /\ \A i \in 1..Len(names) : Field(back, names[i]) = values[i]
         /\ back[1] = Map /\ back = <<Map, back[2]>>
         /\ \A V : EntriesOf(names, values) \in Seq(V) => back[2] \in Seq(V)
<1> DEFINE n == Len(names)
<1> DEFINE e == EntriesOf(names, values)
<1> DEFINE r == Reverse(e)
<1>1. n \in Nat /\ Len(e) = n /\ DOMAIN e = 1..n
      /\ \A i \in 1..n : e[i] = <<Spelt[names[i]], values[i]>>
  <2>1. n \in Nat
    BY DEF Naming
  <2>2. Len(e) = n /\ DOMAIN e = 1..n /\ \A i \in 1..n : e[i] = <<Spelt[names[i]], values[i]>>
    BY MapOfIs
  <2> QED BY <2>1, <2>2
<1>2. Backwards(MapOf(names, values)) = <<Map, r>>
  <2>1. MapOf(names, values) = <<Map, e>>
    BY MapOfIs
  <2>2. MapOf(names, values)[2] = e
    BY <2>1
  <2> QED BY <2>2 DEF Backwards
<1> HIDE DEF n, e
<1>3. DOMAIN r = 1..n /\ \A i \in 1..n : r[i] = e[(n - i) + 1]
  BY <1>1 DEF Reverse
<1>4. Len(r) = n
  BY <1>1, <1>3
<1> HIDE DEF r
<1>5. \A i \in 1..n : (n - i) + 1 \in 1..n /\ (n - ((n - i) + 1)) + 1 = i
  BY <1>1
<1>6. \A i \in 1..n : r[(n - i) + 1] = e[i]
  <2> TAKE i \in 1..n
  <2>1. r[(n - i) + 1] = e[(n - ((n - i) + 1)) + 1]
    BY <1>3, <1>5
  <2> QED BY <1>5, <2>1
<1>7. \A i \in 1..n : \E j \in 1..n : r[j] = e[i]
  BY <1>5, <1>6
<1>8. \A j \in 1..n : \E i \in 1..n : r[j] = e[i]
  BY <1>3, <1>5
<1>9. /\ ExactMap(<<Map, r>>, names)
      /\ \A i \in 1..n : Field(<<Map, r>>, names[i]) = values[i]
  <2>1. Rearranges(r, e, n)
    BY <1>3, <1>4, <1>7, <1>8 DEF Rearranges
  <2>2. Rearranges(r, EntriesOf(names, values), Len(names))
    BY <2>1 DEF e, n
  <2> QED BY <2>2, Rearranged DEF n
<1>10. ASSUME NEW V, e \in Seq(V)
       PROVE  r \in Seq(V)
  <2>1. \A i \in 1..n : e[i] \in V
    BY <1>1, <1>10, ElementOfSeq
  <2>2. \A i \in 1..n : r[i] \in V
    BY <1>3, <1>5, <2>1
  <2>3. r = [i \in 1..n |-> r[i]]
    <3>1. r = [i \in 1..Len(e) |-> e[(Len(e) - i) + 1]]
      BY DEF r, Reverse
    <3> QED BY <1>1, <1>3, <3>1
  <2> QED BY <1>1, <2>2, <2>3, IsASeq
<1>11. <<Map, r>>[1] = Map /\ <<Map, r>>[2] = r
  OBVIOUS
<1> QED BY <1>2, <1>9, <1>10, <1>11 DEF e, n

FieldValues(m) == [i \in DOMAIN m.fields |-> <<Tag(Schema[m.kind][i][2]), m.fields[i]>>]
InEnvelope(m, payload) ==
    << <<Integer, ProtocolVersion>>, <<Integer, m.id>>, <<String, Spelt[m.kind]>>, payload>>

LEMMA ToValueIs ==
  ASSUME NEW m
  PROVE  ToValue(m) = MapOf(Envelope, InEnvelope(m, MapOf(Names(m.kind), FieldValues(m))))
BY DEF ToValue, FieldValues, InEnvelope

LEMMA ForeignIs ==
  ASSUME NEW m
  PROVE  Foreign(m) = Backwards(MapOf(Envelope,
            InEnvelope(m, Backwards(MapOf(Names(m.kind), FieldValues(m))))))
<1> DEFINE P == MapOf(Names(m.kind), FieldValues(m))
<1> DEFINE v == ToValue(m)
<1> DEFINE e == EntriesOf(Envelope, InEnvelope(m, P))
<1> DEFINE e2 == EntriesOf(Envelope, InEnvelope(m, Backwards(P)))
<1>1. v = MapOf(Envelope, InEnvelope(m, P))
  BY ToValueIs
<1> HIDE DEF P, v
<1>2. v = <<Map, e>> /\ DOMAIN e = 1..4 /\ \A i \in 1..4 : e[i] = <<Spelt[Envelope[i]], InEnvelope(m, P)[i]>>
  BY <1>1, EnvelopeNames, MapOfIs
<1>3. DOMAIN e2 = 1..4 /\ \A i \in 1..4 : e2[i] = <<Spelt[Envelope[i]], InEnvelope(m, Backwards(P))[i]>>
  BY EnvelopeNames, MapOfIs
<1>4. v[2] = e
  BY <1>2
<1>5. /\ InEnvelope(m, P)[4] = P /\ InEnvelope(m, Backwards(P))[4] = Backwards(P)
      /\ \A i \in 1..3 : InEnvelope(m, Backwards(P))[i] = InEnvelope(m, P)[i]
  BY DEF InEnvelope
<1> DEFINE ne == [e EXCEPT ![4] = <<e[4][1], Backwards(e[4][2])>>]
<1> HIDE DEF e, e2
<1>6. e[4][1] = Spelt[Envelope[4]] /\ e[4][2] = P
  BY <1>2, <1>5
<1>7. e2[4] = <<Spelt[Envelope[4]], Backwards(P)>> /\ \A i \in 1..3 : e2[i] = e[i]
  BY <1>2, <1>3, <1>5
<1>8. DOMAIN ne = 1..4 /\ \A i \in 1..4 : ne[i] = e2[i]
  BY <1>2, <1>6, <1>7
<1>9. e = [i \in 1..4 |-> e[i]] /\ e2 = [i \in 1..4 |-> e2[i]]
  BY <1>2, <1>3 DEF e, e2, EntriesOf
<1>10. ne = e2
  BY <1>3, <1>8, <1>9
<1>11. Foreign(m) = Backwards(<<Map, ne>>)
  BY <1>4 DEF Foreign, v
<1>12. <<Map, e2>> = MapOf(Envelope, InEnvelope(m, Backwards(P)))
  BY EnvelopeNames, MapOfIs DEF e2
<1> QED BY <1>10, <1>11, <1>12 DEF P

LEMMA EntriesOfValues ==
  ASSUME NEW names, NEW values, Naming(names), NEW V, \A i \in 1..Len(names) : values[i] \in V
  PROVE  EntriesOf(names, values) \in Seq(Text \X V)
<1> DEFINE n == Len(names)
<1> DEFINE e == EntriesOf(names, values)
<1>1. n \in Nat /\ DOMAIN names = 1..n
  BY DEF Naming
<1>2. e = [i \in 1..n |-> <<Spelt[names[i]], values[i]>>]
  BY <1>1 DEF EntriesOf
<1>3. ASSUME NEW i \in 1..n
      PROVE  <<Spelt[names[i]], values[i]>> \in Text \X V
  <2>1. Spelt[names[i]] \in Text
    BY SpeltIsText DEF Naming
  <2> HIDE DEF n
  <2> QED BY <2>1 DEF n
<1> DEFINE p(i) == <<Spelt[names[i]], values[i]>>
<1> DEFINE U == Text \X V
<1>4. \A i \in 1..n : p(i) \in U
  BY <1>3
<1>5. e = [i \in 1..n |-> p(i)]
  BY <1>2
<1> HIDE DEF e, p, U, n
<1>6. e \in Seq(U)
  BY <1>1, <1>4, <1>5, IsASeq
<1> QED BY <1>6 DEF e, U

\* The envelope around a payload that has the fields of m in some order.
LEMMA EnvelopeSays ==
  ASSUME NEW m, IsTyped(m), IsMessage(m), NEW payload,
         ExactMap(payload, Names(m.kind)),
         \A i \in 1..Len(Names(m.kind)) : Field(payload, Names(m.kind)[i]) = FieldValues(m)[i],
         NEW value, ExactMap(value, Envelope),
         \A i \in 1..4 : Field(value, Envelope[i]) = InEnvelope(m, payload)[i]
  PROVE  Says(value, m)
<1> DEFINE k == m.kind
<1>1. k \in Kinds /\ DOMAIN m.fields = DOMAIN Schema[k]
  BY DEF IsTyped
<1>2. DOMAIN Schema[k] = 1..Len(Names(k))
  BY <1>1, KindNames
<1>3. \A i \in DOMAIN Schema[k] : FieldValues(m)[i] = <<Tag(Schema[k][i][2]), m.fields[i]>>
  BY <1>1 DEF FieldValues
<1>4. /\ Envelope[1] = "protocolVersion" /\ Envelope[2] = "requestId"
      /\ Envelope[3] = "kind" /\ Envelope[4] = "payload"
  BY DEF Envelope
<1>5. /\ InEnvelope(m, payload)[1] = <<Integer, ProtocolVersion>> /\ InEnvelope(m, payload)[2] = <<Integer, m.id>>
      /\ InEnvelope(m, payload)[3] = <<String, Spelt[k]>> /\ InEnvelope(m, payload)[4] = payload
  BY DEF InEnvelope
<1>6. /\ Field(value, "protocolVersion") = <<Integer, ProtocolVersion>>
      /\ Field(value, "requestId") = <<Integer, m.id>>
      /\ Field(value, "kind") = <<String, Spelt[k]>>
      /\ Field(value, "payload") = payload
  <2>1. /\ Field(value, Envelope[1]) = InEnvelope(m, payload)[1]
        /\ Field(value, Envelope[2]) = InEnvelope(m, payload)[2]
        /\ Field(value, Envelope[3]) = InEnvelope(m, payload)[3]
        /\ Field(value, Envelope[4]) = InEnvelope(m, payload)[4]
    OBVIOUS
  <2> QED BY <1>4, <1>5, <2>1
<1>7. \A i \in DOMAIN Schema[k] :
        Field(payload, Names(k)[i]) = <<Tag(Schema[k][i][2]), m.fields[i]>>
  BY <1>2, <1>3
<1> QED BY <1>6, <1>7 DEF Says

LEMMA FieldsAreValues ==
  ASSUME NEW m, IsTyped(m)
  PROVE  \A i \in 1..Len(Names(m.kind)) : FieldValues(m)[i] \in ValuesUpTo[MaxDepth - 1]
<1> DEFINE k == m.kind
<1>1. k \in Kinds /\ DOMAIN m.fields = DOMAIN Schema[k] /\ DOMAIN Schema[k] = 1..Len(Names(k))
  BY KindNames DEF IsTyped
<1>2. ASSUME NEW i \in 1..Len(Names(k))
      PROVE  FieldValues(m)[i] \in ValuesUpTo[MaxDepth - 1]
  <2>1. FieldValues(m)[i] = <<Tag(Schema[k][i][2]), m.fields[i]>>
    BY <1>1 DEF FieldValues
  <2>2. m.fields[i] \in TypeOf(Schema[k][i][2])
    BY <1>1 DEF IsTyped
  <2>3. Schema[k][i][2] \in {"text", "bytes", "positive", "natural", "code", "message"}
    BY <1>1, KindNames, SchemaNamed DEF Named, FieldKinds
  <2>4. InContents(Tag(Schema[k][i][2]), m.fields[i], ValuesUpTo[MaxDepth - 2])
    BY <2>2, <2>3, FieldTypes
  <2>5. <<Tag(Schema[k][i][2]), m.fields[i]>> \in Above(ValuesUpTo[MaxDepth - 2])
    BY <2>4, AboveIs
  <2> QED BY <2>1, <2>5, Levels
<1> QED BY <1>2

LEMMA EnvelopeValues ==
  ASSUME NEW m, IsTyped(m), IsMessage(m), NEW payload \in ValuesUpTo[MaxDepth]
  PROVE  \A i \in 1..4 : InEnvelope(m, payload)[i] \in ValuesUpTo[MaxDepth]
<1>1. /\ InEnvelope(m, payload)[1] = <<Integer, ProtocolVersion>> /\ InEnvelope(m, payload)[2] = <<Integer, m.id>>
      /\ InEnvelope(m, payload)[3] = <<String, Spelt[m.kind]>> /\ InEnvelope(m, payload)[4] = payload
  BY DEF InEnvelope
<1>2. ProtocolVersion \in -128..MaxSigned /\ m.id \in -128..MaxSigned /\ Spelt[m.kind] \in Text
  BY KindsAreWords, SpeltIsText DEF ProtocolVersion, MaxSigned, IsMessage, IsTyped
<1> DEFINE V == ValuesUpTo[MaxDepth - 1]
<1>3. /\ InContents(Integer, ProtocolVersion, V) /\ InContents(Integer, m.id, V)
      /\ InContents(String, Spelt[m.kind], V)
  BY <1>2 DEF InContents
<1>4. /\ <<Integer, ProtocolVersion>> \in ValuesUpTo[MaxDepth] /\ <<Integer, m.id>> \in ValuesUpTo[MaxDepth]
      /\ <<String, Spelt[m.kind]>> \in ValuesUpTo[MaxDepth]
  BY <1>3, AboveIs, Levels
<1> QED BY <1>1, <1>4

\* Both orders of the fields say the message.
LEMMA Sayings ==
  ASSUME NEW m, IsTyped(m), IsMessage(m)
  PROVE  /\ Says(ToValue(m), m) /\ ToValue(m) \in Value
         /\ Says(Foreign(m), m) /\ Foreign(m) \in Value
<1> DEFINE names == Names(m.kind)
<1> DEFINE values == FieldValues(m)
<1> DEFINE P == MapOf(names, values)
<1> DEFINE V == ValuesUpTo[MaxDepth - 1]
<1> DEFINE U == ValuesUpTo[MaxDepth]
<1>1. Naming(names) /\ \A i \in 1..Len(names) : values[i] \in V
  BY KindNames, FieldsAreValues DEF IsTyped
<1>2. U = Above(V) /\ Value = Above(U)
  BY Levels
<1>3. Naming(Envelope) /\ Len(Envelope) = 4
  BY EnvelopeNames
<1>4. EntriesOf(names, values) \in Seq(Text \X V)
  BY <1>1, EntriesOfValues
<1>5. P \in U
  <2>1. P = <<Map, EntriesOf(names, values)>>
    BY <1>1, MapOfIs
  <2> QED BY <1>2, <1>4, <2>1, MapsAreAbove
<1>6. Backwards(P) \in U
  <2> DEFINE b == Backwards(P)
  <2>1. b = <<Map, b[2]>> /\ b[2] \in Seq(Text \X V)
    BY <1>1, <1>4, BackwardsIs
  <2> HIDE DEF b, U, V
  <2>2. b \in U
    BY <1>2, <2>1, MapsAreAbove
  <2> QED BY <2>2 DEF b
<1>7. /\ ExactMap(P, names) /\ \A i \in 1..Len(names) : Field(P, names[i]) = values[i]
      /\ ExactMap(Backwards(P), names) /\ \A i \in 1..Len(names) : Field(Backwards(P), names[i]) = values[i]
  BY <1>1, MapOfIs, BackwardsIs
<1>8. ASSUME NEW payload \in U
      PROVE  EntriesOf(Envelope, InEnvelope(m, payload)) \in Seq(Text \X U)
  BY <1>3, EnvelopeValues, EntriesOfValues
<1>9. ToValue(m) = MapOf(Envelope, InEnvelope(m, P))
  BY ToValueIs
<1>10. Foreign(m) = Backwards(MapOf(Envelope, InEnvelope(m, Backwards(P))))
  BY ForeignIs
<1> HIDE DEF P, V, U, names, values
<1>11. Says(ToValue(m), m)
  <2> DEFINE x == MapOf(Envelope, InEnvelope(m, P))
  <2>1. ExactMap(x, Envelope) /\ \A i \in 1..4 : Field(x, Envelope[i]) = InEnvelope(m, P)[i]
    BY <1>3, MapOfIs
  <2> HIDE DEF x
  <2>2. Says(x, m)
    BY <1>7, <2>1, EnvelopeSays DEF names, values
  <2> QED BY <1>9, <2>2 DEF x
<1>12. ToValue(m) \in Value
  <2>1. MapOf(Envelope, InEnvelope(m, P)) = <<Map, EntriesOf(Envelope, InEnvelope(m, P))>>
    BY <1>3, MapOfIs
  <2> QED BY <1>2, <1>5, <1>8, <1>9, <2>1, MapsAreAbove
<1> DEFINE y == Backwards(MapOf(Envelope, InEnvelope(m, Backwards(P))))
<1>13. /\ ExactMap(y, Envelope) /\ \A i \in 1..4 : Field(y, Envelope[i]) = InEnvelope(m, Backwards(P))[i]
       /\ y = <<Map, y[2]>> /\ y[2] \in Seq(Text \X U)
  <2> DEFINE values2 == InEnvelope(m, Backwards(P))
  <2>1. EntriesOf(Envelope, values2) \in Seq(Text \X U)
    BY <1>6, <1>8
  <2> HIDE DEF values2
  <2> DEFINE z == Backwards(MapOf(Envelope, values2))
  <2>2. /\ ExactMap(z, Envelope) /\ \A i \in 1..Len(Envelope) : Field(z, Envelope[i]) = values2[i]
        /\ z = <<Map, z[2]>> /\ \A W : EntriesOf(Envelope, values2) \in Seq(W) => z[2] \in Seq(W)
    BY <1>3, BackwardsIs
  <2> HIDE DEF z
  <2>3. z[2] \in Seq(Text \X U)
    BY <2>1, <2>2
  <2> QED BY <1>3, <2>2, <2>3 DEF z, values2
<1> HIDE DEF y
<1>14. Says(y, m)
  BY <1>7, <1>13, EnvelopeSays DEF names, values
<1>15. y \in Value
  BY <1>2, <1>13, MapsAreAbove
<1> QED BY <1>10, <1>11, <1>12, <1>14, <1>15 DEF y

-----------------------------------------------------------------------------
(* What a value costs: the bytes that are written of it, and the content   *)
(* and the values that are counted, wherever it stands.                    *)

\* The encoder f is the one with o, c and v after it has written l bytes and
\* counted so much content and so many values; or it has refused them.
Grown(f, o, c, v, l, content, values) ==
    IF c + content <= MaxContent /\ v + values <= MaxValues
    THEN \E u \in Wire : Len(u) = Len(o) + l /\ f = Writer(u, c + content, v + values)
    ELSE f = Refused

\* What the encoder of a value, of contents and of a list writes and counts,
\* wherever it stands.  What is refused everywhere costs more than there is.
Costs(put, x, l, content, values) ==
    \A o \in Wire, c \in 0..MaxContent, v \in 0..MaxValues :
        Grown(put[x][Writer(o, c, v)], o, c, v, l, content, values)
ContentsCost(put, tag, x, l, content, values) ==
    \A o \in Wire, c \in 0..MaxContent, v \in 0..MaxValues :
        Grown(PutContents(put, Writer(o, c, v), tag, x), o, c, v, l, content, values)
ListCosts(put, s, l, content, values) ==
    \A o \in Wire, c \in 0..MaxContent, v \in 0..MaxValues :
        Grown(PutAll(put, Writer(o, c, v), s), o, c, v, l, content, values)

LEMMA LengthOfJoined ==
  ASSUME NEW s \in Wire, NEW t \in Wire
  PROVE  s \bullet t \in Wire /\ Len(s \bullet t) = Len(s) + Len(t) /\ Len(s) \in Nat /\ Len(t) \in Nat
BY ConcatProperties, LenProperties DEF Wire, \bullet

LEMMA LengthOfHeads ==
  /\ \A b : Len(One(b)) = 1
  /\ \A m, b : Len(Two(m, b)) = 2
BY DEF One, Two

LEMMA LengthOfPrefixed ==
  ASSUME NEW m \in Octet, NEW s \in Wire, Len(s) \in Octet
  PROVE  Prefixed(m, s) \in Wire /\ Len(Prefixed(m, s)) = 2 + Len(s)
<1>1. Two(m, Len(s)) \in Wire
  BY TwoIsWire
<1>2. Len(Two(m, Len(s))) = 2
  BY LengthOfHeads
<1> QED BY <1>1, <1>2, LengthOfJoined DEF Prefixed

LEMMA GrownBy ==
  ASSUME NEW o \in Wire, NEW c \in 0..MaxContent, NEW v \in 0..MaxValues, NEW w \in Wire,
         NEW n \in Nat
  PROVE  /\ c + n <= MaxContent => Grown(Writer(o \bullet w, c + n, v), o, c, v, Len(w), n, 0)
         /\ ~(c + n <= MaxContent) => \A l, k : Grown(Refused, o, c, v, l, n, k)
         /\ \A l, k : Grown(Refused, o, c, v, l, MaxContent + 1, k)
<1>0. MaxContent \in Nat /\ MaxValues \in Nat
  BY CodecAssumption
<1>1. /\ o \bullet w \in Wire /\ Len(o \bullet w) = Len(o) + Len(w) /\ v + 0 = v /\ v <= MaxValues
  BY <1>0, LengthOfJoined
<1>2. ~(c + (MaxContent + 1) <= MaxContent)
  BY <1>0
<1>3. c + n <= MaxContent => Grown(Writer(o \bullet w, c + n, v), o, c, v, Len(w), n, 0)
  BY <1>1 DEF Grown
<1>4. ~(c + n <= MaxContent) => \A l, k : Grown(Refused, o, c, v, l, n, k)
  BY DEF Grown
<1>5. \A l, k : Grown(Refused, o, c, v, l, MaxContent + 1, k)
  BY <1>2 DEF Grown
<1> QED BY <1>3, <1>4, <1>5

LEMMA IntegerCost ==
  ASSUME NEW put, NEW x \in -128..MaxSigned
  PROVE  ContentsCost(put, Integer, x, 2, 0, 0)
<1>1. Two(Int64, Unsigned(x)) \in Wire
  BY TwoIsWire, MarkersAreBytes, SignedUnsigned
<1>2. ASSUME NEW o \in Wire, NEW c \in 0..MaxContent, NEW v \in 0..MaxValues
      PROVE  Grown(PutContents(put, Writer(o, c, v), Integer, x), o, c, v, 2, 0, 0)
  <2>1. PutContents(put, Writer(o, c, v), Integer, x) = Writer(o \bullet Two(Int64, Unsigned(x)), c, v)
    BY PutContentsCases, EmitWriter DEF PutInteger, Two
  <2>2. c + 0 = c /\ c + 0 <= MaxContent /\ 0 \in Nat
    BY CodecAssumption
  <2> QED BY <1>1, <2>1, <2>2, GrownBy, LengthOfHeads
<1> QED BY <1>2 DEF ContentsCost

\* The content that a text of n bytes counts.
Counted(n, limit) == IF n <= limit THEN n ELSE MaxContent + 1

LEMMA CountedIsNat ==
  ASSUME NEW n \in Nat, NEW limit
  PROVE  Counted(n, limit) \in Nat
BY CodecAssumption DEF Counted

LEMMA StringGrows ==
  ASSUME NEW s \in Text, NEW o \in Wire, NEW c \in 0..MaxContent, NEW v \in 0..MaxValues
  PROVE  Grown(PutString(Writer(o, c, v), s), o, c, v, 2 + Len(s), Counted(Len(s), MaxString), 0)
<1>0. MaxString \in Octet /\ MaxContent \in Nat
  BY CodecAssumption
<1>1. s \in Wire /\ Len(s) \in Nat /\ (Len(s) <= MaxString => Len(s) \in Octet)
  BY <1>0, TextIsWire, WireLen
<1>2. CASE Len(s) <= MaxString
  <2>1. Prefixed(Str32, s) \in Wire /\ Len(Prefixed(Str32, s)) = 2 + Len(s)
    BY <1>1, <1>2, MarkersAreBytes, LengthOfPrefixed
  <2>2. Counted(Len(s), MaxString) = Len(s)
    BY <1>2 DEF Counted
  <2> QED BY <1>1, <1>2, <2>1, <2>2, PutStringCases, GrownBy
<1>3. CASE ~(Len(s) <= MaxString)
  <2>1. Counted(Len(s), MaxString) = MaxContent + 1 /\ PutString(Writer(o, c, v), s) = Refused
    BY <1>3, PutStringCases DEF Counted
  <2> QED BY <1>1, <2>1, GrownBy
<1> QED BY <1>2, <1>3

LEMMA StringCost ==
  ASSUME NEW put, NEW s \in Text
  PROVE  ContentsCost(put, String, s, 2 + Len(s), Counted(Len(s), MaxString), 0)
BY StringGrows, PutContentsCases DEF ContentsCost

LEMMA BytesCost ==
  ASSUME NEW put, NEW s \in Wire
  PROVE  ContentsCost(put, Bytes, s, 2 + Len(s), Counted(Len(s), MaxBytes), 0)
<1>0. MaxBytes \in Octet /\ MaxContent \in Nat
  BY CodecAssumption
<1>1. Len(s) \in Nat /\ (Len(s) <= MaxBytes => Len(s) \in Octet)
  BY <1>0, WireLen
<1>2. ASSUME NEW o \in Wire, NEW c \in 0..MaxContent, NEW v \in 0..MaxValues
      PROVE  Grown(PutBytes(Writer(o, c, v), s), o, c, v, 2 + Len(s), Counted(Len(s), MaxBytes), 0)
  <2>1. CASE Len(s) <= MaxBytes
    <3>1. Prefixed(Bin32, s) \in Wire /\ Len(Prefixed(Bin32, s)) = 2 + Len(s)
      BY <1>1, <2>1, MarkersAreBytes, LengthOfPrefixed
    <3>2. Counted(Len(s), MaxBytes) = Len(s)
      BY <2>1 DEF Counted
    <3>3. CASE c + Len(s) <= MaxContent
      <4>1. PutBytes(Writer(o, c, v), s) = Writer(o \bullet Prefixed(Bin32, s), c + Len(s), v)
        <5>1. AddContent(Writer(o, c, v), Len(s), MaxBytes) = Writer(o, c + Len(s), v)
          BY <2>1, <3>3, ContentWritten
        <5> QED BY <5>1, SizedPut DEF PutBytes
      <4> QED BY <1>1, <3>1, <3>2, <3>3, <4>1, GrownBy
    <3>4. CASE ~(c + Len(s) <= MaxContent)
      <4>1. PutBytes(Writer(o, c, v), s) = Refused
        <5>1. AddContent(Writer(o, c, v), Len(s), MaxBytes) = Refused
          BY <3>4, ContentWritten
        <5> QED BY <5>1, SizedRefused DEF PutBytes
      <4> QED BY <1>1, <3>2, <3>4, <4>1, GrownBy
    <3> QED BY <3>3, <3>4
  <2>2. CASE ~(Len(s) <= MaxBytes)
    <3>1. Counted(Len(s), MaxBytes) = MaxContent + 1 /\ PutBytes(Writer(o, c, v), s) = Refused
      <4>1. AddContent(Writer(o, c, v), Len(s), MaxBytes) = Refused
        BY <2>2, AddContentCases
      <4>2. PutBytes(Writer(o, c, v), s) = Refused
        BY <4>1, SizedRefused DEF PutBytes
      <4> QED BY <2>2, <4>2 DEF Counted
    <3> QED BY <1>1, <3>1, GrownBy
  <2> QED BY <2>1, <2>2
<1> QED BY <1>2, PutContentsCases DEF ContentsCost

-----------------------------------------------------------------------------
(* What the items of a list cost together, in any order.                   *)

LEMMA GrownTwice ==
  ASSUME NEW f, NEW g, NEW o \in Wire, NEW c \in 0..MaxContent, NEW v \in 0..MaxValues,
         NEW l1 \in Nat, NEW c1 \in Nat, NEW v1 \in Nat, NEW l2 \in Nat, NEW c2 \in Nat, NEW v2 \in Nat,
         Grown(f, o, c, v, l1, c1, v1), f = Refused => g = Refused,
         \A u \in Wire, d \in 0..MaxContent, w \in 0..MaxValues :
            f = Writer(u, d, w) => Grown(g, u, d, w, l2, c2, v2)
  PROVE  Grown(g, o, c, v, l1 + l2, c1 + c2, v1 + v2)
<1>0. MaxContent \in Nat /\ MaxValues \in Nat
  BY CodecAssumption
<1>1. CASE c + c1 <= MaxContent /\ v + v1 <= MaxValues
  <2>1. PICK u \in Wire : Len(u) = Len(o) + l1 /\ f = Writer(u, c + c1, v + v1)
    BY <1>1 DEF Grown
  <2>2. c + c1 \in 0..MaxContent /\ v + v1 \in 0..MaxValues
    BY <1>0, <1>1
  <2>3. Grown(g, u, c + c1, v + v1, l2, c2, v2)
    BY <2>1, <2>2
  <2>4. (c + c1) + c2 = c + (c1 + c2) /\ (v + v1) + v2 = v + (v1 + v2)
    BY <1>0
  <2>5. CASE c + (c1 + c2) <= MaxContent /\ v + (v1 + v2) <= MaxValues
    <3>1. PICK z \in Wire : Len(z) = Len(u) + l2 /\ g = Writer(z, c + (c1 + c2), v + (v1 + v2))
      BY <2>3, <2>4, <2>5 DEF Grown
    <3>2. Len(z) = Len(o) + (l1 + l2)
      BY <2>1, <3>1, WireLen
    <3> QED BY <2>5, <3>1, <3>2 DEF Grown
  <2>6. CASE ~(c + (c1 + c2) <= MaxContent /\ v + (v1 + v2) <= MaxValues)
    BY <2>3, <2>4, <2>6 DEF Grown
  <2> QED BY <2>5, <2>6
<1>2. CASE ~(c + c1 <= MaxContent /\ v + v1 <= MaxValues)
  <2>1. f = Refused /\ g = Refused
    BY <1>2 DEF Grown
  <2>2. ~(c + (c1 + c2) <= MaxContent /\ v + (v1 + v2) <= MaxValues)
    BY <1>0, <1>2
  <2> QED BY <2>1, <2>2 DEF Grown
<1> QED BY <1>1, <1>2

\* The sum of the first n numbers, of up to four.
Sum4(f, n) ==
    (IF n >= 1 THEN f[1] ELSE 0) + (IF n >= 2 THEN f[2] ELSE 0)
        + (IF n >= 3 THEN f[3] ELSE 0) + (IF n >= 4 THEN f[4] ELSE 0)

LEMMA SumGrows ==
  ASSUME NEW f, NEW n \in 0..3, \A i \in 1..(n + 1) : f[i] \in Nat
  PROVE  Sum4(f, n) \in Nat /\ Sum4(f, n + 1) = Sum4(f, n) + f[n + 1]
<1>1. CASE n = 0
  BY <1>1 DEF Sum4
<1>2. CASE n = 1
  BY <1>2 DEF Sum4
<1>3. CASE n = 2
  BY <1>3 DEF Sum4
<1>4. CASE n = 3
  BY <1>4 DEF Sum4
<1> QED BY <1>1, <1>2, <1>3, <1>4

LEMMA SumIsNat ==
  ASSUME NEW f, NEW n \in 0..4, \A i \in 1..n : f[i] \in Nat
  PROVE  Sum4(f, n) \in Nat
BY DEF Sum4

\* The order of the numbers does not matter.
LEMMA SumInAnyOrder ==
  ASSUME NEW f, NEW g, NEW p, NEW n \in 0..4, \A i \in 1..n : f[i] \in Nat,
         \A i \in 1..n : p[i] \in 1..n /\ g[i] = f[p[i]],
         \A i, j \in 1..n : p[i] = p[j] => i = j
  PROVE  Sum4(g, n) = Sum4(f, n) /\ \A j \in 1..n : \E i \in 1..n : p[i] = j
<1>1. CASE n = 0
  BY <1>1 DEF Sum4
<1>2. CASE n = 1
  BY <1>2 DEF Sum4
<1>3. CASE n = 2
  BY <1>3 DEF Sum4
<1>4. CASE n = 3
  BY <1>4 DEF Sum4
<1>5. CASE n = 4
  <2>1. /\ p[1] \in 1..4 /\ p[2] \in 1..4 /\ p[3] \in 1..4 /\ p[4] \in 1..4
        /\ p[1] # p[2] /\ p[1] # p[3] /\ p[1] # p[4]
        /\ p[2] # p[3] /\ p[2] # p[4] /\ p[3] # p[4]
    BY <1>5
  <2>2. /\ g[1] = f[p[1]] /\ g[2] = f[p[2]] /\ g[3] = f[p[3]] /\ g[4] = f[p[4]]
        /\ f[1] \in Nat /\ f[2] \in Nat /\ f[3] \in Nat /\ f[4] \in Nat
    BY <1>5
  <2>3. Sum4(g, n) = g[1] + g[2] + g[3] + g[4] /\ Sum4(f, n) = f[1] + f[2] + f[3] + f[4]
    BY <1>5, <2>1, <2>2 DEF Sum4
  <2> DEFINE a == p[1]
  <2> DEFINE b == p[2]
  <2> DEFINE c == p[3]
  <2> DEFINE d == p[4]
  <2>4. /\ a \in 1..4 /\ b \in 1..4 /\ c \in 1..4 /\ d \in 1..4
        /\ a # b /\ a # c /\ a # d /\ b # c /\ b # d /\ c # d
        /\ g[1] = f[a] /\ g[2] = f[b] /\ g[3] = f[c] /\ g[4] = f[d]
    BY <2>1, <2>2
  <2> HIDE DEF a, b, c, d
  <2>5. \A j \in 1..4 : a = j \/ b = j \/ c = j \/ d = j
    BY <2>4
  <2>6. f[a] + f[b] + f[c] + f[d] = f[1] + f[2] + f[3] + f[4]
    <3>1. CASE a = 1
      BY <2>2, <2>4, <3>1
    <3>2. CASE a = 2
      BY <2>2, <2>4, <3>2
    <3>3. CASE a = 3
      BY <2>2, <2>4, <3>3
    <3>4. CASE a = 4
      BY <2>2, <2>4, <3>4
    <3> QED BY <2>4, <3>1, <3>2, <3>3, <3>4
  <2>7. \A j \in 1..n : \E i \in 1..n : p[i] = j
    <3>1. \A j \in 1..4 : p[1] = j \/ p[2] = j \/ p[3] = j \/ p[4] = j
      BY <2>5 DEF a, b, c, d
    <3> QED BY <1>5, <3>1
  <2> QED BY <2>3, <2>4, <2>6, <2>7
<1> QED BY <1>1, <1>2, <1>3, <1>4, <1>5

\* g are the numbers f in the order p.
Reorders(p, f, g, n) ==
    /\ n \in 0..4
    /\ \A i \in 1..n : f[i] \in Nat
    /\ \A i \in 1..n : p[i] \in 1..n /\ g[i] = f[p[i]]
    /\ \A i, j \in 1..n : p[i] = p[j] => i = j

LEMMA SumStays ==
  ASSUME NEW f, NEW g, NEW p, NEW n, Reorders(p, f, g, n)
  PROVE  Sum4(f, n) = Sum4(g, n)
<1>1. Sum4(g, n) = Sum4(f, n) /\ \A j \in 1..n : \E i \in 1..n : p[i] = j
  <2>1. /\ n \in 0..4
        /\ \A i \in 1..n : f[i] \in Nat
        /\ \A i \in 1..n : p[i] \in 1..n /\ g[i] = f[p[i]]
        /\ \A i, j \in 1..n : p[i] = p[j] => i = j
    BY DEF Reorders
  <2> QED BY <2>1, SumInAnyOrder
<1> QED BY <1>1

LEMMA NothingCosts ==
  ASSUME NEW put, NEW s, Len(s) = 0
  PROVE  ListCosts(put, s, 0, 0, 0)
<1>1. ASSUME NEW o \in Wire, NEW c \in 0..MaxContent, NEW v \in 0..MaxValues
      PROVE  Grown(PutAll(put, Writer(o, c, v), s), o, c, v, 0, 0, 0)
  <2>1. PutAll(put, Writer(o, c, v), s) = Writer(o, c, v)
    BY PutAllEmpty
  <2>2. c + 0 = c /\ v + 0 = v /\ c <= MaxContent /\ v <= MaxValues /\ Len(o) + 0 = Len(o)
    BY CodecAssumption, WireLen
  <2> QED BY <2>1, <2>2 DEF Grown
<1> QED BY <1>1 DEF ListCosts

LEMMA OneMoreCosts ==
  ASSUME NEW put, NEW V, \A x \in V : put[x][Refused] = Refused, NEW s \in Seq(V), NEW x \in V,
         NEW l1 \in Nat, NEW c1 \in Nat, NEW v1 \in Nat, NEW l2 \in Nat, NEW c2 \in Nat, NEW v2 \in Nat,
         ListCosts(put, s, l1, c1, v1), Costs(put, x, l2, c2, v2)
  PROVE  ListCosts(put, More(s, x), l1 + l2, c1 + c2, v1 + v2)
<1>1. ASSUME NEW o \in Wire, NEW c \in 0..MaxContent, NEW v \in 0..MaxValues
      PROVE  Grown(PutAll(put, Writer(o, c, v), More(s, x)), o, c, v, l1 + l2, c1 + c2, v1 + v2)
  <2> DEFINE f == PutAll(put, Writer(o, c, v), s)
  <2> DEFINE g == put[x][f]
  <2>1. PutAll(put, Writer(o, c, v), More(s, x)) = g
    BY PutAllMore
  <2>2. Grown(f, o, c, v, l1, c1, v1)
    BY DEF ListCosts
  <2>3. f = Refused => g = Refused
    OBVIOUS
  <2>4. \A u \in Wire, d \in 0..MaxContent, w \in 0..MaxValues :
            f = Writer(u, d, w) => Grown(g, u, d, w, l2, c2, v2)
    BY DEF Costs
  <2> HIDE DEF f, g
  <2>5. Grown(g, o, c, v, l1 + l2, c1 + c2, v1 + v2)
    BY <2>2, <2>3, <2>4, GrownTwice
  <2> QED BY <2>1, <2>5
<1> QED BY <1>1 DEF ListCosts

\* l, c and v say what each item of s costs.
AreCosts(put, s, l, c, v) ==
    \A i \in 1..Len(s) : /\ l[i] \in Nat /\ c[i] \in Nat /\ v[i] \in Nat
                         /\ Costs(put, s[i], l[i], c[i], v[i])

LEMMA ListCost ==
  ASSUME NEW put, NEW V, \A x \in V : put[x][Refused] = Refused,
         NEW s \in Seq(V), Len(s) \in 0..4, NEW l, NEW c, NEW v, AreCosts(put, s, l, c, v)
  PROVE  ListCosts(put, s, Sum4(l, Len(s)), Sum4(c, Len(s)), Sum4(v, Len(s)))
<1> DEFINE Done(n) == \A u \in Seq(V) : Len(u) = n /\ AreCosts(put, u, l, c, v)
                        => ListCosts(put, u, Sum4(l, n), Sum4(c, n), Sum4(v, n))
<1> DEFINE S == {n \in Nat : n <= 4 => Done(n)}
<1>1. 0 \in S
  <2>1. Sum4(l, 0) = 0 /\ Sum4(c, 0) = 0 /\ Sum4(v, 0) = 0
    BY DEF Sum4
  <2>2. Done(0)
    BY <2>1, NothingCosts
  <2> QED BY <2>2
<1>2. ASSUME NEW n \in Nat, n \in S
      PROVE  n + 1 \in S
  <2>1. SUFFICES ASSUME n + 1 <= 4
                 PROVE  Done(n + 1)
    OBVIOUS
  <2>2. Done(n) /\ n \in 0..3
    BY <1>2, <2>1
  <2> HIDE DEF S, Done
  <2>3. ASSUME NEW u \in Seq(V), NEW x \in V, Len(u) = n, AreCosts(put, More(u, x), l, c, v)
        PROVE  ListCosts(put, More(u, x), Sum4(l, n + 1), Sum4(c, n + 1), Sum4(v, n + 1))
    <3>1. /\ Len(More(u, x)) = n + 1 /\ More(u, x)[n + 1] = x
          /\ \A i \in 1..n : More(u, x)[i] = u[i]
      <4>1. /\ Len(More(u, x)) = Len(u) + 1 /\ More(u, x)[Len(u) + 1] = x
            /\ \A i \in 1..Len(u) : More(u, x)[i] = u[i]
        BY MoreProperties
      <4>2. Len(u) = n
        BY <2>3
      <4> QED BY <4>1, <4>2
    <3>2. \A i \in 1..(n + 1) : l[i] \in Nat /\ c[i] \in Nat /\ v[i] \in Nat
      BY <2>3, <3>1 DEF AreCosts
    <3>3. n + 1 \in 1..(n + 1) /\ \A i \in 1..n : i \in 1..(n + 1)
      OBVIOUS
    <3>4. Costs(put, x, l[n + 1], c[n + 1], v[n + 1])
      BY <2>3, <3>1, <3>3 DEF AreCosts
    <3>5. AreCosts(put, u, l, c, v)
      BY <2>3, <3>1, <3>2, <3>3 DEF AreCosts
    <3>6. ListCosts(put, u, Sum4(l, n), Sum4(c, n), Sum4(v, n))
      BY <2>2, <2>3, <3>5 DEF Done
    <3>7. /\ Sum4(l, n) \in Nat /\ Sum4(l, n + 1) = Sum4(l, n) + l[n + 1]
          /\ Sum4(c, n) \in Nat /\ Sum4(c, n + 1) = Sum4(c, n) + c[n + 1]
          /\ Sum4(v, n) \in Nat /\ Sum4(v, n + 1) = Sum4(v, n) + v[n + 1]
      BY <2>2, <3>2, SumGrows
    <3>8. /\ l[n + 1] \in Nat /\ c[n + 1] \in Nat /\ v[n + 1] \in Nat
      BY <3>2, <3>3
    <3>9. ListCosts(put, More(u, x), Sum4(l, n) + l[n + 1], Sum4(c, n) + c[n + 1], Sum4(v, n) + v[n + 1])
      BY <3>4, <3>6, <3>7, <3>8, OneMoreCosts
    <3> QED BY <3>7, <3>9
  <2>4. ASSUME NEW u \in Seq(V), Len(u) = n + 1, AreCosts(put, u, l, c, v)
        PROVE  ListCosts(put, u, Sum4(l, n + 1), Sum4(c, n + 1), Sum4(v, n + 1))
    <3>1. PICK t \in Seq(V), x \in V : u = More(t, x) /\ Len(t) = n
      BY <2>4, IsMore
    <3> QED BY <2>3, <2>4, <3>1
  <2> QED BY <2>4 DEF Done
<1> HIDE DEF S
<1>3. Nat \subseteq S
  BY <1>1, <1>2, SetInduction
<1>4. Len(s) \in Nat
  BY LenProperties
<1> HIDE DEF Done
<1>5. Done(Len(s))
  <2>1. Len(s) \in S
    BY <1>3, <1>4
  <2>2. Len(s) <= 4
    <3>1. \A n \in 0..4 : n <= 4
      OBVIOUS
    <3> QED BY <3>1
  <2> QED BY <2>1, <2>2 DEF S
<1> QED BY <1>5 DEF Done

-----------------------------------------------------------------------------
(* What the entries of a map and the contents behind each tag cost.        *)

\* What was written before counts as well.
LEMMA GrownAfter ==
  ASSUME NEW f, NEW o \in Wire, NEW c, NEW v, NEW u \in Wire, NEW a \in Nat, NEW l \in Nat,
         NEW content, NEW values, Len(u) = Len(o) + a, Grown(f, u, c, v, l, content, values)
  PROVE  Grown(f, o, c, v, a + l, content, values)
<1>1. Len(o) \in Nat /\ Len(u) + l = Len(o) + (a + l)
  BY WireLen
<1> QED BY <1>1 DEF Grown

LEMMA EntryGrows ==
  ASSUME NEW k \in Text, NEW o \in Wire, NEW c \in 0..MaxContent, NEW v \in 0..MaxValues
  PROVE  Grown(PutString(Emit(Writer(o, c, v), One(Pair)), k), o, c, v,
               1 + (2 + Len(k)), Counted(Len(k), MaxString), 0)
<1>1. One(Pair) \in Wire /\ Len(One(Pair)) = 1
  BY OneIsWire, MarkersAreBytes, LengthOfHeads
<1>2. o \bullet One(Pair) \in Wire /\ Len(o \bullet One(Pair)) = Len(o) + 1
  BY <1>1, LengthOfJoined
<1>3. Emit(Writer(o, c, v), One(Pair)) = Writer(o \bullet One(Pair), c, v)
  BY EmitWriter
<1>4. Grown(PutString(Writer(o \bullet One(Pair), c, v), k), o \bullet One(Pair), c, v,
            2 + Len(k), Counted(Len(k), MaxString), 0)
  BY <1>2, StringGrows
<1>5. 2 + Len(k) \in Nat /\ 1 \in Nat
  BY TextIsWire, WireLen
<1>6. Grown(PutString(Writer(o \bullet One(Pair), c, v), k), o, c, v,
            1 + (2 + Len(k)), Counted(Len(k), MaxString), 0)
  BY <1>2, <1>4, <1>5, GrownAfter
<1> QED BY <1>3, <1>6

LEMMA EntryCost ==
  ASSUME NEW put, NEW k \in Text, NEW x \in DOMAIN put, put[x][Refused] = Refused,
         NEW l \in Nat, NEW content \in Nat, NEW values \in Nat, Costs(put, x, l, content, values)
  PROVE  Costs(PutEntry(put), <<k, x>>, (3 + Len(k)) + l,
               Counted(Len(k), MaxString) + content, values)
<1>0. Len(k) \in Nat /\ 1 + (2 + Len(k)) \in Nat /\ 1 + (2 + Len(k)) = 3 + Len(k)
  BY TextIsWire, WireLen
<1>1. Counted(Len(k), MaxString) \in Nat
  BY <1>0, CountedIsNat
<1>2. ASSUME NEW o \in Wire, NEW c \in 0..MaxContent, NEW v \in 0..MaxValues
      PROVE  Grown(PutEntry(put)[<<k, x>>][Writer(o, c, v)], o, c, v, (3 + Len(k)) + l,
                   Counted(Len(k), MaxString) + content, values)
  <2> DEFINE f == PutString(Emit(Writer(o, c, v), One(Pair)), k)
  <2> DEFINE g == put[x][f]
  <2>1. Writer(o, c, v) \in Encoders
    BY Coders, CodecAssumption
  <2>2. PutEntry(put)[<<k, x>>][Writer(o, c, v)] = g
    <3>1. IsEntry(<<k, x>>, DOMAIN put) /\ <<k, x>>[1] = k /\ <<k, x>>[2] = x
      BY EntryFields
    <3> QED BY <2>1, <3>1, PutEntryIs
  <2>3. Grown(f, o, c, v, 1 + (2 + Len(k)), Counted(Len(k), MaxString), 0)
    BY EntryGrows
  <2>4. f = Refused => g = Refused
    OBVIOUS
  <2>5. \A u \in Wire, d \in 0..MaxContent, w \in 0..MaxValues :
            f = Writer(u, d, w) => Grown(g, u, d, w, l, content, values)
    BY DEF Costs
  <2> HIDE DEF f, g
  <2>6. Grown(g, o, c, v, (1 + (2 + Len(k))) + l, Counted(Len(k), MaxString) + content, 0 + values)
    BY <1>0, <1>1, <2>3, <2>4, <2>5, GrownTwice
  <2>7. 0 + values = values
    OBVIOUS
  <2> QED BY <1>0, <2>2, <2>6, <2>7
<1> QED BY <1>2 DEF Costs

\* The content that a length costs: none, or too much.
Counting(n) == IF n <= MaxEntries THEN 0 ELSE MaxContent + 1

LEMMA LengthGrows ==
  ASSUME NEW n \in Nat, NEW o \in Wire, NEW c \in 0..MaxContent, NEW v \in 0..MaxValues
  PROVE  Grown(PutLength(Writer(o, c, v), n), o, c, v, 2, Counting(n), 0) /\ Counting(n) \in Nat
<1>0. MaxEntries \in Octet /\ MaxContent \in Nat
  BY CodecAssumption
<1>1. CASE n <= MaxEntries
  <2>1. n \in Octet
    BY <1>0, <1>1 DEF Octet
  <2>2. Two(Array32, n) \in Wire /\ Len(Two(Array32, n)) = 2
    BY <2>1, TwoIsWire, MarkersAreBytes, LengthOfHeads
  <2>3. Counting(n) = 0 /\ c + 0 = c /\ c + 0 <= MaxContent /\ 0 \in Nat
    BY <1>0, <1>1 DEF Counting
  <2>4. PutLength(Writer(o, c, v), n) = Writer(o \bullet Two(Array32, n), c + 0, v)
    BY <1>1, <2>3, PutLengthCases
  <2>5. Grown(Writer(o \bullet Two(Array32, n), c + 0, v), o, c, v, Len(Two(Array32, n)), 0, 0)
    BY <2>2, <2>3, GrownBy
  <2> QED BY <2>2, <2>3, <2>4, <2>5
<1>2. CASE ~(n <= MaxEntries)
  <2>1. Counting(n) = MaxContent + 1 /\ 0 \in Nat /\ MaxContent + 1 \in Nat
    BY <1>0, <1>2 DEF Counting
  <2>2. NoBytes \in Wire
    BY NoBytesIsWire
  <2> QED BY <1>2, <2>1, <2>2, PutLengthCases, GrownBy
<1> QED BY <1>1, <1>2

LEMMA ArrayGrows ==
  ASSUME NEW put, NEW V, \A x \in V : put[x][Refused] = Refused, NEW s \in Seq(V),
         NEW l \in Nat, NEW content \in Nat, NEW values \in Nat, ListCosts(put, s, l, content, values),
         NEW o \in Wire, NEW c \in 0..MaxContent, NEW v \in 0..MaxValues
  PROVE  Grown(PutArray(put, Writer(o, c, v), s), o, c, v,
               2 + l, Counting(Len(s)) + content, 0 + values)
<1> DEFINE f == PutLength(Writer(o, c, v), Len(s))
<1> DEFINE g == PutAll(put, f, s)
<1>0. Len(s) \in Nat
  BY LenProperties
<1>1. PutArray(put, Writer(o, c, v), s) = g
  BY DEF PutArray
<1>2. Grown(f, o, c, v, 2, Counting(Len(s)), 0) /\ Counting(Len(s)) \in Nat
  BY <1>0, LengthGrows
<1>3. f = Refused => g = Refused
  BY PutAllRefused
<1>4. \A u \in Wire, d \in 0..MaxContent, w \in 0..MaxValues :
          f = Writer(u, d, w) => Grown(g, u, d, w, l, content, values)
  BY DEF ListCosts
<1> HIDE DEF f, g
<1>5. Grown(g, o, c, v, 2 + l, Counting(Len(s)) + content, 0 + values)
  BY <1>2, <1>3, <1>4, GrownTwice
<1> QED BY <1>1, <1>5

LEMMA LevelGrows ==
  ASSUME NEW tag \in Octet, NEW o \in Wire, NEW c \in 0..MaxContent, NEW v \in 0..MaxValues
  PROVE  Grown(Emit(Enter(Writer(o, c, v)), Two(Pair, tag)), o, c, v, 2, 0, 1)
<1>0. MaxContent \in Nat /\ MaxValues \in Nat
  BY CodecAssumption
<1>1. Two(Pair, tag) \in Wire /\ Len(Two(Pair, tag)) = 2
  BY TwoIsWire, MarkersAreBytes, LengthOfHeads
<1>2. o \bullet Two(Pair, tag) \in Wire /\ Len(o \bullet Two(Pair, tag)) = Len(o) + 2
  BY <1>1, LengthOfJoined
<1>3. CASE v < MaxValues
  <2>1. Emit(Enter(Writer(o, c, v)), Two(Pair, tag)) = Writer(o \bullet Two(Pair, tag), c + 0, v + 1)
    <3>1. Enter(Writer(o, c, v)) = Writer(o, c, v + 1)
      BY <1>3, EnterCases
    <3>2. c + 0 = c
      BY <1>0
    <3> QED BY <3>1, <3>2, EmitWriter
  <2>2. c + 0 <= MaxContent /\ v + 1 <= MaxValues
    BY <1>0, <1>3
  <2> QED BY <1>2, <2>1, <2>2 DEF Grown
<1>4. CASE ~(v < MaxValues)
  <2>1. Enter(Writer(o, c, v)) = Refused
    BY <1>4, EnterCases
  <2>2. ~(v + 1 <= MaxValues)
    BY <1>0, <1>4
  <2> QED BY <2>1, <2>2, EmitWriter DEF Grown
<1> QED BY <1>3, <1>4

LEMMA LevelCost ==
  ASSUME NEW put, NEW get, RoundTrip(put, get, DOMAIN put),
         NEW m \in Nat \ {0}, ValuesUpTo[m] = Above(DOMAIN put),
         NEW tag, NEW x, InContents(tag, x, DOMAIN put),
         NEW l \in Nat, NEW content \in Nat, NEW values \in Nat,
         ContentsCost(put, tag, x, l, content, values)
  PROVE  Costs(PutLevel(put, m), <<tag, x>>, 2 + l, 0 + content, 1 + values)
<1>0. tag \in Octet /\ <<tag, x>> \in ValuesUpTo[m] /\ <<tag, x>>[1] = tag /\ <<tag, x>>[2] = x
  BY TagsAreBytes, AboveIs
<1>1. ASSUME NEW o \in Wire, NEW c \in 0..MaxContent, NEW v \in 0..MaxValues
      PROVE  Grown(PutLevel(put, m)[<<tag, x>>][Writer(o, c, v)], o, c, v,
                   2 + l, 0 + content, 1 + values)
  <2> DEFINE f == Emit(Enter(Writer(o, c, v)), Two(Pair, tag))
  <2> DEFINE g == PutContents(put, f, tag, x)
  <2>1. Writer(o, c, v) \in Encoders
    BY Coders, CodecAssumption
  <2>2. PutLevel(put, m)[<<tag, x>>][Writer(o, c, v)] = g
    BY <1>0, <2>1, PutLevelIs
  <2>3. Grown(f, o, c, v, 2, 0, 1)
    BY <1>0, LevelGrows
  <2>4. f = Refused => g = Refused
    BY PutContentsRefused
  <2>5. \A u \in Wire, d \in 0..MaxContent, w \in 0..MaxValues :
            f = Writer(u, d, w) => Grown(g, u, d, w, l, content, values)
    BY DEF ContentsCost
  <2> HIDE DEF f, g
  <2>6. 2 \in Nat /\ 0 \in Nat /\ 1 \in Nat
    OBVIOUS
  <2>7. Grown(g, o, c, v, 2 + l, 0 + content, 1 + values)
    BY <2>3, <2>4, <2>5, <2>6, GrownTwice
  <2> QED BY <2>2, <2>7
<1> QED BY <1>1 DEF Costs

-----------------------------------------------------------------------------
(* Two values with the same fields in different orders cost the same.      *)

\* The position that p gives to j.
Back(p, n) == [j \in 1..n |-> CHOOSE i \in 1..n : p[i] = j]

LEMMA BackIs ==
  ASSUME NEW n \in 0..4, NEW p, \A i \in 1..n : p[i] \in 1..n,
         \A i, j \in 1..n : p[i] = p[j] => i = j
  PROVE  /\ \A j \in 1..n : Back(p, n)[j] \in 1..n /\ p[Back(p, n)[j]] = j
         /\ \A i \in 1..n : Back(p, n)[p[i]] = i
<1>1. \A j \in 1..n : \E i \in 1..n : p[i] = j
  <2> DEFINE z == [i \in 1..n |-> 0]
  <2>1. \A i \in 1..n : z[i] \in Nat
    OBVIOUS
  <2>2. \A i \in 1..n : p[i] \in 1..n /\ z[i] = z[p[i]]
    OBVIOUS
  <2> HIDE DEF z
  <2> QED BY <2>1, <2>2, SumInAnyOrder
<1>2. \A j \in 1..n : Back(p, n)[j] \in 1..n /\ p[Back(p, n)[j]] = j
  BY <1>1 DEF Back
<1> QED BY <1>2

\* el, ec and ev say what each entry costs, by the order of the names.
LEMMA MapCost ==
  ASSUME NEW put, NEW get, RoundTrip(put, get, DOMAIN put),
         NEW names, Naming(names), NEW value, ExactMap(value, names),
         value[2] \in Seq(Text \X DOMAIN put), NEW el, NEW ec, NEW ev,
         \A i \in 1..Len(names) :
            /\ el[i] \in Nat /\ ec[i] \in Nat /\ ev[i] \in Nat
            /\ Costs(PutEntry(put), <<Spelt[names[i]], Field(value, names[i])>>, el[i], ec[i], ev[i])
  PROVE  ContentsCost(put, Map, value[2], 2 + Sum4(el, Len(names)),
                      Counting(Len(names)) + Sum4(ec, Len(names)), 0 + Sum4(ev, Len(names)))
<1> DEFINE n == Len(names)
<1> DEFINE s == value[2]
<1> DEFINE V == Text \X DOMAIN put
<1>1. n \in 0..4 /\ Len(s) = n
  BY DEF Naming, ExactMap
<1>2. PICK p : Orders(p, s, names, value)
  BY ExactOrder
<1> DEFINE q == Back(p, n)
<1>3. /\ \A j \in 1..n : q[j] \in 1..n /\ p[q[j]] = j
      /\ \A i \in 1..n : p[i] \in 1..n /\ q[p[i]] = i
      /\ \A i, j \in 1..n : p[i] = p[j] => i = j
      /\ \A i \in 1..n : s[p[i]] = <<Spelt[names[i]], Field(value, names[i])>>
  <2>1. /\ \A i \in 1..n : p[i] \in 1..n
        /\ \A i, j \in 1..n : p[i] = p[j] => i = j
        /\ \A i \in 1..n : s[p[i]] = <<Spelt[names[i]], Field(value, names[i])>>
    BY <1>2 DEF Orders
  <2>2. /\ \A j \in 1..n : q[j] \in 1..n /\ p[q[j]] = j
        /\ \A i \in 1..n : q[p[i]] = i
    BY <1>1, <2>1, BackIs
  <2> QED BY <2>1, <2>2
<1> DEFINE l == [j \in 1..n |-> el[q[j]]]
<1> DEFINE c == [j \in 1..n |-> ec[q[j]]]
<1> DEFINE v == [j \in 1..n |-> ev[q[j]]]
<1>4. s \in Seq(V) /\ \A x \in V : PutEntry(put)[x][Refused] = Refused
  <2>1. RoundTrip(PutEntry(put), GetEntry(get), V)
    BY EntryRoundTrip
  <2> QED BY <2>1 DEF RoundTrip
<1> HIDE DEF q, V
<1>5. AreCosts(PutEntry(put), s, l, c, v)
  <2>1. ASSUME NEW j \in 1..n
        PROVE  /\ l[j] \in Nat /\ c[j] \in Nat /\ v[j] \in Nat
               /\ Costs(PutEntry(put), s[j], l[j], c[j], v[j])
    <3>1. q[j] \in 1..n /\ s[j] = <<Spelt[names[q[j]]], Field(value, names[q[j]])>>
      BY <1>3
    <3>2. l[j] = el[q[j]] /\ c[j] = ec[q[j]] /\ v[j] = ev[q[j]]
      OBVIOUS
    <3> QED BY <3>1, <3>2
  <2> QED BY <1>1, <2>1 DEF AreCosts
<1>6. UniqueKeys(s)
  <2>1. ASSUME NEW i \in 1..n, NEW j \in 1..n, s[i][1] = s[j][1]
        PROVE  i = j
    <3>1. q[i] \in 1..n /\ q[j] \in 1..n /\ p[q[i]] = i /\ p[q[j]] = j
      BY <1>3
    <3>2. s[i] = <<Spelt[names[q[i]]], Field(value, names[q[i]])>>
          /\ s[j] = <<Spelt[names[q[j]]], Field(value, names[q[j]])>>
      BY <1>3, <3>1
    <3>3. Spelt[names[q[i]]] = Spelt[names[q[j]]]
      BY <2>1, <3>2
    <3> QED BY <3>1, <3>3, NamesDiffer
  <2>2. DOMAIN s = 1..n
    BY <1>1, <1>4, LenProperties
  <2> QED BY <2>1, <2>2 DEF UniqueKeys
<1>7. Sum4(l, n) = Sum4(el, n) /\ Sum4(c, n) = Sum4(ec, n) /\ Sum4(v, n) = Sum4(ev, n)
  <2>1. \A i \in 1..n : /\ l[i] \in Nat /\ c[i] \in Nat /\ v[i] \in Nat
                        /\ p[i] \in 1..n /\ el[i] = l[p[i]] /\ ec[i] = c[p[i]] /\ ev[i] = v[p[i]]
    BY <1>3
  <2> HIDE DEF l, c, v
  <2>2. Sum4(l, n) = Sum4(el, n)
    <3>1. \A i \in 1..n : l[i] \in Nat
      BY <2>1
    <3>2. \A i \in 1..n : p[i] \in 1..n /\ el[i] = l[p[i]]
      BY <2>1
    <3>3. \A i, j \in 1..n : p[i] = p[j] => i = j
      BY <1>3
    <3>4. n \in 0..4
      BY <1>1
    <3>5. Reorders(p, l, el, n)
      BY <3>1, <3>2, <3>3, <3>4 DEF Reorders
    <3> QED BY <3>5, SumStays
  <2>3. Sum4(c, n) = Sum4(ec, n)
    <3>1. \A i \in 1..n : c[i] \in Nat
      BY <2>1
    <3>2. \A i \in 1..n : p[i] \in 1..n /\ ec[i] = c[p[i]]
      BY <2>1
    <3>3. \A i, j \in 1..n : p[i] = p[j] => i = j
      BY <1>3
    <3>4. n \in 0..4
      BY <1>1
    <3>5. Reorders(p, c, ec, n)
      BY <3>1, <3>2, <3>3, <3>4 DEF Reorders
    <3> QED BY <3>5, SumStays
  <2>4. Sum4(v, n) = Sum4(ev, n)
    <3>1. \A i \in 1..n : v[i] \in Nat
      BY <2>1
    <3>2. \A i \in 1..n : p[i] \in 1..n /\ ev[i] = v[p[i]]
      BY <2>1
    <3>3. \A i, j \in 1..n : p[i] = p[j] => i = j
      BY <1>3
    <3>4. n \in 0..4
      BY <1>1
    <3>5. Reorders(p, v, ev, n)
      BY <3>1, <3>2, <3>3, <3>4 DEF Reorders
    <3> QED BY <3>5, SumStays
  <2> QED BY <2>2, <2>3, <2>4
<1>8. Sum4(el, n) \in Nat /\ Sum4(ec, n) \in Nat /\ Sum4(ev, n) \in Nat
  BY <1>1, SumIsNat
<1> HIDE DEF l, c, v
<1>9. ListCosts(PutEntry(put), s, Sum4(el, n), Sum4(ec, n), Sum4(ev, n))
  <2>1. ListCosts(PutEntry(put), s, Sum4(l, Len(s)), Sum4(c, Len(s)), Sum4(v, Len(s)))
    <3>1. Len(s) \in 0..4
      BY <1>1
    <3>2. \A x \in V : PutEntry(put)[x][Refused] = Refused
      BY <1>4
    <3>3. s \in Seq(V)
      BY <1>4
    <3> HIDE DEF s, n
    <3> QED BY <1>5, <3>1, <3>2, <3>3, ListCost
  <2> QED BY <1>1, <1>7, <2>1
<1>10. ASSUME NEW o \in Wire, NEW d \in 0..MaxContent, NEW w \in 0..MaxValues
       PROVE  Grown(PutContents(put, Writer(o, d, w), Map, s), o, d, w, 2 + Sum4(el, n),
                    Counting(n) + Sum4(ec, n), 0 + Sum4(ev, n))
  <2>1. Check(Writer(o, d, w), UniqueKeys(s)) = Writer(o, d, w)
    BY <1>6 DEF Check, Writer
  <2>2. PutContents(put, Writer(o, d, w), Map, s) = PutArray(PutEntry(put), Writer(o, d, w), s)
    BY <2>1, PutContentsCases DEF PutMap
  <2>3. Grown(PutArray(PutEntry(put), Writer(o, d, w), s), o, d, w, 2 + Sum4(el, n),
              Counting(Len(s)) + Sum4(ec, n), 0 + Sum4(ev, n))
    BY <1>4, <1>8, <1>9, ArrayGrows
  <2> QED BY <1>1, <2>2, <2>3
<1> QED BY <1>10 DEF ContentsCost

\* Two values that cost the same wherever they stand.
CostTogether(put, x, y, l, c, v) ==
    /\ l \in Nat /\ c \in Nat /\ v \in Nat
    /\ Costs(put, x, l, c, v) /\ Costs(put, y, l, c, v)
SameCost(put, x, y) == \E l, c, v : CostTogether(put, x, y, l, c, v)

\* What the fields of two values cost.
FieldCosts(put, names, a, b, l, c, v) ==
    \A i \in 1..Len(names) : CostTogether(put, Field(a, names[i]), Field(b, names[i]), l[i], c[i], v[i])

LEMMA FieldCostsExist ==
  ASSUME NEW put, NEW names, NEW a, NEW b,
         \A i \in 1..Len(names) : SameCost(put, Field(a, names[i]), Field(b, names[i]))
  PROVE  \E l, c, v : FieldCosts(put, names, a, b, l, c, v)
<1> DEFINE Ok(i, t) == CostTogether(put, Field(a, names[i]), Field(b, names[i]), t[1], t[2], t[3])
<1> DEFINE T == [i \in 1..Len(names) |-> CHOOSE t : Ok(i, t)]
<1>1. ASSUME NEW i \in 1..Len(names)
      PROVE  Ok(i, T[i])
  <2>1. PICK l, c, v : CostTogether(put, Field(a, names[i]), Field(b, names[i]), l, c, v)
    BY DEF SameCost
  <2>2. \E t : Ok(i, t)
    <3>1. <<l, c, v>>[1] = l /\ <<l, c, v>>[2] = c /\ <<l, c, v>>[3] = v
      OBVIOUS
    <3>2. Ok(i, <<l, c, v>>)
      BY <2>1, <3>1
    <3> HIDE DEF Ok
    <3> QED BY <3>2
  <2>3. T[i] = CHOOSE t : Ok(i, t)
    BY DEF T
  <2> HIDE DEF Ok, T
  <2>4. Ok(i, CHOOSE t : Ok(i, t))
    BY <2>2
  <2> QED BY <2>3, <2>4
<1> DEFINE L == [i \in 1..Len(names) |-> T[i][1]]
<1> DEFINE C == [i \in 1..Len(names) |-> T[i][2]]
<1> DEFINE W == [i \in 1..Len(names) |-> T[i][3]]
<1> HIDE DEF T
<1>2. ASSUME NEW i \in 1..Len(names)
      PROVE  CostTogether(put, Field(a, names[i]), Field(b, names[i]), L[i], C[i], W[i])
  <2>1. L[i] = T[i][1] /\ C[i] = T[i][2] /\ W[i] = T[i][3]
    OBVIOUS
  <2> HIDE DEF L, C, W
  <2> QED BY <1>1, <2>1
<1> HIDE DEF L, C, W
<1>3. FieldCosts(put, names, a, b, L, C, W)
  BY <1>2 DEF FieldCosts
<1> QED BY <1>3

LEMMA SameMaps ==
  ASSUME NEW put, NEW get, RoundTrip(put, get, DOMAIN put),
         NEW m \in Nat \ {0}, ValuesUpTo[m] = Above(DOMAIN put),
         NEW names, Naming(names), NEW a \in ValuesUpTo[m], NEW b \in ValuesUpTo[m],
         ExactMap(a, names), ExactMap(b, names),
         \A i \in 1..Len(names) : SameCost(put, Field(a, names[i]), Field(b, names[i]))
  PROVE  SameCost(PutLevel(put, m), a, b)
<1> DEFINE n == Len(names)
<1> DEFINE k(i) == Spelt[names[i]]
<1>1. PICK l, c, v : FieldCosts(put, names, a, b, l, c, v)
  BY FieldCostsExist
<1> DEFINE el == [i \in 1..n |-> (3 + Len(k(i))) + l[i]]
<1> DEFINE ec == [i \in 1..n |-> Counted(Len(k(i)), MaxString) + c[i]]
<1> DEFINE x == 2 + Sum4(el, n)
<1> DEFINE y == Counting(n) + Sum4(ec, n)
<1> DEFINE z == 0 + Sum4(v, n)
<1>2. n \in 0..4
  BY DEF Naming
<1>3. ASSUME NEW i \in 1..n
      PROVE  /\ Len(k(i)) \in Nat /\ k(i) \in Text /\ Counted(Len(k(i)), MaxString) \in Nat
             /\ CostTogether(put, Field(a, names[i]), Field(b, names[i]), l[i], c[i], v[i])
  <2>1. k(i) \in Text
    BY SpeltIsText DEF Naming
  <2>2. Len(k(i)) \in Nat
    BY <2>1, TextIsWire, WireLen
  <2>3. CostTogether(put, Field(a, names[i]), Field(b, names[i]), l[i], c[i], v[i])
    BY <1>1 DEF FieldCosts
  <2> QED BY <2>1, <2>2, <2>3, CountedIsNat
<1>4. \A i \in 1..n : /\ el[i] = (3 + Len(k(i))) + l[i] /\ ec[i] = Counted(Len(k(i)), MaxString) + c[i]
                      /\ el[i] \in Nat /\ ec[i] \in Nat /\ v[i] \in Nat
  <2>1. ASSUME NEW i \in 1..n
        PROVE  /\ el[i] = (3 + Len(k(i))) + l[i]
               /\ ec[i] = Counted(Len(k(i)), MaxString) + c[i]
    OBVIOUS
  <2>2. ASSUME NEW i \in 1..n
        PROVE  l[i] \in Nat /\ c[i] \in Nat /\ v[i] \in Nat
    BY <1>3 DEF CostTogether
  <2>3. SUFFICES ASSUME NEW i \in 1..n
                 PROVE  el[i] \in Nat /\ ec[i] \in Nat
    BY <2>1, <2>2
  <2> DEFINE j == Len(k(i))
  <2> DEFINE q == Counted(Len(k(i)), MaxString)
  <2>4. j \in Nat /\ q \in Nat
    BY <1>3
  <2>5. l[i] \in Nat /\ c[i] \in Nat
    BY <2>2
  <2>6. el[i] = (3 + j) + l[i] /\ ec[i] = q + c[i]
    BY <2>1
  <2> HIDE DEF el, ec, j, q
  <2>7. \A m1, m2 \in Nat : (3 + m1) + m2 \in Nat /\ m1 + m2 \in Nat
    OBVIOUS
  <2>8. (3 + j) + l[i] \in Nat /\ q + c[i] \in Nat
    BY <2>4, <2>5, <2>7
  <2> QED BY <2>6, <2>8
<1> HIDE DEF el, ec
<1>5. x \in Nat /\ y \in Nat /\ z \in Nat
  <2>1. Sum4(el, n) \in Nat
    BY <1>2, <1>4, SumIsNat
  <2>2. Sum4(ec, n) \in Nat
    BY <1>2, <1>4, SumIsNat
  <2>3. Sum4(v, n) \in Nat
    BY <1>2, <1>4, SumIsNat
  <2>4. Counting(n) \in Nat
    BY <1>2, CodecAssumption DEF Counting
  <2> QED BY <2>1, <2>2, <2>3, <2>4
<1> HIDE DEF x, y, z
<1>6. ASSUME NEW value \in ValuesUpTo[m], ExactMap(value, names),
             \A i \in 1..n : Costs(put, Field(value, names[i]), l[i], c[i], v[i])
      PROVE  Costs(PutLevel(put, m), value, 2 + x, 0 + y, 1 + z)
  <2>1. value[1] = Map /\ value[2] \in Seq(Text \X DOMAIN put) /\ value = <<Map, value[2]>>
    <3>1. value[1] = Map
      BY <1>6 DEF ExactMap
    <3>2. value \in Above(DOMAIN put)
      OBVIOUS
    <3> QED BY <3>1, <3>2, MapsAreAbove
  <2>2. ASSUME NEW i \in 1..n
        PROVE  /\ el[i] \in Nat /\ ec[i] \in Nat /\ v[i] \in Nat
               /\ Costs(PutEntry(put), <<k(i), Field(value, names[i])>>, el[i], ec[i], v[i])
    <3>1. Field(value, names[i]) \in DOMAIN put
      BY <1>6, <2>1, ExactOrder
    <3>2. put[Field(value, names[i])][Refused] = Refused
      BY <3>1 DEF RoundTrip
    <3>3. l[i] \in Nat /\ c[i] \in Nat /\ v[i] \in Nat /\ k(i) \in Text
      BY <1>3 DEF CostTogether
    <3>4. Costs(put, Field(value, names[i]), l[i], c[i], v[i])
      BY <1>6
    <3>5. Costs(PutEntry(put), <<k(i), Field(value, names[i])>>, (3 + Len(k(i))) + l[i],
                Counted(Len(k(i)), MaxString) + c[i], v[i])
      BY <3>1, <3>2, <3>3, <3>4, EntryCost
    <3> QED BY <1>4, <3>5
  <2>3. ContentsCost(put, Map, value[2], x, y, z)
    BY <1>6, <2>1, <2>2, MapCost DEF x, y, z
  <2>4. InContents(Map, value[2], DOMAIN put)
    BY <2>1 DEF InContents
  <2>5. Costs(PutLevel(put, m), <<Map, value[2]>>, 2 + x, 0 + y, 1 + z)
    BY <1>5, <2>3, <2>4, LevelCost
  <2> QED BY <2>1, <2>5
<1>7. Costs(PutLevel(put, m), a, 2 + x, 0 + y, 1 + z)
  BY <1>3, <1>6 DEF CostTogether
<1>8. Costs(PutLevel(put, m), b, 2 + x, 0 + y, 1 + z)
  BY <1>3, <1>6 DEF CostTogether
<1>9. CostTogether(PutLevel(put, m), a, b, 2 + x, 0 + y, 1 + z)
  BY <1>5, <1>7, <1>8 DEF CostTogether
<1> QED BY <1>9 DEF SameCost

LEMMA LeafCost ==
  ASSUME NEW put, NEW get, RoundTrip(put, get, DOMAIN put),
         NEW m \in Nat \ {0}, ValuesUpTo[m] = Above(DOMAIN put),
         NEW tag \in {String, Bytes, Integer}, NEW x, InContents(tag, x, DOMAIN put)
  PROVE  SameCost(PutLevel(put, m), <<tag, x>>, <<tag, x>>)
<1>1. \E l \in Nat, c \in Nat : ContentsCost(put, tag, x, l, c, 0)
  <2>1. CASE tag = String
    <3>1. x \in Text
      BY <2>1 DEF InContents, Null, Bool, Integer, Float, String, Bytes, Array, Map, Handle, Error
    <3>2. 2 + Len(x) \in Nat /\ Counted(Len(x), MaxString) \in Nat
      BY <3>1, TextIsWire, WireLen, CountedIsNat
    <3> QED BY <2>1, <3>1, <3>2, StringCost
  <2>2. CASE tag = Bytes
    <3>1. x \in Wire
      BY <2>2 DEF InContents, Null, Bool, Integer, Float, String, Bytes, Array, Map, Handle, Error
    <3>2. 2 + Len(x) \in Nat /\ Counted(Len(x), MaxBytes) \in Nat
      BY <3>1, WireLen, CountedIsNat
    <3> QED BY <2>2, <3>1, <3>2, BytesCost
  <2>3. CASE tag = Integer
    <3>1. x \in -128..MaxSigned
      BY <2>3 DEF InContents, Null, Bool, Integer, Float, String, Bytes, Array, Map, Handle, Error
    <3>2. 2 \in Nat /\ 0 \in Nat
      OBVIOUS
    <3> QED BY <2>3, <3>1, <3>2, IntegerCost
  <2> QED BY <2>1, <2>2, <2>3
<1>2. PICK l \in Nat, c \in Nat : ContentsCost(put, tag, x, l, c, 0)
  BY <1>1
<1>3. Costs(PutLevel(put, m), <<tag, x>>, 2 + l, 0 + c, 1 + 0)
  <2>1. 0 \in Nat
    OBVIOUS
  <2> QED BY <1>2, <2>1, LevelCost
<1>4. 2 + l \in Nat /\ 0 + c \in Nat /\ 1 + 0 \in Nat
  OBVIOUS
<1>5. CostTogether(PutLevel(put, m), <<tag, x>>, <<tag, x>>, 2 + l, 0 + c, 1 + 0)
  BY <1>3, <1>4 DEF CostTogether
<1> QED BY <1>5 DEF SameCost

\* The encoder of values that nest n + 1 deep.
IsLevel(n) ==
    /\ n + 1 \in Nat \ {0}
    /\ RoundTrip(PutAt[n], GetAt[n], DOMAIN PutAt[n])
    /\ ValuesUpTo[n + 1] = Above(DOMAIN PutAt[n])
    /\ PutAt[n + 1] = PutLevel(PutAt[n], n + 1)

LEMMA LevelsAre ==
  ASSUME NEW n \in 0..MaxDepth
  PROVE  IsLevel(n)
<1>1. n \in 0..(MaxDepth + 1) /\ n + 1 \in Nat \ {0}
  BY CodecAssumption
<1>2. RoundTrip(PutAt[n], GetAt[n], ValuesUpTo[n]) /\ DOMAIN PutAt[n] = ValuesUpTo[n]
  BY <1>1, CodecRoundTrip
<1>3. ValuesUpTo[n + 1] = Above(ValuesUpTo[n])
  BY ValuesUpToIs
<1>4. PutAt[n + 1] = PutLevel(PutAt[n], n + 1)
  BY PutAtIs
<1> QED BY <1>1, <1>2, <1>3, <1>4 DEF IsLevel

LEMMA LeafCosts ==
  ASSUME NEW n \in 0..MaxDepth, NEW tag \in {String, Bytes, Integer}, NEW x,
         InContents(tag, x, DOMAIN PutAt[n])
  PROVE  SameCost(PutAt[n + 1], <<tag, x>>, <<tag, x>>)
<1>1. IsLevel(n)
  BY LevelsAre
<1> QED BY <1>1, LeafCost DEF IsLevel

LEMMA MapsCostTheSame ==
  ASSUME NEW n \in 0..MaxDepth, NEW names, Naming(names),
         NEW a \in ValuesUpTo[n + 1], NEW b \in ValuesUpTo[n + 1],
         ExactMap(a, names), ExactMap(b, names),
         \A i \in 1..Len(names) : SameCost(PutAt[n], Field(a, names[i]), Field(b, names[i]))
  PROVE  SameCost(PutAt[n + 1], a, b)
<1>1. IsLevel(n)
  BY LevelsAre
<1>2. /\ n + 1 \in Nat \ {0}
      /\ RoundTrip(PutAt[n], GetAt[n], DOMAIN PutAt[n])
      /\ ValuesUpTo[n + 1] = Above(DOMAIN PutAt[n])
  BY <1>1 DEF IsLevel
<1>3. SameCost(PutLevel(PutAt[n], n + 1), a, b)
  BY <1>2, SameMaps
<1> QED BY <1>1, <1>3 DEF IsLevel

\* Two values that say the same take the same room.
LEMMA SayingsCostTheSame ==
  ASSUME NEW m, NEW a \in Value, NEW b \in Value, Says(a, m), Says(b, m)
  PROVE  SameCost(PutAt[MaxDepth + 1], a, b)
<1> DEFINE pa == Field(a, "payload")
<1> DEFINE pb == Field(b, "payload")
<1> DEFINE k == m.kind
<1>1. /\ MaxDepth \in 0..MaxDepth /\ MaxDepth - 1 \in 0..MaxDepth /\ MaxDepth - 2 \in 0..MaxDepth
      /\ (MaxDepth - 1) + 1 = MaxDepth /\ (MaxDepth - 2) + 1 = MaxDepth - 1
  BY Levels
<1>2. k \in Kinds /\ \A i \in DOMAIN Schema[k] : m.fields[i] \in TypeOf(Schema[k][i][2])
  BY DEF Says, IsTyped
<1>3. /\ Naming(Names(k)) /\ Len(Names(k)) = Len(Schema[k]) /\ DOMAIN Schema[k] = 1..Len(Schema[k])
      /\ Named(Schema[k])
  BY <1>2, KindNames, SchemaNamed
<1>4. ASSUME NEW value \in Value, Says(value, m)
      PROVE  /\ ExactMap(value, Envelope)
             /\ Field(value, "payload") \in ValuesUpTo[MaxDepth]
             /\ ExactMap(Field(value, "payload"), Names(k))
             /\ \A i \in 1..Len(Names(k)) : Field(Field(value, "payload"), Names(k)[i])
                                              = <<Tag(Schema[k][i][2]), m.fields[i]>>
  <2>1. ExactMap(value, Envelope) /\ ExactMap(Field(value, "payload"), Names(k))
    BY <1>4 DEF Says
  <2>2. value[2] \in Seq(Text \X ValuesUpTo[MaxDepth])
    <3>1. value[1] = Map
      BY <2>1 DEF ExactMap
    <3>2. value \in Above(ValuesUpTo[MaxDepth])
      BY Levels
    <3> QED BY <3>1, <3>2, MapsAreAbove
  <2>3. Field(value, "payload") \in ValuesUpTo[MaxDepth]
    <3>1. \A i \in 1..Len(Envelope) : Field(value, Envelope[i]) \in ValuesUpTo[MaxDepth]
      BY <2>1, <2>2, EnvelopeNames, ExactOrder
    <3>2. 4 \in 1..Len(Envelope) /\ Envelope[4] = "payload"
      BY EnvelopeNames DEF Envelope
    <3> QED BY <3>1, <3>2
  <2>4. \A i \in 1..Len(Names(k)) : Field(Field(value, "payload"), Names(k)[i])
                                      = <<Tag(Schema[k][i][2]), m.fields[i]>>
    BY <1>3, <1>4 DEF Says
  <2> QED BY <2>1, <2>3, <2>4
<1>5. SameCost(PutAt[MaxDepth], pa, pb)
  <2>1. ASSUME NEW i \in 1..Len(Names(k))
        PROVE  SameCost(PutAt[MaxDepth - 1], Field(pa, Names(k)[i]), Field(pb, Names(k)[i]))
    <3> DEFINE t == Schema[k][i][2]
    <3> DEFINE x == m.fields[i]
    <3>1. Field(pa, Names(k)[i]) = <<Tag(t), x>> /\ Field(pb, Names(k)[i]) = <<Tag(t), x>>
      BY <1>4
    <3>2. t \in {"text", "bytes", "positive", "natural", "code", "message"} /\ x \in TypeOf(t)
      BY <1>2, <1>3 DEF Named, FieldKinds
    <3> HIDE DEF t, x
    <3>3. InContents(Tag(t), x, DOMAIN PutAt[MaxDepth - 2])
      BY <3>2, FieldTypes
    <3>4. Tag(t) \in {String, Bytes, Integer}
      BY DEF Tag
    <3>5. SameCost(PutAt[(MaxDepth - 2) + 1], <<Tag(t), x>>, <<Tag(t), x>>)
      BY <1>1, <3>3, <3>4, LeafCosts
    <3> QED BY <1>1, <3>1, <3>5
  <2>2. /\ pa \in ValuesUpTo[MaxDepth] /\ pb \in ValuesUpTo[MaxDepth]
        /\ ExactMap(pa, Names(k)) /\ ExactMap(pb, Names(k))
    BY <1>4
  <2> HIDE DEF pa, pb
  <2>3. SameCost(PutAt[(MaxDepth - 1) + 1], pa, pb)
    BY <1>1, <1>3, <2>1, <2>2, MapsCostTheSame
  <2> QED BY <1>1, <2>3
<1>6. ASSUME NEW i \in 1..Len(Envelope)
      PROVE  SameCost(PutAt[MaxDepth], Field(a, Envelope[i]), Field(b, Envelope[i]))
  <2>1. CASE i = 4
    <3>1. Envelope[4] = "payload"
      BY DEF Envelope
    <3> QED BY <1>5, <2>1, <3>1
  <2>2. ASSUME NEW tag \in {String, Bytes, Integer}, NEW x,
               Field(a, Envelope[i]) = <<tag, x>>, Field(b, Envelope[i]) = <<tag, x>>,
               InContents(tag, x, DOMAIN PutAt[MaxDepth - 1])
        PROVE  SameCost(PutAt[MaxDepth], Field(a, Envelope[i]), Field(b, Envelope[i]))
    <3>1. SameCost(PutAt[(MaxDepth - 1) + 1], <<tag, x>>, <<tag, x>>)
      BY <1>1, <2>2, LeafCosts
    <3> QED BY <1>1, <2>2, <3>1
  <2>3. CASE i = 1
    <3>1. Envelope[1] = "protocolVersion"
      BY DEF Envelope
    <3>2. /\ Field(a, "protocolVersion") = <<Integer, ProtocolVersion>>
          /\ Field(b, "protocolVersion") = <<Integer, ProtocolVersion>>
      BY DEF Says
    <3>3. InContents(Integer, ProtocolVersion, DOMAIN PutAt[MaxDepth - 1])
      BY DEF InContents, ProtocolVersion, MaxSigned
    <3> QED BY <2>2, <2>3, <3>1, <3>2, <3>3
  <2>4. CASE i = 2
    <3>1. Envelope[2] = "requestId"
      BY DEF Envelope
    <3>2. /\ Field(a, "requestId") = <<Integer, m.id>>
          /\ Field(b, "requestId") = <<Integer, m.id>>
      BY DEF Says
    <3>3. InContents(Integer, m.id, DOMAIN PutAt[MaxDepth - 1])
      <4>1. m.id \in 1..MaxSigned
        BY DEF Says, IsMessage
      <4> QED BY <4>1 DEF InContents, MaxSigned
    <3> QED BY <2>2, <2>4, <3>1, <3>2, <3>3
  <2>5. CASE i = 3
    <3>1. Envelope[3] = "kind"
      BY DEF Envelope
    <3>2. /\ Field(a, "kind") = <<String, Spelt[k]>>
          /\ Field(b, "kind") = <<String, Spelt[k]>>
      BY DEF Says
    <3>3. InContents(String, Spelt[k], DOMAIN PutAt[MaxDepth - 1])
      <4>1. Spelt[k] \in Text
        BY <1>2, KindsAreWords, SpeltIsText
      <4> QED BY <4>1 DEF InContents
    <3> QED BY <2>2, <2>5, <3>1, <3>2, <3>3
  <2>6. i \in 1..4
    BY EnvelopeNames
  <2> QED BY <2>1, <2>3, <2>4, <2>5, <2>6
<1>7. ExactMap(a, Envelope) /\ ExactMap(b, Envelope)
  BY DEF Says
<1>8. a \in ValuesUpTo[MaxDepth + 1] /\ b \in ValuesUpTo[MaxDepth + 1]
  BY DEF Value
<1> QED BY <1>1, <1>6, <1>7, <1>8, EnvelopeNames, MapsCostTheSame

LEMMA SameSize ==
  ASSUME NEW m, NEW a \in Value, NEW b \in Value, Says(a, m), Says(b, m)
  PROVE  /\ ToWire(a).ok = ToWire(b).ok
         /\ ToWire(a).ok => Len(ToWire(a).out) = Len(ToWire(b).out)
<1>1. PICK l, c, v : CostTogether(PutAt[MaxDepth + 1], a, b, l, c, v)
  BY SayingsCostTheSame DEF SameCost
<1>2. NoBytes \in Wire /\ 0 \in 0..MaxContent /\ 0 \in 0..MaxValues
  BY NoBytesIsWire, CodecAssumption
<1>3. /\ ToWire(a) = PutAt[MaxDepth + 1][a][Writer(NoBytes, 0, 0)]
      /\ ToWire(b) = PutAt[MaxDepth + 1][b][Writer(NoBytes, 0, 0)]
  BY DEF ToWire, NoBytes
<1>4. Grown(ToWire(a), NoBytes, 0, 0, l, c, v) /\ Grown(ToWire(b), NoBytes, 0, 0, l, c, v)
  BY <1>1, <1>2, <1>3 DEF CostTogether, Costs
<1>5. CASE 0 + c <= MaxContent /\ 0 + v <= MaxValues
  <2>1. PICK u \in Wire : Len(u) = Len(NoBytes) + l /\ ToWire(a) = Writer(u, 0 + c, 0 + v)
    BY <1>4, <1>5 DEF Grown
  <2>2. PICK w \in Wire : Len(w) = Len(NoBytes) + l /\ ToWire(b) = Writer(w, 0 + c, 0 + v)
    BY <1>4, <1>5 DEF Grown
  <2>3. /\ Writer(u, 0 + c, 0 + v).ok = TRUE /\ Writer(u, 0 + c, 0 + v).out = u
        /\ Writer(w, 0 + c, 0 + v).ok = TRUE /\ Writer(w, 0 + c, 0 + v).out = w
    BY DEF Writer
  <2> QED BY <2>1, <2>2, <2>3
<1>6. CASE ~(0 + c <= MaxContent /\ 0 + v <= MaxValues)
  <2>1. ToWire(a) = Refused /\ ToWire(b) = Refused
    BY <1>4, <1>6 DEF Grown
  <2> QED BY <2>1, ReaderFields
<1> QED BY <1>5, <1>6

-----------------------------------------------------------------------------
(* The header of a frame, and what read_frame makes of a whole frame.      *)

\* The header of n bytes.
High(n) == n \div 256
Low(n) == n % 256
Whole(a, b) == 256 * a + b
Heading(n) == Two(High(n), Low(n))

LEMMA HighByte ==
  ASSUME NEW n \in Int, NEW q \in Int, NEW r \in Int,
         0 <= r, r <= 255, 256 * q + r = n, 0 <= n, n <= MaxHeader
  PROVE  0 <= q /\ q <= 255
BY SMT DEF MaxHeader

LEMMA DivMod ==
  ASSUME NEW n \in Nat
  PROVE  /\ 256 * (n \div 256) + (n % 256) = n
         /\ n % 256 \in 0..255 /\ n \div 256 \in Int
BY SMT

LEMMA TwoDigits ==
  ASSUME NEW n \in 0..MaxHeader
  PROVE  High(n) \in Octet /\ Low(n) \in Octet /\ Whole(High(n), Low(n)) = n
<1>1. n \in Nat /\ 0 <= n /\ n <= MaxHeader /\ n \in Int
  BY SMT DEF MaxHeader
<1>2. 256 * (n \div 256) + (n % 256) = n /\ n % 256 \in 0..255 /\ n \div 256 \in Int
  BY <1>1, DivMod
<1> DEFINE q == n \div 256
<1> DEFINE r == n % 256
<1>3. 256 * q + r = n /\ r \in 0..255 /\ q \in Int
  BY <1>2
<1>4. High(n) = q /\ Low(n) = r
  BY DEF High, Low
<1> HIDE DEF q, r
<1>5. 0 <= r /\ r <= 255 /\ r \in Int
  BY <1>3
<1>6. 0 <= q /\ q <= 255
  BY <1>1, <1>3, <1>5, HighByte
<1>7. q \in Octet /\ r \in Octet
  BY <1>3, <1>6 DEF Octet
<1>8. Whole(q, r) = n
  BY <1>3 DEF Whole
<1>9. High(n) \in Octet /\ Low(n) \in Octet
  BY <1>4, <1>7
<1>10. Whole(High(n), Low(n)) = n
  BY <1>4, <1>8
<1> QED BY <1>9, <1>10

LEMMA DigitsOf ==
  ASSUME NEW a \in Octet, NEW b \in Octet
  PROVE  High(Whole(a, b)) = a /\ Low(Whole(a, b)) = b
<1>1. (256 * a + b) \div 256 = a
  BY DEF Octet
<1>2. (256 * a + b) % 256 = b
  BY DEF Octet
<1> QED BY <1>1, <1>2 DEF High, Low, Whole

LEMMA HeadingIs ==
  ASSUME NEW n \in 0..MaxHeader
  PROVE  /\ Heading(n) \in Wire /\ Len(Heading(n)) = 2
         /\ Whole(Heading(n)[1], Heading(n)[2]) = n
<1>1. High(n) \in Octet /\ Low(n) \in Octet /\ Whole(High(n), Low(n)) = n
  BY TwoDigits
<1>2. Two(High(n), Low(n))[1] = High(n) /\ Two(High(n), Low(n))[2] = Low(n)
  BY DEF Two
<1>3. Two(High(n), Low(n)) \in Wire
  BY <1>1, TwoIsWire
<1> QED BY <1>1, <1>2, <1>3, LengthOfHeads DEF Heading

LEMMA HeadingOf ==
  ASSUME NEW a \in Octet, NEW b \in Octet
  PROVE  Heading(Whole(a, b)) = Two(a, b)
BY DigitsOf DEF Heading

\* What write_frame writes before what, and what read_frame makes of it.
LEMMA FramedIs ==
  ASSUME NEW body \in Wire, Len(body) \in 1..MaxFrame
  PROVE  /\ Framed(body) = Heading(Len(body)) \bullet body
         /\ Framed(body) \in Wire /\ Len(Framed(body)) = 2 + Len(body)
         /\ Heading(Len(body)) \in Wire /\ Len(body) \in 0..MaxHeader
<1>1. Len(body) \in 0..MaxHeader
  <2>1. MaxHeader \in Int
    BY SMT DEF MaxHeader
  <2>2. \A n \in 1..MaxFrame : n \in 0..MaxHeader
    BY <2>1, ProtocolAssumption
  <2> QED BY <2>2
<1>2. Framed(body) = Heading(Len(body)) \bullet body
  BY DEF Framed, Heading, High, Low, Two, \bullet
<1>3. Heading(Len(body)) \in Wire /\ Len(Heading(Len(body))) = 2
  BY <1>1, HeadingIs
<1>4. /\ Heading(Len(body)) \bullet body \in Wire
      /\ Len(Heading(Len(body)) \bullet body) = Len(Heading(Len(body))) + Len(body)
  BY <1>3, LengthOfJoined
<1>5. 2 + Len(body) = Len(Heading(Len(body)) \bullet body)
  BY <1>3, <1>4
<1> QED BY <1>1, <1>2, <1>3, <1>4, <1>5

LEMMA FrameParts ==
  ASSUME NEW body \in Wire, Len(body) \in 1..MaxFrame, NEW rest \in Wire, NEW s,
         s = Framed(body) \bullet rest
  PROVE  /\ s \in Wire /\ 256 * s[1] + s[2] = Len(body) /\ Len(s) = 2 + Len(body) + Len(rest)
         /\ SubSeq(s, 3, Len(body) + 2) = body /\ SubSeq(s, Len(body) + 3, Len(s)) = rest
<1> DEFINE frame == Framed(body)
<1> DEFINE head == Heading(Len(body))
<1> DEFINE stream == frame \bullet rest
<1> DEFINE n == Len(body)
<1>1. /\ frame = head \bullet body /\ frame \in Wire /\ Len(frame) = 2 + n
      /\ head \in Wire /\ n \in 0..MaxHeader
  BY FramedIs
<1>2. Len(head) = 2 /\ Whole(head[1], head[2]) = n
  BY <1>1, HeadingIs
<1>3. /\ stream \in Wire /\ Len(stream) = Len(frame) + Len(rest) /\ Len(rest) \in Nat
  BY <1>1, LengthOfJoined
<1> HIDE DEF head, frame
<1>4. frame[1] = head[1] /\ frame[2] = head[2]
  <2>1. \A i \in 1..(Len(head) + Len(body)) : (head \o body)[i]
            = IF i <= Len(head) THEN head[i] ELSE body[i - Len(head)]
    BY <1>1, ConcatProperties DEF Wire
  <2>2. 1 \in 1..(Len(head) + Len(body)) /\ 2 \in 1..(Len(head) + Len(body))
        /\ 1 <= Len(head) /\ 2 <= Len(head)
    BY <1>2
  <2> QED BY <1>1, <2>1, <2>2 DEF \bullet
<1>5. stream[1] = frame[1] /\ stream[2] = frame[2]
  <2>1. \A i \in 1..(Len(frame) + Len(rest)) : (frame \o rest)[i]
            = IF i <= Len(frame) THEN frame[i] ELSE rest[i - Len(frame)]
    BY <1>1, ConcatProperties DEF Wire
  <2>2. 1 \in 1..(Len(frame) + Len(rest)) /\ 2 \in 1..(Len(frame) + Len(rest))
        /\ 1 <= Len(frame) /\ 2 <= Len(frame)
    BY <1>1, <1>3
  <2> QED BY <2>1, <2>2 DEF \bullet
<1>6. SubSeq(stream, n + 3, Len(stream)) = rest
  <2>1. SubSeq(frame \bullet rest, Len(frame) + 1, Len(frame \bullet rest)) = rest
    BY <1>1, Joined
  <2>2. Len(frame) + 1 = n + 3
    BY <1>1
  <2> QED BY <2>1, <2>2
<1>7. SubSeq(stream, 3, n + 2) = body
  <2>1. 3 \in 1..Len(frame) /\ n + 2 \in 1..Len(frame)
    BY <1>1
  <2>2. SubSeq(frame \o rest, 3, n + 2) = SubSeq(frame, 3, n + 2)
    BY <1>1, <2>1, SubSeqOfConcat1 DEF Wire
  <2>3. SubSeq(head \bullet body, Len(head) + 1, Len(head \bullet body)) = body
    BY <1>1, Joined
  <2>4. Len(head) + 1 = 3 /\ Len(head \bullet body) = n + 2
    BY <1>1, <1>2
  <2> QED BY <1>1, <2>2, <2>3, <2>4 DEF \bullet
<1>8. 256 * stream[1] + stream[2] = n
  BY <1>2, <1>4, <1>5 DEF Whole
<1>9. s = stream
  BY DEF frame
<1>10. Len(stream) = 2 + Len(body) + Len(rest)
  BY <1>1, <1>3
<1> HIDE DEF stream
<1> QED BY <1>3, <1>6, <1>7, <1>8, <1>9, <1>10

LEMMA FrameRead ==
  ASSUME NEW body \in Wire, Len(body) \in 1..MaxFrame, NEW rest \in Wire
  PROVE  ReadFrame(Framed(body) \bullet rest) = Received(FromWire(body), rest)
<1> DEFINE stream == Framed(body) \bullet rest
<1> DEFINE n == 256 * stream[1] + stream[2]
<1> DEFINE b == Len(body)
<1>0. stream = Framed(body) \bullet rest
  OBVIOUS
<1> HIDE DEF stream
<1>1. /\ stream \in Wire /\ n = b /\ Len(stream) = 2 + b + Len(rest)
      /\ SubSeq(stream, 3, b + 2) = body /\ SubSeq(stream, b + 3, Len(stream)) = rest
  BY <1>0, FrameParts
<1>2. Len(body) \in Nat /\ Len(rest) \in Nat
  BY WireLen
<1>3. Len(stream) >= 2 /\ n \in 1..MaxFrame /\ n + 2 <= Len(stream) /\ Len(stream) # 0
  BY <1>1, <1>2
<1>4. stream # <<>>
  BY <1>3, EmptySeq
<1>5. ReadBody(stream) = Received(FromWire(body), rest)
  BY <1>1, <1>3 DEF ReadBody
<1>6. ReadFrame(stream) = Received(FromWire(body), rest)
  BY <1>4, <1>5 DEF ReadFrame
<1> QED BY <1>6 DEF stream

\* A message that is read stood in a frame at the start of the stream.
LEMMA ReadFromFrame ==
  ASSUME NEW stream \in Wire, ReadFrame(stream).outcome = "message"
  PROVE  \E body \in Wire, rest \in Wire :
           /\ Len(body) \in 1..MaxFrame /\ stream = Framed(body) \bullet rest
           /\ ReadFrame(stream) = Received(FromWire(body), rest)
<1> DEFINE n == 256 * stream[1] + stream[2]
<1>1. stream # <<>> /\ ReadFrame(stream) = ReadBody(stream)
  BY DEF ReadFrame, Ended
<1>2. Len(stream) >= 2 /\ n \in 1..MaxFrame /\ n + 2 <= Len(stream)
  BY <1>1 DEF ReadBody, Ended
<1>3. PICK head \in Wire, more \in Wire : Len(head) = 2 /\ stream = head \bullet more
  BY <1>2, Divided
<1>4. Len(stream) = 2 + Len(more) /\ Len(more) \in Nat
  BY <1>3, LengthOfJoined
<1>5. n \in Nat /\ n <= Len(more)
  BY <1>2, <1>4, ProtocolAssumption
<1>6. PICK body \in Wire, rest \in Wire : Len(body) = n /\ more = body \bullet rest
  BY <1>5, Divided
<1>7. head = Two(stream[1], stream[2]) /\ stream[1] \in Octet /\ stream[2] \in Octet
  <2>1. \A i \in 1..(Len(head) + Len(more)) : (head \o more)[i]
            = IF i <= Len(head) THEN head[i] ELSE more[i - Len(head)]
    BY ConcatProperties DEF Wire
  <2>2. head[1] = stream[1] /\ head[2] = stream[2]
    BY <1>3, <1>4, <2>1 DEF \bullet
  <2>3. head[1] \in Octet /\ head[2] \in Octet
    <3>1. 1 \in 1..Len(head) /\ 2 \in 1..Len(head)
      BY <1>3
    <3> QED BY <3>1, ElementOfSeq DEF Wire
  <2>4. Two(head[1], head[2]) \in Wire /\ Len(Two(head[1], head[2])) = 2
    BY <2>3, TwoIsWire, LengthOfHeads
  <2>5. \A i \in 1..2 : Two(head[1], head[2])[i] = head[i]
    BY DEF Two
  <2>6. head = Two(head[1], head[2])
    <3> DEFINE both == Two(head[1], head[2])
    <3>1. head \in Seq(Octet) /\ both \in Seq(Octet) /\ Len(both) = Len(head)
      BY <1>3, <2>4 DEF Wire
    <3>2. \A i \in 1..Len(head) : head[i] = both[i]
      BY <1>3, <2>5
    <3> HIDE DEF both
    <3>3. head = both
      BY <3>1, <3>2, SeqEqual
    <3> QED BY <3>3 DEF both
  <2> QED BY <2>2, <2>3, <2>6
<1>8. head = Heading(Len(body))
  BY <1>6, <1>7, HeadingOf DEF Whole
<1>9. Len(body) \in 1..MaxFrame
  BY <1>2, <1>6
<1>10. stream = Framed(body) \bullet rest
  <2>1. Framed(body) = head \bullet body
    BY <1>8, <1>9, FramedIs
  <2> QED BY <1>3, <1>6, <2>1, WireAssoc
<1> QED BY <1>9, <1>10, FrameRead

\* A reader of a frame finds the message that its value says, and what follows.
LEMMA MessageRead ==
  ASSUME NEW m, NEW value \in Value, Says(value, m), ToWire(value).ok,
         Len(ToWire(value).out) \in 1..MaxFrame, NEW rest \in Wire
  PROVE  /\ ReadFrame(Framed(ToWire(value).out) \bullet rest)
              = [outcome |-> "message", message |-> m, rest |-> rest]
         /\ Framed(ToWire(value).out) \in Wire
         /\ Len(Framed(ToWire(value).out)) = 2 + Len(ToWire(value).out)
<1>1. /\ ToWire(value).out \in Wire
      /\ FromWire(ToWire(value).out).ok /\ FromWire(ToWire(value).out).got = value
  BY EncodedIsDecoded DEF Wire
<1>2. FromValue(value) = m /\ m # NoMessage
  BY SaysRead
<1>3. Received(FromWire(ToWire(value).out), rest)
        = [outcome |-> "message", message |-> m, rest |-> rest]
  BY <1>1, <1>2 DEF Received
<1> QED BY <1>1, <1>3, FrameRead, FramedIs

\* Whatever is read as a message, of any bytes at all, is a message that may be
\* sent; written again it takes as many bytes as were read, and those are read
\* as the same message.  (read_frame, Message::from_wire, exact_map, write_frame.)
THEOREM FramesReadExactly ==
  ASSUME NEW stream \in Seq(Octet), ReadFrame(stream).outcome = "message"
  PROVE  LET read == ReadFrame(stream)
             again == WriteFrame(read.message)
         IN  /\ IsTyped(read.message) /\ IsMessage(read.message)
             /\ Len(again) = Len(stream) - Len(read.rest)
             /\ ReadFrame(again).message = read.message
<1> DEFINE read == ReadFrame(stream)
<1> DEFINE m == read.message
<1>1. PICK body \in Wire, rest \in Wire :
        /\ Len(body) \in 1..MaxFrame /\ stream = Framed(body) \bullet rest
        /\ read = Received(FromWire(body), rest)
  BY ReadFromFrame DEF Wire
<1> DEFINE d == FromWire(body)
<1>2. /\ d.ok /\ FromValue(d.got) # NoMessage
      /\ read = [outcome |-> "message", message |-> FromValue(d.got), rest |-> rest]
  BY <1>1 DEF Received, Ended
<1>3. m = FromValue(d.got) /\ read.rest = rest
  BY <1>2
<1>4. d.got \in Value /\ ToWire(d.got).ok /\ ToWire(d.got).out = body
  BY <1>2, DecodedIsEncoded DEF Wire
<1> HIDE DEF read, d
<1>5. Says(d.got, m)
  BY <1>2, <1>3, <1>4, ReadSays
<1>6. IsTyped(m) /\ IsMessage(m)
  BY <1>5 DEF Says
<1>7. Says(ToValue(m), m) /\ ToValue(m) \in Value
  BY <1>6, Sayings
<1>8. ToWire(ToValue(m)).ok /\ Len(ToWire(ToValue(m)).out) = Len(body)
  BY <1>4, <1>5, <1>7, SameSize
<1>9. WriteFrame(m) = Framed(ToWire(ToValue(m)).out)
  BY <1>1, <1>8 DEF WriteFrame, Fits
<1>10. /\ ReadFrame(WriteFrame(m) \bullet NoBytes) = [outcome |-> "message", message |-> m, rest |-> NoBytes]
       /\ WriteFrame(m) \in Wire /\ Len(WriteFrame(m)) = 2 + Len(body)
  BY <1>1, <1>7, <1>8, <1>9, MessageRead, NoBytesIsWire
<1>11. ReadFrame(WriteFrame(m)).message = m
  BY <1>10, NoBytesIsWire
<1>12. Len(stream) - Len(read.rest) = 2 + Len(body)
  <2>1. Framed(body) \in Wire /\ Len(Framed(body)) = 2 + Len(body)
    BY <1>1, FramedIs
  <2>2. Len(stream) = Len(Framed(body)) + Len(rest) /\ Len(rest) \in Nat /\ Len(body) \in Nat
    BY <1>1, <2>1, LengthOfJoined, WireLen
  <2> QED BY <1>3, <2>1, <2>2
<1> QED BY <1>6, <1>10, <1>11, <1>12 DEF read

-----------------------------------------------------------------------------
(* Sequences of sequences, one after the other.                            *)

\* f is the recursive function that FlattenSeq joins the first n with.
IsJoining(ss, n, f) == f = [i \in 1..n |-> IF i = 1 THEN ss[i] ELSE f[i - 1] \bullet ss[i]]

LEMMA JoiningExists ==
  ASSUME NEW ss, NEW n \in Nat
  PROVE  \E f : IsJoining(ss, n, f)
<1> DEFINE S == {k \in Nat : \E f : IsJoining(ss, k, f)}
<1>1. 0 \in S
  <2> DEFINE f == [i \in 1..0 |-> 0]
  <2>1. f = [i \in 1..0 |-> IF i = 1 THEN ss[i] ELSE f[i - 1] \bullet ss[i]]
    OBVIOUS
  <2>2. IsJoining(ss, 0, f)
    BY <2>1 DEF IsJoining
  <2> QED BY <2>2
<1>2. ASSUME NEW k \in Nat, k \in S
      PROVE  k + 1 \in S
  <2>1. PICK f : IsJoining(ss, k, f)
    BY <1>2
  <2> DEFINE g == [i \in 1..(k + 1) |->
                     IF i = k + 1 THEN IF i = 1 THEN ss[i] ELSE f[k] \bullet ss[i] ELSE f[i]]
  <2> DEFINE h == [i \in 1..(k + 1) |-> IF i = 1 THEN ss[i] ELSE g[i - 1] \bullet ss[i]]
  <2>2. ASSUME NEW i \in 1..(k + 1)
        PROVE  g[i] = h[i]
    <3>1. CASE i = k + 1 /\ i = 1
      BY <3>1
    <3>2. CASE i = k + 1 /\ i # 1
      <4>1. i - 1 \in 1..(k + 1) /\ i - 1 # k + 1 /\ i - 1 = k
        BY <3>2
      <4> QED BY <3>2, <4>1
    <3>3. CASE i # k + 1 /\ i = 1
      <4>1. i \in 1..k
        BY <3>3
      <4>2. f[i] = ss[i]
        BY <2>1, <3>3, <4>1 DEF IsJoining
      <4> QED BY <3>3, <4>2
    <3>4. CASE i # k + 1 /\ i # 1
      <4>1. i \in 1..k /\ i - 1 \in 1..(k + 1) /\ i - 1 # k + 1
        BY <3>4
      <4>2. f[i] = f[i - 1] \bullet ss[i]
        BY <2>1, <3>4, <4>1 DEF IsJoining
      <4> QED BY <3>4, <4>1, <4>2
    <3> QED BY <3>1, <3>2, <3>3, <3>4
  <2>3. g = h
    BY <2>2
  <2>4. IsJoining(ss, k + 1, g)
    BY <2>3 DEF IsJoining
  <2> QED BY <2>4
<1> HIDE DEF S
<1>3. Nat \subseteq S
  BY <1>1, <1>2, SetInduction
<1> QED BY <1>3 DEF S

LEMMA FlattenIs ==
  ASSUME NEW ss, Len(ss) \in Nat, Len(ss) # 0
  PROVE  \E f : IsJoining(ss, Len(ss), f) /\ FlattenSeq(ss) = f[Len(ss)]
<1> DEFINE a == CHOOSE f : IsJoining(ss, Len(ss), f)
<1>1. IsJoining(ss, Len(ss), a)
  BY JoiningExists
<1>2. FlattenSeq(ss) = a[Len(ss)]
  BY DEF FlattenSeq, IsJoining, \bullet
<1> QED BY <1>1, <1>2

LEMMA FlattenNone ==
  ASSUME NEW V, NEW ss \in Seq(V), Len(ss) = 0
  PROVE  FlattenSeq(ss) = NoBytes
<1>1. ss = <<>>
  BY EmptySeq
<1> QED BY <1>1 DEF FlattenSeq, NoBytes

LEMMA FlattenMore ==
  ASSUME NEW V, NEW ss \in Seq(Seq(V)), NEW s \in Seq(V)
  PROVE  FlattenSeq(More(ss, s)) = FlattenSeq(ss) \bullet s
<1> DEFINE n == Len(ss)
<1> DEFINE u == More(ss, s)
<1>1. n \in Nat /\ Len(u) = n + 1 /\ u[n + 1] = s /\ n + 1 \in Nat /\ n + 1 # 0
  BY MoreProperties
<1>2. \A i \in 1..n : u[i] = ss[i]
  BY MoreProperties
<1>3. PICK f : IsJoining(u, n + 1, f) /\ FlattenSeq(u) = f[n + 1]
  BY <1>1, FlattenIs
<1>4. \A i \in 1..(n + 1) : f[i] = IF i = 1 THEN u[i] ELSE f[i - 1] \bullet u[i]
  BY <1>3 DEF IsJoining
<1>5. CASE n = 0
  <2>1. FlattenSeq(ss) = NoBytes
    BY <1>5, FlattenNone
  <2>2. FlattenSeq(u) = s
    BY <1>1, <1>3, <1>4, <1>5
  <2>3. NoBytes \bullet s = s
    BY ConcatEmptySeq DEF NoBytes, \bullet
  <2> QED BY <2>1, <2>2, <2>3
<1>6. CASE n # 0
  <2>1. PICK g : IsJoining(ss, n, g) /\ FlattenSeq(ss) = g[n]
    BY <1>1, <1>6, FlattenIs
  <2> HIDE DEF n, u
  <2>2. \A i \in 1..n : g[i] = IF i = 1 THEN ss[i] ELSE g[i - 1] \bullet ss[i]
    BY <2>1 DEF IsJoining
  <2> DEFINE S == {k \in Nat : k + 1 <= n => f[k + 1] = g[k + 1]}
  <2>3. 0 \in S
    <3>1. 1 \in 1..n /\ 1 \in 1..(n + 1)
      BY <1>1, <1>6
    <3>2. f[1] = u[1] /\ g[1] = ss[1] /\ u[1] = ss[1]
      BY <1>2, <1>4, <2>2, <3>1
    <3> QED BY <3>2
  <2>4. ASSUME NEW k \in Nat, k \in S
        PROVE  k + 1 \in S
    <3>1. SUFFICES ASSUME (k + 1) + 1 <= n PROVE f[(k + 1) + 1] = g[(k + 1) + 1]
      OBVIOUS
    <3> DEFINE i == (k + 1) + 1
    <3>2. f[k + 1] = g[k + 1] /\ i \in 1..n /\ i \in 1..(n + 1) /\ i - 1 = k + 1 /\ i # 1
      BY <1>1, <2>4, <3>1
    <3> HIDE DEF i
    <3>3. f[i] = f[i - 1] \bullet u[i] /\ g[i] = g[i - 1] \bullet ss[i] /\ u[i] = ss[i]
      BY <1>2, <1>4, <2>2, <3>2
    <3>4. f[i] = g[i]
      BY <3>2, <3>3
    <3> QED BY <3>4 DEF i
  <2>5. f[n] = g[n]
    <3> HIDE DEF S
    <3>1. n - 1 \in Nat /\ (n - 1) + 1 = n
      BY <1>1, <1>6
    <3>2. Nat \subseteq S
      BY <2>3, <2>4, SetInduction
    <3>3. n - 1 \in S /\ (n - 1) + 1 <= n
      BY <1>1, <3>1, <3>2
    <3>4. f[(n - 1) + 1] = g[(n - 1) + 1]
      BY <3>3 DEF S
    <3> QED BY <3>1, <3>4
  <2>6. n + 1 \in 1..(n + 1) /\ (n + 1) - 1 = n /\ n + 1 # 1
    BY <1>1, <1>6
  <2>7. f[n + 1] = f[n] \bullet s
    BY <1>1, <1>4, <2>6
  <2>8. FlattenSeq(u) = FlattenSeq(ss) \bullet s
    BY <1>3, <2>1, <2>5, <2>7
  <2> QED BY <2>8 DEF u
<1> QED BY <1>5, <1>6

LEMMA FlattenIsSeq ==
  ASSUME NEW V, NEW ss \in Seq(Seq(V))
  PROVE  FlattenSeq(ss) \in Seq(V)
<1> DEFINE S == {n \in Nat : \A u \in Seq(Seq(V)) : Len(u) = n => FlattenSeq(u) \in Seq(V)}
<1>1. 0 \in S
  <2>1. ASSUME NEW u \in Seq(Seq(V)), Len(u) = 0
        PROVE  FlattenSeq(u) \in Seq(V)
    BY <2>1, FlattenNone, EmptySeq DEF NoBytes
  <2> QED BY <2>1
<1>2. ASSUME NEW n \in Nat, n \in S
      PROVE  n + 1 \in S
  <2>1. ASSUME NEW u \in Seq(Seq(V)), Len(u) = n + 1
        PROVE  FlattenSeq(u) \in Seq(V)
    <3>1. PICK t \in Seq(Seq(V)), s \in Seq(V) : u = More(t, s) /\ Len(t) = n
      BY <2>1, IsMore
    <3>2. FlattenSeq(t) \in Seq(V)
      BY <1>2, <3>1
    <3>3. FlattenSeq(u) = FlattenSeq(t) \o s
      BY <3>1, FlattenMore DEF \bullet
    <3> QED BY <3>2, <3>3, ConcatProperties
  <2> QED BY <2>1
<1>3. Len(ss) \in Nat
  BY LenProperties
<1> HIDE DEF S
<1>4. Nat \subseteq S
  BY <1>1, <1>2, SetInduction
<1> QED BY <1>3, <1>4 DEF S

-----------------------------------------------------------------------------
(* The reader of a stream.                                                 *)

\* The last k bytes.
Suffix(s, k) == SubSeq(s, Len(s) - k + 1, Len(s))

LEMMA SuffixIs ==
  ASSUME NEW s \in Wire, NEW t \in Wire
  PROVE  Suffix(s \bullet t, Len(t)) = t
<1>1. Len(s \bullet t) = Len(s) + Len(t) /\ Len(s) \in Nat /\ Len(t) \in Nat
  BY LengthOfJoined
<1>2. Len(s \bullet t) - Len(t) + 1 = Len(s) + 1
  BY <1>1
<1> QED BY <1>2, Joined DEF Suffix

EndsWith(s, k, a, b) == s = a \bullet b /\ Len(b) = k /\ Suffix(s, k) = b

LEMMA Endings ==
  ASSUME NEW s \in Wire, NEW k \in Nat, k <= Len(s)
  PROVE  \E a \in Wire, b \in Wire : EndsWith(s, k, a, b)
<1>1. Len(s) \in Nat /\ Len(s) - k \in Nat /\ Len(s) - k <= Len(s)
  BY WireLen
<1>2. PICK a \in Wire, b \in Wire : Len(a) = Len(s) - k /\ s = a \bullet b
  BY <1>1, Divided
<1>3. Len(b) = k
  <2>1. Len(a \bullet b) = Len(a) + Len(b) /\ Len(a) \in Nat /\ Len(b) \in Nat
    BY LengthOfJoined
  <2> QED BY <1>1, <1>2, <2>1
<1>4. Suffix(s, k) = b
  BY <1>2, <1>3, SuffixIs
<1>5. EndsWith(s, k, a, b)
  BY <1>2, <1>3, <1>4 DEF EndsWith
<1> QED BY <1>5

LEMMA SuffixOfSuffix ==
  ASSUME NEW s \in Wire, NEW t \in Wire, NEW k \in Nat, k <= Len(t)
  PROVE  Suffix(s \bullet t, k) = Suffix(t, k)
<1>0. PICK a \in Wire, b \in Wire : EndsWith(t, k, a, b)
  BY Endings
<1>1. t = a \bullet b /\ Len(b) = k /\ Suffix(t, k) = b
  BY <1>0 DEF EndsWith
<1>2. s \bullet t = (s \bullet a) \bullet b /\ s \bullet a \in Wire
  BY <1>1, WireAssoc, WireConcat
<1>3. Suffix((s \bullet a) \bullet b, Len(b)) = b
  BY <1>2, SuffixIs
<1> QED BY <1>1, <1>2, <1>3

\* What is left after a message is the end of the stream, and shorter.
LEMMA RestIsShorter ==
  ASSUME NEW s \in Wire, ReadFrame(s).outcome = "message"
  PROVE  LET rest == ReadFrame(s).rest IN
         /\ rest \in Wire /\ Len(rest) \in Nat /\ Len(rest) < Len(s)
         /\ \E a \in Wire : s = a \bullet rest
<1>1. PICK body \in Wire, rest \in Wire :
        /\ Len(body) \in 1..MaxFrame /\ s = Framed(body) \bullet rest
        /\ ReadFrame(s) = Received(FromWire(body), rest)
  BY ReadFromFrame
<1>2. ReadFrame(s).rest = rest
  BY <1>1 DEF Received, Ended
<1>3. Framed(body) \in Wire /\ Len(Framed(body)) = 2 + Len(body)
  BY <1>1, FramedIs
<1>4. /\ Len(s) = Len(Framed(body)) + Len(rest) /\ Len(rest) \in Nat /\ Len(body) \in Nat
  BY <1>1, <1>3, LengthOfJoined, WireLen
<1>5. Len(rest) < Len(s)
  BY <1>3, <1>4
<1> QED BY <1>1, <1>2, <1>3, <1>4, <1>5

\* What the reader returns if the first frame is r and it has others of what
\* is left.
Reading(r, others) ==
    IF r.outcome # "message" THEN [messages |-> <<>>, end |-> r.outcome]
    ELSE [others EXCEPT !.messages = <<r.message>> \o @]

\* last is the recursive function of a reader of the last n bytes.
IsReader(s, n, last) ==
    last = [k \in 0..n |-> LET r == ReadFrame(Suffix(s, k)) IN Reading(r, last[Len(r.rest)])]

LEMMA SuffixRest ==
  ASSUME NEW s \in Wire, NEW k \in Nat, k <= Len(s), ReadFrame(Suffix(s, k)).outcome = "message"
  PROVE  Len(ReadFrame(Suffix(s, k)).rest) \in Nat /\ Len(ReadFrame(Suffix(s, k)).rest) < k
<1>0. PICK a \in Wire, b \in Wire : EndsWith(s, k, a, b)
  BY Endings
<1>1. s = a \bullet b /\ Len(b) = k /\ Suffix(s, k) = b
  BY <1>0 DEF EndsWith
<1> QED BY <1>1, RestIsShorter

LEMMA ReaderExists ==
  ASSUME NEW s \in Wire, NEW n \in Nat, n <= Len(s)
  PROVE  \E last : IsReader(s, n, last)
<1>0. Len(s) \in Nat
  BY WireLen
<1> DEFINE r(k) == ReadFrame(Suffix(s, k))
<1> DEFINE S == {k \in Nat : k <= Len(s) => \E last : IsReader(s, k, last)}
<1>1. 0 \in S
  <2> DEFINE g == [k \in 0..0 |-> Reading(r(0), 0)]
  <2> DEFINE h == [k \in 0..0 |-> Reading(r(k), g[Len(r(k).rest)])]
  <2>1. ~(r(0).outcome = "message")
    <3>1. 0 \in Nat /\ 0 <= Len(s)
      BY <1>0
    <3> QED BY <3>1, SuffixRest
  <2>2. \A x : Reading(r(0), x) = Reading(r(0), 0)
    BY <2>1 DEF Reading
  <2>3. g = h
    BY <2>2
  <2>4. IsReader(s, 0, g)
    BY <2>3 DEF IsReader
  <2> QED BY <2>4
<1>2. ASSUME NEW k \in Nat, k \in S
      PROVE  k + 1 \in S
  <2>1. SUFFICES ASSUME k + 1 <= Len(s) PROVE \E last : IsReader(s, k + 1, last)
    OBVIOUS
  <2>2. PICK f : IsReader(s, k, f)
    BY <1>0, <1>2, <2>1
  <2> HIDE DEF S
  <2> DEFINE g == [i \in 0..(k + 1) |->
                     IF i = k + 1 THEN Reading(r(i), f[Len(r(i).rest)]) ELSE f[i]]
  <2> DEFINE h == [i \in 0..(k + 1) |-> Reading(r(i), g[Len(r(i).rest)])]
  <2>3. ASSUME NEW i \in 0..(k + 1)
        PROVE  g[i] = h[i]
    <3> DEFINE l == Len(r(i).rest)
    <3>1. g[i] = Reading(r(i), f[l])
      <4>1. CASE i = k + 1
        BY <4>1
      <4>2. CASE i # k + 1
        <5>1. i \in 0..k
          BY <4>2
        <5>2. f[i] = Reading(r(i), f[l])
          BY <2>2, <5>1 DEF IsReader
        <5> QED BY <4>2, <5>2
      <4> QED BY <4>1, <4>2
    <3>2. h[i] = Reading(r(i), g[l])
      OBVIOUS
    <3>3. CASE r(i).outcome = "message"
      <4>1. i \in Nat /\ i <= Len(s)
        BY <1>0, <2>1
      <4>2. l \in Nat /\ l < i
        BY <3>3, <4>1, SuffixRest
      <4>3. l \in 0..(k + 1) /\ l # k + 1
        BY <4>2
      <4>4. g[l] = f[l]
        BY <4>3
      <4> QED BY <3>1, <3>2, <4>4
    <3>4. CASE ~(r(i).outcome = "message")
      <4>1. \A x, y : Reading(r(i), x) = Reading(r(i), y)
        BY <3>4 DEF Reading
      <4> QED BY <3>1, <3>2, <4>1
    <3> QED BY <3>3, <3>4
  <2>4. g = h
    BY <2>3
  <2>5. IsReader(s, k + 1, g)
    BY <2>4 DEF IsReader
  <2> QED BY <2>5
<1> HIDE DEF S
<1>3. Nat \subseteq S
  BY <1>1, <1>2, SetInduction
<1> QED BY <1>3 DEF S

\* Two readers return the same of what two streams have in common.
LEMMA ReadersAgree ==
  ASSUME NEW s \in Wire, NEW t \in Wire, NEW f, NEW g,
         IsReader(s \bullet t, Len(s \bullet t), f), IsReader(t, Len(t), g)
  PROVE  f[Len(t)] = g[Len(t)]
<1> DEFINE u == s \bullet t
<1>0. u \in Wire /\ Len(u) = Len(s) + Len(t) /\ Len(s) \in Nat /\ Len(t) \in Nat
  BY LengthOfJoined
<1> DEFINE S == {n \in Nat : \A k \in 0..n : k <= Len(t) => f[k] = g[k]}
<1> DEFINE r(k) == ReadFrame(Suffix(t, k))
<1>1. ASSUME NEW k \in Nat, k <= Len(t), \A j \in Nat : j < k => f[j] = g[j]
      PROVE  f[k] = g[k]
  <2>1. Suffix(u, k) = Suffix(t, k)
    BY <1>1, SuffixOfSuffix
  <2>2. k \in 0..Len(u) /\ k \in 0..Len(t)
    BY <1>0, <1>1
  <2>3. f[k] = Reading(r(k), f[Len(r(k).rest)]) /\ g[k] = Reading(r(k), g[Len(r(k).rest)])
    BY <2>1, <2>2 DEF IsReader
  <2>4. CASE r(k).outcome = "message"
    <3>1. Len(r(k).rest) \in Nat /\ Len(r(k).rest) < k
      BY <1>1, <2>4, SuffixRest
    <3> QED BY <1>1, <2>3, <3>1
  <2>5. CASE ~(r(k).outcome = "message")
    <3>1. \A x, y : Reading(r(k), x) = Reading(r(k), y)
      BY <2>5 DEF Reading
    <3> QED BY <2>3, <3>1
  <2> QED BY <2>4, <2>5
<1> HIDE DEF r
<1>2. 0 \in S
  <2>1. ASSUME NEW k \in 0..0, k <= Len(t)
        PROVE  f[k] = g[k]
    <3>1. k \in Nat /\ k <= Len(t) /\ \A j \in Nat : ~(j < k)
      BY <1>0, <2>1
    <3> QED BY <1>1, <3>1
  <2> QED BY <2>1
<1>3. ASSUME NEW n \in Nat, n \in S
      PROVE  n + 1 \in S
  <2>1. ASSUME NEW k \in 0..(n + 1), k <= Len(t)
        PROVE  f[k] = g[k]
    <3>1. k \in Nat /\ k <= Len(t)
      BY <1>0, <2>1
    <3>2. ASSUME NEW j \in Nat, j < k
          PROVE  f[j] = g[j]
      <4>1. j \in 0..n /\ j <= Len(t)
        BY <1>0, <2>1, <3>2
      <4> QED BY <1>3, <4>1
    <3> QED BY <1>1, <3>1, <3>2
  <2> QED BY <2>1
<1> HIDE DEF S
<1>4. Nat \subseteq S
  BY <1>2, <1>3, SetInduction
<1>5. Len(t) \in S /\ Len(t) \in 0..Len(t) /\ Len(t) <= Len(t)
  BY <1>0, <1>4
<1> QED BY <1>5 DEF S

LEMMA ReadAllIs ==
  ASSUME NEW s \in Wire
  PROVE  \E f : IsReader(s, Len(s), f) /\ ReadAll(s) = f[Len(s)]
<1> DEFINE a == CHOOSE f : IsReader(s, Len(s), f)
<1>1. IsReader(s, Len(s), a)
  BY WireLen, ReaderExists
<1>2. ReadAll(s) = a[Len(s)]
  BY DEF ReadAll, IsReader, Reading, Suffix
<1> QED BY <1>1, <1>2

LEMMA ReadAllStep ==
  ASSUME NEW s \in Wire
  PROVE  ReadAll(s) = Reading(ReadFrame(s), ReadAll(ReadFrame(s).rest))
<1> DEFINE r == ReadFrame(s)
<1>1. PICK f : IsReader(s, Len(s), f) /\ ReadAll(s) = f[Len(s)]
  BY ReadAllIs
<1>2. Len(s) \in 0..Len(s) /\ Suffix(s, Len(s)) = s
  <2>1. Len(s) \in 0..Len(s)
    BY WireLen
  <2>2. NoBytes \bullet s = s /\ NoBytes \in Wire
    BY NoBytesIsWire
  <2>3. Suffix(NoBytes \bullet s, Len(s)) = s
    BY <2>2, SuffixIs
  <2> QED BY <2>1, <2>2, <2>3
<1>3. ReadAll(s) = Reading(r, f[Len(r.rest)])
  BY <1>1, <1>2 DEF IsReader
<1>4. CASE r.outcome = "message"
  <2>1. r.rest \in Wire
    BY <1>4, RestIsShorter
  <2>2. PICK a \in Wire : s = a \bullet r.rest
    BY <1>4, RestIsShorter
  <2>3. PICK g : IsReader(r.rest, Len(r.rest), g) /\ ReadAll(r.rest) = g[Len(r.rest)]
    BY <2>1, ReadAllIs
  <2>4. f[Len(r.rest)] = g[Len(r.rest)]
    BY <1>1, <2>1, <2>2, <2>3, ReadersAgree
  <2> QED BY <1>3, <2>3, <2>4
<1>5. CASE ~(r.outcome = "message")
  <2>1. \A x, y : Reading(r, x) = Reading(r, y)
    BY <1>5 DEF Reading
  <2> QED BY <1>3, <2>1
<1> QED BY <1>4, <1>5

-----------------------------------------------------------------------------
(* Frames, one after the other.                                            *)

\* w is a frame of as many bytes as m takes, and it is read as m.
IsFrame(w, m) ==
    /\ \E body \in Wire : Len(body) \in 1..MaxFrame /\ w = Framed(body)
    /\ w \in Wire /\ Len(w) = Len(WriteFrame(m))
    /\ \A rest \in Wire : ReadFrame(w \bullet rest)
                            = [outcome |-> "message", message |-> m, rest |-> rest]

\* Frames that write_frame and a foreign encoder make.
LEMMA FramesWritten ==
  ASSUME NEW m, IsTyped(m), IsMessage(m), Fits(ToWire(ToValue(m)))
  PROVE  IsFrame(WriteFrame(m), m) /\ IsFrame(Framed(ToWire(Foreign(m)).out), m)
<1>1. /\ Says(ToValue(m), m) /\ ToValue(m) \in Value
      /\ Says(Foreign(m), m) /\ Foreign(m) \in Value
  BY Sayings
<1>2. ToWire(ToValue(m)).ok /\ Len(ToWire(ToValue(m)).out) \in 1..MaxFrame
  BY DEF Fits
<1>3. ToWire(Foreign(m)).ok /\ Len(ToWire(Foreign(m)).out) = Len(ToWire(ToValue(m)).out)
  BY <1>1, <1>2, SameSize
<1>4. WriteFrame(m) = Framed(ToWire(ToValue(m)).out)
  BY DEF WriteFrame
<1>5. ASSUME NEW value \in Value, Says(value, m), ToWire(value).ok,
             Len(ToWire(value).out) = Len(ToWire(ToValue(m)).out)
      PROVE  IsFrame(Framed(ToWire(value).out), m)
  <2> DEFINE w == Framed(ToWire(value).out)
  <2>1. Len(ToWire(value).out) \in 1..MaxFrame
    BY <1>2, <1>5
  <2>2. \A rest \in Wire :
          /\ ReadFrame(w \bullet rest) = [outcome |-> "message", message |-> m, rest |-> rest]
          /\ w \in Wire /\ Len(w) = 2 + Len(ToWire(value).out)
    BY <1>5, <2>1, MessageRead
  <2>3. w \in Wire /\ Len(w) = 2 + Len(ToWire(value).out)
    BY <2>2, NoBytesIsWire
  <2>4. Len(WriteFrame(m)) = 2 + Len(ToWire(ToValue(m)).out)
    BY <1>1, <1>2, <1>4, MessageRead, NoBytesIsWire
  <2>5. ToWire(value).out \in Wire
    BY <1>5, EncodedIsDecoded DEF Wire
  <2>6. Len(w) = Len(WriteFrame(m))
    BY <1>5, <2>3, <2>4
  <2>7. \E body \in Wire : Len(body) \in 1..MaxFrame /\ w = Framed(body)
    BY <2>1, <2>5
  <2> HIDE DEF w
  <2>8. IsFrame(w, m)
    BY <2>2, <2>3, <2>6, <2>7 DEF IsFrame
  <2> QED BY <2>8 DEF w
<1>6. IsFrame(Framed(ToWire(ToValue(m)).out), m)
  BY <1>1, <1>2, <1>5
<1>7. IsFrame(Framed(ToWire(Foreign(m)).out), m)
  BY <1>1, <1>3, <1>5
<1> QED BY <1>4, <1>6, <1>7

LEMMA WriteFrameIsWire ==
  ASSUME NEW m, IsTyped(m), IsMessage(m)
  PROVE  WriteFrame(m) \in Wire /\ (~Fits(ToWire(ToValue(m))) => WriteFrame(m) = NoBytes)
<1>1. CASE Fits(ToWire(ToValue(m)))
  BY <1>1, FramesWritten DEF IsFrame
<1>2. CASE ~Fits(ToWire(ToValue(m)))
  BY <1>2, NoBytesIsWire DEF WriteFrame, NoBytes
<1> QED BY <1>1, <1>2

LEMMA ReadOutcomes ==
  ASSUME NEW s
  PROVE  /\ s = <<>> => ReadFrame(s) = Ended("end")
         /\ s # <<>> => ReadFrame(s).outcome \in {"invalid", "message"}
BY DEF ReadFrame, ReadBody, Received, Ended

\* Of a frame that is cut no message is read.
LEMMA FrameCut ==
  ASSUME NEW a \in Wire, NEW z \in Wire, NEW m, IsFrame(a \bullet z, m), z # NoBytes
  PROVE  /\ a = <<>> => ReadFrame(a).outcome = "end"
         /\ a # <<>> => ReadFrame(a).outcome = "invalid"
<1>1. SUFFICES ASSUME ReadFrame(a).outcome = "message" PROVE FALSE
  BY ReadOutcomes DEF Ended
<1>2. PICK b \in Wire, rest \in Wire : Len(b) \in 1..MaxFrame /\ a = Framed(b) \bullet rest
  BY <1>1, ReadFromFrame
<1>3. PICK body \in Wire : Len(body) \in 1..MaxFrame /\ a \bullet z = Framed(body)
  BY DEF IsFrame
<1> DEFINE s == a \bullet z
<1>4. Framed(body) \in Wire /\ Framed(b) \in Wire
  BY <1>2, <1>3, FramedIs
<1>5. s = Framed(body) \bullet NoBytes
  BY <1>3, <1>4, NoBytesIsWire
<1>6. s = Framed(b) \bullet (rest \bullet z) /\ rest \bullet z \in Wire
  BY <1>2, <1>4, WireAssoc, WireConcat
<1> DEFINE n == 256 * s[1] + s[2]
<1> HIDE DEF s
<1>7. n = Len(body) /\ Len(s) = 2 + Len(body) + Len(NoBytes)
  BY <1>3, <1>5, FrameParts, NoBytesIsWire
<1>8. n = Len(b) /\ Len(s) = 2 + Len(b) + Len(rest \bullet z)
  BY <1>2, <1>6, FrameParts
<1> HIDE DEF n
<1>9. Len(NoBytes) = 0 /\ Len(z) # 0 /\ Len(z) \in Nat
  BY EmptySeq, WireLen DEF NoBytes, Wire
<1>10. Len(rest \bullet z) = Len(rest) + Len(z) /\ Len(rest) \in Nat
  BY LengthOfJoined
<1>11. Len(body) \in Nat /\ Len(b) \in Nat
  BY WireLen
<1> QED BY <1>7, <1>8, <1>9, <1>10, <1>11

\* The outcome of a reader.
Outcome(q, e) == [messages |-> q, end |-> e]

LEMMA ReadingIs ==
  ASSUME NEW r, NEW q, NEW e
  PROVE  /\ r.outcome # "message" => \A x : Reading(r, x) = Outcome(<<>>, r.outcome)
         /\ r.outcome = "message" => Reading(r, Outcome(q, e)) = Outcome(<<r.message>> \o q, e)
BY DEF Reading, Outcome

IsOutcome(x) == \E W : \E q \in Seq(W) : \E e : x = Outcome(q, e)

LEMMA ReadAllOutcome ==
  ASSUME NEW s \in Wire
  PROVE  IsOutcome(ReadAll(s))
<1> DEFINE S == {n \in Nat : \A t \in Wire : Len(t) <= n => IsOutcome(ReadAll(t))}
<1>1. ASSUME NEW t \in Wire, ReadFrame(t).outcome # "message"
      PROVE  IsOutcome(ReadAll(t))
  <2>1. ReadAll(t) = Outcome(<<>>, ReadFrame(t).outcome)
    BY <1>1, ReadAllStep, ReadingIs
  <2>2. <<>> \in Seq({})
    BY EmptySeq
  <2> QED BY <2>1, <2>2 DEF IsOutcome
<1>2. ASSUME NEW t \in Wire, ReadFrame(t).outcome = "message",
             IsOutcome(ReadAll(ReadFrame(t).rest))
      PROVE  IsOutcome(ReadAll(t))
  <2> DEFINE m == ReadFrame(t).message
  <2>1. PICK W : \E q \in Seq(W) : \E e : ReadAll(ReadFrame(t).rest) = Outcome(q, e)
    BY <1>2 DEF IsOutcome
  <2>2. PICK q \in Seq(W) : \E e : ReadAll(ReadFrame(t).rest) = Outcome(q, e)
    BY <2>1
  <2>3. PICK e : ReadAll(ReadFrame(t).rest) = Outcome(q, e)
    BY <2>2
  <2>4. ReadAll(t) = Outcome(<<m>> \o q, e)
    BY <1>2, <2>3, ReadAllStep, ReadingIs
  <2>5. <<m>> \o q \in Seq(W \cup {m})
    <3>1. <<m>> \in Seq(W \cup {m})
      OBVIOUS
    <3>2. q \in Seq(W \cup {m})
      BY SeqMonotonic
    <3> QED BY <3>1, <3>2, ConcatProperties
  <2> QED BY <2>4, <2>5 DEF IsOutcome
<1>3. 0 \in S
  <2>1. ASSUME NEW t \in Wire, Len(t) <= 0
        PROVE  IsOutcome(ReadAll(t))
    <3>1. ReadFrame(t).outcome # "message"
      BY <2>1, RestIsShorter
    <3> QED BY <1>1, <3>1
  <2> QED BY <2>1
<1>4. ASSUME NEW n \in Nat, n \in S
      PROVE  n + 1 \in S
  <2>1. ASSUME NEW t \in Wire, Len(t) <= n + 1
        PROVE  IsOutcome(ReadAll(t))
    <3>1. CASE ReadFrame(t).outcome = "message"
      <4> DEFINE rest == ReadFrame(t).rest
      <4>1. rest \in Wire /\ Len(rest) \in Nat /\ Len(rest) < Len(t) /\ Len(t) \in Nat
        BY <3>1, RestIsShorter, WireLen
      <4>2. Len(rest) <= n
        BY <2>1, <4>1
      <4> HIDE DEF rest
      <4>3. IsOutcome(ReadAll(rest))
        BY <1>4, <4>1, <4>2
      <4> QED BY <1>2, <3>1, <4>3 DEF rest
    <3> QED BY <1>1, <3>1
  <2> QED BY <2>1
<1>5. Len(s) \in Nat /\ Len(s) <= Len(s)
  BY WireLen
<1> HIDE DEF S
<1>6. Nat \subseteq S
  BY <1>3, <1>4, SetInduction
<1>7. Len(s) \in S
  BY <1>5, <1>6
<1> QED BY <1>5, <1>7 DEF S

\* F are frames of the messages M.
Frames(F, M) ==
    /\ F \in Seq(Wire) /\ Len(F) = Len(M)
    /\ \A i \in 1..Len(M) : IsFrame(F[i], M[i])

First(s, k) == SubSeq(s, 1, k)

LEMMA FirstMore ==
  ASSUME NEW V, NEW s \in Seq(V), NEW k \in Nat, k < Len(s)
  PROVE  /\ First(s, k) \in Seq(V) /\ Len(First(s, k)) = k
         /\ k + 1 \in 1..Len(s) /\ s[k + 1] \in V
         /\ First(s, k + 1) = More(First(s, k), s[k + 1])
<1>1. Len(s) \in Nat /\ \A i \in 1..Len(s) : s[i] \in V
  BY LenProperties, ElementOfSeq
<1>2. 1 \in 1..Len(s) /\ k + 1 \in 1..Len(s) /\ (k + 1) - 1 = k /\ k \in Int
  BY <1>1
<1>3. \A i \in 1..k : s[i] \in V
  BY <1>1
<1>4. /\ SubSeq(s, 1, k) \in Seq(V)
      /\ Len(SubSeq(s, 1, k)) = IF 1 <= k THEN k - 1 + 1 ELSE 0
  BY <1>2, <1>3, SubSeqProperties
<1>5. SubSeq(s, 1, k + 1) = SubSeq(s, 1, (k + 1) - 1) \o << s[k + 1] >>
  BY <1>2, SubSeqRecursiveSecond
<1>6. Append(SubSeq(s, 1, k), s[k + 1]) = SubSeq(s, 1, k) \o << s[k + 1] >>
  BY <1>1, <1>2, <1>4, AppendIsConcat
<1>7. Len(SubSeq(s, 1, k)) = k
  BY <1>4
<1> QED BY <1>1, <1>2, <1>4, <1>5, <1>6, <1>7 DEF First, More

LEMMA FirstEnds ==
  ASSUME NEW V, NEW s \in Seq(V)
  PROVE  First(s, 0) = <<>> /\ First(s, Len(s)) = s
BY SubSeqEmpty, SubSeqFull DEF First

\* A function of every item.
Applied(h, s) == [i \in DOMAIN s |-> h[s[i]]]
IsInto(h, U, V) == \A u \in U : h[u] \in V

LEMMA AppliedMore ==
  ASSUME NEW U, NEW V, NEW h, IsInto(h, U, V), NEW s \in Seq(U)
  PROVE  /\ Applied(h, s) \in Seq(V) /\ Len(Applied(h, s)) = Len(s)
         /\ \A u \in U : Applied(h, More(s, u)) = More(Applied(h, s), h[u])
<1>0. \A v \in Seq(V), x \in V :
        /\ More(v, x) \in Seq(V) /\ Len(More(v, x)) = Len(v) + 1
        /\ More(v, x)[Len(v) + 1] = x /\ \A i \in 1..Len(v) : More(v, x)[i] = v[i]
  BY MoreProperties
<1>1. ASSUME NEW t \in Seq(U)
      PROVE  /\ Applied(h, t) \in Seq(V) /\ Len(Applied(h, t)) = Len(t)
             /\ \A i \in 1..Len(t) : Applied(h, t)[i] = h[t[i]]
  <2>1. Len(t) \in Nat /\ DOMAIN t = 1..Len(t) /\ \A i \in 1..Len(t) : t[i] \in U
    BY LenProperties, ElementOfSeq
  <2>2. Applied(h, t) = [i \in 1..Len(t) |-> h[t[i]]]
    BY <2>1 DEF Applied
  <2>3. \A i \in 1..Len(t) : h[t[i]] \in V
    BY <2>1 DEF IsInto
  <2>4. [i \in 1..Len(t) |-> h[t[i]]] \in [1..Len(t) -> V]
    BY <2>3
  <2>5. Applied(h, t) \in Seq(V)
    BY <2>1, <2>2, <2>4
  <2> QED BY <2>1, <2>2, <2>5
<1>2. ASSUME NEW u \in U
      PROVE  Applied(h, More(s, u)) = More(Applied(h, s), h[u])
  <2> DEFINE a == Applied(h, More(s, u))
  <2> DEFINE b == More(Applied(h, s), h[u])
  <2>1. /\ More(s, u) \in Seq(U) /\ Len(More(s, u)) = Len(s) + 1 /\ Len(s) \in Nat
        /\ More(s, u)[Len(s) + 1] = u
        /\ \A i \in 1..Len(s) : More(s, u)[i] = s[i]
    BY MoreProperties
  <2>2. /\ Applied(h, s) \in Seq(V) /\ Len(Applied(h, s)) = Len(s)
        /\ \A i \in 1..Len(s) : Applied(h, s)[i] = h[s[i]]
    BY <1>1
  <2>3. /\ a \in Seq(V) /\ Len(a) = Len(s) + 1
        /\ \A i \in 1..(Len(s) + 1) : a[i] = h[More(s, u)[i]]
    BY <1>1, <2>1
  <2>4. /\ b \in Seq(V) /\ Len(b) = Len(s) + 1 /\ b[Len(s) + 1] = h[u]
        /\ \A i \in 1..Len(s) : b[i] = Applied(h, s)[i]
    <3> DEFINE v == Applied(h, s)
    <3> DEFINE x == h[u]
    <3>1. x \in V
      BY DEF IsInto
    <3>2. v \in Seq(V)
      BY <2>2
    <3>6. Len(v) = Len(s)
      BY <2>2
    <3> HIDE DEF v, x
    <3>3. /\ More(v, x) \in Seq(V) /\ Len(More(v, x)) = Len(v) + 1
          /\ More(v, x)[Len(v) + 1] = x /\ \A i \in 1..Len(v) : More(v, x)[i] = v[i]
      BY <1>0, <3>1, <3>2
    <3>4. b = More(v, x)
      BY DEF v, x
    <3> HIDE DEF b
    <3>5. b \in Seq(V) /\ Len(b) = Len(s) + 1 /\ b[Len(s) + 1] = x
          /\ \A i \in 1..Len(s) : b[i] = v[i]
      BY <3>3, <3>4, <3>6
    <3> QED BY <3>5 DEF v, x
  <2> HIDE DEF a, b
  <2>5. ASSUME NEW i \in 1..(Len(s) + 1) PROVE a[i] = b[i]
    <3>1. CASE i = Len(s) + 1
      BY <2>1, <2>3, <2>4, <3>1
    <3>2. CASE i # Len(s) + 1
      <4>1. i \in 1..Len(s)
        BY <2>1, <3>2
      <4> QED BY <2>1, <2>2, <2>3, <2>4, <4>1
    <3> QED BY <3>1, <3>2
  <2>6. a = b
    BY <2>1, <2>3, <2>4, <2>5, SeqEqual
  <2> QED BY <2>6 DEF a, b
<1> QED BY <1>1, <1>2

\* What write_frame writes of a message that is typed is bytes.
AreWritten(U) == \A m \in U : WriteFrame(m) \in Wire

Writing(U) == [m \in U |-> WriteFrame(m)]

LEMMA OnTheWireIs ==
  ASSUME NEW U, AreWritten(U), NEW M \in Seq(U)
  PROVE  /\ OnTheWire(M) = FlattenSeq(Applied(Writing(U), M))
         /\ Applied(Writing(U), M) \in Seq(Wire) /\ OnTheWire(M) \in Wire
<1>1. \A m \in U : Writing(U)[m] = WriteFrame(m) /\ Writing(U)[m] \in Wire
  BY DEF AreWritten, Writing
<1>2. DOMAIN M = 1..Len(M) /\ \A i \in DOMAIN M : M[i] \in U
  BY LenProperties, ElementOfSeq
<1>3. [i \in DOMAIN M |-> WriteFrame(M[i])] = Applied(Writing(U), M)
  BY <1>1, <1>2 DEF Applied
<1>4. Applied(Writing(U), M) \in Seq(Wire)
  <2>1. IsInto(Writing(U), U, Wire)
    BY <1>1 DEF IsInto
  <2> QED BY <2>1, AppliedMore
<1>5. FlattenSeq(Applied(Writing(U), M)) \in Wire
  BY <1>4, FlattenIsSeq DEF Wire
<1> QED BY <1>3, <1>4, <1>5 DEF OnTheWire

LEMMA OnTheWireMore ==
  ASSUME NEW U, AreWritten(U), NEW M \in Seq(U), NEW m \in U
  PROVE  OnTheWire(More(M, m)) = OnTheWire(M) \bullet WriteFrame(m)
<1> DEFINE h == Writing(U)
<1>1. \A u \in U : h[u] = WriteFrame(u) /\ h[u] \in Wire
  BY DEF AreWritten, Writing
<1>2. Applied(h, More(M, m)) = More(Applied(h, M), h[m]) /\ Applied(h, M) \in Seq(Wire)
  <2>1. IsInto(h, U, Wire)
    BY <1>1 DEF IsInto
  <2> HIDE DEF h
  <2> QED BY <2>1, AppliedMore
<1>3. More(M, m) \in Seq(U)
  BY MoreProperties
<1>4. OnTheWire(More(M, m)) = FlattenSeq(Applied(h, More(M, m)))
      /\ OnTheWire(M) = FlattenSeq(Applied(h, M))
  BY <1>3, OnTheWireIs
<1> HIDE DEF h
<1>5. FlattenSeq(More(Applied(h, M), h[m])) = FlattenSeq(Applied(h, M)) \bullet h[m]
  BY <1>1, <1>2, FlattenMore DEF Wire
<1> QED BY <1>1, <1>2, <1>4, <1>5

LEMMA OnTheWireNone == OnTheWire(<<>>) = NoBytes
<1>1. AreWritten({}) /\ <<>> \in Seq({})
  BY EmptySeq DEF AreWritten
<1>2. [i \in DOMAIN <<>> |-> WriteFrame(<<>>[i])] = <<>>
  OBVIOUS
<1>3. OnTheWire(<<>>) = FlattenSeq(<<>>)
  BY <1>2 DEF OnTheWire
<1>4. Len(<<>>) = 0
  BY EmptySeq
<1> QED BY <1>1, <1>3, <1>4, FlattenNone

-----------------------------------------------------------------------------
(* A stream of frames.                                                     *)

\* Of p followed by anything, the messages M are read and then what follows.
ReadsFirst(p, M) ==
    \A tail \in Wire : \A W : \A q \in Seq(W) : \A e :
        ReadAll(tail) = Outcome(q, e) => ReadAll(p \bullet tail) = Outcome(M \o q, e)

LEMMA FrameReads ==
  ASSUME NEW w, NEW m, IsFrame(w, m), NEW tail \in Wire, NEW W, NEW q \in Seq(W), NEW e,
         ReadAll(tail) = Outcome(q, e)
  PROVE  ReadAll(w \bullet tail) = Outcome(<<m>> \o q, e)
<1> DEFINE s == w \bullet tail
<1> DEFINE r == ReadFrame(s)
<1>1. w \in Wire /\ s \in Wire
  BY WireConcat DEF IsFrame
<1>2. r = [outcome |-> "message", message |-> m, rest |-> tail]
  BY DEF IsFrame
<1>3. r.outcome = "message" /\ r.message = m /\ r.rest = tail
  BY <1>2
<1>4. ReadAll(s) = Reading(r, ReadAll(r.rest))
  BY <1>1, ReadAllStep
<1> HIDE DEF r, s
<1>5. ReadAll(s) = Outcome(<<r.message>> \o q, e)
  BY <1>3, <1>4, ReadingIs
<1> QED BY <1>3, <1>5 DEF s

\* The first k messages fill the first k frames.
LEMMA FirstFrames ==
  ASSUME NEW U, AreWritten(U), NEW M \in Seq(U), NEW F, Frames(F, M),
         NEW k \in Nat, k <= Len(M)
  PROVE  /\ FlattenSeq(First(F, k)) \in Wire
         /\ Len(FlattenSeq(First(F, k))) = Len(OnTheWire(First(M, k)))
         /\ ReadsFirst(FlattenSeq(First(F, k)), First(M, k))
<1> DEFINE p(j) == FlattenSeq(First(F, j))
<1> DEFINE Done(j) == /\ p(j) \in Wire /\ Len(p(j)) = Len(OnTheWire(First(M, j)))
                      /\ ReadsFirst(p(j), First(M, j))
<1> DEFINE S == {j \in Nat : j <= Len(M) => Done(j)}
<1>1. F \in Seq(Wire) /\ Len(F) = Len(M) /\ Len(M) \in Nat
      /\ \A i \in 1..Len(M) : IsFrame(F[i], M[i])
  BY LenProperties DEF Frames
<1>2. 0 \in S
  <2>1. First(F, 0) = <<>> /\ First(M, 0) = <<>>
    BY <1>1, FirstEnds
  <2>2. p(0) = NoBytes
    <3>1. <<>> \in Seq(Octet) /\ Len(<<>>) = 0
      BY EmptySeq
    <3> QED BY <2>1, <3>1, FlattenNone
  <2>3. OnTheWire(First(M, 0)) = NoBytes
    BY <2>1, OnTheWireNone
  <2>4. ReadsFirst(NoBytes, <<>>)
    <3>1. ASSUME NEW tail \in Wire, NEW W, NEW q \in Seq(W)
          PROVE  NoBytes \bullet tail = tail /\ <<>> \o q = q
      BY NoBytesIsWire, ConcatEmptySeq
    <3> QED BY <3>1 DEF ReadsFirst
  <2> QED BY <2>1, <2>2, <2>3, <2>4, NoBytesIsWire
<1>3. ASSUME NEW j \in Nat, j \in S
      PROVE  j + 1 \in S
  <2>1. SUFFICES ASSUME j + 1 <= Len(M) PROVE Done(j + 1)
    OBVIOUS
  <2>2. j < Len(M) /\ j < Len(F) /\ j <= Len(M)
    BY <1>1, <2>1
  <2>3. Done(j)
    BY <1>3, <2>2
  <2> DEFINE w == F[j + 1]
  <2> DEFINE m == M[j + 1]
  <2>4. /\ First(M, j) \in Seq(U) /\ j + 1 \in 1..Len(M) /\ m \in U
        /\ First(M, j + 1) = More(First(M, j), m)
    BY <2>2, FirstMore
  <2>5. /\ First(F, j) \in Seq(Wire) /\ w \in Wire
        /\ First(F, j + 1) = More(First(F, j), w)
    BY <1>1, <2>2, FirstMore
  <2>6. IsFrame(w, m) /\ Len(w) = Len(WriteFrame(m)) /\ WriteFrame(m) \in Wire
    BY <1>1, <2>4 DEF IsFrame, AreWritten
  <2>7. p(j + 1) = p(j) \bullet w
    BY <2>5, FlattenMore DEF Wire
  <2>8. OnTheWire(First(M, j + 1)) = OnTheWire(First(M, j)) \bullet WriteFrame(m)
    BY <2>4, OnTheWireMore
  <2> DEFINE b == p(j)
  <2> DEFINE N == First(M, j)
  <2>9. b \in Wire /\ Len(b) = Len(OnTheWire(N)) /\ ReadsFirst(b, N)
    BY <2>3
  <2>10. OnTheWire(N) \in Wire
    BY <2>4, OnTheWireIs
  <2> HIDE DEF Done, p, b, N, w, m
  <2>11. b \bullet w \in Wire /\ Len(b \bullet w) = Len(OnTheWire(N) \bullet WriteFrame(m))
    <3>1. Len(b \bullet w) = Len(b) + Len(w) /\ b \bullet w \in Wire
      BY <2>5, <2>9, LengthOfJoined
    <3>2. Len(OnTheWire(N) \bullet WriteFrame(m)) = Len(OnTheWire(N)) + Len(WriteFrame(m))
      BY <2>6, <2>10, LengthOfJoined
    <3> QED BY <2>6, <2>9, <3>1, <3>2
  <2>12. ReadsFirst(b \bullet w, More(N, m))
    <3>1. SUFFICES ASSUME NEW tail \in Wire, NEW W, NEW q \in Seq(W), NEW e,
                          ReadAll(tail) = Outcome(q, e)
                   PROVE  ReadAll((b \bullet w) \bullet tail) = Outcome(More(N, m) \o q, e)
      BY DEF ReadsFirst
    <3>2. (b \bullet w) \bullet tail = b \bullet (w \bullet tail) /\ w \bullet tail \in Wire
      BY <2>5, <2>9, WireAssoc, WireConcat
    <3>3. ReadAll(w \bullet tail) = Outcome(<<m>> \o q, e)
      BY <2>6, <3>1, FrameReads
    <3> DEFINE X == U \cup W
    <3>4. N \in Seq(X) /\ q \in Seq(X) /\ m \in X /\ <<m>> \in Seq(X)
      <4>1. U \subseteq X /\ W \subseteq X /\ m \in X
        BY <2>4 DEF N, m
      <4>2. N \in Seq(U)
        BY <2>4 DEF N
      <4> HIDE DEF X
      <4>3. N \in Seq(X) /\ q \in Seq(X)
        BY <4>1, <4>2, SeqMonotonic
      <4>4. <<m>> \in Seq(X)
        BY <4>1
      <4> QED BY <4>1, <4>3, <4>4
    <3> HIDE DEF X
    <3>5. <<m>> \o q \in Seq(X)
      BY <3>4, ConcatProperties
    <3> DEFINE u == <<m>> \o q
    <3>6. ReadAll(b \bullet (w \bullet tail)) = Outcome(N \o u, e)
      <4>1. ReadAll(w \bullet tail) = Outcome(u, e) /\ u \in Seq(X)
        BY <3>3, <3>5
      <4> HIDE DEF u
      <4> QED BY <2>9, <3>2, <4>1 DEF ReadsFirst
    <3>7. N \o u = (N \o <<m>>) \o q
      BY <3>4, ConcatAssociative
    <3>8. N \o <<m>> = More(N, m)
      BY <3>4, AppendIsConcat DEF More
    <3> QED BY <3>2, <3>6, <3>7, <3>8
  <2>13. p(j + 1) = b \bullet w /\ First(M, j + 1) = More(N, m)
    BY <2>4, <2>7 DEF b, N, m, w, p
  <2>14. OnTheWire(First(M, j + 1)) = OnTheWire(N) \bullet WriteFrame(m)
    BY <2>8 DEF N, m
  <2>15. Len(p(j + 1)) = Len(OnTheWire(First(M, j + 1)))
    BY <2>11, <2>13, <2>14
  <2> QED BY <2>11, <2>12, <2>13, <2>15 DEF Done
<1> HIDE DEF S
<1>4. Nat \subseteq S
  BY <1>2, <1>3, SetInduction
<1>5. k \in S
  BY <1>4
<1> QED BY <1>5 DEF S

\* What comes after the first k frames.
LEMMA FramesAfter ==
  ASSUME NEW F \in Seq(Wire), NEW k \in Nat, k <= Len(F)
  PROVE  \E x \in Wire : FlattenSeq(F) = FlattenSeq(First(F, k)) \bullet x
<1> DEFINE n == Len(F)
<1> DEFINE Has(j) == \E x \in Wire : FlattenSeq(F) = FlattenSeq(First(F, j)) \bullet x
<1> DEFINE S == {i \in Nat : i <= n => Has(n - i)}
<1>1. n \in Nat
  BY LenProperties
<1>2. ASSUME NEW j \in Nat, j <= n
      PROVE  First(F, j) \in Seq(Wire) /\ FlattenSeq(First(F, j)) \in Wire
  <2>1. First(F, j) \in Seq(Wire)
    <3>1. CASE j < Len(F)
      BY <3>1, FirstMore
    <3>2. CASE j = Len(F)
      BY <3>2, FirstEnds
    <3> QED BY <1>1, <1>2, <3>1, <3>2
  <2> QED BY <2>1, FlattenIsSeq DEF Wire
<1>3. 0 \in S
  <2>1. First(F, n) = F /\ n - 0 = n
    BY <1>1, FirstEnds
  <2>2. FlattenSeq(F) \in Wire
    BY FlattenIsSeq DEF Wire
  <2>3. FlattenSeq(F) = FlattenSeq(First(F, n)) \bullet NoBytes
    BY <2>1, <2>2, NoBytesIsWire
  <2>4. Has(n)
    BY <2>3, NoBytesIsWire
  <2> HIDE DEF Has, n
  <2> QED BY <1>1, <2>4
<1>4. ASSUME NEW i \in Nat, i \in S
      PROVE  i + 1 \in S
  <2>1. SUFFICES ASSUME i + 1 <= n PROVE Has(n - (i + 1))
    OBVIOUS
  <2> DEFINE j == n - (i + 1)
  <2>2. j \in Nat /\ j < n /\ j + 1 = n - i /\ j <= n /\ i <= n
    BY <1>1, <2>1
  <2>3. Has(n - i)
    BY <1>4, <2>2
  <2> HIDE DEF n, j
  <2>4. PICK y \in Wire : FlattenSeq(F) = FlattenSeq(First(F, j + 1)) \bullet y
    BY <2>2, <2>3
  <2>5. /\ First(F, j) \in Seq(Wire) /\ F[j + 1] \in Wire
        /\ First(F, j + 1) = More(First(F, j), F[j + 1])
    BY <2>2, FirstMore DEF n
  <2>6. FlattenSeq(First(F, j + 1)) = FlattenSeq(First(F, j)) \bullet F[j + 1]
    BY <2>5, FlattenMore DEF Wire
  <2>7. FlattenSeq(First(F, j)) \in Wire
    BY <1>2, <2>2
  <2>8. FlattenSeq(F) = FlattenSeq(First(F, j)) \bullet (F[j + 1] \bullet y)
    BY <2>4, <2>5, <2>6, <2>7, WireAssoc
  <2>9. F[j + 1] \bullet y \in Wire
    BY <2>5, WireConcat
  <2>10. Has(j)
    BY <2>8, <2>9
  <2> QED BY <2>10 DEF j
<1>5. n - k \in Nat /\ n - k <= n /\ n - (n - k) = k
  BY <1>1
<1> HIDE DEF S
<1>6. Nat \subseteq S
  BY <1>3, <1>4, SetInduction
<1>7. n - k \in S
  BY <1>5, <1>6
<1>8. Has(n - (n - k))
  BY <1>5, <1>7 DEF S
<1> QED BY <1>5, <1>8

\* Of two divisions of the same bytes the shorter is part of the longer.
LEMMA Overlap ==
  ASSUME NEW a \in Wire, NEW b \in Wire, NEW p \in Wire, NEW x \in Wire,
         a \bullet b = p \bullet x, Len(p) <= Len(a)
  PROVE  \E d \in Wire : a = p \bullet d /\ x = d \bullet b
<1>1. Len(p) \in Nat
  BY WireLen
<1>2. PICK s \in Wire, d \in Wire : Len(s) = Len(p) /\ a = s \bullet d
  BY <1>1, Divided
<1>3. a \bullet b = s \bullet (d \bullet b) /\ d \bullet b \in Wire
  BY <1>2, WireAssoc, WireConcat
<1> DEFINE t == d \bullet b
<1>4. t \in Wire /\ s \bullet t = p \bullet x
  BY <1>3
<1> HIDE DEF t
<1>5. SubSeq(s \bullet t, 1, Len(s)) = s /\ SubSeq(s \bullet t, Len(s) + 1, Len(s \bullet t)) = t
  BY <1>4, Joined
<1>6. SubSeq(p \bullet x, 1, Len(p)) = p /\ SubSeq(p \bullet x, Len(p) + 1, Len(p \bullet x)) = x
  BY Joined
<1>7. s = p /\ t = x
  BY <1>2, <1>4, <1>5, <1>6
<1> QED BY <1>2, <1>7 DEF t

\* The messages of which every frame is within the limits.
Fit(V) == {m \in V : Fits(ToWire(ToValue(m)))}

AreSound(V) == \A m \in V : IsTyped(m) /\ IsMessage(m)

LEMMA SoundAreWritten ==
  ASSUME NEW V, AreSound(V)
  PROVE  AreWritten(V) /\ AreWritten(Fit(V)) /\ Fit(V) \subseteq V
BY WriteFrameIsWire DEF AreSound, AreWritten, Fit

Picked(V) == [m \in V |-> IF Fits(ToWire(ToValue(m))) THEN <<m>> ELSE <<>>]

LEMMA AcceptedIs ==
  ASSUME NEW V, NEW M \in Seq(V)
  PROVE  Accepted(M) = FlattenSeq(Applied(Picked(V), M)) /\ IsInto(Picked(V), V, Seq(Fit(V)))
<1>1. DOMAIN M = 1..Len(M) /\ \A i \in DOMAIN M : M[i] \in V
  BY LenProperties, ElementOfSeq
<1>2. \A i \in DOMAIN M : Picked(V)[M[i]]
                            = IF Fits(ToWire(ToValue(M[i]))) THEN <<M[i]>> ELSE <<>>
  BY <1>1 DEF Picked
<1>3. Applied(Picked(V), M)
        = [i \in DOMAIN M |-> IF Fits(ToWire(ToValue(M[i]))) THEN <<M[i]>> ELSE <<>>]
  BY <1>2 DEF Applied
<1>4. Accepted(M) = FlattenSeq(Applied(Picked(V), M))
  BY <1>3 DEF Accepted
<1>5. ASSUME NEW m \in V PROVE Picked(V)[m] \in Seq(Fit(V))
  <2>1. <<>> \in Seq(Fit(V))
    BY EmptySeq
  <2>2. m \in Fit(V) => <<m>> \in Seq(Fit(V))
    OBVIOUS
  <2> QED BY <2>1, <2>2 DEF Picked, Fit
<1> QED BY <1>4, <1>5 DEF IsInto

\* The messages that are accepted, and what write_frame writes of them.
LEMMA AcceptedWritten ==
  ASSUME NEW V, AreSound(V), NEW M \in Seq(V)
  PROVE  Accepted(M) \in Seq(Fit(V)) /\ OnTheWire(Accepted(M)) = OnTheWire(M)
<1> DEFINE Kept(N) == Accepted(N) \in Seq(Fit(V)) /\ OnTheWire(Accepted(N)) = OnTheWire(N)
<1> DEFINE S == {n \in Nat : \A N \in Seq(V) : Len(N) = n => Kept(N)}
<1>1. 0 \in S
  <2>1. ASSUME NEW N \in Seq(V), Len(N) = 0
        PROVE  Kept(N)
    <3>1. N = <<>> /\ <<>> \in Seq(Fit(V)) /\ Len(<<>>) = 0
      BY <2>1, EmptySeq
    <3>2. Accepted(<<>>) = FlattenSeq(<<>>)
      <4>1. [i \in DOMAIN <<>> |->
               IF Fits(ToWire(ToValue(<<>>[i]))) THEN << <<>>[i] >> ELSE <<>>] = <<>>
        OBVIOUS
      <4> QED BY <4>1 DEF Accepted
    <3>3. FlattenSeq(<<>>) = <<>>
      BY <3>1, FlattenNone DEF NoBytes
    <3> QED BY <3>1, <3>2, <3>3
  <2> HIDE DEF Kept
  <2> QED BY <2>1
<1>2. ASSUME NEW n \in Nat, n \in S
      PROVE  n + 1 \in S
  <2>1. ASSUME NEW N \in Seq(V), Len(N) = n + 1
        PROVE  Kept(N)
    <3>1. PICK O \in Seq(V), m \in V : N = More(O, m) /\ Len(O) = n
      BY <2>1, IsMore
    <3>2. Kept(O)
      BY <1>2, <3>1
    <3> DEFINE h == Picked(V)
    <3> DEFINE A == Accepted(O)
    <3>3. /\ A = FlattenSeq(Applied(h, O)) /\ Accepted(N) = FlattenSeq(Applied(h, N))
          /\ IsInto(h, V, Seq(Fit(V)))
      BY <3>1, AcceptedIs
    <3>4. h[m] = IF Fits(ToWire(ToValue(m))) THEN <<m>> ELSE <<>>
      BY DEF Picked
    <3>5. OnTheWire(N) = OnTheWire(O) \bullet WriteFrame(m)
      BY <3>1, SoundAreWritten, OnTheWireMore
    <3>6. OnTheWire(O) \in Wire
      BY <3>1, SoundAreWritten, OnTheWireIs
    <3>7. A \in Seq(Fit(V)) /\ OnTheWire(A) = OnTheWire(O)
      BY <3>2
    <3> HIDE DEF h, A, Kept
    <3>8. Applied(h, O) \in Seq(Seq(Fit(V))) /\ Applied(h, N) = More(Applied(h, O), h[m])
      BY <3>1, <3>3, AppliedMore
    <3> DEFINE z == h[m]
    <3> DEFINE H == Applied(h, O)
    <3>9. z \in Seq(Fit(V)) /\ H \in Seq(Seq(Fit(V)))
      BY <3>1, <3>3, <3>8 DEF IsInto
    <3> HIDE DEF z, H
    <3>10. FlattenSeq(More(H, z)) = FlattenSeq(H) \bullet z
      BY <3>9, FlattenMore
    <3>11. Accepted(N) = A \bullet z
      BY <3>3, <3>8, <3>10 DEF z, H
    <3>12. CASE Fits(ToWire(ToValue(m)))
      <4>1. z = <<m>> /\ m \in Fit(V)
        BY <3>4, <3>12 DEF z, Fit
      <4>2. Accepted(N) = More(A, m)
        BY <3>7, <3>11, <4>1, AppendIsConcat DEF More, \bullet
      <4>3. More(A, m) \in Seq(Fit(V))
        BY <3>7, <4>1, MoreProperties
      <4>4. OnTheWire(More(A, m)) = OnTheWire(A) \bullet WriteFrame(m)
        BY <3>7, <4>1, SoundAreWritten, OnTheWireMore
      <4> QED BY <3>5, <3>7, <4>2, <4>3, <4>4 DEF Kept
    <3>13. CASE ~Fits(ToWire(ToValue(m)))
      <4>1. z = <<>>
        BY <3>4, <3>13 DEF z
      <4>2. Accepted(N) = A
        BY <3>7, <3>11, <4>1, ConcatEmptySeq DEF \bullet
      <4>3. WriteFrame(m) = NoBytes
        BY <3>1, <3>13, WriteFrameIsWire DEF AreSound
      <4>4. OnTheWire(N) = OnTheWire(O)
        BY <3>5, <3>6, <4>3, NoBytesIsWire
      <4> QED BY <3>7, <4>2, <4>4 DEF Kept
    <3> QED BY <3>12, <3>13
  <2> HIDE DEF Kept
  <2> QED BY <2>1
<1> HIDE DEF S
<1>3. Nat \subseteq S
  BY <1>1, <1>2, SetInduction
<1>4. Len(M) \in S
  BY <1>3, LenProperties
<1> HIDE DEF Kept
<1>5. Kept(M)
  BY <1>4 DEF S
<1> QED BY <1>5 DEF Kept

LEMMA WrittenAreFrames ==
  ASSUME NEW V, AreSound(V), NEW M \in Seq(Fit(V))
  PROVE  /\ Frames(Applied(Writing(Fit(V)), M), M)
         /\ FlattenSeq(Applied(Writing(Fit(V)), M)) = OnTheWire(M)
<1> DEFINE h == Writing(Fit(V))
<1> DEFINE F == Applied(h, M)
<1>1. AreWritten(Fit(V))
  BY SoundAreWritten
<1>2. OnTheWire(M) = FlattenSeq(F) /\ F \in Seq(Wire)
  BY <1>1, OnTheWireIs
<1>3. DOMAIN M = 1..Len(M) /\ \A i \in 1..Len(M) : M[i] \in Fit(V)
  BY LenProperties, ElementOfSeq
<1>4. Len(F) = Len(M)
  <2>1. IsInto(h, Fit(V), Wire)
    BY <1>1 DEF AreWritten, IsInto, Writing
  <2> HIDE DEF h
  <2> QED BY <2>1, AppliedMore
<1>5. ASSUME NEW i \in 1..Len(M) PROVE IsFrame(F[i], M[i])
  <2>1. F[i] = WriteFrame(M[i])
    BY <1>3 DEF Applied, Writing
  <2>2. IsTyped(M[i]) /\ IsMessage(M[i]) /\ Fits(ToWire(ToValue(M[i])))
    BY <1>3 DEF AreSound, Fit
  <2> DEFINE m == M[i]
  <2> HIDE DEF F, m
  <2>3. IsFrame(WriteFrame(m), m)
    BY <2>2, FramesWritten DEF m
  <2> QED BY <2>1, <2>3 DEF m
<1> HIDE DEF F
<1>6. Frames(F, M)
  BY <1>2, <1>4, <1>5 DEF Frames
<1> QED BY <1>2, <1>6 DEF F

-----------------------------------------------------------------------------
(* What arrives from another program.                                      *)

\* What is known of the input of a value and of the tables.
InputIs ==
    /\ about = "value" =>
         /\ origin \in Value /\ input \in Seq(Octet)
         /\ fate = "sent" => ToWire(origin).ok /\ input = ToWire(origin).out
    /\ about = "tables" =>
         input.host \in Table(Services) /\ input.out \in Table(Callbacks)

LEMMA PairsAreTables ==
  ASSUME NEW pair \in TablePairs
  PROVE  pair.host \in Table(Services) /\ pair.out \in Table(Callbacks)
<1>1. Sizes \subseteq Nat /\ Versions \subseteq Nat
  BY ForeignInputAssumption
<1>2. {Services} \subseteq SUBSET Services /\ {{}, Callbacks} \subseteq SUBSET Callbacks
  OBVIOUS
<1> HIDE DEF Services, Callbacks
<1> QED BY <1>1, <1>2 DEF TablePairs, Table

LEMMA InputInit == Init => InputIs
<1> SUFFICES ASSUME Init PROVE InputIs
  OBVIOUS
<1>1. CASE about = "value"
  <2>1. /\ origin \in {v \in Values : ToWire(v).ok}
        /\ input = ToWire(origin).out
    BY <1>1 DEF Init
  <2>2. origin \in Value /\ ToWire(origin).ok
    BY <2>1, ForeignInputAssumption
  <2> QED BY <1>1, <2>1, <2>2, EncodedIsDecoded DEF InputIs
<1>2. CASE about = "tables"
  <2>1. input = [host |-> HostTable, out |-> Prepared]
    BY <1>2 DEF Init
  <2>2. HostTable \in Table(Services) /\ Prepared \in Table(Callbacks)
    BY DEF HostTable, Prepared, Table, Pointers, HostPrefix, PluginPrefix, V1
  <2> QED BY <1>2, <2>1, <2>2 DEF InputIs
<1> QED BY <1>1, <1>2 DEF InputIs

LEMMA InputNext == InputIs /\ [Next]_vars => InputIs'
<1> SUFFICES ASSUME InputIs, [Next]_vars PROVE InputIs'
  OBVIOUS
<1>1. CASE UNCHANGED vars
  BY <1>1 DEF InputIs, vars
<1>2. ASSUME NEW n \in 0..Len(input), Cut(n), about # "tables"
      PROVE  InputIs'
  <2>1. about' = about /\ origin' = origin /\ fate' = "cut" /\ input' = SubSeq(input, 1, n)
    BY <1>2 DEF Cut
  <2>2. ASSUME about = "value"
        PROVE  input' \in Seq(Octet)
    <3>1. input \in Seq(Octet)
      BY <2>2 DEF InputIs
    <3>2. \A i \in 1..n : input[i] \in Octet
      <4>1. \A i \in 1..Len(input) : input[i] \in Octet
        BY <3>1, ElementOfSeq
      <4>2. Len(input) \in Nat
        BY <3>1, LenProperties
      <4> QED BY <4>1, <4>2
    <3> HIDE DEF Octet
    <3> QED BY <2>1, <3>2, SubSeqProperties
  <2> QED BY <1>2, <2>1, <2>2 DEF InputIs
<1>3. ASSUME NEW i \in 1..(Len(input) + 1), NEW n \in 0..MaxDamage, NEW p \in Patches,
             Damage(i, n, p), about # "tables"
      PROVE  InputIs'
  <2>1. /\ about' = about /\ origin' = origin /\ fate' = "damaged"
        /\ input' = SubSeq(input, 1, i - 1) \o p \o SubSeq(input, i + n, Len(input))
        /\ i + n <= Len(input) + 1
    BY <1>3 DEF Damage
  <2>2. ASSUME about = "value"
        PROVE  input' \in Seq(Octet)
    <3>1. input \in Seq(Octet) /\ Len(input) \in Nat /\ MaxDamage \in Nat
      BY <2>2, LenProperties, ForeignInputAssumption DEF InputIs
    <3>2. \A j \in 1..Len(input) : input[j] \in Octet
      BY <3>1, ElementOfSeq
    <3>3. i \in Nat /\ n \in Nat /\ i - 1 <= Len(input) /\ i >= 1
      BY <3>1
    <3>4. SubSeq(input, 1, i - 1) \in Seq(Octet)
      <4>1. \A j \in 1..(i - 1) : input[j] \in Octet
        BY <3>1, <3>2, <3>3
      <4> HIDE DEF Octet
      <4> QED BY <3>3, <4>1, SubSeqProperties
    <3>5. SubSeq(input, i + n, Len(input)) \in Seq(Octet)
      <4>1. \A j \in (i + n)..Len(input) : input[j] \in Octet
        BY <3>1, <3>2, <3>3
      <4> HIDE DEF Octet
      <4> QED BY <3>1, <3>3, <4>1, SubSeqProperties
    <3>6. p \in Seq(Octet)
      BY ForeignInputAssumption
    <3> HIDE DEF Octet
    <3>7. SubSeq(input, 1, i - 1) \o p \in Seq(Octet)
      BY <3>4, <3>6, ConcatProperties
    <3> QED BY <2>1, <3>5, <3>7, ConcatProperties
  <2> QED BY <1>3, <2>1, <2>2 DEF InputIs
<1>4. ASSUME NEW pair \in TablePairs, OtherTables(pair), about = "tables"
      PROVE  InputIs'
  BY <1>4, PairsAreTables DEF OtherTables, InputIs
<1> QED BY <1>1, <1>2, <1>3, <1>4 DEF Next

\* The invariant: a value is of the kind that is sent and its input bytes,
\* and what was sent and not touched is what the encoder made of it; tables
\* are tables.  (Every input of from_wire, negotiate_plugin_api_v1 and
\* initialize_inner.)
THEOREM InputKept == Spec => []InputIs
BY InputInit, InputNext, PTL DEF Spec

\* In every behaviour: a value arrives as it was sent, and bytes that were cut
\* or damaged are refused unless they are what the encoder makes of the value
\* they are taken for.  (Value::to_wire, Value::from_wire.)
THEOREM ValuesAlwaysCanonical == Spec => []ValuesAreCanonical
<1>1. InputIs => ValuesAreCanonical
  BY EncodedIsDecoded, DecodedIsEncoded DEF InputIs, ValuesAreCanonical
<1> QED BY <1>1, InputKept, PTL

\* In every behaviour the places that check the host's table agree on it.
\* (negotiate_plugin_api_v1, initialize_inner, PluginContext::from_raw.)
THEOREM TableChecksAlwaysAgree == Spec => []TableChecksAgree
<1>1. InputIs => TableChecksAgree
  BY ChecksAlwaysAgree DEF InputIs, TableChecksAgree
<1> QED BY <1>1, InputKept, PTL

-----------------------------------------------------------------------------
(* A stream: what arrives of the frames that were written.                 *)

\* What arrived of full begins with the first n bytes of it.  It is all of it
\* when it is sent, and no more of it when it is cut.
Arrived(full, in, how, n) ==
    \E a \in Wire : \E b \in Wire : \E c \in Wire :
        /\ full = a \bullet b /\ in = a \bullet c /\ Len(a) = n
        /\ how = "sent" => b = NoBytes /\ c = NoBytes
        /\ how = "cut" => b # NoBytes /\ c = NoBytes

\* F are the frames of the messages of origin that were accepted.
SentAs(U, F) ==
    /\ Accepted(origin) \in Seq(U) /\ AreWritten(U)
    /\ Frames(F, Accepted(origin))

StreamIs ==
    about = "stream" =>
        \E U : \E F : SentAs(U, F) /\ Arrived(FlattenSeq(F), input, fate, intact)

LEMMA AllArrived ==
  ASSUME NEW full \in Wire
  PROVE  Arrived(full, full, "sent", Len(full))
BY NoBytesIsWire DEF Arrived

LEMMA ArrivedCut ==
  ASSUME NEW full, NEW in, NEW n, Arrived(full, in, "sent", n),
         NEW k \in Nat, k < Len(in)
  PROVE  Arrived(full, SubSeq(in, 1, k), "cut", k)
<1>1. PICK a \in Wire : \E b \in Wire : \E c \in Wire :
        full = a \bullet b /\ in = a \bullet c /\ b = NoBytes /\ c = NoBytes
  BY DEF Arrived
<1>2. full = a /\ in = a
  BY <1>1, NoBytesIsWire
<1>3. k <= Len(a) /\ Len(a) \in Nat
  BY <1>2, WireLen
<1>4. PICK s \in Wire, t \in Wire : Len(s) = k /\ a = s \bullet t
  BY <1>3, Divided
<1>5. SubSeq(a, 1, k) = s
  BY <1>4, Joined
<1>6. t # NoBytes
  BY <1>2, <1>4, NoBytesIsWire
<1>7. s = s \bullet NoBytes /\ NoBytes \in Wire
  BY NoBytesIsWire
<1> QED BY <1>2, <1>4, <1>5, <1>6, <1>7 DEF Arrived

LEMMA ArrivedDamaged ==
  ASSUME NEW full, NEW in, NEW n, Arrived(full, in, "sent", n),
         NEW k \in Nat, k <= Len(in), NEW p \in Wire, NEW u \in Wire
  PROVE  Arrived(full, SubSeq(in, 1, k) \o p \o u, "damaged", k)
<1>1. PICK a \in Wire : \E b \in Wire : \E c \in Wire :
        full = a \bullet b /\ in = a \bullet c /\ b = NoBytes /\ c = NoBytes
  BY DEF Arrived
<1>2. full = a /\ in = a
  BY <1>1, NoBytesIsWire
<1>3. PICK s \in Wire, t \in Wire : Len(s) = k /\ a = s \bullet t
  BY <1>2, Divided
<1>4. SubSeq(a, 1, k) = s
  BY <1>3, Joined
<1>5. SubSeq(in, 1, k) \o p \o u = s \bullet (p \bullet u) /\ p \bullet u \in Wire
  <2>1. SubSeq(in, 1, k) \o p \o u = (s \bullet p) \bullet u
    BY <1>2, <1>4 DEF \bullet
  <2>2. (s \bullet p) \bullet u = s \bullet (p \bullet u)
    BY <1>3, WireAssoc
  <2>3. p \bullet u \in Wire
    BY WireConcat
  <2> QED BY <2>1, <2>2, <2>3
<1> QED BY <1>2, <1>3, <1>5 DEF Arrived

LEMMA FrameAlone ==
  ASSUME NEW w, NEW m, IsFrame(w, m)
  PROVE  Frames(<<w>>, <<m>>) /\ FlattenSeq(<<w>>) = w /\ w \in Wire
<1>1. w \in Wire
  BY DEF IsFrame
<1>2. <<>> \in Seq(Wire) /\ <<>> \in Seq(Octet) /\ Len(<<>>) = 0
  BY EmptySeq
<1>3. <<w>> = More(<<>>, w)
  BY DEF More
<1>4. FlattenSeq(More(<<>>, w)) = FlattenSeq(<<>>) \bullet w
  BY <1>1, <1>2, FlattenMore DEF Wire
<1>5. FlattenSeq(<<>>) = NoBytes
  BY <1>2, FlattenNone
<1>6. <<w>> \in Seq(Wire) /\ Len(<<w>>) = 1 /\ Len(<<m>>) = 1
  BY <1>1
<1>7. Frames(<<w>>, <<m>>)
  <2>1. \A i \in 1..1 : i = 1
    OBVIOUS
  <2>2. <<w>>[1] = w /\ <<m>>[1] = m
    OBVIOUS
  <2>3. \A i \in 1..Len(<<m>>) : IsFrame(<<w>>[i], <<m>>[i])
    BY <1>6, <2>1, <2>2
  <2> QED BY <1>6, <2>3 DEF Frames
<1> QED BY <1>1, <1>3, <1>4, <1>5, <1>7, NoBytesIsWire

LEMMA StreamInit == Init => StreamIs
<1> SUFFICES ASSUME Init, about = "stream"
             PROVE  \E U : \E F : SentAs(U, F) /\ Arrived(FlattenSeq(F), input, fate, intact)
  BY DEF StreamIs
<1>1. /\ \/ origin \in Streams /\ input = OnTheWire(origin)
         \/ /\ origin \in Streams /\ Len(origin) = 1 /\ Accepted(origin) = origin
            /\ input = Framed(ToWire(Foreign(origin[1])).out)
      /\ fate = "sent" /\ intact = Len(input)
  BY DEF Init
<1> DEFINE V == ToSet(origin)
<1>2. origin \in Seq(V) /\ AreSound(V)
  <2>1. /\ origin \in Seq(ToSet(origin))
        /\ \A i \in DOMAIN origin : IsTyped(origin[i]) /\ IsMessage(origin[i])
    BY <1>1, ForeignInputAssumption
  <2> QED BY <2>1 DEF AreSound, ToSet
<1> HIDE DEF V
<1>3. Accepted(origin) \in Seq(Fit(V)) /\ OnTheWire(Accepted(origin)) = OnTheWire(origin)
  BY <1>2, AcceptedWritten
<1>4. AreWritten(Fit(V))
  BY <1>2, SoundAreWritten
<1>5. CASE input = OnTheWire(origin)
  <2> DEFINE M == Accepted(origin)
  <2> DEFINE F == Applied(Writing(Fit(V)), M)
  <2>1. Frames(F, M) /\ FlattenSeq(F) = OnTheWire(M)
    BY <1>2, <1>3, WrittenAreFrames
  <2>2. OnTheWire(M) \in Wire
    BY <1>3, <1>4, OnTheWireIs
  <2> HIDE DEF F
  <2>3. FlattenSeq(F) = input /\ input \in Wire
    BY <1>3, <1>5, <2>1, <2>2
  <2>4. Arrived(FlattenSeq(F), input, fate, intact)
    BY <1>1, <2>3, AllArrived
  <2>5. SentAs(Fit(V), F)
    BY <1>3, <1>4, <2>1 DEF SentAs
  <2> QED BY <2>4, <2>5
<1>6. CASE /\ Len(origin) = 1 /\ Accepted(origin) = origin
           /\ input = Framed(ToWire(Foreign(origin[1])).out)
  <2> DEFINE m == origin[1]
  <2> DEFINE w == Framed(ToWire(Foreign(m)).out)
  <2>1. origin \in Seq(Fit(V))
    BY <1>3, <1>6
  <2>2. m \in Fit(V) /\ origin = <<m>>
    <3>1. 1 \in 1..Len(origin)
      BY <1>6
    <3>2. origin[1] \in Fit(V)
      BY <2>1, <3>1, ElementOfSeq
    <3>3. <<m>> \in Seq(Fit(V)) /\ Len(<<m>>) = 1 /\ <<m>>[1] = m
      BY <3>2
    <3>4. \A i \in 1..Len(origin) : origin[i] = <<m>>[i]
      BY <1>6, <3>3
    <3>5. origin = <<m>>
      BY <1>6, <2>1, <3>3, <3>4, SeqEqual
    <3> QED BY <3>2, <3>5
  <2>3. IsTyped(m) /\ IsMessage(m) /\ Fits(ToWire(ToValue(m)))
    BY <1>2, <2>2 DEF Fit, AreSound
  <2> HIDE DEF m
  <2>4. IsFrame(w, m)
    BY <2>3, FramesWritten
  <2>5. input = w
    BY <1>6 DEF m
  <2> HIDE DEF w
  <2>6. Frames(<<w>>, <<m>>) /\ FlattenSeq(<<w>>) = w /\ w \in Wire
    BY <2>4, FrameAlone
  <2>7. Arrived(FlattenSeq(<<w>>), input, fate, intact)
    BY <1>1, <2>5, <2>6, AllArrived
  <2>8. Frames(<<w>>, Accepted(origin))
    BY <1>6, <2>2, <2>6
  <2>9. SentAs(Fit(V), <<w>>)
    BY <1>3, <1>4, <2>8 DEF SentAs
  <2> QED BY <2>7, <2>9
<1> QED BY <1>1, <1>5, <1>6

LEMMA StreamNext == StreamIs /\ [Next]_vars => StreamIs'
<1> SUFFICES ASSUME StreamIs, [Next]_vars PROVE StreamIs'
  OBVIOUS
<1>1. CASE UNCHANGED vars
  BY <1>1 DEF StreamIs, SentAs, vars
<1>2. ASSUME NEW n \in 0..Len(input), Cut(n), fate = "sent"
      PROVE  StreamIs'
  <2>1. /\ about' = about /\ origin' = origin /\ fate' = "cut" /\ input' = SubSeq(input, 1, n)
        /\ intact' = n /\ n < Len(input)
    BY <1>2 DEF Cut
  <2>2. ASSUME about = "stream", NEW U, NEW F, SentAs(U, F),
               Arrived(FlattenSeq(F), input, fate, intact)
        PROVE  SentAs(U, F)' /\ Arrived(FlattenSeq(F), input', fate', intact')
    <3>1. n \in Nat
      OBVIOUS
    <3>2. Arrived(FlattenSeq(F), SubSeq(input, 1, n), "cut", n)
      BY <1>2, <2>1, <2>2, <3>1, ArrivedCut
    <3>3. SentAs(U, F)'
      BY <2>1, <2>2 DEF SentAs
    <3> QED BY <2>1, <3>2, <3>3
  <2> QED BY <2>1, <2>2 DEF StreamIs
<1>3. ASSUME NEW i \in 1..(Len(input) + 1), NEW n \in 0..MaxDamage, NEW p \in Patches,
             Damage(i, n, p), fate = "sent"
      PROVE  StreamIs'
  <2>1. /\ about' = about /\ origin' = origin /\ fate' = "damaged" /\ intact' = i - 1
        /\ input' = SubSeq(input, 1, i - 1) \o p \o SubSeq(input, i + n, Len(input))
        /\ i + n <= Len(input) + 1
    BY <1>3 DEF Damage
  <2>2. ASSUME about = "stream", NEW U, NEW F, SentAs(U, F),
               Arrived(FlattenSeq(F), input, fate, intact)
        PROVE  SentAs(U, F)' /\ Arrived(FlattenSeq(F), input', fate', intact')
    <3>1. input \in Wire
      BY <2>2, WireConcat DEF Arrived
    <3>2. Len(input) \in Nat /\ MaxDamage \in Nat /\ \A j \in 1..Len(input) : input[j] \in Octet
      BY <3>1, LenProperties, ElementOfSeq, ForeignInputAssumption DEF Wire
    <3>3. i \in Nat /\ n \in Nat /\ i - 1 \in Nat /\ i - 1 <= Len(input) /\ i + n >= 1
      BY <3>2
    <3>4. SubSeq(input, i + n, Len(input)) \in Wire
      <4>1. \A j \in (i + n)..Len(input) : input[j] \in Octet
        BY <3>2, <3>3
      <4> HIDE DEF Octet
      <4> QED BY <3>2, <3>3, <4>1, SubSeqProperties DEF Wire
    <3>5. p \in Wire
      BY ForeignInputAssumption DEF Wire
    <3>6. Arrived(FlattenSeq(F), input, "sent", intact)
      BY <1>3, <2>2
    <3> DEFINE u == SubSeq(input, i + n, Len(input))
    <3> DEFINE k == i - 1
    <3>7. u \in Wire /\ k \in Nat /\ k <= Len(input)
      BY <3>3, <3>4
    <3> HIDE DEF u, k
    <3>8. Arrived(FlattenSeq(F), SubSeq(input, 1, k) \o p \o u, "damaged", k)
      BY <3>5, <3>6, <3>7, ArrivedDamaged
    <3>9. SentAs(U, F)'
      BY <2>1, <2>2 DEF SentAs
    <3> QED BY <2>1, <3>8, <3>9 DEF u, k
  <2> QED BY <2>1, <2>2 DEF StreamIs
<1>4. ASSUME NEW pair \in TablePairs, OtherTables(pair), about = "tables"
      PROVE  StreamIs'
  BY <1>4 DEF OtherTables, StreamIs
<1> QED BY <1>1, <1>2, <1>3, <1>4 DEF Next

\* n bytes hold the first k messages of M, and no more of them.
Holds(M, n, k) ==
    /\ k \in Nat /\ k <= Len(M) /\ Len(OnTheWire(First(M, k))) <= n
    /\ k < Len(M) => Len(OnTheWire(First(M, k + 1))) > n

LEMMA SomeAreHeld ==
  ASSUME NEW U, AreWritten(U), NEW M \in Seq(U), NEW n \in Nat
  PROVE  \E k : Holds(M, n, k)
<1> DEFINE L(k) == Len(OnTheWire(First(M, k)))
<1> DEFINE S == {k \in Nat : k <= Len(M) => L(k) <= n}
<1>1. Len(M) \in Nat
  BY LenProperties
<1>2. ASSUME NEW k \in Nat, k <= Len(M)
      PROVE  L(k) \in Nat
  <2>1. First(M, k) \in Seq(U)
    <3>1. CASE k < Len(M)
      BY <3>1, FirstMore
    <3>2. CASE k = Len(M)
      BY <3>2, FirstEnds
    <3> QED BY <1>1, <1>2, <3>1, <3>2
  <2> QED BY <2>1, OnTheWireIs, WireLen
<1>3. SUFFICES ASSUME ~\E k : Holds(M, n, k) PROVE FALSE
  OBVIOUS
<1>4. 0 \in S
  <2>1. OnTheWire(First(M, 0)) = <<>>
    BY FirstEnds, OnTheWireNone DEF NoBytes
  <2>2. L(0) = 0
    BY <2>1, EmptySeq
  <2> HIDE DEF L
  <2> QED BY <2>2
<1>5. ASSUME NEW k \in Nat, k \in S
      PROVE  k + 1 \in S
  <2>1. SUFFICES ASSUME k + 1 <= Len(M) PROVE L(k + 1) <= n
    OBVIOUS
  <2>2. k <= Len(M) /\ k < Len(M)
    BY <1>1, <2>1
  <2>3. L(k) <= n
    BY <1>5, <2>2
  <2>4. ~Holds(M, n, k)
    BY <1>3
  <2>5. ~(L(k + 1) > n)
    BY <2>2, <2>3, <2>4 DEF Holds
  <2>6. L(k + 1) \in Nat
    BY <1>2, <2>1
  <2> HIDE DEF L
  <2> QED BY <2>5, <2>6
<1> HIDE DEF S
<1>6. Nat \subseteq S
  BY <1>4, <1>5, SetInduction
<1>7. Len(M) \in S
  BY <1>1, <1>6
<1>8. L(Len(M)) <= n
  BY <1>1, <1>7 DEF S
<1>9. Holds(M, n, Len(M))
  BY <1>1, <1>8 DEF Holds
<1> QED BY <1>3, <1>9

\* What the reader of a stream finds when n bytes of it are as they were sent.
LEMMA HeldAreRead ==
  ASSUME NEW U, AreWritten(U), NEW M \in Seq(U), NEW F, Frames(F, M),
         NEW in, NEW how, NEW n, Arrived(FlattenSeq(F), in, how, n),
         NEW k, Holds(M, n, k)
  PROVE  \E W : \E q \in Seq(W) : \E e :
           /\ ReadAll(in) = Outcome(First(M, k) \o q, e)
           /\ how = "cut" => /\ q = <<>>
                             /\ e = "end" <=> Len(OnTheWire(First(M, k))) = n
<1> DEFINE full == FlattenSeq(F)
<1> DEFINE p == FlattenSeq(First(F, k))
<1> DEFINE N == First(M, k)
<1> DEFINE l == Len(OnTheWire(First(M, k)))
<1>1. k \in Nat /\ k <= Len(M) /\ l <= n
  BY DEF Holds
<1>2. F \in Seq(Wire) /\ Len(F) = Len(M) /\ Len(M) \in Nat
  BY LenProperties DEF Frames
<1>3. p \in Wire /\ Len(p) = l /\ ReadsFirst(p, N)
  BY <1>1, FirstFrames
<1>4. PICK a \in Wire, b \in Wire, c \in Wire :
        /\ full = a \bullet b /\ in = a \bullet c /\ Len(a) = n
        /\ how = "sent" => b = NoBytes /\ c = NoBytes
        /\ how = "cut" => b # NoBytes /\ c = NoBytes
  BY DEF Arrived
<1>5. PICK x \in Wire : full = p \bullet x
  BY <1>1, <1>2, FramesAfter
<1> HIDE DEF full, p, N, l
<1>6. PICK d \in Wire : a = p \bullet d /\ x = d \bullet b
  <2>1. a \bullet b = p \bullet x
    BY <1>4, <1>5
  <2>2. Len(p) <= Len(a)
    BY <1>1, <1>3, <1>4
  <2> QED BY <1>3, <2>1, <2>2, Overlap
<1> DEFINE t == d \bullet c
<1>7. in = p \bullet t /\ t \in Wire
  BY <1>3, <1>4, <1>6, WireAssoc, WireConcat
<1> HIDE DEF t
<1>8. PICK W : \E q \in Seq(W) : \E e : ReadAll(t) = Outcome(q, e)
  BY <1>7, ReadAllOutcome DEF IsOutcome
<1>9. PICK q \in Seq(W) : \E e : ReadAll(t) = Outcome(q, e)
  BY <1>8
<1>10. PICK e : ReadAll(t) = Outcome(q, e)
  BY <1>9
<1>11. ReadAll(in) = Outcome(N \o q, e)
  BY <1>3, <1>7, <1>10 DEF ReadsFirst
<1>12. ASSUME how = "cut"
       PROVE  q = <<>> /\ (e = "end" <=> l = n)
  <2>1. t = d /\ b # NoBytes
    BY <1>4, <1>12, NoBytesIsWire DEF t
  <2>2. k < Len(M)
    <3>1. SUFFICES ASSUME k = Len(M) PROVE FALSE
      BY <1>1, <1>2
    <3>2. p = full
      BY <1>2, <3>1, FirstEnds DEF p, full
    <3>3. full = full \bullet NoBytes /\ full \in Wire
      BY <1>3, <3>2, NoBytesIsWire
    <3>4. x = NoBytes
      <4>1. SubSeq(p \bullet x, Len(p) + 1, Len(p \bullet x)) = x
        BY <1>3, Joined
      <4>2. SubSeq(p \bullet NoBytes, Len(p) + 1, Len(p \bullet NoBytes)) = NoBytes
        BY <1>3, NoBytesIsWire, Joined
      <4> QED BY <1>5, <3>2, <3>3, <4>1, <4>2
    <3>5. Len(x) = 0 /\ Len(x) = Len(d) + Len(b) /\ Len(d) \in Nat /\ Len(b) \in Nat
      BY <1>6, <3>4, LengthOfJoined, EmptySeq DEF NoBytes
    <3>6. Len(b) = 0
      <4>1. \A i \in Nat, j \in Nat : i + j = 0 => j = 0
        OBVIOUS
      <4>2. Len(d) + Len(b) = 0
        BY <3>5
      <4> QED BY <3>5, <4>1, <4>2
    <3>7. b = <<>>
      BY <3>6, EmptySeq DEF Wire
    <3> QED BY <2>1, <3>7 DEF NoBytes
  <2> DEFINE w == F[k + 1]
  <2> DEFINE m == M[k + 1]
  <2>3. /\ w \in Wire /\ First(F, k + 1) = More(First(F, k), w) /\ k + 1 \in 1..Len(M)
        /\ First(F, k) \in Seq(Wire) /\ k + 1 \in Nat /\ k + 1 <= Len(M)
    BY <1>1, <1>2, <2>2, FirstMore
  <2>4. IsFrame(w, m)
    BY <2>3 DEF Frames
  <2>5. FlattenSeq(First(F, k + 1)) = p \bullet w
    BY <2>3, FlattenMore DEF p, Wire
  <2>6. PICK y \in Wire : full = FlattenSeq(First(F, k + 1)) \bullet y
    BY <1>2, <2>3, FramesAfter DEF full
  <2>7. Len(FlattenSeq(First(F, k + 1))) = Len(OnTheWire(First(M, k + 1)))
    BY <2>3, FirstFrames
  <2>8. Len(OnTheWire(First(M, k + 1))) > n
    BY <2>2 DEF Holds
  <2> HIDE DEF w, m
  <2>9. Len(p \bullet w) > n /\ Len(a) = n
    BY <1>4, <2>5, <2>7, <2>8
  <2>10. p \bullet w \in Wire /\ Len(p \bullet w) = Len(p) + Len(w) /\ Len(p) \in Nat
         /\ Len(w) \in Nat
    BY <1>3, <2>3, LengthOfJoined
  <2>11. Len(a) = Len(p) + Len(d) /\ Len(d) \in Nat /\ Len(a) \in Nat
    BY <1>3, <1>6, LengthOfJoined
  <2>12. (p \bullet w) \bullet y = a \bullet b /\ Len(a) <= Len(p \bullet w)
    BY <1>4, <2>5, <2>6, <2>9, <2>10, <2>11
  <2>13. PICK z \in Wire : p \bullet w = a \bullet z /\ b = z \bullet y
    BY <2>10, <2>12, Overlap
  <2>14. p \bullet w = p \bullet (d \bullet z) /\ d \bullet z \in Wire
    BY <1>3, <1>6, <2>13, WireAssoc, WireConcat
  <2>15. w = d \bullet z
    <3> DEFINE v == d \bullet z
    <3>1. v \in Wire /\ p \bullet w = p \bullet v
      BY <2>14
    <3> HIDE DEF v
    <3>2. SubSeq(p \bullet w, Len(p) + 1, Len(p \bullet w)) = w
      BY <1>3, <2>3, Joined
    <3>3. SubSeq(p \bullet v, Len(p) + 1, Len(p \bullet v)) = v
      BY <1>3, <3>1, Joined
    <3>4. w = v
      BY <3>1, <3>2, <3>3
    <3> QED BY <3>4 DEF v
  <2>16. z # NoBytes
    <3>1. SUFFICES ASSUME z = NoBytes PROVE FALSE
      OBVIOUS
    <3>2. p \bullet w = a
      BY <2>13, <3>1, NoBytesIsWire
    <3> QED BY <2>9, <2>11, <3>2
  <2>17. IsFrame(d \bullet z, m)
    BY <2>4, <2>15
  <2>18. /\ d = <<>> => ReadFrame(d).outcome = "end"
         /\ d # <<>> => ReadFrame(d).outcome = "invalid"
    BY <2>16, <2>17, FrameCut
  <2>19. ReadFrame(d).outcome # "message"
    BY <2>18
  <2>20. ReadAll(d) = Outcome(<<>>, ReadFrame(d).outcome)
    BY <2>19, ReadAllStep, ReadingIs
  <2>21. Outcome(q, e) = Outcome(<<>>, ReadFrame(d).outcome)
    BY <1>10, <2>1, <2>20
  <2>22. q = <<>> /\ e = ReadFrame(d).outcome
    BY <2>21 DEF Outcome
  <2>23. d = <<>> <=> Len(d) = 0
    BY EmptySeq DEF Wire
  <2>24. l = n <=> Len(d) = 0
    BY <1>3, <1>4, <2>10, <2>11
  <2>25. e = "end" <=> d = <<>>
    BY <2>18, <2>22
  <2> QED BY <2>22, <2>23, <2>24, <2>25
<1> QED BY <1>11, <1>12 DEF N, l

\* What is sent is read, message by message, and then the stream ends.
LEMMA SentIsRead ==
  ASSUME NEW U, AreWritten(U), NEW M \in Seq(U), NEW F, Frames(F, M),
         NEW in, NEW n, Arrived(FlattenSeq(F), in, "sent", n)
  PROVE  ReadAll(in) = Outcome(M, "end")
<1>1. PICK a \in Wire : FlattenSeq(F) = a \bullet NoBytes /\ in = a \bullet NoBytes
  BY DEF Arrived
<1>2. F \in Seq(Wire) /\ Len(F) = Len(M) /\ Len(M) \in Nat /\ Len(M) <= Len(M)
  BY LenProperties DEF Frames
<1>3. First(F, Len(M)) = F /\ First(M, Len(M)) = M
  BY <1>2, FirstEnds
<1>4. ReadsFirst(FlattenSeq(F), M)
  BY <1>2, <1>3, FirstFrames
<1>5. ReadAll(NoBytes) = Outcome(<<>>, "end")
  <2>1. ReadFrame(NoBytes).outcome = "end"
    BY ReadOutcomes DEF NoBytes, Ended
  <2> QED BY <2>1, NoBytesIsWire, ReadAllStep, ReadingIs
<1>6. <<>> \in Seq({})
  BY EmptySeq
<1>7. ReadAll(FlattenSeq(F) \bullet NoBytes) = Outcome(M \o <<>>, "end")
  BY <1>4, <1>5, <1>6, NoBytesIsWire DEF ReadsFirst
<1>8. M \o <<>> = M
  BY ConcatEmptySeq
<1>9. FlattenSeq(F) \bullet NoBytes = in
  BY <1>1, NoBytesIsWire
<1> QED BY <1>7, <1>8, <1>9

\* A prefix of a sequence that begins with the first k items of another.
LEMMA FirstOfJoined ==
  ASSUME NEW U, NEW M \in Seq(U), NEW k \in Nat, k <= Len(M), NEW W, NEW q \in Seq(W)
  PROVE  /\ Len(First(M, k) \o q) = k + Len(q) /\ Len(q) \in Nat
         /\ First(First(M, k) \o q, k) = First(M, k)
<1> DEFINE X == U \cup W
<1> DEFINE N == First(M, k)
<1>1. N \in Seq(U) /\ Len(N) = k
  <2>1. Len(M) \in Nat
    BY LenProperties
  <2>2. CASE k < Len(M)
    BY <2>2, FirstMore
  <2>3. CASE k = Len(M)
    BY <2>3, FirstEnds
  <2> QED BY <2>1, <2>2, <2>3
<1>2. N \in Seq(X) /\ q \in Seq(X)
  <2>1. U \subseteq X /\ W \subseteq X
    OBVIOUS
  <2> HIDE DEF X, N
  <2> QED BY <1>1, <2>1, SeqMonotonic
<1> HIDE DEF X, N
<1>3. Len(q) \in Nat
  BY LenProperties
<1> DEFINE u == N \o q
<1>4. /\ u \in Seq(X) /\ Len(u) = k + Len(q)
      /\ \A i \in 1..(k + Len(q)) : u[i] = IF i <= k THEN N[i] ELSE q[i - k]
  BY <1>1, <1>2, ConcatProperties
<1> HIDE DEF u
<1>5. First(u, k) \in Seq(X) /\ Len(First(u, k)) = k
      /\ \A i \in 1..k : First(u, k)[i] = u[i]
  <2>1. \A i \in 1..k : i \in 1..Len(u) /\ i \in 1..(k + Len(q)) /\ 1 + i - 1 = i
    BY <1>3, <1>4
  <2>2. \A i \in 1..k : u[i] \in X
    BY <1>4, <2>1, ElementOfSeq
  <2>3. /\ SubSeq(u, 1, k) \in Seq(X)
        /\ Len(SubSeq(u, 1, k)) = IF 1 <= k THEN k - 1 + 1 ELSE 0
        /\ \A i \in 1..(k - 1 + 1) : SubSeq(u, 1, k)[i] = u[1 + i - 1]
    BY <2>2, SubSeqProperties
  <2>4. Len(SubSeq(u, 1, k)) = k
    BY <2>3
  <2>5. k - 1 + 1 = k
    OBVIOUS
  <2> QED BY <2>1, <2>3, <2>4, <2>5 DEF First
<1>6. \A i \in 1..k : First(u, k)[i] = N[i]
  BY <1>3, <1>4, <1>5
<1>7. First(u, k) = N
  BY <1>1, <1>2, <1>5, <1>6, SeqEqual
<1> QED BY <1>3, <1>4, <1>7 DEF u, N

LEMMA StreamsKept == StreamIs => StreamKeepsMessages
<1> SUFFICES ASSUME StreamIs, about = "stream" PROVE StreamKeepsMessages
  BY DEF StreamKeepsMessages
<1> DEFINE M == Accepted(origin)
<1> DEFINE lengths == [k \in 0..Len(M) |-> Len(OnTheWire(SubSeq(M, 1, k)))]
<1> DEFINE Marks(k) == /\ lengths[k] <= intact
                       /\ k < Len(M) => lengths[k + 1] > intact
<1> DEFINE whole == CHOOSE k \in 0..Len(M) : Marks(k)
<1>1. PICK U : \E F : SentAs(U, F) /\ Arrived(FlattenSeq(F), input, fate, intact)
  BY DEF StreamIs
<1>2. PICK F : SentAs(U, F) /\ Arrived(FlattenSeq(F), input, fate, intact)
  BY <1>1
<1>3. M \in Seq(U) /\ AreWritten(U) /\ Frames(F, M)
  BY <1>2 DEF SentAs
<1>4. intact \in Nat
  BY <1>2, WireLen DEF Arrived
<1> HIDE DEF M
<1>5. Len(M) \in Nat
  BY <1>3, LenProperties
<1>6. ASSUME NEW k \in 0..Len(M)
      PROVE  Marks(k) <=> Holds(M, intact, k)
  <2>1. k \in Nat /\ k <= Len(M) /\ (k < Len(M) => k + 1 \in 0..Len(M))
    BY <1>5
  <2>2. lengths[k] = Len(OnTheWire(First(M, k)))
    BY DEF First
  <2>3. k < Len(M) => lengths[k + 1] = Len(OnTheWire(First(M, k + 1)))
    BY <2>1 DEF First
  <2> HIDE DEF lengths
  <2> QED BY <2>1, <2>2, <2>3 DEF Holds
<1>7. whole \in 0..Len(M) /\ Marks(whole)
  <2>1. PICK k : Holds(M, intact, k)
    BY <1>3, <1>4, SomeAreHeld
  <2>2. k \in 0..Len(M)
    BY <1>5, <2>1 DEF Holds
  <2>3. Marks(k)
    BY <1>6, <2>1, <2>2
  <2> HIDE DEF Marks
  <2> QED BY <2>2, <2>3
<1>8. Holds(M, intact, whole)
  <2> HIDE DEF Marks, whole
  <2> QED BY <1>6, <1>7
<1>9. lengths[whole] = Len(OnTheWire(First(M, whole)))
  <2> HIDE DEF whole
  <2> QED BY <1>7 DEF First
<1>10. whole \in Nat /\ whole <= Len(M)
  <2> HIDE DEF whole
  <2> QED BY <1>5, <1>7
<1> DEFINE read == ReadAll(input)
<1> HIDE DEF whole, lengths, Marks
<1>11. PICK W : \E q \in Seq(W) : \E e :
         /\ read = Outcome(First(M, whole) \o q, e)
         /\ fate = "cut" => /\ q = <<>>
                            /\ e = "end" <=> Len(OnTheWire(First(M, whole))) = intact
  BY <1>2, <1>3, <1>8, HeldAreRead
<1>12. PICK q \in Seq(W) : \E e :
         /\ read = Outcome(First(M, whole) \o q, e)
         /\ fate = "cut" => /\ q = <<>>
                            /\ e = "end" <=> Len(OnTheWire(First(M, whole))) = intact
  BY <1>11
<1>13. PICK e :
         /\ read = Outcome(First(M, whole) \o q, e)
         /\ fate = "cut" => /\ q = <<>>
                            /\ e = "end" <=> Len(OnTheWire(First(M, whole))) = intact
  BY <1>12
<1>14. fate = "sent" => read = Outcome(M, "end")
  BY <1>2, <1>3, SentIsRead
<1>15. read.messages = First(M, whole) \o q /\ read.end = e
  BY <1>13 DEF Outcome
<1> HIDE DEF read
<1>16. /\ Len(First(M, whole) \o q) = whole + Len(q) /\ Len(q) \in Nat
       /\ First(First(M, whole) \o q, whole) = First(M, whole)
  BY <1>3, <1>10, FirstOfJoined
<1>17. Len(read.messages) >= whole
  BY <1>10, <1>15, <1>16
<1>18. SubSeq(read.messages, 1, whole) = SubSeq(M, 1, whole)
  BY <1>15, <1>16 DEF First
<1>19. fate = "sent" => read = [messages |-> M, end |-> "end"]
  BY <1>14 DEF Outcome
<1>20. fate = "cut" => /\ Len(read.messages) = whole
                       /\ read.end = "end" <=> lengths[whole] = intact
  <2>1. SUFFICES ASSUME fate = "cut"
                 PROVE  /\ Len(read.messages) = whole
                        /\ read.end = "end" <=> lengths[whole] = intact
    OBVIOUS
  <2>2. Len(q) = 0
    BY <1>13, <2>1, EmptySeq
  <2>3. Len(read.messages) = whole
    BY <1>10, <1>15, <1>16, <2>2
  <2> QED BY <1>9, <1>13, <1>15, <2>1, <2>3
<1> QED BY <1>17, <1>18, <1>19, <1>20 DEF StreamKeepsMessages, M, read, whole, lengths, Marks

LEMMA FramesExact == StreamIs => FramesAreExact
<1> SUFFICES ASSUME StreamIs, about = "stream" PROVE FramesAreExact
  BY DEF FramesAreExact
<1>1. input \in Seq(Octet)
  <2>1. PICK U : \E F : SentAs(U, F) /\ Arrived(FlattenSeq(F), input, fate, intact)
    BY DEF StreamIs
  <2>2. PICK F : SentAs(U, F) /\ Arrived(FlattenSeq(F), input, fate, intact)
    BY <2>1
  <2>3. input \in Wire
    BY <2>2, WireConcat DEF Arrived
  <2> QED BY <2>3 DEF Wire
<1>2. ASSUME ReadFrame(input).outcome = "message"
      PROVE  LET read == ReadFrame(input)
                 again == WriteFrame(read.message)
             IN  /\ Len(again) = Len(input) - Len(read.rest)
                 /\ ReadFrame(again).message = read.message
  BY <1>1, <1>2, FramesReadExactly
<1> QED BY <1>2 DEF FramesAreExact

\* The invariant: what arrives of a stream begins with the intact bytes of
\* frames, one for each message that was accepted, however they were encoded;
\* nothing follows them when the stream was only cut.  (write_frame, and every
\* input of read_frame.)
THEOREM StreamKept == Spec => []StreamIs
BY StreamInit, StreamNext, PTL DEF Spec

\* In every behaviour a reader gets the messages whose frames are intact, in
\* order, whatever follows them; what was sent is read to its clean end; and a
\* stream that was cut ends cleanly only between two frames.  (write_frame,
\* read_frame.)
THEOREM StreamsAlwaysKept == Spec => []StreamKeepsMessages
BY StreamKept, StreamsKept, PTL

\* In every behaviour, whatever has been lost or damaged: a frame that is read
\* as a message is one that its own encoder would write in as many bytes.
\* (Message::from_wire, exact_map, Message::new.)
THEOREM FramesAlwaysExact == Spec => []FramesAreExact
BY StreamKept, FramesExact, PTL
=============================================================================
