--------------------------- MODULE MCForeignInput ---------------------------
(* Instance of ForeignInput for TLC.  97 is "a", 98 is "b", 45 is "-", 46  *)
(* is "." and 32 is a space; 250 is the one double that is not finite.     *)
EXTENDS ForeignInput

a == <<97>>
NotFiniteInst == {250}
Codes == {<<97, 45, 98>>, <<98>>}

Simple == { <<Null, 0>>, <<Bool, 0>>, <<Bool, 1>>, <<Integer, -1>>, <<Integer, 127>>,
            <<Float, 63>>, <<Float, 250>>, <<String, <<>>>>, <<String, <<97, 32>>>>,
            <<Bytes, <<>>>>, <<Bytes, <<0, 200>>>>, <<Error, <<98>>>>,
            <<Handle, <<1, 127, <<97, 46, 98>>>>>>, <<Handle, <<2, 1, a>>>> }
Line(n) == <<String, [i \in 1..n |-> 97]>>
Nested(v) == <<Array, <<v>>>>
Many(n) == <<Array, [i \in 1..n |-> <<Null, 0>>]>>

\* Values at the limits and one beyond each.
ValuesInst == Simple \cup
    { Line(6), Line(7), <<Bytes, [i \in 1..20 |-> 0]>>, <<Bytes, [i \in 1..21 |-> 0]>>,
      <<Array, <<Line(6), Line(6), Line(6), Line(2)>>>>,
      <<Array, <<Line(6), Line(6), Line(6), Line(3)>>>>,
      Many(4), Many(5), <<Array, <<Many(4), Many(3)>>>>, <<Array, <<Many(3), Many(4), Many(0)>>>>,
      Nested(Nested(<<Null, 0>>)), Nested(Nested(Nested(<<Null, 0>>))),
      <<Map, << <<a, <<Integer, 5>>>>, <<<<98>>, <<Map, <<>>>>>> >> >>,
      <<Map, << <<a, <<Null, 0>>>>, <<a, <<Null, 0>>>> >> >> }

Msg(id, kind, fields) == [id |-> id, kind |-> kind, fields |-> fields]
Blob(n) == [i \in 1..n |-> i]

\* One message of every kind, and two that do not fit: the first a frame, the
\* second the limits of a value.
Samples == {
    Msg(1, "hello", <<>>), Msg(3, "load", <<a, <<98>>, 1, 127>>), Msg(127, "enable", <<>>),
    Msg(1, "invoke", <<a, <<>>, 0>>), Msg(5, "disable", <<>>), Msg(1, "shutdown", <<>>),
    Msg(1, "ok", <<>>), Msg(1, "result", <<Blob(3)>>),
    Msg(7, "error", <<<<97, 45, 98>>, <<97, 32>>>>), Msg(126, "bridgeInvoke", <<a, <<0>>>>),
    Msg(2, "retainHandle", <<1, 1>>), Msg(4, "releaseHandle", <<2, 127>>),
    Msg(2, "callbackResult", <<<<>>>>), Msg(2, "callbackError", <<a>>) }
Long == Msg(9, "invoke", <<a, Blob(10), 0>>)
Full == Msg(9, "result", <<Blob(15)>>)

Hello == Msg(1, "hello", <<>>)
Ok == Msg(1, "ok", <<>>)
StreamsInst == {<<m>> : m \in Samples} \cup {<<>>, <<Long>>, <<Full>>, <<Long, Ok>>, <<Ok, Full, Hello>>,
                <<Msg(3, "hello", <<>>), Msg(2, "callbackError", <<a>>), Ok>>}

Markers == {Null, Bool, Integer, String, Array, Map, Handle, Pair, Nil, False, True, Str32,
            3, 5, 97, 126, 255}
SomeNames == {Spelt["enable"], Spelt["retainHandle"], Spelt["kind"], Spelt["output"], Spelt["code"]}
\* A container of one entry more than none: a field nobody knows.
Unknown == <<1, Pair, Str32, 1, 97, Pair, Null, Nil>>
PatchesInst == {<<>>, Unknown, <<Pair, Null, Nil>>} \cup {<<b>> : b \in Markers} \cup SomeNames
=============================================================================
