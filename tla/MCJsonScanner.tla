---------------------------- MODULE MCJsonScanner ----------------------------
(* The buffers that JsonScanner is checked with. *)
EXTENDS JsonScanner

MCNoKey == <<>>
KeyA == <<"a">>
KeyB == <<"b", Quote>>      \* a key with an escape

Str(bytes) == [kind |-> "string", bytes |-> bytes]
Num == [kind |-> "number", bytes |-> <<"1">>]
Bool == [kind |-> "bool", bytes |-> <<"T">>]
NullValue == [kind |-> "null", bytes |-> <<"N">>]

\* {"}":[1]} and ["\"",{}]
Nested1 == [kind |-> "nested", bytes |-> <<"{", Quote, "}", Quote, ":", "[", "1", "]", "}">>]
Nested2 == [kind |-> "nested", bytes |-> <<"[", Quote, Backslash, Quote, Quote, ",", "{", "}", "]">>]

Values == {Str(<<>>), Str(<<"a">>), Str(<<Quote, "{">>), Str(<<"a", Backslash>>), Num, Bool, NullValue,
           Nested1, Nested2}

Object(fields) == [kind |-> "object", fields |-> fields]
Text(bytes) == [kind |-> "text", bytes |-> bytes]

One == {Object(<<[key |-> k, value |-> v]>>) : k \in {KeyA, KeyB}, v \in Values}

Two == {Object(<<[key |-> k1, value |-> v], [key |-> k2, value |-> w]>>) :
           k1, k2 \in {KeyA, KeyB}, v \in {NullValue, Nested1, Str(<<"a", Backslash>>)}, w \in {Num, Nested2}}

\* A repeated key in the second column.
Repeated == {Object(<<[key |-> KeyA, value |-> Num], [key |-> KeyB, value |-> v], [key |-> KeyB, value |-> w]>>) :
                v \in {NullValue, Num, Nested1}, w \in {Bool, Str(<<"a">>)}}

Texts == {Text(s) : s \in UNION {[1 .. n -> {Quote, Backslash, "{"}] : n \in 0 .. 3}}

PlainTexts == {Text(<<>>), Text(<<"a">>), Text(<<Backslash>>), Text(<<Quote, Quote>>)}

OpenInputs == {<<t, d>> : t \in Texts, d \in {Object(<<[key |-> KeyA, value |-> Nested2]>>)}}

RepeatedInputs == {<<d>> : d \in Repeated}

DocumentedInputs == OpenInputs \union RepeatedInputs

MCInputs ==
    {<<d>> : d \in One \union Two \union {Text(<<>>)}}
      \union RepeatedInputs
      \union {<<t, d>> : t \in PlainTexts, d \in One}
      \union {<<d, e>> : d \in Two, e \in {Object(<<[key |-> KeyA, value |-> Nested1]>>)}}
      \union OpenInputs

MCEndings == {<<Newline>>, <<Return, Newline>>}

MCConfigs == {
    [wanted |-> {KeyA, KeyB}, line_field |-> MCNoKey, predicate |-> MCNoKey],
    [wanted |-> {KeyA, KeyB}, line_field |-> KeyA, predicate |-> MCNoKey],
    [wanted |-> {KeyA}, line_field |-> MCNoKey, predicate |-> KeyB]}
=============================================================================
