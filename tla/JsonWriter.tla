----------------------------- MODULE JsonWriter -----------------------------
(***************************************************************************)
(* The serializer of json.hpp: the text of a value, without indentation,   *)
(* and what the constructors of json make of the application's numbers.    *)
(*                                                                         *)
(* A value is a pair of its value_t and its data: an object is a function  *)
(* from keys, which are byte sequences, to values, an array a sequence, a  *)
(* string its bytes.                                                       *)
(***************************************************************************)
EXTENDS JsonLexer

CONSTANT digits10   \* of a double: the decimal digits that are written

ASSUME digits10Assumption == digits10 \in 1 .. FloatDigits

Type(v) == v[1]
Data(v) == v[2]

\* external_constructor: there is no number that is not finite.
Float(d) == IF IsFinite(d) THEN Value("number_float", d) ELSE Null

-----------------------------------------------------------------------------
\* Strings.

Escapes ==
    \h22 :> "\"" @@ \h5C :> "\\" @@ \h08 :> "b" @@ \h0C :> "f" @@ \h0A :> "n"
    @@ \h0D :> "r" @@ \h09 :> "t"

\* The bytes that escaping c adds.
ExtraSpace(c) ==
    CASE c \in DOMAIN Escapes -> 1
      [] c \notin DOMAIN Escapes /\ c < \h20 -> 5
      [] OTHER -> 0

extra_space(s) == FoldLeft(LAMBDA n, c : n + ExtraSpace(c), 0, s)

hexify(n) == IF n < 10 THEN \h30 + n ELSE \h61 + n - 10

EscapedRaw(c) ==        \* without \u for the control characters
    IF c \in DOMAIN Escapes THEN Text(<<"\\", Escapes[c]>>) ELSE <<c>>

Escaped(c) ==
    CASE c \in DOMAIN Escapes -> Text(<<"\\", Escapes[c]>>)
      [] c \notin DOMAIN Escapes /\ c < \h20 ->
            Text(<<"\\", "u", "0", "0">>) \o <<hexify(c \div 16), hexify(c % 16)>>
      [] OTHER -> <<c>>

dump_escaped(s) ==
    IF extra_space(s) = 0 THEN s ELSE FlattenSeq([i \in DOMAIN s |-> Escaped(s[i])])

Quoted(s) == Text(<<"\"">>) \o dump_escaped(s) \o Text(<<"\"">>)

-----------------------------------------------------------------------------
\* Numbers.

Digits(n) ==
    [i \in 1 .. DecimalDigits(n) |-> \h30 + ((n \div 10 ^ (DecimalDigits(n) - i)) % 10)]

Zeros(n) == [i \in 1 .. n |-> \h30]

Sign(neg) == IF neg THEN Text(<<"-">>) ELSE <<>>

dump_integer(x) == Sign(x < 0) \o Digits(IF x < 0 THEN -x ELSE x)

\* snprintf("%.*g"): d in scientific ...
Scientific(d) ==
    LET all == Digits(d.mantissa)
        x == Magnitude(d)
        power == Digits(IF x < 0 THEN -x ELSE x)
    IN  <<all[1]>>
        \o (IF Len(all) > 1 THEN Text(<<".">>) \o Tail(all) ELSE <<>>)
        \o Text(<<"e", IF x < 0 THEN "-" ELSE "+">>)
        \o (IF Len(power) < 2 THEN Zeros(1) ELSE <<>>) \o power

\* ... or in fixed notation, ...
Fixed(d) ==
    LET all == Digits(d.mantissa)
        point == Len(all) + d.exponent      \* the digits before it
    IN  CASE d.exponent >= 0 -> all \o Zeros(d.exponent)
          [] d.exponent < 0 /\ point > 0 ->
                SubSeq(all, 1, point) \o Text(<<".">>) \o SubSeq(all, point + 1, Len(all))
          [] OTHER -> Text(<<"0", ".">>) \o Zeros(-point) \o all

\* ... whichever suits its magnitude.
snprintf_g(precision, x) ==
    LET d == RoundTo(precision, x)
    IN  Sign(d.neg) \o IF Magnitude(d) \in -4 .. precision - 1 THEN Fixed(d) ELSE Scientific(d)

value_is_int_like(text) == \A i \in DOMAIN text : ~Is(text[i], ".") /\ ~Is(text[i], "e")

dump_float_bare(x) ==       \* without the ".0" of an integral value
    IF x.mantissa = 0
    THEN Sign(x.neg) \o Text(<<"0", ".", "0">>)
    ELSE snprintf_g(digits10, x)

dump_float(x) ==
    LET text == snprintf_g(digits10, x)
    IN  CASE x.mantissa = 0 -> Sign(x.neg) \o Text(<<"0", ".", "0">>)
          [] x.mantissa # 0 /\ value_is_int_like(text) -> text \o Text(<<".", "0">>)
          [] OTHER -> text

-----------------------------------------------------------------------------
\* Values.

\* The order of the keys in std::map.
Before(a, b) ==
    \/ Len(a) < Len(b) /\ a = SubSeq(b, 1, Len(a))
    \/ \E i \in DOMAIN a \cap DOMAIN b :
        a[i] < b[i] /\ SubSeq(a, 1, i - 1) = SubSeq(b, 1, i - 1)

Keys(o) == SortSeq(FoldSet(LAMBDA key, keys : Append(keys, key), <<>>, DOMAIN o), Before)

Separated(texts) ==
    FlattenSeq([i \in DOMAIN texts |-> IF i = 1 THEN texts[i] ELSE Text(<<",">>) \o texts[i]])

dump_scalar(v) ==
    CASE Type(v) = "string" -> Quoted(Data(v))
      [] Type(v) = "boolean" -> IF Data(v) THEN Text(<<"t", "r", "u", "e">>)
                                           ELSE Text(<<"f", "a", "l", "s", "e">>)
      [] Type(v) \in {"number_integer", "number_unsigned"} -> dump_integer(Data(v))
      [] Type(v) = "number_float" -> dump_float(Data(v))
      [] Type(v) = "null" -> Text(<<"n", "u", "l", "l">>)

\* texts are those of the values.
dump_object(keys, texts) ==
    Text(<<"{">>)
    \o Separated([i \in DOMAIN keys |-> Quoted(keys[i]) \o Text(<<":">>) \o texts[i]])
    \o Text(<<"}">>)

dump_array(texts) == Text(<<"[">>) \o Separated(texts) \o Text(<<"]">>)

RECURSIVE dump(_)
dump(v) ==
    LET keys == Keys(Data(v))
    IN  CASE Type(v) = "object" ->
                dump_object(keys, [i \in DOMAIN keys |-> dump(Data(v)[keys[i]])])
          [] Type(v) = "array" -> dump_array([i \in DOMAIN Data(v) |-> dump(Data(v)[i])])
          [] OTHER -> dump_scalar(v)
=============================================================================
