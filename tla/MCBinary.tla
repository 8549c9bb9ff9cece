------------------------------ MODULE MCBinary ------------------------------
(***************************************************************************)
(* Bytes for the readers of the binary formats, with what they stand for   *)
(* in MessagePack and in CBOR, by a table of these formats.                *)
(***************************************************************************)
EXTENDS JsonBinary

Formats == {"msgpack", "cbor"}

Write(format, v) == IF format = "msgpack" THEN to_msgpack(v) ELSE to_cbor(v)

-----------------------------------------------------------------------------
\* The formats.

\* A number up to most is in the first byte, others in as many bytes after the
\* first one as these widths allow.
Form(fixed, most, first) == [fixed |-> fixed, most |-> most, first |-> first]

Wide(first) == [n \in Widths |-> first + Order[n]]

Forms ==
    [msgpack |-> [number |-> Form(0, 127, Wide(\hCC)),
                  string |-> Form(\hA0, 31, 1 :> \hD9 @@ 2 :> \hDA @@ 4 :> \hDB),
                  array |-> Form(\h90, 15, 2 :> \hDC @@ 4 :> \hDD),
                  object |-> Form(\h80, 15, 2 :> \hDE @@ 4 :> \hDF)],
     cbor |-> [number |-> Form(0, 23, Wide(\h18)), negative |-> Form(\h20, 23, Wide(\h38)),
               string |-> Form(\h60, 23, Wide(\h78)), array |-> Form(\h80, 23, Wide(\h98)),
               object |-> Form(\hA0, 23, Wide(\hB8))]]

Heads(form, w) ==
    {<<form.fixed + w[8]>> : n \in {n \in {w[8]} : Fits(w, 1) /\ n <= form.most}}
    \cup {<<form.first[n]>> \o SubSeq(w, 9 - n, 8) : n \in {n \in DOMAIN form.first : Fits(w, n)}}

Negatives(format, w) ==
    IF format = "cbor"
    THEN Heads(Forms.cbor.negative, Complement(w))
    ELSE {<<w[8]>> : n \in {n \in {w[8]} : FitsSigned(w, 1) /\ n \in 224 .. 255}}
         \cup {<<\hD0 + Order[n]>> \o SubSeq(w, 9 - n, 8) : n \in {n \in Widths : FitsSigned(w, n)}}

Constants ==
    [msgpack |-> Null :> <<\hC0>> @@ Value("boolean", FALSE) :> <<\hC2>>
                 @@ Value("boolean", TRUE) :> <<\hC3>>,
     cbor |-> Null :> <<\hF6>> @@ Value("boolean", FALSE) :> <<\hF4>>
              @@ Value("boolean", TRUE) :> <<\hF5>>]

\* Every sequence of bytes with one of each of sets.
RECURSIVE Sequences(_)
Sequences(sets) ==
    IF sets = <<>> THEN {<<>>} ELSE {s \o t : s \in Head(sets), t \in Sequences(Tail(sets))}

\* The container with these items, also in CBOR without its size.
Containers(format, type, size, items, unbounded) ==
    {h \o s : h \in Heads(Forms[format][type], Word(size)), s \in items}
    \cup {<<unbounded>> \o s \o <<\hFF>> : s \in IF format = "cbor" THEN items ELSE {}}

\* All that stands for v.
RECURSIVE Encodings(_, _)
Encodings(format, v) ==
    LET bounded(s) == {h \o s : h \in Heads(Forms[format]["string"], Word(Len(s)))}
    IN  CASE Type(v) \in {"number_unsigned", "number_integer"} ->
                IF Type(v) = "number_integer" /\ IsNegative(Data(v))
                THEN Negatives(format, Data(v))
                ELSE Heads(Forms[format]["number"], Data(v))
          [] Type(v) = "number_float" ->
                {<<IF format = "cbor" THEN \hFB ELSE \hCB>> \o Data(v)}
          [] Type(v) = "string" ->
                bounded(Data(v))
                \cup (IF format = "msgpack" THEN {} ELSE
                      {<<\h7F>> \o s \o <<\hFF>> :
                          s \in UNION {Sequences(<<bounded(SubSeq(Data(v), 1, i)),
                                                   bounded(SubSeq(Data(v), i + 1, Len(Data(v))))>>) :
                                         i \in 0 .. Len(Data(v))}})
          [] Type(v) = "array" ->
                Containers(format, "array", Len(Data(v)),
                           Sequences([i \in DOMAIN Data(v) |-> Encodings(format, Data(v)[i])]), \h9F)
          [] Type(v) = "object" ->
                LET keys == Keys(Data(v))
                IN  Containers(format, "object", Len(keys),
                               Sequences([i \in 1 .. 2 * Len(keys) |->
                                    LET key == keys[(i + 1) \div 2]
                                    IN  IF i % 2 = 1
                                        THEN Encodings(format, Value("string", key))
                                        ELSE Encodings(format, Data(v)[key])]), \hBF)
          [] OTHER -> {Constants[format][v]}

\* The first bytes that are not used.
Reserved ==
    [msgpack |-> {\hC1} \cup \hC4 .. \hC9 \cup \hD4 .. \hD8,
     cbor |-> \h1C .. \h1F \cup \h3C .. \h5F \cup \h7C .. \h7E \cup \h9C .. \h9E \cup \hBC .. \hBE
              \cup \hC0 .. \hF3 \cup {\hF7, \hF8} \cup \hFC .. \hFF]

\* IEEE 754, with so many bits for the exponent: a number is its sign and the
\* powers of two it is the sum of; no number has an exponent of ones.
Bit(bytes, i) == (bytes[i \div 8 + 1] \div 2 ^ (7 - (i % 8))) % 2

Exponent(bytes, size) == FoldLeft(LAMBDA n, i : 2 * n + Bit(bytes, i), 0, [i \in 1 .. size |-> i])

Number(bytes, size) ==
    LET exponent == Exponent(bytes, size)
        power == (IF exponent = 0 THEN 1 ELSE exponent) - (2 ^ (size - 1) - 1)
    IN  [neg |-> Bit(bytes, 0) = 1,
         powers |-> {power + size - i : i \in {i \in size + 1 .. 8 * Len(bytes) - 1 : Bit(bytes, i) = 1}}
                    \cup {p \in {power} : exponent # 0}]

-----------------------------------------------------------------------------
\* Values, at the limits of the widths.

Words ==
    {Widen(<<x>> \o [i \in 1 .. n |-> fill], 0) :
        x \in {0, 1, 127, 128, 255}, fill \in {0, 255}, n \in 0 .. 7}
    \cup {Word(n) : n \in 22 .. 33}

WordValues ==
    {Value(type, w) : type \in {"number_unsigned", "number_integer"}, w \in Words}
    \cup {Value("number_integer", Complement(w)) : w \in Words}

As(n) == [i \in 1 .. n |-> \h61]

Leaves ==
    {Null, Value("boolean", FALSE), Value("boolean", TRUE), Value("number_unsigned", Word(24)),
     Value("number_integer", Complement(Word(32))), Value("string", <<\hFF>>),
     Value("number_float", <<\h3F, \hF8, 0, 0, 0, 0, 0, 1>>)}

Arrays(items) == {Value("array", a) : a \in UNION {[1 .. n -> items] : n \in 0 .. 2}}

Objects(keys, items) ==
    {Value("object", o) : o \in UNION {[some -> items] : some \in SUBSET keys}}

\* What can be encoded in all ways.
Small ==
    WordValues \cup Leaves \cup Objects({<<\h62>>}, Leaves)
    \cup Arrays({Null, Value("number_unsigned", Word(24)), Value("string", <<\hFF>>)})

Nested ==
    Arrays(Leaves) \cup Objects({<<>>, <<\h62>>}, Leaves)
    \cup {Value("array", <<v, Null>>) : v \in Objects({<<>>}, Arrays(Leaves))}

Large ==
    {Value("string", As(n)) : n \in {15, 16, 23, 24, 31, 32, 255, 256, 65535, 65536}}
    \cup {Value("array", [i \in 1 .. n |-> Null]) : n \in {15, 16, 23, 24}}
    \cup {Value("object", [key \in {As(i) : i \in 1 .. n} |-> Null]) : n \in {15, 16, 23, 24}}

\* What is read: an integer that is not negative is unsigned, a double that is no
\* number is null.
RECURSIVE AsRead(_)
AsRead(v) ==
    CASE Type(v) = "array" -> Value("array", [i \in DOMAIN Data(v) |-> AsRead(Data(v)[i])])
      [] Type(v) = "object" -> Value("object", [k \in DOMAIN Data(v) |-> AsRead(Data(v)[k])])
      [] Type(v) = "number_integer" /\ ~IsNegative(Data(v)) -> Value("number_unsigned", Data(v))
      [] OTHER -> v

-----------------------------------------------------------------------------
Source(kind, format, bytes, v) ==
    [kind |-> kind, format |-> format, bytes |-> bytes, value |-> v]

Singles ==
    {<<\h80 * s + x \div 2, (x % 2) * 128 + b, c, c>> :
        s \in 0 .. 1, x \in {0, 1, 2, 127, 128, 254, 255}, b \in {0, 1, 64, 127}, c \in {0, 1, 255}}

BinarySources(format) ==
    {Source("written", format, Write(format, v), v) : v \in Small \cup Nested \cup Large}
    \cup UNION {{Source("cut", format, SubSeq(Write(format, v), 1, n), v) :
                    n \in 0 .. Len(Write(format, v)) - 1} : v \in Small \cup Nested}
    \cup UNION {{Source("encoded", format, s, v) : s \in Encodings(format, v)} : v \in Small}
    \cup {Source("first", format, <<b>> \o [i \in 1 .. 12 |-> 0], Null) : b \in 0 .. 255}
    \cup {Source("single", format, <<IF format = "cbor" THEN \hFA ELSE \hCA>> \o s, Null) :
            s \in Singles}
    \cup {Source("half", format, <<\hF9, x, y>>, Null) :
            x \in IF format = "cbor" THEN 0 .. 255 ELSE {}, y \in {0, 1, 127, 128, 255}}

\* result is what the bytes of source stand for: ...
IsRead(source, result) ==
    LET numbered(size) == Number(Tail(source.bytes), size)
        isNumber(size) ==
            IF Exponent(Tail(source.bytes), size) = 2 ^ size - 1
            THEN result.value = Null
            ELSE Type(result.value) = "number_float" /\ Number(Data(result.value), 11) = numbered(size)
    IN  \* ... what has been written, in one of the ways that the format allows, ...
        /\ source.kind \in {"written", "encoded"} =>
                result = Read(AsRead(source.value), Len(source.bytes) + 1)
        /\ source.kind = "written" /\ source.value \in Small =>
                source.bytes \in Encodings(source.format, source.value)
        \* ... a number, with fewer bits, ...
        /\ source.kind = "single" => isNumber(8)
        /\ source.kind = "half" => isNumber(5)
        \* ... or nothing.
        /\ source.kind = "cut" => result.status = "out_of_range"
        /\ source.kind = "first" =>
                (result.status = "invalid_argument" <=> source.bytes[1] \in Reserved[source.format])
=============================================================================
