------------------------------- MODULE MCJson -------------------------------
(***************************************************************************)
(* Payloads for prefixed_to_json(): those of values that are emitted, and  *)
(* texts that need not be JSON, each kind with a definition of what it     *)
(* should be read as, which owes nothing to the lexer or the parser.       *)
(* Beside them, the rest of json.hpp that turns values into something else *)
(* and back: the binary formats and the patches.                           *)
(***************************************************************************)
EXTENDS TypeSerializer

CONSTANTS
    MaxTokens,      \* bound: tokens of a text
    MaxNumber,      \* bound: characters of a number
    MaxBytes        \* bound: bytes of a string of any bytes

VARIABLE source     \* what the payload was made from

mcVars == <<serializerVars, source>>

Returned == pc = "returned"

\* The payload was read as v, ...
ReadAs(v) == errors = 0 /\ result = v

\* ... or refused: null, and the error handler is called once.
Refused == errors = 1 /\ result = Null

-----------------------------------------------------------------------------
\* Values.

Strings == {
    <<>>, <<\h61>>, <<\h22>>, <<\h5C>>, <<\h2F, \h5C, \h75>>, <<0, \h62>>, <<\h1E>>, <<\h1F>>,
    <<\h08, \h0C>>, <<\h7F, \hC3, \hA9>>, <<\hE2, \h82, \hAC>>, <<\hF0, \h9F, \h98, \h80>>,
    <<\h80>>, <<\hC3>>, <<\hED, \hA0, \h80>>}

Integers == {Value("number_unsigned", n) : n \in {0, 9, 10, MaxUnsigned}}
       \cup {Value("number_integer", n) : n \in {MinInteger, -10, -1, 0, 7}}

Floats == {Float(Decimal(neg, m, e)) : neg \in BOOLEAN, m \in {0, 5, 12, 999, 9996},
                                       e \in {-6, -4, -1, 0, 2, 3, MaxExponent}}

Scalars == {Value("string", s) : s \in Strings} \cup Integers \cup Floats
           \cup {Null, Value("boolean", TRUE), Value("boolean", FALSE)}

Few == {Value("string", <<\h22, \h1F>>), Value("number_integer", -10), Null}

Arrays(items) == {Value("array", a) : a \in UNION {[1 .. n -> items] : n \in 0 .. 2}}

Objects(items) ==
    {Value("object", o) : o \in UNION {[keys -> items] :
        keys \in SUBSET {<<>>, <<\h61>>, <<\h61, \h0A>>}}}

Values ==
    Scalars
    \cup Arrays(Few) \cup {Value("array", <<EmptyArray, v>>) : v \in Scalars}
    \cup Objects(Few) \cup Objects({EmptyArray, EmptyObject})
    \cup {Value("object", s :> Null) : s \in Strings}
    \cup Arrays(Objects({Null}))

\* A character of UTF-8: the shortest code of a code point but no surrogate.
IsCharacter(bytes) ==
    LET Tail6(i) == bytes[i] - \h80
        Tails == \A i \in 2 .. Len(bytes) : bytes[i] \in \h80 .. \hBF
    IN  \/ Len(bytes) = 1 /\ bytes[1] < \h80
        \/ Len(bytes) = 2 /\ Tails /\ bytes[1] \in \hC0 .. \hDF
             /\ (bytes[1] - \hC0) * 64 + Tail6(2) >= \h80
        \/ Len(bytes) = 3 /\ Tails /\ bytes[1] \in \hE0 .. \hEF
             /\ (bytes[1] - \hE0) * 4096 + Tail6(2) * 64 + Tail6(3)
                  \in \h800 .. \hFFFF \ \hD800 .. \hDFFF
        \/ Len(bytes) = 4 /\ Tails /\ bytes[1] \in \hF0 .. \hF7
             /\ (bytes[1] - \hF0) * 262144 + Tail6(2) * 4096 + Tail6(3) * 64 + Tail6(4)
                  \in \h10000 .. \h10FFFF

RECURSIVE IsUtf8(_)
IsUtf8(bytes) ==
    \/ bytes = <<>>
    \/ \E n \in 1 .. 4 \cap 1 .. Len(bytes) :
        IsCharacter(SubSeq(bytes, 1, n)) /\ IsUtf8(SubSeq(bytes, n + 1, Len(bytes)))

\* All strings in v are UTF-8.
RECURSIVE Readable(_)
Readable(v) ==
    CASE Type(v) = "array" -> \A i \in DOMAIN Data(v) : Readable(Data(v)[i])
      [] Type(v) = "object" -> \A k \in DOMAIN Data(v) : IsUtf8(k) /\ Readable(Data(v)[k])
      [] Type(v) = "string" -> IsUtf8(Data(v))
      [] OTHER -> TRUE

\* What is left of v: its type, but for the sign of integers, and of a double
\* the digits that are written.
RECURSIVE Kept(_)
Kept(v) ==
    CASE Type(v) = "array" -> Value("array", [i \in DOMAIN Data(v) |-> Kept(Data(v)[i])])
      [] Type(v) = "object" -> Value("object", [k \in DOMAIN Data(v) |-> Kept(Data(v)[k])])
      [] Type(v) = "number_integer" /\ Data(v) >= 0 -> Value("number_unsigned", Data(v))
      [] Type(v) = "number_float" -> Float(RoundTo(digits10, Data(v)))
      [] OTHER -> v

\* A value that is emitted reaches the callback with its type and its data, and
\* is refused as a whole if a string inside it is not UTF-8.  (EventWrapper,
\* to_prefixed_buffer, dump, prefixed_to_json)
RoundTrip ==
    Returned /\ source.kind = "value" =>
        IF Type(source.value) = "string" \/ Readable(source.value)
        THEN ReadAs(Kept(source.value))
        ELSE Refused

\* The payload of a value other than a string, and the auth data of a login,
\* hold no control character, so that no value can break a message apart.
\* (dump_escaped, MessageBuilder::add_argument)
PayloadIsOneArgument ==
    pc = "called" /\ source.kind = "value" =>
        /\ \A b \in ToSet(AuthPayload(source.value)) : b >= \h20
        /\ Type(source.value) # "string" => \A b \in ToSet(buffer) : b >= \h20

-----------------------------------------------------------------------------
\* Strings of any bytes, and of escapes.

Bounds == {\h1F, \h20, \h7F, \h80, \h8F, \h90, \h9F, \hA0, \hBF, \hC0, \hC1, \hC2, \hDF, \hE0,
           \hE1, \hEC, \hED, \hEE, \hEF, \hF0, \hF1, \hF3, \hF4, \hF5, \hFF}

ByteStrings ==
    UNION {[1 .. n -> Bounds] : n \in 0 .. MaxBytes}
    \cup {<<b>> \o s : b \in {\hF0, \hF1, \hF3, \hF4},
                       s \in [1 .. 3 -> {\h7F, \h80, \h8F, \h90, \hBF, \hC0}]}

Units == {0, \h1F, \h7F, \h80, \h7FF, \h800, \hD7FF, \hD800, \hDBFF, \hDC00, \hDFFF, \hE000,
          \hFFFF}

UnitEscape(c) ==
    Text(<<"\\", "u">>)
    \o [i \in 1 .. 4 |-> hexify((c \div <<4096, 256, 16, 1>>[i]) % 16)]

\* A piece of a string, with the UTF-16 units it stands for.
Pieces ==
    {[bytes |-> UnitEscape(c), units |-> <<c>>] : c \in Units}
    \cup {[bytes |-> Text(<<"\\", "n">>), units |-> <<\h0A>>],
          [bytes |-> Text(<<"a">>), units |-> <<\h61>>]}

IsPair(high, low) == high \in \hD800 .. \hDBFF /\ low \in \hDC00 .. \hDFFF

\* UTF-16: the code points of units, if they are no lone surrogates.
RECURSIVE Codes(_)
Codes(units) ==
    CASE units = <<>> -> Valid(<<>>)
      [] Len(units) > 1 /\ IsPair(units[1], units[2]) ->
            LET rest == Codes(SubSeq(units, 3, Len(units)))
                c == \h10000 + (units[1] - \hD800) * 1024 + (units[2] - \hDC00)
            IN  [rest EXCEPT !.bytes = <<c>> \o @]
      [] units # <<>> /\ units[1] \in \hD800 .. \hDFFF -> Invalid
      [] OTHER -> LET rest == Codes(Tail(units))
                  IN  [rest EXCEPT !.bytes = <<units[1]>> \o @]

\* UTF-8: the characters of bytes, each the code of one of codes.
RECURSIVE Spells(_, _)
Spells(bytes, codes) ==
    IF codes = <<>>
    THEN bytes = <<>>
    ELSE LET n == CASE codes[1] < \h80 -> 1 [] codes[1] < \h800 /\ codes[1] >= \h80 -> 2
                    [] codes[1] \in \h800 .. \hFFFF -> 3 [] OTHER -> 4
             first == SubSeq(bytes, 1, n)
             Low(i) == first[i] - \h80
         IN  /\ n <= Len(bytes) /\ IsCharacter(first)
             /\ codes[1] = CASE n = 1 -> first[1]
                             [] n = 2 -> (first[1] - \hC0) * 64 + Low(2)
                             [] n = 3 -> (first[1] - \hE0) * 4096 + Low(2) * 64 + Low(3)
                             [] n = 4 -> (first[1] - \hF0) * 262144 + Low(2) * 4096
                                         + Low(3) * 64 + Low(4)
             /\ Spells(SubSeq(bytes, n + 1, Len(bytes)), Tail(codes))

\* A string in a text is read as its bytes if they are UTF-8 without a control
\* character, and refused otherwise.  Escapes are read as the characters they
\* stand for in UTF-16, and refused if a surrogate is alone.
\* (scan, get_string, to_unicode)
StringsAreRead ==
    /\ Returned /\ source.kind = "bytes" =>
         IF IsUtf8(source.bytes) /\ \A i \in DOMAIN source.bytes : source.bytes[i] >= \h20
         THEN ReadAs(Value("array", <<Value("string", source.bytes)>>))
         ELSE Refused
    /\ Returned /\ source.kind = "escapes" =>
         LET codes == Codes(source.units)
         IN  IF codes.ok
             THEN /\ errors = 0
                  /\ Spells(Data(Data(result)[1]), codes.bytes)
             ELSE Refused

-----------------------------------------------------------------------------
\* Numbers.

NumberTexts ==
    UNION {[1 .. n -> {Ascii[c] : c \in {"-", "0", "1", "9", ".", "e", "+"}}] :
                   n \in 1 .. MaxNumber}
    \cup {Sign(neg) \o Digits(n) \o t : neg \in BOOLEAN,
              n \in {-MinInteger, 1 - MinInteger, MaxUnsigned, MaxUnsigned + 1, 99999},
              t \in {<<>>, Text(<<".", "0">>), Text(<<"E", "9">>), Text(<<"e", "-", "9", "9">>)}}

AllDigits(t) == t # <<>> /\ \A i \in DOMAIN t : IsDigit(t[i])

WholePart(t) == AllDigits(t) /\ (t[1] = Ascii["0"] => Len(t) = 1)

\* t is a number in JSON: the parts it consists of, one way or no way.
NumberParts(t) ==
    LET Part(i, j) == SubSeq(t, i, j)
        first == IF Is(t[1], "-") THEN 2 ELSE 1
        n == Len(t)
    IN  {<<Part(first, i), Part(i + 2, j), Part(k, n)>> :
            <<i, j, k>> \in {<<i, j, k>> \in (first .. n) \X (first .. n) \X (first + 1 .. n + 1) :
                /\ WholePart(Part(first, i))
                /\ \/ i = j
                   \/ i < j /\ Is(t[i + 1], ".") /\ AllDigits(Part(i + 2, j))
                /\ \/ j = n /\ k = n + 1
                   \/ /\ j < n /\ t[j + 1] \in {Ascii["e"], Ascii["E"]}
                      /\ \/ k = j + 2 /\ AllDigits(Part(k, n))
                         \/ k = j + 2 /\ k <= n /\ t[k] \in {Ascii["+"], Ascii["-"]}
                              /\ AllDigits(Part(k + 1, n))}}

\* Its value: exact if it is an integer that fits.
NumberValue(t, parts) ==
    LET neg == Is(t[1], "-")
        whole == Natural(parts[1])
        Signed(e) == CASE e = <<>> -> 0
                       [] e # <<>> /\ Is(e[1], "-") -> -Natural(Tail(e))
                       [] e # <<>> /\ Is(e[1], "+") -> Natural(Tail(e))
                       [] OTHER -> Natural(e)
        d == RoundTo(FloatDigits, Decimal(neg, Natural(parts[1] \o parts[2]),
                                          Signed(parts[3]) - Len(parts[2])))
    IN  CASE parts[2] = <<>> /\ parts[3] = <<>> /\ ~neg /\ whole <= MaxUnsigned ->
                Value("number_unsigned", whole)
          [] parts[2] = <<>> /\ parts[3] = <<>> /\ neg /\ -whole >= MinInteger ->
                Value("number_integer", -whole)
          [] d.mantissa # 0 /\ Magnitude(d) > MaxExponent -> Null
          [] d.mantissa # 0 /\ Magnitude(d) < -MaxExponent ->
                Value("number_float", Decimal(neg, 0, 0))
          [] OTHER -> Value("number_float", d)

\* A text is read as a number if it is one: as it is if it is an integer that
\* fits, as the nearest double if not, and as null if there is none.  (scan,
\* get_number)
NumbersAreRead ==
    Returned /\ source.kind = "number" =>
        LET ways == NumberParts(source.text)
        IN  IF ways = {}
            THEN Refused
            ELSE \A parts \in ways : ReadAs(NumberValue(source.text, parts))

-----------------------------------------------------------------------------
\* Texts of tokens.

TokenTexts ==
    "{" :> Text(<<"{">>) @@ "}" :> Text(<<"}">>) @@ "[" :> Text(<<"[">>)
    @@ "]" :> Text(<<"]">>) @@ "," :> Text(<<",">>) @@ ":" :> Text(<<":">>)
    @@ "key" :> Text(<<"\"", "a", "\"">>) @@ "one" :> Text(<<"1">>)
    @@ "null" :> Text(<<"n", "u", "l", "l">>)

\* Texts of JSON, with equal keys and with containers in containers.
Seeds == {
    <<"{", "key", ":", "one", ",", "key", ":", "null", "}">>,
    <<"[", "[", "]", ",", "{", "}", ",", "one", "]">>,
    <<"{", "key", ":", "[", "one", ",", "null", "]", "}">>}

\* With a token left out, put in or replaced.
Edits(tokens) ==
    {RemoveAt(tokens, i) : i \in DOMAIN tokens}
    \cup {InsertAt(tokens, i, t) : i \in DOMAIN tokens, t \in DOMAIN TokenTexts}
    \cup {ReplaceAt(tokens, i, t) : i \in DOMAIN tokens, t \in DOMAIN TokenTexts}

Tokens ==
    UNION {[1 .. n -> DOMAIN TokenTexts] : n \in 0 .. MaxTokens}
    \cup UNION {Edits(tokens) : tokens \in Seeds}

\* With whitespace between them.
TokensText(tokens) ==
    FlattenSeq([i \in DOMAIN tokens |-> TokenTexts[tokens[i]] \o <<IF i = 1 THEN \h20 ELSE \h0A>>])

\* The grammar of JSON: the values that tokens spell, one or none.
RECURSIVE Spelled(_), Elements(_), Members(_)
Spelled(tokens) ==
    LET inner == SubSeq(tokens, 2, Len(tokens) - 1)
    IN  CASE tokens = <<"key">> -> {Value("string", <<\h61>>)}
          [] tokens = <<"one">> -> {Value("number_unsigned", 1)}
          [] tokens = <<"null">> -> {Null}
          [] Len(tokens) > 1 /\ tokens[1] = "[" /\ Last(tokens) = "]" ->
                {Value("array", a) : a \in (IF inner = <<>> THEN {<<>>} ELSE Elements(inner))}
          [] Len(tokens) > 1 /\ tokens[1] = "{" /\ Last(tokens) = "}" ->
                {Value("object", o) : o \in (IF inner = <<>> THEN {<<>>} ELSE Members(inner))}
          [] OTHER -> {}

Elements(tokens) ==
    {<<v>> : v \in Spelled(tokens)}
    \cup UNION {{Append(a, v) : a \in Elements(SubSeq(tokens, 1, i - 1)),
                                v \in Spelled(SubSeq(tokens, i + 1, Len(tokens)))} :
                  i \in {i \in DOMAIN tokens : tokens[i] = ","}}

Member(tokens) ==
    IF Len(tokens) > 2 /\ tokens[1] = "key" /\ tokens[2] = ":"
    THEN {<<\h61>> :> v : v \in Spelled(SubSeq(tokens, 3, Len(tokens)))}
    ELSE {}

Members(tokens) ==
    Member(tokens)
    \cup UNION {{m @@ o : o \in Members(SubSeq(tokens, 1, i - 1)),
                          m \in Member(SubSeq(tokens, i + 1, Len(tokens)))} :
                  i \in {i \in DOMAIN tokens : tokens[i] = ","}}

\* A text is read as the value it spells in the grammar of JSON, and refused if
\* it spells none.  (parse, parse_internal)
TextsAreParsed ==
    Returned /\ source.kind = "tokens" =>
        LET spelled == Spelled(source.tokens)
        IN  IF spelled = {} THEN Refused ELSE \A v \in spelled : ReadAs(v)

-----------------------------------------------------------------------------
\* Binary formats and patches.

Binary == INSTANCE MCBinary

Patch == INSTANCE MCPatch

\* from_msgpack() and from_cbor()
ReadBinary ==
    /\ pc = "binary"
    /\ pc' = "returned"
    /\ result' = Binary!from(source.case.format, buffer, 1)
    /\ UNCHANGED <<lexVars, stack, buffer, errors>>

ApplyPatch ==
    /\ pc = "patch"
    /\ pc' = "returned"
    /\ result' = Patch!patch(source.case.value, source.case.operations)
    /\ UNCHANGED <<lexVars, stack, buffer, errors>>

\* What is written in MessagePack or CBOR is in the format and is read as it was,
\* every other encoding of it is read alike, a number of fewer bits is read as
\* the same number, and a beginning alone or an unused first byte is refused.
\* (to_msgpack, from_msgpack, to_cbor, from_cbor)
BinaryIsRead == Returned /\ source.kind = "binary" => Binary!IsRead(source.case, result)

\* "source.patch(diff(source, target)) == target" (json.hpp:12815); and an operation
\* at a place of a value, given by the string of its pointer, is done there and
\* nowhere else, or throws.  (patch, diff, json_pointer, operator==)
PatchMakesTarget == Returned /\ source.kind = "patch" => Patch!IsPatched(source.case, result)

-----------------------------------------------------------------------------
Wrapped(bytes) == Text(<<"[", "\"">>) \o bytes \o Text(<<"\"", "]">>)

MCInit ==
    /\ \/ \E v \in Values :
            /\ source = [kind |-> "value", value |-> v]
            /\ buffer = EmitPayload(v)
       \/ \E s \in ByteStrings :
            /\ source = [kind |-> "bytes", bytes |-> s]
            /\ buffer = <<PayloadType.OBJECT>> \o Wrapped(s)
       \/ \E n \in 1 .. 3 : \E p \in [1 .. n -> Pieces] :
            /\ source = [kind |-> "escapes", units |-> FlattenSeq([i \in 1 .. n |-> p[i].units])]
            /\ buffer = <<PayloadType.OBJECT>>
                        \o Wrapped(FlattenSeq([i \in 1 .. n |-> p[i].bytes]))
       \/ \E t \in NumberTexts :
            /\ source = [kind |-> "number", text |-> t]
            /\ buffer = <<PayloadType.NUMBER>> \o t
       \/ \E tokens \in Tokens :
            /\ source = [kind |-> "tokens", tokens |-> tokens]
            /\ buffer = <<PayloadType.OBJECT>> \o TokensText(tokens)
       \/ \E s \in UNION {[1 .. n -> {0, \h30, PayloadType.STRING, PayloadType.TRUE_,
                                      PayloadType.FALSE_, PayloadType.UNDEFINED}] : n \in 0 .. 2} :
            /\ source = [kind |-> "buffer"]
            /\ buffer = s
       \/ \E format \in Binary!Formats : \E bytes \in Binary!BinarySources(format) :
            /\ source = [kind |-> "binary", case |-> bytes]
            /\ buffer = bytes.bytes
       \/ \E case \in Patch!PatchCases :
            /\ source = [kind |-> "patch", case |-> case]
            /\ buffer = <<>>
    /\ IF source.kind \in {"binary", "patch"}
       THEN ParserInit(<<>>) /\ pc = source.kind /\ errors = 0
       ELSE SerializerInit

MCNext ==
    /\ SerializerNext \/ ReadBinary \/ ApplyPatch
    /\ UNCHANGED source

MCSpec == MCInit /\ [][MCNext]_mcVars
=============================================================================
