----------------------------- MODULE JsonLexer ------------------------------
(***************************************************************************)
(* The lexer of json.hpp, the JSON library of the client: the texts that   *)
(* it takes for a token, and the strings and numbers that these stand for. *)
(*                                                                         *)
(* A byte is a number and a text a sequence of bytes.  The scanner of      *)
(* json.hpp is an automaton in goto form, made by re2c: its labels are the *)
(* states here, ...Next(s, b) is where byte b leads from a state of one    *)
(* kind, and "stop" is nowhere.  It takes the longest text that ends in an *)
(* accepting state.                                                        *)
(*                                                                         *)
(* The numbers are narrower than in the library, by the constants.  A      *)
(* double is a decimal with a limited number of digits, mantissa * 10 ^    *)
(* exponent, whose mantissa does not end in 0.                             *)
(***************************************************************************)
EXTENDS SequencesExt

CONSTANTS
    MaxUnsigned,    \* the largest number_unsigned_t
    MaxNegative,    \* the largest n such that -n is a number_integer_t
    FloatDigits,    \* the decimal digits that tell two doubles apart
    MaxExponent     \* of a double

ASSUME NumbersAssumption ==
    /\ MaxUnsigned \in Nat /\ FloatDigits \in Nat \ {0} /\ MaxExponent \in Nat
    /\ MaxNegative \in Nat \ {0}

MinInteger == -MaxNegative

Ascii ==
    "\"" :> \h22 @@ "+" :> \h2B @@ "," :> \h2C @@ "-" :> \h2D @@ "." :> \h2E
    @@ "/" :> \h2F @@ "0" :> \h30 @@ "1" :> \h31 @@ "9" :> \h39 @@ ":" :> \h3A
    @@ "A" :> \h41 @@ "E" :> \h45 @@ "F" :> \h46 @@ "[" :> \h5B @@ "\\" :> \h5C
    @@ "]" :> \h5D @@ "a" :> \h61 @@ "b" :> \h62 @@ "e" :> \h65 @@ "f" :> \h66
    @@ "l" :> \h6C @@ "n" :> \h6E @@ "r" :> \h72 @@ "s" :> \h73 @@ "t" :> \h74
    @@ "u" :> \h75 @@ "{" :> \h7B @@ "}" :> \h7D

\* The bytes of a tuple of characters.
Text(characters) == [i \in DOMAIN characters |-> Ascii[characters[i]]]

Is(b, character) == b = Ascii[character]

IsDigit(b) == b \in \h30 .. \h39

\* After the text come the NUL and the padding of fill_line_buffer().
ByteAt(text, i) == IF i \in DOMAIN text THEN text[i] ELSE 0

-----------------------------------------------------------------------------
\* The automaton: strings.

StringNext(b) ==
    CASE b < \h20 -> "stop"
      [] Is(b, "\"") -> "quote"
      [] Is(b, "\\") -> "escape"
      [] b < \h80 -> "string"
      [] b \in \hC2 .. \hDF -> "tail1"
      [] b = \hE0 -> "E0"
      [] b = \hED -> "ED"
      [] b \in \hE1 .. \hEF \ {\hED} -> "tail2"
      [] b = \hF0 -> "F0"
      [] b \in \hF1 .. \hF3 -> "tail3"
      [] b = \hF4 -> "F4"
      [] OTHER -> "stop"

\* The bytes of a character after the first.
TailNextLoose(s, b) ==      \* takes surrogates for characters
    CASE s = "tail1" /\ b \in \h80 .. \hBF -> "string"
      [] s = "E0" /\ b \in \hA0 .. \hBF -> "tail1"
      [] s \in {"tail2", "ED"} /\ b \in \h80 .. \hBF -> "tail1"
      [] s = "F0" /\ b \in \h90 .. \hBF -> "tail2"
      [] s = "tail3" /\ b \in \h80 .. \hBF -> "tail2"
      [] s = "F4" /\ b \in \h80 .. \h8F -> "tail2"
      [] OTHER -> "stop"

TailNext(s, b) ==
    CASE s = "tail1" /\ b \in \h80 .. \hBF -> "string"
      [] s = "E0" /\ b \in \hA0 .. \hBF -> "tail1"
      [] s = "tail2" /\ b \in \h80 .. \hBF -> "tail1"
      [] s = "ED" /\ b \in \h80 .. \h9F -> "tail1"
      [] s = "F0" /\ b \in \h90 .. \hBF -> "tail2"
      [] s = "tail3" /\ b \in \h80 .. \hBF -> "tail2"
      [] s = "F4" /\ b \in \h80 .. \h8F -> "tail2"
      [] OTHER -> "stop"

EscapeNext(b) ==
    CASE Is(b, "u") -> "u"
      [] b \in ToSet(Text(<<"\"", "/", "\\", "b", "f", "n", "r", "t">>)) -> "string"
      [] OTHER -> "stop"

HexDigits == \h30 .. \h39 \cup \h41 .. \h46 \cup \h61 .. \h66

FirstHexNext(b) == IF b \in HexDigits THEN "u1" ELSE "stop"

LaterHexNext(s, b) ==
    CASE b \notin HexDigits -> "stop"
      [] s = "u1" -> "u2"
      [] s = "u2" -> "u3"

LastHexNext(b) == IF b \in HexDigits THEN "string" ELSE "stop"

-----------------------------------------------------------------------------
\* The automaton: numbers.  States that begin with "-" are of negative ones.

MinusNext(b) ==
    CASE Is(b, "0") -> "-zero"
      [] IsDigit(b) -> "-digits"
      [] OTHER -> "stop"

\* What may follow the digits of an integer.
IntegerEnds(b) ==
    CASE Is(b, ".") -> "dot"
      [] Is(b, "e") \/ Is(b, "E") -> "exponent"
      [] OTHER -> "stop"

ZeroNext(b) == IF IsDigit(b) THEN "leading zero" ELSE IntegerEnds(b)

DigitsNext(b) == IF IsDigit(b) THEN "digits" ELSE IntegerEnds(b)

NegativeNext(s, b) ==
    CASE ~IsDigit(b) -> IntegerEnds(b)
      [] s = "-zero" -> "leading zero"
      [] s = "-digits" -> "-digits"

DotNext(b) == IF IsDigit(b) THEN "fraction" ELSE "stop"

LeadingZeroNext(b) == IF IsDigit(b) THEN "leading zero" ELSE "stop"

FractionNext(b) ==
    CASE IsDigit(b) -> "fraction"
      [] Is(b, "e") \/ Is(b, "E") -> "exponent"
      [] OTHER -> "stop"

ExponentNext(b) ==
    CASE Is(b, "+") \/ Is(b, "-") -> "exponent sign"
      [] IsDigit(b) -> "exponent digits"
      [] OTHER -> "stop"

ExponentDigitsNext(b) == IF IsDigit(b) THEN "exponent digits" ELSE "stop"

-----------------------------------------------------------------------------
\* The automaton: literals, and the whole of it.

SecondLetter(s, b) ==
    CASE s = "f" /\ Is(b, "a") -> "fa"
      [] s = "n" /\ Is(b, "u") -> "nu"
      [] s = "t" /\ Is(b, "r") -> "tr"
      [] OTHER -> "stop"

ThirdLetter(s, b) ==
    CASE s = "fa" /\ Is(b, "l") -> "fal"
      [] s = "nu" /\ Is(b, "l") -> "nul"
      [] s = "tr" /\ Is(b, "u") -> "tru"
      [] OTHER -> "stop"

FourthLetter(s, b) ==
    CASE s = "fal" /\ Is(b, "s") -> "fals"
      [] s = "nul" /\ Is(b, "l") -> "null"
      [] s = "tru" /\ Is(b, "e") -> "true"
      [] OTHER -> "stop"

FifthLetter(b) == IF Is(b, "e") THEN "false" ELSE "stop"

Punctuation == {",", ":", "[", "]", "{", "}"}

FirstNext(b) ==
    CASE b = 0 -> "NUL"
      [] \E c \in Punctuation \cup {"f", "n", "t"} : Is(b, c) ->
            CHOOSE c \in Punctuation \cup {"f", "n", "t"} : Is(b, c)
      [] Is(b, "\"") -> "string"
      [] Is(b, "-") -> "minus"
      [] Is(b, "0") -> "zero"
      [] b \in \h31 .. \h39 -> "digits"
      [] OTHER -> "stop"

Goto(s, b) ==
    CASE s = "first" -> FirstNext(b)
      [] s = "string" -> StringNext(b)
      [] s \in {"tail1", "tail2", "tail3", "E0", "ED", "F0", "F4"} -> TailNext(s, b)
      [] s = "escape" -> EscapeNext(b)
      [] s = "u" -> FirstHexNext(b)
      [] s \in {"u1", "u2"} -> LaterHexNext(s, b)
      [] s = "u3" -> LastHexNext(b)
      [] s = "minus" -> MinusNext(b)
      [] s = "zero" -> ZeroNext(b)
      [] s = "digits" -> DigitsNext(b)
      [] s \in {"-zero", "-digits"} -> NegativeNext(s, b)
      [] s = "dot" -> DotNext(b)
      [] s = "leading zero" -> LeadingZeroNext(b)
      [] s = "fraction" -> FractionNext(b)
      [] s = "exponent" -> ExponentNext(b)
      [] s \in {"exponent sign", "exponent digits"} -> ExponentDigitsNext(b)
      [] s \in {"f", "n", "t"} -> SecondLetter(s, b)
      [] s \in {"fa", "nu", "tr"} -> ThirdLetter(s, b)
      [] s \in {"fal", "nul", "tru"} -> FourthLetter(s, b)
      [] s = "fals" -> FifthLetter(b)
      [] OTHER -> "stop"

\* The token_type of what ends in an accepting state.
Accepting ==
    "NUL" :> "end_of_input" @@ "quote" :> "value_string" @@ "leading zero" :> "parse_error"
    @@ "zero" :> "value_unsigned" @@ "digits" :> "value_unsigned"
    @@ "-zero" :> "value_integer" @@ "-digits" :> "value_integer"
    @@ "fraction" :> "value_float" @@ "exponent digits" :> "value_float"
    @@ "null" :> "literal_null" @@ "true" :> "literal_true" @@ "false" :> "literal_false"
    @@ "[" :> "begin_array" @@ "]" :> "end_array" @@ "{" :> "begin_object"
    @@ "}" :> "end_object" @@ ":" :> "name_separator" @@ "," :> "value_separator"

token_type == {Accepting[s] : s \in DOMAIN Accepting}

Whitespace == {\h09, \h0A, \h0D, \h20}

\* Where the token at or after text[i] begins.
SkipWhitespace(text, i) ==
    CHOOSE j \in i .. Len(text) + 1 :
        /\ ByteAt(text, j) \notin Whitespace
        /\ \A k \in i .. j - 1 : text[k] \in Whitespace

\* One step of the automaton; an accepting state is the place to come back to.
Follow(run, b) ==
    LET s == Goto(run.state, b)
    IN  CASE run.state = "stop" -> run
          [] run.state # "stop" /\ s \in DOMAIN Accepting ->
                [state |-> s, size |-> run.size + 1,
                 token |-> Accepting[s], marker |-> run.size + 1]
          [] OTHER -> [run EXCEPT !.state = s, !.size = @ + 1]

Fresh == [state |-> "first", size |-> 0, token |-> "parse_error", marker |-> 1]

\* The next token of text from text[i] on: text[start .. cursor - 1].
scan(text, i) ==
    LET start == SkipWhitespace(text, i)
        run[k \in start - 1 .. Len(text) + 1] ==
            IF k < start THEN Fresh ELSE Follow(run[k - 1], ByteAt(text, k))
        end == run[Len(text) + 1]
    IN  [token |-> end.token, start |-> start, cursor |-> start + end.marker]

-----------------------------------------------------------------------------
\* Strings.

\* A function that throws std::invalid_argument returns Invalid.
Invalid == [ok |-> FALSE, bytes |-> <<>>]
Valid(bytes) == [ok |-> TRUE, bytes |-> bytes]

\* A byte after the first of a character: six bits of its code point.
Continuation(c, unit) == \h80 + ((c \div unit) % 64)

\* to_unicode(), for one code point ...
Encode(c) ==
    CASE c < \h80 -> <<c>>
      [] c \in \h80 .. \h7FF -> <<\hC0 + c \div 64, Continuation(c, 1)>>
      [] c \in \h800 .. \hFFFF ->
            <<\hE0 + c \div 4096, Continuation(c, 64), Continuation(c, 1)>>
      [] c > \hFFFF ->
            <<\hF0 + c \div 262144, Continuation(c, 4096), Continuation(c, 64), Continuation(c, 1)>>

IsHigh(c) == c \in \hD800 .. \hDBFF
IsLow(c) == c \in \hDC00 .. \hDFFF

\* ... and for a pair of surrogates.
to_unicode(c1, c2) ==
    CASE ~IsHigh(c1) -> Valid(Encode(c1))
      [] IsHigh(c1) /\ IsLow(c2) -> Valid(Encode(c1 * 1024 + c2 - \h35FDC00))
      [] OTHER -> Invalid

HexValue(b) ==
    CASE IsDigit(b) -> b - \h30
      [] b \in \h41 .. \h46 -> b - \h41 + 10
      [] b \in \h61 .. \h66 -> b - \h61 + 10

\* strtoul() of four hexadecimal digits
Codepoint(text, i) ==
    4096 * HexValue(text[i]) + 256 * HexValue(text[i + 1])
    + 16 * HexValue(text[i + 2]) + HexValue(text[i + 3])

\* What an escape other than \u stands for.
Unescape(b) ==
    CASE Is(b, "t") -> \h09
      [] Is(b, "b") -> \h08
      [] Is(b, "f") -> \h0C
      [] Is(b, "n") -> \h0A
      [] Is(b, "r") -> \h0D
      [] OTHER -> b

\* The escape at text[i], which is a backslash.
EscapeAt(text, i) ==
    LET c == Codepoint(text, i + 2)
    IN  CASE ~Is(text[i + 1], "u") -> Valid(<<Unescape(text[i + 1])>>)
          [] Is(text[i + 1], "u") /\ IsHigh(c) ->
                IF Is(text[i + 6], "\\") /\ Is(text[i + 7], "u")
                THEN to_unicode(c, Codepoint(text, i + 8))
                ELSE Invalid
          [] Is(text[i + 1], "u") /\ IsLow(c) -> Invalid
          [] OTHER -> to_unicode(c, 0)

EscapeSize(text, i) ==
    CASE ~Is(text[i + 1], "u") -> 2
      [] Is(text[i + 1], "u") /\ IsHigh(Codepoint(text, i + 2)) -> 12
      [] OTHER -> 6

\* get_string() of a string token, its quotes included
get_string(text) ==
    LET from[i \in 2 .. Len(text)] ==      \* the string that text[i] begins
            LET e == IF Is(text[i], "\\") THEN EscapeAt(text, i) ELSE Valid(<<text[i]>>)
                size == IF Is(text[i], "\\") THEN EscapeSize(text, i) ELSE 1
            IN  CASE i = Len(text) -> Valid(<<>>)
                  [] i < Len(text) /\ e.ok -> [from[i + size] EXCEPT !.bytes = e.bytes \o @]
                  [] OTHER -> Invalid
    IN  from[2]

-----------------------------------------------------------------------------
\* Numbers.

Value(type, data) == <<type, data>>
Null == Value("null", 0)

DecimalDigits(n) == CHOOSE d \in 1 .. 10 : n < 10 ^ d /\ (d = 1 \/ n >= 10 ^ (d - 1))

Decimal(neg, mantissa, exponent) ==
    LET zeros == CHOOSE k \in 0 .. 9 : /\ mantissa % 10 ^ k = 0
                                       /\ mantissa % 10 ^ (k + 1) # 0
    IN  IF mantissa = 0
        THEN [neg |-> neg, mantissa |-> 0, exponent |-> 0]
        ELSE [neg |-> neg, mantissa |-> mantissa \div 10 ^ zeros,
              exponent |-> exponent + zeros]

\* d with no more than n digits
RoundTo(n, d) ==
    LET k == DecimalDigits(d.mantissa) - n
    IN  IF k <= 0
        THEN d
        ELSE Decimal(d.neg, (d.mantissa + 5 * 10 ^ (k - 1)) \div 10 ^ k, d.exponent + k)

\* The exponent of d in scientific notation.
Magnitude(d) == d.exponent + DecimalDigits(d.mantissa) - 1

Natural(digits) == FoldLeft(LAMBDA n, b : 10 * n + (b - \h30), 0, digits)

\* strtoll() and strtoull(), before they look at the range
strtoll(text) ==
    IF Is(text[1], "-") THEN -Natural(Tail(text)) ELSE Natural(text)

\* The decimal a number token is written as.
Denotes(text) ==
    LET neg == Is(text[1], "-")
        first == IF neg THEN 2 ELSE 1
        e == SelectInSeq(text, LAMBDA b : Is(b, "e") \/ Is(b, "E"))
        end == IF e = 0 THEN Len(text) ELSE e - 1
        dot == SelectInSeq(text, LAMBDA b : Is(b, "."))
        whole == IF dot = 0 THEN end ELSE dot - 1
        fraction == IF dot = 0 THEN <<>> ELSE SubSeq(text, dot + 1, end)
        power == IF e = 0 THEN <<>> ELSE SubSeq(text, e + 1, Len(text))
        exponent == CASE power = <<>> -> 0
                      [] power # <<>> /\ Is(power[1], "+") -> Natural(Tail(power))
                      [] OTHER -> strtoll(power)
    IN  Decimal(neg, Natural(SubSeq(text, first, whole) \o fraction),
                exponent - Len(fraction))

\* strtod(): the nearest double, if it is finite
strtod(text) ==
    LET d == RoundTo(FloatDigits, Denotes(text))
    IN  IF d.mantissa # 0 /\ Magnitude(d) < -MaxExponent THEN Decimal(d.neg, 0, 0) ELSE d

IsFinite(d) == d.mantissa # 0 => Magnitude(d) <= MaxExponent

\* strtonum::parse() of an integer: it fits, as errno tells.
IntegralFits(token, text) ==
    \/ token = "value_unsigned" /\ strtoll(text) <= MaxUnsigned
    \/ token = "value_integer" /\ strtoll(text) >= MinInteger

FloatNumber(text) ==
    IF IsFinite(strtod(text)) THEN Value("number_float", strtod(text)) ELSE Null

get_number_saturated(token, text) ==    \* does not look at errno
    CASE token = "value_unsigned" ->
            Value("number_unsigned",
                  IF IntegralFits(token, text) THEN strtoll(text) ELSE MaxUnsigned)
      [] token = "value_integer" ->
            Value("number_integer",
                  IF IntegralFits(token, text) THEN strtoll(text) ELSE MinInteger)
      [] OTHER -> FloatNumber(text)

get_number(token, text) ==
    CASE token = "value_unsigned" /\ IntegralFits(token, text) ->
            Value("number_unsigned", strtoll(text))
      [] token = "value_integer" /\ IntegralFits(token, text) ->
            Value("number_integer", strtoll(text))
      [] OTHER -> FloatNumber(text)
=============================================================================
