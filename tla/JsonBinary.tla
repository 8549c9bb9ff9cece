----------------------------- MODULE JsonBinary -----------------------------
(***************************************************************************)
(* The binary formats of json.hpp: MessagePack and CBOR.                   *)
(*                                                                         *)
(* Integers have their full width here: an integer, signed or not, is a    *)
(* word, the eight bytes of its two's complement, most significant first.  *)
(* A double is its eight bytes too.  The readers are at a position of the  *)
(* bytes, and return a value and the position after it, or throw.          *)
(***************************************************************************)
EXTENDS JsonWriter

Widths == {1, 2, 4, 8}

\* The place of a width in the order of first bytes.
Order == 1 :> 0 @@ 2 :> 1 @@ 4 :> 2 @@ 8 :> 3

Widen(bytes, fill) == [i \in 1 .. 8 - Len(bytes) |-> fill] \o bytes

\* The word of a natural number.
Word(n) == [i \in 1 .. 8 |-> IF i < 6 THEN 0 ELSE (n \div 256 ^ (8 - i)) % 256]

\* -1 - w
Complement(w) == [i \in DOMAIN w |-> 255 - w[i]]

IsNegative(w) == w[1] >= 128

\* The n low bytes of w.
add_to_vector(w, n) == SubSeq(w, 9 - n, 8)

\* w is in the range of an unsigned, or of a signed, integer of n bytes.
Fits(w, n) == w = Widen(add_to_vector(w, n), 0)

FitsSigned(w, n) ==
    LET low == add_to_vector(w, n)
    IN  w = Widen(low, IF IsNegative(low) THEN 255 ELSE 0)

Smallest(widths) == CHOOSE n \in widths : \A m \in widths : n <= m

Narrowest(w) == Smallest({n \in Widths : Fits(w, n)})

-----------------------------------------------------------------------------
\* to_msgpack()

msgpack_unsigned(w) ==
    IF Fits(w, 1) /\ w[8] < 128
    THEN <<w[8]>>
    ELSE <<\hCC + Order[Narrowest(w)]>> \o add_to_vector(w, Narrowest(w))

msgpack_negative_wide(w) ==     \* the sign bit is forgotten
    LET n == Smallest({m \in Widths : Fits(Complement(w), m)})
    IN  <<\hD0 + Order[n]>> \o add_to_vector(w, n)

msgpack_negative(w) ==
    LET n == Smallest({m \in Widths : FitsSigned(w, m)})
    IN  IF n = 1 /\ w[8] >= \hE0
        THEN <<w[8]>>
        ELSE <<\hD0 + Order[n]>> \o add_to_vector(w, n)

msgpack_integer(w) == IF IsNegative(w) THEN msgpack_negative(w) ELSE msgpack_unsigned(w)

msgpack_float(bits) == <<\hCB>> \o bits

\* A size up to most is in the first byte, a larger one in the bytes after it,
\* whose number the first byte says.
msgpack_size(size, fixed, most, first) ==
    LET n == Smallest({m \in DOMAIN first : Fits(Word(size), m)})
    IN  IF size <= most THEN <<fixed + size>> ELSE <<first[n]>> \o add_to_vector(Word(size), n)

msgpack_string(s) ==
    msgpack_size(Len(s), \hA0, 31, 1 :> \hD9 @@ 2 :> \hDA @@ 4 :> \hDB) \o s

msgpack_array(size) == msgpack_size(size, \h90, 15, 2 :> \hDC @@ 4 :> \hDD)

msgpack_map(size) == msgpack_size(size, \h80, 15, 2 :> \hDE @@ 4 :> \hDF)

msgpack_constant(v) ==
    CASE v = Null -> <<\hC0>>
      [] v = Value("boolean", FALSE) -> <<\hC2>>
      [] v = Value("boolean", TRUE) -> <<\hC3>>

RECURSIVE to_msgpack(_)
to_msgpack(v) ==
    LET keys == Keys(Data(v))
    IN  CASE Type(v) = "number_unsigned" -> msgpack_unsigned(Data(v))
          [] Type(v) = "number_integer" -> msgpack_integer(Data(v))
          [] Type(v) = "number_float" -> msgpack_float(Data(v))
          [] Type(v) = "string" -> msgpack_string(Data(v))
          [] Type(v) = "array" ->
                msgpack_array(Len(Data(v)))
                \o FlattenSeq([i \in DOMAIN Data(v) |-> to_msgpack(Data(v)[i])])
          [] Type(v) = "object" ->
                msgpack_map(Len(keys))
                \o FlattenSeq([i \in DOMAIN keys |->
                                 msgpack_string(keys[i]) \o to_msgpack(Data(v)[keys[i]])])
          [] OTHER -> msgpack_constant(v)

-----------------------------------------------------------------------------
\* to_cbor(): the first byte holds a type and a number, or the width of the number
\* that comes after it.

cbor_head(type, w) ==
    IF Fits(w, 1) /\ w[8] <= \h17
    THEN <<type + w[8]>>
    ELSE <<type + \h18 + Order[Narrowest(w)]>> \o add_to_vector(w, Narrowest(w))

cbor_integer(w) == IF IsNegative(w) THEN cbor_head(\h20, Complement(w)) ELSE cbor_head(0, w)

cbor_unsigned(w) == cbor_head(0, w)

cbor_float(bits) == <<\hFB>> \o bits

cbor_string(s) == cbor_head(\h60, Word(Len(s))) \o s

cbor_array(size) == cbor_head(\h80, Word(size))

cbor_map(size) == cbor_head(\hA0, Word(size))

cbor_constant(v) ==
    CASE v = Null -> <<\hF6>>
      [] v = Value("boolean", FALSE) -> <<\hF4>>
      [] v = Value("boolean", TRUE) -> <<\hF5>>

RECURSIVE to_cbor(_)
to_cbor(v) ==
    LET keys == Keys(Data(v))
    IN  CASE Type(v) = "number_unsigned" -> cbor_unsigned(Data(v))
          [] Type(v) = "number_integer" -> cbor_integer(Data(v))
          [] Type(v) = "number_float" -> cbor_float(Data(v))
          [] Type(v) = "string" -> cbor_string(Data(v))
          [] Type(v) = "array" ->
                cbor_array(Len(Data(v)))
                \o FlattenSeq([i \in DOMAIN Data(v) |-> to_cbor(Data(v)[i])])
          [] Type(v) = "object" ->
                cbor_map(Len(keys))
                \o FlattenSeq([i \in DOMAIN keys |->
                                 cbor_string(keys[i]) \o to_cbor(Data(v)[keys[i]])])
          [] OTHER -> cbor_constant(v)
-----------------------------------------------------------------------------
\* What the readers have in common.

Read(v, next) == [status |-> "ok", value |-> v, next |-> next]

Thrown(exception) == [status |-> exception, value |-> Null, next |-> 0]

OutOfRange == Thrown("out_of_range")

\* The n bytes after position p, if there are so many.
get_from_vector(bytes, p, n) ==
    IF p + n > Len(bytes) THEN OutOfRange ELSE Read(SubSeq(bytes, p + 1, p + n), p + n + 1)

read_unsigned(bytes, p, n) ==
    LET r == get_from_vector(bytes, p, n)
    IN  IF r.status # "ok" THEN r ELSE Read(Value("number_unsigned", Widen(r.value, 0)), r.next)

read_signed(bytes, p, n) ==
    LET r == get_from_vector(bytes, p, n)
    IN  IF r.status # "ok"
        THEN r
        ELSE Read(Value("number_integer", Widen(r.value, IF IsNegative(r.value) THEN 255 ELSE 0)),
                  r.next)

\* -1 - the number: that of eight bytes wraps around.
read_negative(bytes, p, n) ==
    LET r == get_from_vector(bytes, p, n)
    IN  IF r.status # "ok"
        THEN r
        ELSE Read(Value("number_integer", Complement(Widen(r.value, 0))), r.next)

\* A double with these bits: there is no number that is not finite.
Double(bits) ==
    IF bits[1] % 128 = 127 /\ bits[2] >= 240 THEN Null ELSE Value("number_float", bits)

\* ldexp(): the bits of m * 2 ^ e, of 24 significant bits at most.
ldexp(neg, m, e) ==
    LET size == CHOOSE k \in 1 .. 24 : m \in 2 ^ (k - 1) .. 2 ^ k - 1
        exponent == e + size - 1 + 1023
        fraction == m * 2 ^ (24 - size) - 2 ^ 23
    IN  <<(IF neg THEN 128 ELSE 0) + (IF m = 0 THEN 0 ELSE exponent \div 16)>>
        \o (IF m = 0
            THEN <<0, 0, 0, 0>>
            ELSE <<(exponent % 16) * 16 + fraction \div 2 ^ 19, (fraction \div 2 ^ 11) % 256,
                   (fraction \div 8) % 256, (fraction % 8) * 32>>)
        \o <<0, 0, 0>>

\* The conversion of a float to a double.
float_to_double(b) ==
    LET neg == IsNegative(b)
        exponent == (b[1] % 128) * 2 + b[2] \div 128
        fraction == (b[2] % 128) * 65536 + b[3] * 256 + b[4]
    IN  CASE exponent = 255 -> Null
          [] exponent = 0 -> Value("number_float", ldexp(neg, fraction, -149))
          [] OTHER -> Value("number_float", ldexp(neg, fraction + 2 ^ 23, exponent - 150))

read_float(bytes, p) ==
    LET r == get_from_vector(bytes, p, 4)
    IN  IF r.status # "ok" THEN r ELSE Read(float_to_double(r.value), r.next)

read_double(bytes, p) ==
    LET r == get_from_vector(bytes, p, 8)
    IN  IF r.status # "ok" THEN r ELSE Read(Double(r.value), r.next)

\* check_length(), then the copy: size bytes from position p.
read_string(bytes, p, size) ==
    IF size > Len(bytes) \/ p > Len(bytes) + 1 \/ p - 1 + size > Len(bytes)
    THEN OutOfRange
    ELSE Read(Value("string", SubSeq(bytes, p, p + size - 1)), p + size)

\* The number b stands for; whatever has 2^24 items does not fit into bytes.
Size(bytes, b) ==
    IF \E i \in 1 .. Len(b) - 3 : b[i] # 0
    THEN Len(bytes) + 1
    ELSE FoldLeft(LAMBDA n, byte : n * 256 + byte, 0, b)

Unbounded == -1

\* size items are left to be read at p, or all that come before a break byte.
ItemsLeft(bytes, p, size) ==
    CASE size # Unbounded -> IF size = 0 THEN "none" ELSE "some"
      [] size = Unbounded /\ p > Len(bytes) -> "out_of_range"
      [] OTHER -> IF bytes[p] = \hFF THEN "none" ELSE "some"

\* After the last item.
AfterItems(p, size) == IF size = Unbounded THEN p + 1 ELSE p

OneLess(size) == IF size = Unbounded THEN size ELSE size - 1

RECURSIVE from_msgpack(_, _), from_cbor(_, _)

from(format, bytes, p) ==
    IF format = "msgpack" THEN from_msgpack(bytes, p) ELSE from_cbor(bytes, p)

RECURSIVE read_items(_, _, _, _, _)
read_items(format, bytes, p, size, items) ==
    LET r == from(format, bytes, p)
        left == ItemsLeft(bytes, p, size)
    IN  CASE left = "none" -> Read(Value("array", items), AfterItems(p, size))
          [] left = "out_of_range" -> OutOfRange
          [] left = "some" ->
                IF r.status # "ok"
                THEN r
                ELSE read_items(format, bytes, r.next, OneLess(size), Append(items, r.value))

\* A key must be a string; the last of equal keys counts.
RECURSIVE read_members(_, _, _, _, _)
read_members(format, bytes, p, size, members) ==
    LET key == from(format, bytes, p)
        r == from(format, bytes, key.next)
        left == ItemsLeft(bytes, p, size)
    IN  CASE left = "none" -> Read(Value("object", members), AfterItems(p, size))
          [] left = "out_of_range" -> OutOfRange
          [] left = "some" ->
                CASE key.status # "ok" -> key
                  [] key.status = "ok" /\ Type(key.value) # "string" -> Thrown("domain_error")
                  [] OTHER ->
                        IF r.status # "ok"
                        THEN r
                        ELSE read_members(format, bytes, r.next, OneLess(size),
                                          (Data(key.value) :> r.value) @@ members)

\* The pieces of a string in CBOR.
RECURSIVE read_pieces(_, _, _)
read_pieces(bytes, p, s) ==
    LET piece == from_cbor(bytes, p)
        left == ItemsLeft(bytes, p, Unbounded)
    IN  CASE left = "none" -> Read(Value("string", s), p + 1)
          [] left = "out_of_range" -> OutOfRange
          [] left = "some" ->
                CASE piece.status # "ok" -> piece
                  [] piece.status = "ok" /\ Type(piece.value) # "string" -> Thrown("domain_error")
                  [] OTHER -> read_pieces(bytes, piece.next, s \o Data(piece.value))

\* The n bytes after position p are the size of a string, an array or a map.
string_after(bytes, p, n) ==
    LET r == get_from_vector(bytes, p, n)
    IN  IF r.status # "ok" THEN r ELSE read_string(bytes, r.next, Size(bytes, r.value))

array_after(format, bytes, p, n) ==
    LET r == get_from_vector(bytes, p, n)
    IN  IF r.status # "ok"
        THEN r
        ELSE read_items(format, bytes, r.next, Size(bytes, r.value), <<>>)

map_after(format, bytes, p, n) ==
    LET r == get_from_vector(bytes, p, n)
    IN  IF r.status # "ok"
        THEN r
        ELSE read_members(format, bytes, r.next, Size(bytes, r.value), <<>>)

-----------------------------------------------------------------------------
\* from_msgpack(): b is the byte at p.

msgpack_fixed(bytes, p, b) ==
    CASE b <= \h7F -> Read(Value("number_unsigned", Word(b)), p + 1)
      [] b \in \h80 .. \h8F -> read_members("msgpack", bytes, p + 1, b % 16, <<>>)
      [] b \in \h90 .. \h9F -> read_items("msgpack", bytes, p + 1, b % 16, <<>>)
      [] b \in \hA0 .. \hBF -> read_string(bytes, p + 1, b % 32)
      [] b >= \hE0 -> Read(Value("number_integer", Widen(<<b>>, 255)), p + 1)

msgpack_simple(p, b) ==
    CASE b = \hC0 -> Read(Null, p + 1)
      [] b \in {\hC2, \hC3} -> Read(Value("boolean", b = \hC3), p + 1)

msgpack_real(bytes, p, b) ==
    CASE b = \hCA -> read_float(bytes, p)
      [] b = \hCB -> read_double(bytes, p)

msgpack_number(bytes, p, b) ==
    CASE b \in \hCC .. \hCF -> read_unsigned(bytes, p, 2 ^ (b - \hCC))
      [] b \in \hD0 .. \hD3 -> read_signed(bytes, p, 2 ^ (b - \hD0))

msgpack_sized(bytes, p, b) ==
    CASE b \in \hD9 .. \hDB -> string_after(bytes, p, 2 ^ (b - \hD9))
      [] b \in \hDC .. \hDD -> array_after("msgpack", bytes, p, 2 ^ (b - \hDB))
      [] b \in \hDE .. \hDF -> map_after("msgpack", bytes, p, 2 ^ (b - \hDD))

from_msgpack(bytes, p) ==
    LET b == bytes[p]
    IN  IF p > Len(bytes) THEN OutOfRange ELSE
        CASE b <= \hBF \/ b >= \hE0 -> msgpack_fixed(bytes, p, b)
          [] b \in {\hC0, \hC2, \hC3} -> msgpack_simple(p, b)
          [] b \in \hCA .. \hCB -> msgpack_real(bytes, p, b)
          [] b \in \hCC .. \hD3 -> msgpack_number(bytes, p, b)
          [] b \in \hD9 .. \hDF -> msgpack_sized(bytes, p, b)
          [] OTHER -> Thrown("invalid_argument")

-----------------------------------------------------------------------------
\* from_cbor(): the first byte b is a type and n.

cbor_number(bytes, p, n) ==
    IF n <= \h17
    THEN Read(Value("number_unsigned", Word(n)), p + 1)
    ELSE read_unsigned(bytes, p, 2 ^ (n - \h18))

cbor_negative(bytes, p, n) ==
    IF n <= \h17
    THEN Read(Value("number_integer", Complement(Word(n))), p + 1)
    ELSE read_negative(bytes, p, 2 ^ (n - \h18))

cbor_text(bytes, p, n) ==
    CASE n <= \h17 -> read_string(bytes, p + 1, n)
      [] n \in \h18 .. \h1B -> string_after(bytes, p, 2 ^ (n - \h18))
      [] n = \h1F -> read_pieces(bytes, p + 1, <<>>)

cbor_items(bytes, p, n) ==
    CASE n <= \h17 -> read_items("cbor", bytes, p + 1, n, <<>>)
      [] n \in \h18 .. \h1B -> array_after("cbor", bytes, p, 2 ^ (n - \h18))
      [] n = \h1F -> read_items("cbor", bytes, p + 1, Unbounded, <<>>)

cbor_members(bytes, p, n) ==
    CASE n <= \h17 -> read_members("cbor", bytes, p + 1, n, <<>>)
      [] n \in \h18 .. \h1B -> map_after("cbor", bytes, p, 2 ^ (n - \h18))
      [] n = \h1F -> read_members("cbor", bytes, p + 1, Unbounded, <<>>)

\* A number of five bits for the exponent and ten for the fraction.
cbor_half(bytes, p) ==
    LET r == get_from_vector(bytes, p, 2)
        neg == IsNegative(r.value)
        exp == (r.value[1] \div 4) % 32
        mant == (r.value[1] % 4) * 256 + r.value[2]
    IN  CASE r.status # "ok" -> r
          [] r.status = "ok" /\ exp = 0 ->
                Read(Value("number_float", ldexp(neg, mant, -24)), r.next)
          [] r.status = "ok" /\ exp = 31 -> Read(Null, r.next)
          [] OTHER -> Read(Value("number_float", ldexp(neg, mant + 1024, exp - 25)), r.next)

cbor_simple(bytes, p, b) ==
    CASE b \in {\hF4, \hF5} -> Read(Value("boolean", b = \hF5), p + 1)
      [] b = \hF6 -> Read(Null, p + 1)
      [] b = \hF9 -> cbor_half(bytes, p)
      [] b = \hFA -> read_float(bytes, p)
      [] b = \hFB -> read_double(bytes, p)

from_cbor(bytes, p) ==
    LET b == bytes[p]
        n == b % 32
        bounded == n <= \h1B
    IN  IF p > Len(bytes) THEN OutOfRange ELSE
        CASE b < \h20 /\ bounded -> cbor_number(bytes, p, n)
          [] b \in \h20 .. \h3F /\ bounded -> cbor_negative(bytes, p, n)
          [] b \in \h60 .. \h7F /\ (bounded \/ n = \h1F) -> cbor_text(bytes, p, n)
          [] b \in \h80 .. \h9F /\ (bounded \/ n = \h1F) -> cbor_items(bytes, p, n)
          [] b \in \hA0 .. \hBF /\ (bounded \/ n = \h1F) ->
                cbor_members(bytes, p, n)
          [] b \in {\hF4, \hF5, \hF6, \hF9, \hFA, \hFB} ->
                cbor_simple(bytes, p, b)
          [] OTHER -> Thrown("invalid_argument")
=============================================================================
