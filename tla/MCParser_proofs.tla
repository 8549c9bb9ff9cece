--------------------------- MODULE MCParser_proofs --------------------------
(***************************************************************************)
(* What MessageBuilder writes, the parser reads back: for every list of    *)
(* messages of the headers of message.cpp, with arguments of any bytes but *)
(* the separators and of any length.                                       *)
(***************************************************************************)
EXTENDS MCParser, Parser_proofs, Lists_proofs

-----------------------------------------------------------------------------
(***************************************************************************)
(* The tables agree.                                                       *)
(***************************************************************************)

IsText(t) == Len(t) \in Nat /\ DOMAIN t = 1 .. Len(t)

Text(message) == from_human_readable(to_string(message.header))

LEMMA TextsAreTexts == \A i \in 1 .. 30 : IsText(HEADER_TO_STRING[i])
BY SMTT(60) DEF HEADER_TO_STRING, IsText

LEMMA HeadersDiffer == \A i, j \in 1 .. 30 : HEADERS[i] = HEADERS[j] => i = j
BY SMTT(60) DEF HEADERS, Header, Ack

LEMMA EveryHeaderHasARule ==
    \A i \in 1 .. 30 : Rule(HEADER_TO_STRING[i], HEADERS[i]) \in Rules
<1>1. \A i \in 1 .. 5 : Rule(HEADER_TO_STRING[i], HEADERS[i]) \in AuthRules
  BY SMTT(60) DEF HEADERS, HEADER_TO_STRING, AuthRules
<1>2. \A i \in 6 .. 12 : Rule(HEADER_TO_STRING[i], HEADERS[i]) \in ConnectionRules
  BY SMTT(60) DEF HEADERS, HEADER_TO_STRING, ConnectionRules
<1>3. \A i \in 13 .. 23 : Rule(HEADER_TO_STRING[i], HEADERS[i]) \in EventRules
  BY SMTT(60) DEF HEADERS, HEADER_TO_STRING, EventRules
<1>4. \A i \in 24 .. 30 : Rule(HEADER_TO_STRING[i], HEADERS[i]) \in PresenceRules
  BY SMTT(60) DEF HEADERS, HEADER_TO_STRING, PresenceRules
<1> SUFFICES ASSUME NEW i \in 1 .. 30 PROVE Rule(HEADER_TO_STRING[i], HEADERS[i]) \in Rules
  OBVIOUS
<1>5. i \in 1 .. 5 \/ i \in 6 .. 12 \/ i \in 13 .. 23 \/ i \in 24 .. 30
  OBVIOUS
<1> QED BY <1>1, <1>2, <1>3, <1>4, <1>5 DEF Rules

\* No text is the text of two headers.
LEMMA TextsDiffer == \A r, s \in Rules : r.text = s.text => r.header = s.header
BY SMTT(120) DEF Rules, AuthRules, ConnectionRules, EventRules, PresenceRules, Rule,
     from_human_readable, ASCII_UNIT_SEPARATOR, ASCII_RECORD_SEPARATOR

LEMMA RowsAreRows ==
    ASSUME NEW header \in ToSet(HEADERS)
    PROVE  Row(header) \in 1 .. 30 /\ HEADERS[Row(header)] = header
<1>1. DOMAIN HEADERS = 1 .. 30
  BY DEF HEADERS
<1>2. \E i \in DOMAIN HEADERS : HEADERS[i] = header
  BY DEF ToSet
<1> QED BY <1>1, <1>2 DEF Row

\* The scanner's text of a header is the table's, and stands for that header.
LEMMA TextIs ==
    ASSUME NEW header \in ToSet(HEADERS), NEW text,
           text = from_human_readable(to_string(header))
    PROVE  /\ text \in Headers
           /\ HeaderOf(text) = header
           /\ NumArguments[text] = num_arguments(header)
           /\ Len(text) = Len(to_string(header))
<1> DEFINE i == Row(header)
<1>1. i \in 1 .. 30 /\ HEADERS[i] = header /\ to_string(header) = HEADER_TO_STRING[i]
  BY RowsAreRows DEF to_string
<1> DEFINE rule == Rule(HEADER_TO_STRING[i], HEADERS[i])
<1>2. rule \in Rules
  BY <1>1, EveryHeaderHasARule
<1>3. rule.text = text /\ rule.header = header
  BY <1>1 DEF Rule
<1> HIDE DEF rule
<1>4. text \in Headers
  BY <1>2, <1>3, TablesAssumption DEF ScannerHeaders
<1>5. HeaderOf(text) = header
  <2>1. \E r \in Rules : r.text = text
    BY <1>2, <1>3
  <2> DEFINE r == CHOOSE s \in Rules : s.text = text
  <2>2. r \in Rules /\ r.text = text
    BY <2>1
  <2> HIDE DEF r
  <2>3. r.header = header
    BY <1>2, <1>3, <2>2, TextsDiffer
  <2> QED BY <2>3 DEF HeaderOf, r
<1>6. NumArguments[text] = num_arguments(header)
  BY <1>4, <1>5, TablesAssumption DEF HeaderArguments
<1>7. Len(text) = Len(to_string(header))
  <2> DEFINE t == to_string(header)
  <2>1. Len(t) \in Nat /\ DOMAIN t = 1 .. Len(t)
    BY <1>1, TextsAreTexts DEF IsText
  <2>2. DOMAIN text = DOMAIN t
    BY DEF from_human_readable
  <2>3. Len(text) \in Nat /\ DOMAIN text = 1 .. Len(text)
    BY <1>4, HeadersAssumption, LenProperties
  <2> HIDE DEF t
  <2>4. Len(text) = Len(t)
    BY <2>1, <2>2, <2>3
  <2> QED BY <2>4 DEF t
<1> QED BY <1>4, <1>5, <1>6, <1>7

-----------------------------------------------------------------------------
(***************************************************************************)
(* The messages that are built                                             *)
(***************************************************************************)

\* A header of the table and as many arguments as it may have, none of them
\* empty or with a separator in it.
IsBuilt(message) ==
    /\ message.header \in ToSet(HEADERS)
    /\ message.arguments \in Seq(Seq(Bytes \ {MPS, MS}))
    /\ \A j \in 1 .. Len(message.arguments) : Len(message.arguments[j]) > 0
    /\ Len(message.arguments) \in num_arguments(message.header)[1]
                                   .. num_arguments(message.header)[2]

LEMMA MadeIsBuilt == ASSUME NEW message \in make_message(Arguments) PROVE IsBuilt(message)
<1>1. PICK header \in ToSet(HEADERS) :
        message \in {Build(header, list) :
              list \in UNION {[1 .. n -> Arguments] :
                n \in num_arguments(header)[1] .. num_arguments(header)[2]
                      \cap 0 .. MaxArguments}}
  BY DEF make_message
<1>2. PICK n \in num_arguments(header)[1] .. num_arguments(header)[2] \cap 0 .. MaxArguments :
        \E list \in [1 .. n -> Arguments] : message = Build(header, list)
  BY <1>1
<1>8. PICK list \in [1 .. n -> Arguments] : message = Build(header, list)
  BY <1>2
<1>3. n \in Nat /\ n \in num_arguments(header)[1] .. num_arguments(header)[2]
  BY <1>2, LimitsAssumption
<1>4. \A a \in Arguments : a \in Seq(Bytes \ {MPS, MS}) /\ a # <<>> /\ Len(a) \in Nat /\ Len(a) > 0
  BY ArgumentsAssumption, EmptySeq, LenProperties
<1>5. list \in Seq(Seq(Bytes \ {MPS, MS})) /\ Len(list) = n
  <2>1. list \in [1 .. n -> Seq(Bytes \ {MPS, MS})]
    BY <1>4
  <2> QED BY <1>3, <2>1
<1>6. message.header = header /\ message.arguments = list
  BY <1>8 DEF Build
<1>7. \A j \in 1 .. n : list[j] \in Arguments
  OBVIOUS
<1> QED BY <1>3, <1>4, <1>5, <1>6, <1>7 DEF IsBuilt

LEMMA BuiltMessages ==
    ASSUME NEW list \in Built
    PROVE  /\ Len(list) \in Nat /\ Len(list) > 0 /\ DOMAIN list = 1 .. Len(list)
           /\ \A i \in 1 .. Len(list) : IsBuilt(list[i])
<1>1. PICK n \in 1 .. MaxBuilt : list \in [1 .. n -> make_message(Arguments)]
  BY DEF Built
<1>2. n \in Nat /\ n > 0
  BY BoundsAssumption
<1>3. list \in Seq(make_message(Arguments)) /\ Len(list) = n
  BY <1>1, <1>2
<1> QED BY <1>1, <1>2, <1>3, MadeIsBuilt

-----------------------------------------------------------------------------
(***************************************************************************)
(* Where the parts of a message are in a buffer                            *)
(***************************************************************************)

\* The message's bytes are those of the buffer from offset "from" to offset "to":
\* at[j] is the offset of what follows the j-th argument.
IsBinaryAt(buffer, message, from, to, at) ==
    /\ at \in [0 .. Len(message.arguments) -> Nat]
    /\ at[0] = from + Len(Text(message))
    /\ to = at[Len(message.arguments)] + 1
    /\ \A k \in 1 .. Len(Text(message)) : buffer[from + k] = Text(message)[k]
    /\ buffer[to] = MS
    /\ \A j \in 1 .. Len(message.arguments) :
         /\ at[j] = at[j - 1] + 1 + Len(message.arguments[j])
         /\ at[j] < to
         /\ buffer[at[j - 1] + 1] = MPS
         /\ \A k \in 1 .. Len(message.arguments[j]) :
              buffer[at[j - 1] + 1 + k] = message.arguments[j][k]

\* The arguments with their separators.
Separated(list) == [j \in DOMAIN list |-> <<ASCII_UNIT_SEPARATOR>> \o list[j]]

LEMMA SeparatedIs ==
    ASSUME NEW list \in Seq(Seq(Bytes))
    PROVE  /\ Separated(list) \in Seq(Seq(Bytes)) /\ Len(Separated(list)) = Len(list)
           /\ \A j \in 1 .. Len(list) :
                /\ Len(Separated(list)[j]) = 1 + Len(list[j])
                /\ Separated(list)[j][1] = MPS
                /\ \A k \in 1 .. Len(list[j]) : Separated(list)[j][1 + k] = list[j][k]
<1> DEFINE n == Len(list)
<1>1. n \in Nat /\ DOMAIN list = 1 .. n /\ \A j \in 1 .. n : list[j] \in Seq(Bytes)
  BY LenProperties, ElementOfSeq
<1>2. MPS \in Bytes /\ MPS = ASCII_UNIT_SEPARATOR
  BY SeparatorsAssumption, TablesAssumption
<1>3. ASSUME NEW a \in Seq(Bytes)
      PROVE  /\ <<MPS>> \o a \in Seq(Bytes) /\ Len(<<MPS>> \o a) = 1 + Len(a)
             /\ (<<MPS>> \o a)[1] = MPS
             /\ \A k \in 1 .. Len(a) : (<<MPS>> \o a)[1 + k] = a[k]
  <2> DEFINE b == <<MPS>>
  <2>1. b \in Seq(Bytes) /\ Len(b) = 1 /\ b[1] = MPS /\ Len(a) \in Nat
    BY <1>2
  <2> HIDE DEF b
  <2>2. /\ b \o a \in Seq(Bytes) /\ Len(b \o a) = Len(b) + Len(a)
        /\ \A k \in 1 .. Len(b) + Len(a) :
             (b \o a)[k] = IF k <= Len(b) THEN b[k] ELSE a[k - Len(b)]
    BY <2>1, ConcatProperties
  <2>3. (b \o a)[1] = MPS
    BY <2>1, <2>2
  <2>4. ASSUME NEW k \in 1 .. Len(a) PROVE (b \o a)[1 + k] = a[k]
    <3>1. 1 + k \in 1 .. Len(b) + Len(a) /\ ~(1 + k <= Len(b)) /\ (1 + k) - Len(b) = k
      BY <2>1
    <3> QED BY <2>2, <3>1
  <2> QED BY <2>1, <2>2, <2>3, <2>4 DEF b
<1>4. Separated(list) = [j \in 1 .. n |-> <<MPS>> \o list[j]]
  BY <1>1, <1>2 DEF Separated
<1> HIDE DEF n
<1>5. Separated(list) \in [1 .. n -> Seq(Bytes)]
  BY <1>1, <1>3, <1>4
<1>6. Separated(list) \in Seq(Seq(Bytes)) /\ Len(Separated(list)) = n
  BY <1>1, <1>5
<1>7. \A j \in 1 .. n : Separated(list)[j] = <<MPS>> \o list[j]
  BY <1>4
<1>8. ASSUME NEW j \in 1 .. n
      PROVE  /\ Len(Separated(list)[j]) = 1 + Len(list[j])
             /\ Separated(list)[j][1] = MPS
             /\ \A k \in 1 .. Len(list[j]) : Separated(list)[j][1 + k] = list[j][k]
  <2>1. list[j] \in Seq(Bytes) /\ Separated(list)[j] = <<MPS>> \o list[j]
    BY <1>1, <1>7
  <2> QED BY <1>3, <2>1
<1> QED BY <1>6, <1>8 DEF n

\* Every argument brings its separator: j of them before the end of the j-th.
LEMMA SeparatedLengths ==
    ASSUME NEW list \in Seq(Seq(Bytes)),
           NEW edge, IsEdges(edge, list), NEW longer, IsEdges(longer, Separated(list))
    PROVE  longer[Len(list)] = edge[Len(list)] + Len(list)
<1> DEFINE n == Len(list)
           T == {k \in Nat : k <= n => longer[k] = edge[k] + k}
<1>1. n \in Nat /\ \A j \in 1 .. n : Len(list[j]) \in Nat
  BY LenProperties, ElementOfSeq
<1>2. edge[0] = 0 /\ edge \in [0 .. n -> Nat]
      /\ \A j \in 1 .. n : edge[j] = edge[j - 1] + Len(list[j])
  BY DEF IsEdges
<1>3. longer[0] = 0 /\ \A j \in 1 .. n : longer[j] = longer[j - 1] + (1 + Len(list[j]))
  BY SeparatedIs DEF IsEdges
<1> HIDE DEF n
<1>4. 0 \in T
  BY <1>2, <1>3
<1>5. ASSUME NEW k \in Nat, k \in T PROVE k + 1 \in T
  <2> SUFFICES ASSUME k + 1 <= n PROVE longer[k + 1] = edge[k + 1] + (k + 1)
    OBVIOUS
  <2> DEFINE j == k + 1
  <2>1. j \in 1 .. n /\ j - 1 = k /\ k <= n /\ k \in 0 .. n
    BY <1>1
  <2> HIDE DEF j
  <2>2. /\ edge[j] = edge[k] + Len(list[j]) /\ longer[j] = longer[k] + (1 + Len(list[j]))
        /\ longer[k] = edge[k] + k
        /\ edge[k] \in Nat /\ Len(list[j]) \in Nat
    BY <1>1, <1>2, <1>3, <1>5, <2>1
  <2>3. longer[j] = edge[j] + (k + 1)
    <3> DEFINE x == edge[k]
               l == Len(list[j])
    <3>1. edge[j] = x + l /\ longer[j] = (x + k) + (1 + l) /\ x \in Nat /\ l \in Nat /\ k \in Nat
      BY <2>2
    <3> HIDE DEF x, l
    <3> QED BY <3>1
  <2> QED BY <2>3 DEF j
<1> HIDE DEF T
<1>6. n \in T
  BY <1>1, <1>4, <1>5, SetInduction
<1>7. n <= n
  BY <1>1
<1> QED BY <1>6, <1>7 DEF T, n

LEMMA BuiltParts ==
    ASSUME NEW message, IsBuilt(message)
    PROVE  /\ message.arguments \in Seq(Seq(Bytes))
           /\ Text(message) \in Headers /\ Text(message) \in Seq(Bytes)
           /\ Len(Text(message)) \in Nat /\ Len(message.arguments) \in Nat
           /\ \A k \in 1 .. Len(Text(message)) : Text(message)[k] \in Bytes /\ Text(message)[k] # MS
<1>1. \A a \in Seq(Bytes \ {MPS, MS}) : a \in Seq(Bytes)
  BY SeqMonotonic
<1>2. message.arguments \in Seq(Seq(Bytes))
  <2>1. Seq(Bytes \ {MPS, MS}) \subseteq Seq(Bytes)
    BY <1>1
  <2> QED BY <2>1, SeqMonotonic DEF IsBuilt
<1>3. Text(message) \in Headers
  BY TextIs DEF IsBuilt, Text
<1>4. Text(message) \in Seq(Bytes \ {MS})
  BY <1>3, HeadersAssumption
<1>5. Text(message) \in Seq(Bytes)
  BY <1>4, SeqMonotonic
<1>6. /\ Len(Text(message)) \in Nat
      /\ \A k \in 1 .. Len(Text(message)) : Text(message)[k] \in Bytes \ {MS}
  BY <1>4, LenProperties, ElementOfSeq
<1> QED BY <1>2, <1>3, <1>5, <1>6, LenProperties

\* to_binary_impl_() writes the parts one after the other, as many bytes as
\* size_impl_() counts.
LEMMA BinaryIs ==
    ASSUME NEW message, IsBuilt(message)
    PROVE  /\ to_binary_impl_(message) \in Seq(Bytes)
           /\ Len(to_binary_impl_(message)) = size_impl_(message)
           /\ \E at : IsBinaryAt(to_binary_impl_(message), message, 0,
                                 Len(to_binary_impl_(message)), at)
<1> DEFINE args == message.arguments
           text == Text(message)
           flat == FlattenSeq(Separated(args))
           n == Len(args)
           t == Len(text)
           bin == to_binary_impl_(message)
<1>1. /\ args \in Seq(Seq(Bytes)) /\ text \in Seq(Bytes) /\ t \in Nat /\ n \in Nat
      /\ \A j \in 1 .. n : args[j] \in Seq(Bytes) /\ Len(args[j]) \in Nat
  BY BuiltParts, LenProperties, ElementOfSeq
<1>2. MPS \in Bytes /\ MS \in Bytes /\ MS = ASCII_RECORD_SEPARATOR
  BY SeparatorsAssumption, TablesAssumption
<1>3. bin = (text \o flat) \o <<MS>>
  BY <1>2 DEF to_binary_impl_, Text, Separated
<1>4. /\ Separated(args) \in Seq(Seq(Bytes)) /\ Len(Separated(args)) = n
      /\ \A j \in 1 .. n :
           /\ Len(Separated(args)[j]) = 1 + Len(args[j])
           /\ Separated(args)[j][1] = MPS
           /\ \A k \in 1 .. Len(args[j]) : Separated(args)[j][1 + k] = args[j][k]
  BY <1>1, SeparatedIs
<1>5. PICK edge : /\ IsEdges(edge, Separated(args))
                  /\ Len(flat) = edge[Len(Separated(args))]
                  /\ \A i \in 1 .. Len(Separated(args)) : \A k \in 1 .. Len(Separated(args)[i]) :
                       flat[edge[i - 1] + k] = Separated(args)[i][k]
  BY <1>4, FlattenProperties
<1>6. flat \in Seq(Bytes)
  BY <1>4, FlattenProperties
<1>7. /\ edge \in [0 .. n -> Nat] /\ edge[0] = 0 /\ Len(flat) = edge[n]
      /\ \A j \in 1 .. n : edge[j] = edge[j - 1] + (1 + Len(args[j]))
  BY <1>4, <1>5 DEF IsEdges
<1>8. \A j \in 0 .. n : edge[j] <= edge[n]
  <2>1. \A j \in 0 .. n : n \in j .. n
    BY <1>1
  <2> QED BY <1>4, <1>5, <2>1, EdgesAscend
<1>9. ASSUME NEW j \in 1 .. n
      PROVE  /\ flat[edge[j - 1] + 1] = MPS
             /\ \A k \in 1 .. Len(args[j]) : flat[edge[j - 1] + (1 + k)] = args[j][k]
  <2>1. Len(Separated(args)[j]) = 1 + Len(args[j]) /\ Len(args[j]) \in Nat
    BY <1>1, <1>4
  <2>2. \A k \in 1 .. 1 + Len(args[j]) : flat[edge[j - 1] + k] = Separated(args)[j][k]
    BY <1>4, <1>5, <2>1
  <2>3. 1 \in 1 .. 1 + Len(args[j]) /\ \A k \in 1 .. Len(args[j]) : 1 + k \in 1 .. 1 + Len(args[j])
    BY <2>1
  <2> QED BY <1>4, <2>2, <2>3
<1>10. /\ bin \in Seq(Bytes) /\ Len(bin) = t + edge[n] + 1
       /\ \A k \in 1 .. t : bin[k] = text[k]
       /\ \A k \in 1 .. edge[n] : bin[t + k] = flat[k]
       /\ bin[t + edge[n] + 1] = MS
  <2> DEFINE f == edge[n]
             b == text \o flat
             c == <<MS>>
  <2>1. f \in Nat /\ t \in Nat /\ Len(flat) = f
    BY <1>1, <1>7
  <2>2. c \in Seq(Bytes) /\ Len(c) = 1 /\ c[1] = MS
    BY <1>2
  <2>3. bin = b \o c
    BY <1>3
  <2> HIDE DEF f, t, bin, flat, text, c
  <2>4. /\ text \o flat \in Seq(Bytes) /\ Len(text \o flat) = Len(text) + Len(flat)
        /\ \A k \in 1 .. Len(text) + Len(flat) :
             (text \o flat)[k] = IF k <= Len(text) THEN text[k] ELSE flat[k - Len(text)]
    BY <1>1, <1>6, ConcatProperties
  <2>5. Len(text) = t
    BY DEF t
  <2> HIDE DEF b
  <2>6. /\ b \in Seq(Bytes) /\ Len(b) = t + f
        /\ \A k \in 1 .. t + f : b[k] = IF k <= t THEN text[k] ELSE flat[k - t]
    BY <2>1, <2>4, <2>5 DEF b
  <2>7. /\ b \o c \in Seq(Bytes) /\ Len(b \o c) = Len(b) + Len(c)
        /\ \A k \in 1 .. Len(b) + Len(c) :
             (b \o c)[k] = IF k <= Len(b) THEN b[k] ELSE c[k - Len(b)]
    BY <2>2, <2>6, ConcatProperties
  <2>8. /\ bin \in Seq(Bytes) /\ Len(bin) = t + f + 1
        /\ \A k \in 1 .. t + f + 1 : bin[k] = IF k <= t + f THEN b[k] ELSE c[k - (t + f)]
    BY <2>2, <2>3, <2>6, <2>7
  <2>9. ASSUME NEW k \in 1 .. t PROVE bin[k] = text[k]
    <3>1. k \in 1 .. t + f + 1 /\ k \in 1 .. t + f /\ k <= t + f /\ k <= t
      BY <2>1
    <3> QED BY <2>6, <2>8, <3>1
  <2>10. ASSUME NEW k \in 1 .. f PROVE bin[t + k] = flat[k]
    <3>1. /\ t + k \in 1 .. t + f + 1 /\ t + k \in 1 .. t + f /\ t + k <= t + f /\ ~(t + k <= t)
          /\ (t + k) - t = k
      BY <2>1
    <3> QED BY <2>6, <2>8, <3>1
  <2>11. bin[t + f + 1] = MS
    <3>1. t + f + 1 \in 1 .. t + f + 1 /\ ~(t + f + 1 <= t + f) /\ (t + f + 1) - (t + f) = 1
      BY <2>1
    <3> QED BY <2>2, <2>8, <3>1
  <2> QED BY <2>8, <2>9, <2>10, <2>11 DEF f
<1>11. Len(bin) = size_impl_(message)
  <2>1. PICK e : IsEdges(e, args)
    BY <1>1, FlattenProperties
  <2>2. FoldLeft(LAMBDA k, argument : k + Len(argument), 0, args) = e[n]
    BY <1>1, <2>1, SumOfLengths
  <2>3. edge[n] = e[n] + n
    BY <1>1, <1>5, <2>1, SeparatedLengths
  <2>4. Len(to_string(message.header)) = t
    BY TextIs DEF IsBuilt, Text
  <2>5. size_impl_(message) = e[n] + t + n + 1
    BY <2>2, <2>4 DEF size_impl_
  <2>6. e[n] \in Nat
    <3>1. n \in 0 .. n
      BY <1>1
    <3> QED BY <2>1, <3>1 DEF IsEdges
  <2> HIDE DEF n, t, bin, args
  <2> QED BY <1>1, <1>10, <2>3, <2>5, <2>6
<1> DEFINE at == [j \in 0 .. n |-> t + edge[j]]
<1>12. IsBinaryAt(bin, message, 0, Len(bin), at)
  <2>0. \A j \in 0 .. n : at[j] = t + edge[j] /\ edge[j] \in Nat /\ t + edge[j] \in Nat
    <3>1. t \in Nat /\ edge \in [0 .. n -> Nat]
      BY <1>1, <1>7
    <3> HIDE DEF t, n
    <3>2. \A j \in 0 .. n : edge[j] \in Nat
      BY <3>1
    <3> QED BY <3>1, <3>2
  <2>1. /\ at \in [0 .. n -> Nat] /\ at[0] = 0 + t /\ Len(bin) = at[n] + 1
        /\ \A j \in 0 .. n : at[j] = t + edge[j] /\ edge[j] \in Nat
    <3>1. at \in [0 .. n -> Nat]
      BY <2>0
    <3>2. 0 \in 0 .. n /\ n \in 0 .. n /\ edge[0] = 0 /\ t \in Nat
      BY <1>1, <1>7
    <3>3. Len(bin) = t + edge[n] + 1
      BY <1>10
    <3> HIDE DEF at, t, bin
    <3> QED BY <2>0, <3>1, <3>2, <3>3
  <2>2. \A k \in 1 .. t : bin[0 + k] = text[k]
    <3>1. \A k \in 1 .. t : 0 + k = k
      BY <1>1
    <3> QED BY <1>10, <3>1
  <2>3. bin[Len(bin)] = MS
    BY <1>10
  <2>4. ASSUME NEW j \in 1 .. n
        PROVE  /\ at[j] = at[j - 1] + 1 + Len(args[j]) /\ at[j] < Len(bin)
               /\ bin[at[j - 1] + 1] = MPS
               /\ \A k \in 1 .. Len(args[j]) : bin[at[j - 1] + 1 + k] = args[j][k]
    <3> DEFINE l == Len(args[j])
               x == edge[j - 1]
               f == edge[n]
    <3>1. j \in 0 .. n /\ j - 1 \in 0 .. n
      BY <1>1
    <3>8. at[j] = t + edge[j] /\ at[j - 1] = t + x /\ x \in Nat
      BY <2>1, <3>1
    <3>9. edge[j] = x + (1 + l) /\ l \in Nat
      BY <1>1, <1>7
    <3>10. edge[j] <= f /\ f \in Nat
      BY <1>1, <1>7, <1>8, <3>1
    <3>2. /\ at[j] = t + edge[j] /\ at[j - 1] = t + x /\ edge[j] = x + (1 + l) /\ edge[j] <= f
          /\ x \in Nat /\ l \in Nat /\ f \in Nat /\ t \in Nat /\ Len(bin) = t + f + 1
      BY <1>1, <1>10, <3>8, <3>9, <3>10
    <3>3. /\ flat[x + 1] = MPS /\ \A k \in 1 .. l : flat[x + (1 + k)] = args[j][k]
      BY <1>9
    <3>4. \A k \in 1 .. f : bin[t + k] = flat[k]
      BY <1>10
    <3> HIDE DEF l, x, f, t, at, bin, flat
    <3>5. at[j] = at[j - 1] + 1 + l /\ at[j] < Len(bin)
      BY <3>2
    <3>6. bin[at[j - 1] + 1] = MPS
      <4>1. x + 1 \in 1 .. f /\ at[j - 1] + 1 = t + (x + 1)
        BY <3>2
      <4> QED BY <3>3, <3>4, <4>1
    <3>7. ASSUME NEW k \in 1 .. l PROVE bin[at[j - 1] + 1 + k] = args[j][k]
      <4>1. x + (1 + k) \in 1 .. f /\ at[j - 1] + 1 + k = t + (x + (1 + k))
        BY <3>2
      <4> QED BY <3>3, <3>4, <4>1
    <3> QED BY <3>5, <3>6, <3>7 DEF l
  <2> HIDE DEF at, bin
  <2> QED BY <2>1, <2>2, <2>3, <2>4 DEF IsBinaryAt
<1> QED BY <1>10, <1>11, <1>12

\* The same bytes elsewhere.
LEMMA BinaryElsewhere ==
    ASSUME NEW message, IsBuilt(message), NEW bin, NEW at, Len(bin) \in Nat,
           IsBinaryAt(bin, message, 0, Len(bin), at),
           NEW buffer, NEW from \in Nat, \A k \in 1 .. Len(bin) : buffer[from + k] = bin[k]
    PROVE  \E there : IsBinaryAt(buffer, message, from, from + Len(bin), there)
<1> DEFINE args == message.arguments
           text == Text(message)
           n == Len(args)
           t == Len(text)
           size == Len(bin)
           there == [j \in 0 .. n |-> from + at[j]]
<1>1. n \in Nat /\ t \in Nat /\ size \in Nat /\ \A j \in 1 .. n : Len(args[j]) \in Nat
  <2>1. args \in Seq(Seq(Bytes)) /\ n \in Nat /\ t \in Nat
    BY BuiltParts
  <2> QED BY <2>1, ElementOfSeq, LenProperties
<1>2. /\ at \in [0 .. n -> Nat] /\ at[0] = 0 + t /\ size = at[n] + 1
      /\ \A k \in 1 .. t : bin[0 + k] = text[k]
      /\ bin[size] = MS
      /\ \A j \in 1 .. n :
           /\ at[j] = at[j - 1] + 1 + Len(args[j]) /\ at[j] < size
           /\ bin[at[j - 1] + 1] = MPS
           /\ \A k \in 1 .. Len(args[j]) : bin[at[j - 1] + 1 + k] = args[j][k]
  BY DEF IsBinaryAt
<1>3. \A k \in 1 .. size : buffer[from + k] = bin[k]
  OBVIOUS
<1> HIDE DEF n, t, size
<1>4. /\ there \in [0 .. n -> Nat] /\ \A j \in 0 .. n : there[j] = from + at[j] /\ at[j] \in Nat
  <2>1. \A j \in 0 .. n : at[j] \in Nat /\ from + at[j] \in Nat
    BY <1>2
  <2> QED BY <2>1
<1> HIDE DEF there, args, text
<1>5. there[0] = from + t /\ from + size = there[n] + 1
  <2>1. 0 \in 0 .. n /\ n \in 0 .. n
    BY <1>1
  <2> QED BY <1>1, <1>2, <1>4, <2>1
<1>10. t < size
  <2>1. CASE n = 0
    BY <1>1, <1>2, <2>1
  <2>2. CASE n > 0
    BY <1>1, <1>2, <2>2
  <2> QED BY <1>1, <2>1, <2>2
<1>6. ASSUME NEW k \in 1 .. t PROVE buffer[from + k] = text[k]
  <2>1. k \in 1 .. size /\ 0 + k = k
    BY <1>1, <1>10
  <2> QED BY <1>2, <1>3, <2>1
<1>7. buffer[from + size] = MS
  <2>1. size \in 1 .. size
    BY <1>1, <1>10
  <2> QED BY <1>2, <1>3, <2>1
<1>8. ASSUME NEW j \in 1 .. n
      PROVE  /\ there[j] = there[j - 1] + 1 + Len(args[j]) /\ there[j] < from + size
             /\ buffer[there[j - 1] + 1] = MPS
             /\ \A k \in 1 .. Len(args[j]) : buffer[there[j - 1] + 1 + k] = args[j][k]
  <2> DEFINE x == at[j - 1]
             l == Len(args[j])
  <2>1. j \in 0 .. n /\ j - 1 \in 0 .. n
    BY <1>1
  <2>2. /\ there[j] = from + at[j] /\ there[j - 1] = from + x /\ at[j] = x + 1 + l /\ at[j] < size
        /\ x \in Nat /\ l \in Nat /\ size \in Nat
    BY <1>1, <1>2, <1>4, <2>1
  <2>3. bin[x + 1] = MPS /\ \A k \in 1 .. l : bin[x + 1 + k] = args[j][k]
    BY <1>2
  <2> HIDE DEF x, l
  <2>4. there[j] = there[j - 1] + 1 + l /\ there[j] < from + size
    BY <2>2
  <2>5. buffer[there[j - 1] + 1] = MPS
    <3>1. x + 1 \in 1 .. size /\ there[j - 1] + 1 = from + (x + 1)
      BY <2>2
    <3> QED BY <1>3, <2>3, <3>1
  <2>6. ASSUME NEW k \in 1 .. l PROVE buffer[there[j - 1] + 1 + k] = args[j][k]
    <3>1. x + 1 + k \in 1 .. size /\ there[j - 1] + 1 + k = from + (x + 1 + k)
      BY <2>2
    <3> QED BY <1>3, <2>3, <3>1
  <2> QED BY <2>4, <2>5, <2>6 DEF l
<1>9. IsBinaryAt(buffer, message, from, from + size, there)
  BY <1>4, <1>5, <1>6, <1>7, <1>8 DEF IsBinaryAt, n, t, args, text
<1> QED BY <1>9 DEF size

-----------------------------------------------------------------------------
(***************************************************************************)
(* Where the messages are in a frame                                       *)
(***************************************************************************)

\* Message i of the list takes the bytes from edge[i - 1] up to edge[i].
IsLayout(buffer, list, edge, at) ==
    /\ edge \in [0 .. Len(list) -> Nat] /\ edge[0] = 0 /\ edge[Len(list)] = Len(buffer)
    /\ \A i \in 1 .. Len(list) :
         /\ edge[i] = edge[i - 1] + size_impl_(list[i])
         /\ edge[i - 1] < edge[i] /\ edge[i] <= Len(buffer)
         /\ IsBinaryAt(buffer, list[i], edge[i - 1], edge[i], at[i])
         /\ \A k \in 1 .. size_impl_(list[i]) :
              buffer[edge[i - 1] + k] = to_binary_impl_(list[i])[k]

LEMMA FrameIs ==
    ASSUME NEW list \in Built
    PROVE  Frame(list) \in Seq(Bytes) /\ \E edge, at : IsLayout(Frame(list), list, edge, at)
<1> DEFINE n == Len(list)
           bins == [i \in DOMAIN list |-> to_binary_impl_(list[i])]
           buffer == Frame(list)
<1>1. n \in Nat /\ DOMAIN list = 1 .. n /\ \A i \in 1 .. n : IsBuilt(list[i])
  BY BuiltMessages
<1>2. \A i \in 1 .. n : /\ to_binary_impl_(list[i]) \in Seq(Bytes)
                        /\ Len(to_binary_impl_(list[i])) = size_impl_(list[i])
  BY <1>1, BinaryIs
<1>3. bins \in Seq(Seq(Bytes)) /\ Len(bins) = n /\ \A i \in 1 .. n : bins[i] = to_binary_impl_(list[i])
  <2> HIDE DEF n
  <2>1. bins \in [1 .. n -> Seq(Bytes)] /\ \A i \in 1 .. n : bins[i] = to_binary_impl_(list[i])
    BY <1>1, <1>2
  <2> HIDE DEF bins
  <2> QED BY <1>1, <2>1
<1>4. buffer = FlattenSeq(bins)
  BY DEF Frame
<1> HIDE DEF bins, buffer, n
<1>5. buffer \in Seq(Bytes)
  BY <1>3, <1>4, FlattenProperties
<1>6. PICK edge : /\ IsEdges(edge, bins)
                  /\ Len(buffer) = edge[Len(bins)]
                  /\ \A i \in 1 .. Len(bins) : \A k \in 1 .. Len(bins[i]) :
                       buffer[edge[i - 1] + k] = bins[i][k]
  BY <1>3, <1>4, FlattenProperties
<1>7. /\ edge \in [0 .. n -> Nat] /\ edge[0] = 0 /\ edge[n] = Len(buffer)
      /\ \A i \in 1 .. n : edge[i] = edge[i - 1] + size_impl_(list[i])
  BY <1>2, <1>3, <1>6 DEF IsEdges
<1>8. ASSUME NEW i \in 1 .. n
      PROVE  /\ \A k \in 1 .. size_impl_(list[i]) :
                  buffer[edge[i - 1] + k] = to_binary_impl_(list[i])[k]
             /\ edge[i] <= Len(buffer) /\ edge[i - 1] < edge[i]
             /\ \E there : IsBinaryAt(buffer, list[i], edge[i - 1], edge[i], there)
  <2>1. Len(bins[i]) = size_impl_(list[i]) /\ bins[i] = to_binary_impl_(list[i])
    BY <1>2, <1>3
  <2>2. \A k \in 1 .. Len(bins[i]) : buffer[edge[i - 1] + k] = bins[i][k]
    BY <1>3, <1>6
  <2>3. edge[i] <= Len(buffer)
    <3>1. i \in 0 .. n /\ n \in i .. n
      BY <1>1
    <3> QED BY <1>3, <1>6, <3>1, EdgesAscend
  <2>4. i - 1 \in 0 .. n /\ edge[i - 1] \in Nat /\ edge[i] \in Nat
    BY <1>1, <1>7
  <2>5. IsBuilt(list[i]) /\ Len(bins[i]) \in Nat
    BY <1>1, <1>3, <1>2, LenProperties
  <2>6. PICK at : IsBinaryAt(bins[i], list[i], 0, Len(bins[i]), at)
    BY <1>1, <2>1, BinaryIs
  <2>7. \E there : IsBinaryAt(buffer, list[i], edge[i - 1], edge[i - 1] + Len(bins[i]), there)
    BY <2>2, <2>4, <2>5, <2>6, BinaryElsewhere
  <2>8. edge[i] = edge[i - 1] + Len(bins[i])
    BY <1>7, <2>1
  <2>9. Len(bins[i]) > 0
    <3>1. /\ Len(list[i].arguments) \in Nat
          /\ at \in [0 .. Len(list[i].arguments) -> Nat]
          /\ Len(bins[i]) = at[Len(list[i].arguments)] + 1
      BY <2>5, <2>6, BuiltParts DEF IsBinaryAt
    <3> DEFINE m == Len(list[i].arguments)
    <3>2. m \in 0 .. m
      BY <3>1
    <3>3. at[m] \in Nat
      BY <3>1, <3>2
    <3> QED BY <3>1, <3>3
  <2>10. edge[i - 1] < edge[i]
    BY <2>4, <2>8, <2>5, <2>9
  <2> QED BY <2>1, <2>2, <2>3, <2>7, <2>8, <2>10
<1> DEFINE at == [i \in 1 .. n |-> CHOOSE there : IsBinaryAt(buffer, list[i], edge[i - 1], edge[i], there)]
<1>9. \A i \in 1 .. n : IsBinaryAt(buffer, list[i], edge[i - 1], edge[i], at[i])
  BY <1>8
<1> HIDE DEF at
<1>10. IsLayout(buffer, list, edge, at)
  BY <1>7, <1>8, <1>9 DEF IsLayout, n
<1> QED BY <1>5, <1>10 DEF buffer

-----------------------------------------------------------------------------
(***************************************************************************)
(* What the scanner matches in such a buffer                               *)
(***************************************************************************)

LEMMA BinaryOffsets ==
    ASSUME NEW message, IsBuilt(message), NEW buffer, NEW from \in Nat, NEW to, NEW at,
           IsBinaryAt(buffer, message, from, to, at)
    PROVE  /\ to \in Nat /\ \A j \in 0 .. Len(message.arguments) : at[j] \in Nat /\ at[j] < to
           /\ \A j \in 1 .. Len(message.arguments) :
                /\ at[j] = at[j - 1] + 1 + Len(message.arguments[j])
                /\ Len(message.arguments[j]) \in Nat /\ Len(message.arguments[j]) > 0
                /\ \A k \in 1 .. Len(message.arguments[j]) :
                     message.arguments[j][k] \in Bytes \ {MPS, MS}
           /\ \A j \in 0 .. Len(message.arguments) :
                buffer[at[j] + 1] = IF j < Len(message.arguments) THEN MPS ELSE MS
<1> DEFINE args == message.arguments
           n == Len(args)
<1>1. /\ args \in Seq(Seq(Bytes \ {MPS, MS})) /\ \A j \in 1 .. n : Len(args[j]) > 0
  BY DEF IsBuilt
<1>2. /\ n \in Nat
      /\ \A j \in 1 .. n : args[j] \in Seq(Bytes \ {MPS, MS})
  BY <1>1, LenProperties, ElementOfSeq
<1>3. \A j \in 1 .. n : /\ Len(args[j]) \in Nat
                        /\ \A k \in 1 .. Len(args[j]) : args[j][k] \in Bytes \ {MPS, MS}
  BY <1>2, LenProperties, ElementOfSeq
<1>4. /\ at \in [0 .. n -> Nat] /\ to = at[n] + 1 /\ buffer[to] = MS
      /\ \A j \in 1 .. n : /\ at[j] = at[j - 1] + 1 + Len(args[j]) /\ at[j] < to
                           /\ buffer[at[j - 1] + 1] = MPS
  BY DEF IsBinaryAt
<1> HIDE DEF n, args
<1>5. to \in Nat /\ \A j \in 0 .. n : at[j] \in Nat
  BY <1>2, <1>4
<1>6. ASSUME NEW j \in 0 .. n PROVE at[j] < to
  <2>1. CASE j = 0
    <3>1. CASE n = 0
      BY <1>4, <1>5, <2>1, <3>1
    <3>2. CASE n # 0
      <4>1. 1 \in 1 .. n /\ 1 - 1 = 0 /\ 0 \in 0 .. n /\ 1 \in 0 .. n
        BY <1>2, <3>2
      <4>2. at[1] = at[0] + 1 + Len(args[1]) /\ at[1] < to /\ Len(args[1]) \in Nat
        BY <1>3, <1>4, <4>1
      <4>3. at[0] \in Nat /\ at[1] \in Nat /\ to \in Nat
        BY <1>5, <4>1
      <4> QED BY <2>1, <4>2, <4>3
    <3> QED BY <3>1, <3>2
  <2>2. CASE j # 0
    <3>1. j \in 1 .. n
      BY <2>2
    <3> QED BY <1>4, <3>1
  <2> QED BY <2>1, <2>2
<1>7. ASSUME NEW j \in 0 .. n PROVE buffer[at[j] + 1] = IF j < n THEN MPS ELSE MS
  <2>1. CASE j < n
    <3>1. j + 1 \in 1 .. n /\ (j + 1) - 1 = j
      BY <1>2, <2>1
    <3> QED BY <1>4, <2>1, <3>1
  <2>2. CASE ~(j < n)
    <3>1. j = n
      BY <1>2, <2>2
    <3> QED BY <1>4, <2>2, <3>1
  <2> QED BY <2>1, <2>2
<1>8. \A j \in 1 .. n : Len(args[j]) > 0
  BY <1>1 DEF n, args
<1> QED BY <1>3, <1>4, <1>5, <1>6, <1>7, <1>8 DEF n, args

\* The longest header that begins where a message does is the message's: what
\* follows it is a separator.
LEMMA ScansHeader ==
    ASSUME TypeOK, NEW message, IsBuilt(message), offset_ \in Nat, NEW to, NEW at,
           IsBinaryAt(buffer_, message, offset_, to, at), to <= Size
    PROVE  /\ At(Text(message), offset_)
           /\ \A h \in Headers : MatchesHeader(h) => h = Text(message)
<1> DEFINE g == Text(message)
           n == Len(message.arguments)
<1>1. g \in Headers /\ g \in Seq(Bytes) /\ Len(g) \in Nat /\ n \in Nat /\ Size \in Nat
  BY BuiltParts DEF TypeOK, Size
<1>2. /\ at[0] = offset_ + Len(g) /\ \A k \in 1 .. Len(g) : buffer_[offset_ + k] = g[k]
  BY DEF IsBinaryAt
<1>3. /\ to \in Nat /\ at[0] < to /\ (buffer_[at[0] + 1] = MPS \/ buffer_[at[0] + 1] = MS)
  <2>1. 0 \in 0 .. n
    BY <1>1
  <2> HIDE DEF n
  <2>2. to \in Nat /\ \A j \in 0 .. n : at[j] < to
    BY BinaryOffsets DEF n
  <2>3. \A j \in 0 .. n : buffer_[at[j] + 1] = IF j < n THEN MPS ELSE MS
    BY BinaryOffsets DEF n
  <2> QED BY <2>1, <2>2, <2>3
<1> HIDE DEF g, n
<1>4. At(g, offset_)
  <2>1. offset_ + Len(g) <= Size
    BY <1>1, <1>2, <1>3
  <2> QED BY <1>2, <2>1 DEF At
<1>5. ASSUME NEW h \in Headers, MatchesHeader(h) PROVE h = g
  <2>1. At(h, offset_) /\ Len(g) <= Len(h)
    BY <1>1, <1>4, <1>5 DEF MatchesHeader
  <2>2. h \in Seq(Bytes \ {MS}) /\ h \in Seq(Bytes)
    <3>1. h \in Seq(Bytes \ {MS})
      BY HeadersAssumption
    <3> QED BY <3>1, SeqMonotonic
  <2>3. Len(h) \in Nat /\ \A k \in 1 .. Len(h) : h[k] # MS /\ buffer_[offset_ + k] = h[k]
    <3>1. \A k \in 1 .. Len(h) : h[k] \in Bytes \ {MS}
      BY <2>2, ElementOfSeq
    <3> QED BY <2>1, <2>2, <3>1, LenProperties DEF At
  <2>4. \A k \in 1 .. Len(g) : h[k] = g[k]
    <3>1. \A k \in 1 .. Len(g) : k \in 1 .. Len(h)
      BY <1>1, <2>1, <2>3
    <3> QED BY <1>2, <2>3, <3>1
  <2>5. CASE Len(g) < Len(h)
    <3>1. h[Len(g) + 1] # MPS
      BY <1>1, <2>4, <2>5, NoHeaderIsAnArgument
    <3>2. Len(g) + 1 \in 1 .. Len(h) /\ offset_ + (Len(g) + 1) = at[0] + 1
      BY <1>1, <1>2, <2>3, <2>5
    <3>3. h[Len(g) + 1] # MS /\ h[Len(g) + 1] = buffer_[at[0] + 1]
      BY <2>3, <3>2
    <3> QED BY <1>3, <3>1, <3>3
  <2>6. CASE Len(g) = Len(h)
    BY <1>1, <2>2, <2>4, <2>6, SeqEqual
  <2> QED BY <1>1, <2>1, <2>3, <2>5, <2>6
<1> QED BY <1>4, <1>5 DEF g

\* The longest run of other bytes after the separator of an argument is the
\* argument.
LEMMA ScansPayload ==
    ASSUME TypeOK, NEW message, IsBuilt(message), NEW from \in Nat, NEW to, NEW at,
           IsBinaryAt(buffer_, message, from, to, at), to <= Size,
           NEW j \in 1 .. Len(message.arguments), offset_ = at[j - 1]
    PROVE  /\ Len(message.arguments[j]) \in 1 .. Size
           /\ \A k \in 1 .. Size : MatchesPayload(k) <=> k = Len(message.arguments[j])
<1> DEFINE n == Len(message.arguments)
           a == message.arguments[j]
           l == Len(a)
           x == at[j - 1]
           y == at[j]
<1>1. n \in Nat /\ Size \in Nat /\ j \in 1 .. n
  BY BuiltParts DEF TypeOK, Size
<1>2. j \in 0 .. n /\ j - 1 \in 0 .. n /\ j - 1 < n /\ j \in 1 .. n
  BY <1>1
<1>3. /\ to \in Nat /\ x \in Nat /\ y \in Nat /\ y < to /\ y = x + 1 + l
      /\ l \in Nat /\ l > 0 /\ \A k \in 1 .. l : a[k] \in Bytes \ {MPS, MS}
      /\ buffer_[x + 1] = MPS /\ (buffer_[y + 1] = MPS \/ buffer_[y + 1] = MS)
  <2>1. /\ to \in Nat /\ at[j - 1] \in Nat /\ at[j] \in Nat /\ at[j] < to
    BY <1>2, BinaryOffsets DEF n
  <2>2. /\ at[j] = at[j - 1] + 1 + Len(message.arguments[j])
        /\ Len(message.arguments[j]) \in Nat /\ Len(message.arguments[j]) > 0
        /\ \A k \in 1 .. Len(message.arguments[j]) : message.arguments[j][k] \in Bytes \ {MPS, MS}
    BY <1>2, BinaryOffsets DEF n
  <2>3. \A i \in 0 .. n : buffer_[at[i] + 1] = IF i < n THEN MPS ELSE MS
    BY BinaryOffsets DEF n
  <2> HIDE DEF n
  <2>4. buffer_[at[j - 1] + 1] = MPS /\ (buffer_[at[j] + 1] = MPS \/ buffer_[at[j] + 1] = MS)
    BY <1>2, <2>3
  <2> QED BY <2>1, <2>2, <2>4
<1>4. \A k \in 1 .. l : buffer_[x + 1 + k] = a[k]
  BY DEF IsBinaryAt
<1>5. offset_ = x
  OBVIOUS
<1> HIDE DEF n, a, l, x, y
<1>6. l \in 1 .. Size /\ x + 1 + l < Size
  BY <1>1, <1>3
<1>7. \A k \in 1 .. l : buffer_[x + 1 + k] \in Bytes \ {MPS, MS}
  BY <1>3, <1>4
<1>8. buffer_[x + 1 + l + 1] = MPS \/ buffer_[x + 1 + l + 1] = MS
  <2>1. x + 1 + l + 1 = y + 1
    BY <1>3
  <2> QED BY <1>3, <2>1
<1>9. MatchesPayload(l)
  <2>1. Run(x + 1, Bytes \ {MPS, MS}, l)
    <3>1. l \in 0 .. Size /\ x + 1 + l <= Size
      BY <1>1, <1>3, <1>6
    <3>2. ByteAt(x + 1 + l) \notin Bytes \ {MPS, MS}
      BY <1>8 DEF ByteAt
    <3> QED BY <1>7, <3>1, <3>2 DEF Run
  <2> QED BY <1>3, <1>5, <2>1 DEF MatchesPayload, ByteAt
<1>10. ASSUME NEW k \in 1 .. Size, MatchesPayload(k) PROVE k = l
  <2>1. /\ x + 1 + k <= Size
        /\ \A i \in 1 .. k : buffer_[x + 1 + i] \in Bytes \ {MPS, MS}
        /\ x + 1 + k < Size => buffer_[x + 1 + k + 1] \notin Bytes \ {MPS, MS}
    BY <1>5, <1>10 DEF MatchesPayload, Run, ByteAt
  <2>2. CASE k < l
    <3>1. k + 1 \in 1 .. l /\ x + 1 + (k + 1) = x + 1 + k + 1 /\ x + 1 + k < Size
      BY <1>1, <1>3, <1>6, <2>2
    <3> QED BY <1>7, <2>1, <3>1
  <2>3. CASE l < k
    <3>1. l + 1 \in 1 .. k /\ x + 1 + (l + 1) = x + 1 + l + 1
      BY <1>1, <1>3, <2>3
    <3> QED BY <1>8, <2>1, <3>1
  <2> QED BY <1>1, <1>3, <2>2, <2>3
<1>11. l \in 1 .. Size /\ \A k \in 1 .. Size : MatchesPayload(k) <=> k = l
  BY <1>6, <1>9, <1>10
<1> QED BY <1>11 DEF l, a

-----------------------------------------------------------------------------
(***************************************************************************)
(* The invariant: how far the parser has read                              *)
(***************************************************************************)

\* A message after its header and j of its arguments, ...
Partial(message, from, at, j) ==
    [offset |-> from, size |-> at[j] - from, header |-> Text(message),
     arguments |-> [q \in 1 .. j |->
         [offset |-> at[q - 1] + 1, size |-> Len(message.arguments[q])]]]

\* ... and with its separator.
Whole(message, from, at) ==
    [Partial(message, from, at, Len(message.arguments)) EXCEPT !.size = @ + 1]

\* Between two messages, and in message i + 1 after j arguments
Between(list, edge, i) ==
    /\ tokenizing_header_
    /\ ~returned => offset_ = edge[i]
    /\ returned => i = Len(list)

Within(list, edge, at, i, j) ==
    /\ ~tokenizing_header_ /\ ~returned
    /\ offset_ = at[i + 1][j]
    /\ Back = Partial(list[i + 1], edge[i], at[i + 1], j)

AreRead(list, edge, at, i) ==
    /\ Len(Complete) = i
    /\ \A q \in 1 .. i : Complete[q] = Whole(list[q], edge[q - 1], at[q])

Reading(list, edge, at) ==
    /\ errors_ = <<>>
    /\ \E i \in 0 .. Len(list) :
         /\ AreRead(list, edge, at, i)
         /\ \/ Between(list, edge, i)
            \/ i < Len(list) /\ \E j \in 0 .. Len(list[i + 1].arguments) :
                                  Within(list, edge, at, i, j)

\* Message i + 1 in the buffer
LEMMA NextInLayout ==
    ASSUME TypeOK, NEW list \in Built, NEW edge, NEW at, IsLayout(buffer_, list, edge, at),
           NEW i \in 0 .. Len(list), i < Len(list)
    PROVE  /\ i + 1 \in 1 .. Len(list) /\ IsBuilt(list[i + 1])
           /\ edge[i] \in Nat /\ edge[i + 1] \in Nat /\ edge[i + 1] <= Size
           /\ IsBinaryAt(buffer_, list[i + 1], edge[i], edge[i + 1], at[i + 1])
<1> DEFINE n == Len(list)
<1>1. n \in Nat /\ \A q \in 1 .. n : IsBuilt(list[q])
  BY BuiltMessages
<1>2. /\ edge \in [0 .. n -> Nat]
      /\ \A q \in 1 .. n : /\ edge[q] <= Len(buffer_)
                           /\ IsBinaryAt(buffer_, list[q], edge[q - 1], edge[q], at[q])
  BY DEF IsLayout
<1> HIDE DEF n
<1>3. i + 1 \in 1 .. n /\ i \in 0 .. n /\ i + 1 \in 0 .. n /\ (i + 1) - 1 = i
  BY <1>1 DEF n
<1>4. IsBinaryAt(buffer_, list[i + 1], edge[(i + 1) - 1], edge[i + 1], at[i + 1])
  BY <1>2, <1>3
<1> QED BY <1>1, <1>2, <1>3, <1>4 DEF Size, n

LEMMA ReadsHeader ==
    ASSUME Inv, NEW list \in Built, NEW edge, NEW at, IsLayout(buffer_, list, edge, at),
           NEW i \in 0 .. Len(list), AreRead(list, edge, at, i), Between(list, edge, i),
           errors_ = <<>>, Token
    PROVE  Reading(list, edge, at)'
<1>1. ~returned /\ offset_ = edge[i] /\ offset_ < Size /\ tokenizing_header_ /\ start = "INITIAL"
      /\ returned' = returned
  BY DEF Token, Between, Inv, AssertionsHold
<1>2. i < Len(list) /\ Len(list) \in Nat
  <2>1. edge[Len(list)] = Size /\ Len(list) \in Nat
    BY BuiltMessages DEF IsLayout, Size
  <2> QED BY <1>1, <2>1 DEF Inv, TypeOK
<1> DEFINE m == list[i + 1]
           to == edge[i + 1]
           there == at[i + 1]
<1>3. /\ i + 1 \in 1 .. Len(list) /\ IsBuilt(m)
      /\ edge[i] \in Nat /\ to \in Nat /\ to <= Size
      /\ IsBinaryAt(buffer_, m, edge[i], to, there)
  BY <1>2, NextInLayout DEF Inv
<1> HIDE DEF m, to, there
<1>4. /\ At(Text(m), offset_) /\ \A h \in Headers : MatchesHeader(h) => h = Text(m)
  BY <1>1, <1>3, ScansHeader DEF Inv
<1>5. Text(m) \in Headers /\ Len(Text(m)) \in Nat /\ Len(m.arguments) \in Nat
  BY <1>3, BuiltParts
<1>6. there[0] = edge[i] + Len(Text(m))
  BY <1>3 DEF IsBinaryAt
<1>7. PICK h \in Headers : handle_header(h)
  <2>1. ~handle_message_separator /\ \A n \in 1 .. Size : ~handle_payload(n)
    BY <1>1 DEF handle_message_separator, EndMessage, handle_payload
  <2>2. \A n \in 1 .. Size + 1 : ~handle_error(n)
    BY <1>1, <1>4, <1>5 DEF handle_error, HandleUnknown, MatchesUnknown
  <2> QED BY <2>1, <2>2 DEF Token
<1>8. h = Text(m)
  BY <1>4, <1>7 DEF handle_header
<1>9. /\ ~tokenizing_header_' /\ offset_' = offset_ + Len(h) /\ errors_' = errors_
      /\ Complete' = Complete
      /\ Back' = [offset |-> offset_, size |-> Len(h), header |-> h, arguments |-> <<>>]
  BY <1>1, <1>7, HeaderEffect DEF handle_header
<1>10. Back' = Partial(m, edge[i], there, 0)
  <2>1. there[0] - edge[i] = Len(h)
    BY <1>3, <1>5, <1>6, <1>8
  <2>2. [q \in 1 .. 0 |-> [offset |-> there[q - 1] + 1, size |-> Len(m.arguments[q])]] = <<>>
    OBVIOUS
  <2> QED BY <1>1, <1>8, <1>9, <2>1, <2>2 DEF Partial
<1>11. offset_' = there[0]
  BY <1>1, <1>6, <1>8, <1>9
<1>12. AreRead(list, edge, at, i)'
  BY <1>9 DEF AreRead
<1>13. Within(list, edge, at, i, 0)'
  BY <1>1, <1>9, <1>10, <1>11 DEF Within, m, there
<1>14. 0 \in 0 .. Len(list[i + 1].arguments)
  BY <1>5 DEF m
<1> QED BY <1>2, <1>9, <1>12, <1>13, <1>14 DEF Reading

LEMMA ReadsPayload ==
    ASSUME Inv, NEW list \in Built, NEW edge, NEW at, IsLayout(buffer_, list, edge, at),
           NEW i \in 0 .. Len(list), i < Len(list), AreRead(list, edge, at, i),
           NEW j \in 0 .. Len(list[i + 1].arguments), Within(list, edge, at, i, j),
           j < Len(list[i + 1].arguments), errors_ = <<>>, Token
    PROVE  Reading(list, edge, at)'
<1> DEFINE m == list[i + 1]
           to == edge[i + 1]
           there == at[i + 1]
           l == Len(m.arguments[j + 1])
           n == Len(m.arguments)
<1>1. ~returned /\ offset_ = there[j] /\ offset_ < Size /\ ~tokenizing_header_ /\ start = "yypayload"
      /\ returned' = returned /\ Back = Partial(m, edge[i], there, j)
  BY DEF Token, Within, Inv, AssertionsHold, TypeOK
<1>3. /\ i + 1 \in 1 .. Len(list) /\ IsBuilt(m)
      /\ edge[i] \in Nat /\ to \in Nat /\ to <= Size
      /\ IsBinaryAt(buffer_, m, edge[i], to, there)
  BY NextInLayout DEF Inv
<1>4. n \in Nat /\ j \in 0 .. n /\ j < n
  BY <1>3, BuiltParts
<1> HIDE DEF m, to, there, n
<1>5. j + 1 \in 1 .. n /\ (j + 1) - 1 = j /\ j + 1 \in 0 .. n
  BY <1>4
<1>6. l \in 1 .. Size /\ \A k \in 1 .. Size : MatchesPayload(k) <=> k = l
  BY <1>1, <1>3, <1>5, ScansPayload DEF Inv, n
<1>7. /\ there[j] \in Nat /\ there[j + 1] = there[j] + 1 + l /\ buffer_[there[j] + 1] = MPS
      /\ l \in Nat
  <2>1. \A q \in 0 .. n : there[q] \in Nat
    BY <1>3, BinaryOffsets DEF n
  <2>2. \A q \in 1 .. n : there[q] = there[q - 1] + 1 + Len(m.arguments[q]) /\ buffer_[there[q - 1] + 1] = MPS
    BY <1>3 DEF IsBinaryAt, n
  <2>3. there[j + 1] = there[j] + 1 + l /\ buffer_[there[j] + 1] = MPS
    BY <1>5, <2>2
  <2>4. l \in Nat
    BY <1>6
  <2>5. there[j] \in Nat
    BY <1>4, <2>1
  <2> QED BY <2>3, <2>4, <2>5
<1> HIDE DEF l
<1>8. handle_payload(l)
  <2>1. ~handle_message_separator
    <3>1. ByteAt(offset_) = MPS
      BY <1>1, <1>7 DEF ByteAt
    <3> QED BY <3>1, SeparatorsAssumption DEF handle_message_separator, EndMessage
  <2>2. \A h \in Headers : ~handle_header(h)
    BY <1>1 DEF handle_header
  <2>3. \A k \in 1 .. Size + 1 : ~handle_error(k)
    BY <1>1, <1>6 DEF handle_error, HandleUnknown, MatchesUnknown
  <2>4. PICK k \in 1 .. Size : handle_payload(k)
    BY <2>1, <2>2, <2>3 DEF Token
  <2>5. k = l
    BY <1>6, <2>4 DEF handle_payload
  <2> QED BY <2>4, <2>5
<1> DEFINE argument == [offset |-> offset_ + 1, size |-> l]
<1>9. /\ ~tokenizing_header_' /\ Complete' = Complete
      /\ Back' = [Back EXCEPT !.arguments = Append(@, argument), !.size = @ + l + 1]
  BY <1>1, <1>6, <1>8, PayloadEffect
<1>10. offset_' = there[j + 1] /\ errors_' = errors_
  BY <1>1, <1>7, <1>8 DEF handle_payload
<1>11. Back' = Partial(m, edge[i], there, j + 1)
  <2> DEFINE part(q) == [offset |-> there[q - 1] + 1, size |-> Len(m.arguments[q])]
  <2>1. (there[j] - edge[i]) + l + 1 = there[j + 1] - edge[i]
    <3> DEFINE x == there[j]
               y == edge[i]
    <3>1. x \in Nat /\ y \in Nat /\ l \in Nat /\ there[j + 1] = x + 1 + l
      BY <1>3, <1>7
    <3> HIDE DEF x, y
    <3>2. (x - y) + l + 1 = (x + 1 + l) - y
      BY <3>1
    <3> QED BY <3>1, <3>2 DEF x, y
  <2>2. part(j + 1) = argument
    BY <1>1, <1>5 DEF l
  <2>3. [q \in 1 .. j + 1 |-> part(q)] = Append([q \in 1 .. j |-> part(q)], argument)
    <3> HIDE DEF part, argument
    <3> DEFINE s == [q \in 1 .. j |-> part(q)]
               S == {part(q) : q \in 1 .. j + 1}
    <3>1. j \in Nat /\ j + 1 \in 1 .. j + 1 /\ 1 .. j \subseteq 1 .. j + 1
      BY <1>4
    <3>2. s \in [1 .. j -> S]
      BY <3>1
    <3>3. s \in Seq(S) /\ Len(s) = j
      BY <3>1, <3>2
    <3>4. part(j + 1) \in S
      BY <3>1
    <3>5. \A q \in 1 .. j : s[q] = part(q)
      OBVIOUS
    <3> HIDE DEF s, S
    <3>6. /\ Append(s, argument) \in Seq(S) /\ Len(Append(s, argument)) = j + 1
          /\ \A q \in 1 .. j : Append(s, argument)[q] = s[q]
          /\ Append(s, argument)[j + 1] = argument
      BY <2>2, <3>3, <3>4, AppendProperties
    <3>7. ASSUME NEW q \in 1 .. j + 1 PROVE Append(s, argument)[q] = part(q)
      <4>1. CASE q = j + 1
        BY <2>2, <3>6, <4>1
      <4>2. CASE q # j + 1
        <5>1. q \in 1 .. j
          BY <3>1, <4>2
        <5> QED BY <3>5, <3>6, <5>1
      <4> QED BY <4>1, <4>2
    <3> DEFINE t == [q \in 1 .. j + 1 |-> part(q)]
    <3>8. t \in [1 .. j + 1 -> S] /\ j + 1 \in Nat /\ \A q \in 1 .. j + 1 : t[q] = part(q)
      BY <3>1 DEF S
    <3> HIDE DEF t
    <3>9. t \in Seq(S) /\ Len(t) = j + 1
      BY <3>8
    <3>10. t = Append(s, argument)
      BY <3>6, <3>7, <3>8, <3>9, SeqEqual
    <3> QED BY <3>10 DEF s, t
  <2> HIDE DEF part, argument
  <2> DEFINE A == [q \in 1 .. j |-> part(q)]
             B == [q \in 1 .. j + 1 |-> part(q)]
  <2>4. Back = [offset |-> edge[i], size |-> there[j] - edge[i], header |-> Text(m), arguments |-> A]
    BY <1>1 DEF Partial, part
  <2>5. Partial(m, edge[i], there, j + 1) =
          [offset |-> edge[i], size |-> there[j + 1] - edge[i], header |-> Text(m), arguments |-> B]
    BY DEF Partial, part
  <2>6. B = Append(A, argument)
    BY <2>3
  <2> DEFINE x == there[j] - edge[i]
             y == there[j + 1] - edge[i]
  <2>7. Back = [offset |-> edge[i], size |-> x, header |-> Text(m), arguments |-> A]
    BY <2>4
  <2>8. y = x + l + 1
    BY <2>1
  <2> HIDE DEF A, B, x, y
  <2>9. Back' = [offset |-> edge[i], size |-> y, header |-> Text(m), arguments |-> B]
    BY <1>9, <2>6, <2>7, <2>8
  <2> QED BY <2>5, <2>9 DEF y
<1>12. AreRead(list, edge, at, i)'
  BY <1>9 DEF AreRead
<1>13. Within(list, edge, at, i, j + 1)'
  BY <1>1, <1>9, <1>10, <1>11 DEF Within, m, there
<1>14. j + 1 \in 0 .. Len(list[i + 1].arguments)
  BY <1>5 DEF m, n
<1> QED BY <1>10, <1>12, <1>13, <1>14 DEF Reading

LEMMA ReadsSeparator ==
    ASSUME Inv, NEW list \in Built, NEW edge, NEW at, IsLayout(buffer_, list, edge, at),
           NEW i \in 0 .. Len(list), i < Len(list), AreRead(list, edge, at, i),
           Within(list, edge, at, i, Len(list[i + 1].arguments)), errors_ = <<>>, Token
    PROVE  Reading(list, edge, at)'
<1> DEFINE m == list[i + 1]
           to == edge[i + 1]
           there == at[i + 1]
           n == Len(m.arguments)
<1>1. ~returned /\ offset_ = there[n] /\ offset_ < Size /\ ~tokenizing_header_ /\ start = "yypayload"
      /\ returned' = returned /\ Back = Partial(m, edge[i], there, n)
  BY DEF Token, Within, Inv, AssertionsHold, TypeOK
<1>3. /\ i + 1 \in 1 .. Len(list) /\ i + 1 \in 0 .. Len(list) /\ IsBuilt(m)
      /\ IsBinaryAt(buffer_, m, edge[i], to, there)
  BY NextInLayout DEF Inv
<1> HIDE DEF m, to, there
<1>4. n \in Nat /\ Text(m) \in Headers /\ n \in NumArguments[Text(m)][1] .. NumArguments[Text(m)][2]
  <2>1. NumArguments[Text(m)] = num_arguments(m.header)
    BY <1>3, TextIs DEF Text, IsBuilt
  <2> QED BY <1>3, <2>1, BuiltParts DEF IsBuilt
<1>5. to = there[n] + 1 /\ buffer_[to] = MS
  BY <1>3 DEF IsBinaryAt
<1> HIDE DEF n
<1>6. ByteAt(offset_) = MS
  BY <1>1, <1>5 DEF ByteAt
<1>7. handle_message_separator
  <2>1. \A h \in Headers : ~handle_header(h)
    BY <1>1 DEF handle_header
  <2>2. \A k \in 1 .. Size : ~handle_payload(k)
    BY <1>6, SeparatorsAssumption DEF handle_payload, MatchesPayload
  <2>3. \A k \in 1 .. Size + 1 : ~handle_error(k)
    BY <1>1, <1>6 DEF handle_error, HandleUnknown, MatchesUnknown
  <2> QED BY <2>1, <2>2, <2>3 DEF Token
<1>8. Len(Back.arguments) \in NumArguments[Back.header][1] .. NumArguments[Back.header][2]
  <2> DEFINE part(q) == [offset |-> there[q - 1] + 1, size |-> Len(m.arguments[q])]
             s == [q \in 1 .. n |-> part(q)]
  <2>1. Back.header = Text(m) /\ Back.arguments = s
    BY <1>1 DEF Partial
  <2> HIDE DEF part
  <2>2. Len(s) = n
    BY <1>4
  <2> HIDE DEF s
  <2> QED BY <1>4, <2>1, <2>2
<1>9. /\ tokenizing_header_' /\ Len(Complete') = Len(Complete) + 1
      /\ Complete'[Len(Complete) + 1] = [Back EXCEPT !.size = @ + 1]
      /\ \A q \in 1 .. Len(Complete) : Complete'[q] = Complete[q]
  BY <1>1, <1>7, <1>8, SeparatorEffect
<1>10. errors_' = errors_ /\ offset_' = to
  BY <1>1, <1>5, <1>7, <1>8 DEF handle_message_separator, EndMessage
<1>11. [Back EXCEPT !.size = @ + 1] = Whole(m, edge[i], there)
  BY <1>1 DEF Whole, n
<1>12. AreRead(list, edge, at, i + 1)'
  <2>1. Len(Complete) = i /\ \A q \in 1 .. i : Complete[q] = Whole(list[q], edge[q - 1], at[q])
    BY DEF AreRead
  <2>2. ASSUME NEW q \in 1 .. i + 1 PROVE Complete'[q] = Whole(list[q], edge[q - 1], at[q])
    <3>1. CASE q = i + 1
      <4>1. (i + 1) - 1 = i
        BY <1>3
      <4> QED BY <1>9, <1>11, <2>1, <3>1, <4>1 DEF m, there
    <3>2. CASE q # i + 1
      <4>1. q \in 1 .. i
        BY <1>3, <3>2
      <4> QED BY <1>9, <2>1, <4>1
    <3> QED BY <3>1, <3>2
  <2> QED BY <1>9, <2>1, <2>2 DEF AreRead
<1>13. Between(list, edge, i + 1)'
  BY <1>1, <1>9, <1>10 DEF Between, to
<1> QED BY <1>3, <1>10, <1>12, <1>13 DEF Reading

LEMMA ReadsEnd ==
    ASSUME Inv, NEW list \in Built, NEW edge, NEW at, IsLayout(buffer_, list, edge, at),
           Reading(list, edge, at), Eof
    PROVE  Reading(list, edge, at)'
<1>1. PICK i \in 0 .. Len(list) :
         /\ AreRead(list, edge, at, i)
         /\ \/ Between(list, edge, i)
            \/ i < Len(list) /\ \E j \in 0 .. Len(list[i + 1].arguments) :
                                  Within(list, edge, at, i, j)
  BY DEF Reading
<1>2. offset_ = Size /\ Size \in Nat /\ ~returned /\ Len(list) \in Nat
  BY BuiltMessages DEF Eof, Inv, TypeOK, Size
<1>3. CASE Between(list, edge, i)
  <2>1. offset_ = edge[i] /\ tokenizing_header_
    BY <1>2, <1>3 DEF Between
  <2>2. i = Len(list)
    <3>1. CASE i < Len(list)
      <4>1. /\ i + 1 \in 1 .. Len(list) /\ (i + 1) - 1 = i
        BY <1>2, <3>1
      <4>2. edge[(i + 1) - 1] < edge[i + 1] /\ edge[i + 1] <= Size
        BY <4>1 DEF IsLayout, Size
      <4>3. edge[i] \in Nat /\ edge[i + 1] \in Nat
        BY <3>1, NextInLayout DEF Inv
      <4> QED BY <1>2, <2>1, <4>1, <4>2, <4>3
    <3> QED BY <1>2, <3>1
  <2>3. /\ tokenizing_header_' /\ returned' /\ messages_' = messages_ /\ errors_' = errors_
    BY <2>1 DEF Eof
  <2>4. Complete' = Complete
    BY <2>1, <2>3 DEF Complete
  <2>5. AreRead(list, edge, at, i)' /\ Between(list, edge, i)'
    BY <1>1, <2>2, <2>3, <2>4 DEF AreRead, Between
  <2> QED BY <2>3, <2>5 DEF Reading
<1>4. CASE i < Len(list) /\ \E j \in 0 .. Len(list[i + 1].arguments) : Within(list, edge, at, i, j)
  <2>1. PICK j \in 0 .. Len(list[i + 1].arguments) : Within(list, edge, at, i, j)
    BY <1>4
  <2>2. /\ IsBuilt(list[i + 1]) /\ edge[i] \in Nat /\ edge[i + 1] <= Size
        /\ IsBinaryAt(buffer_, list[i + 1], edge[i], edge[i + 1], at[i + 1])
    BY <1>4, NextInLayout DEF Inv
  <2>3. edge[i + 1] \in Nat /\ at[i + 1][j] \in Nat /\ at[i + 1][j] < edge[i + 1]
    BY <2>2, BinaryOffsets
  <2> QED BY <1>2, <2>1, <2>2, <2>3 DEF Within
<1> QED BY <1>1, <1>3, <1>4

LEMMA ReadsOn ==
    ASSUME Inv, NEW list \in Built, NEW edge, NEW at, IsLayout(buffer_, list, edge, at),
           Reading(list, edge, at), [Next]_vars
    PROVE  Reading(list, edge, at)'
<1>1. CASE Token
  <2>1. errors_ = <<>>
    BY DEF Reading
  <2>2. PICK i \in 0 .. Len(list) :
          /\ AreRead(list, edge, at, i)
          /\ \/ Between(list, edge, i)
             \/ i < Len(list) /\ \E j \in 0 .. Len(list[i + 1].arguments) :
                                   Within(list, edge, at, i, j)
    BY DEF Reading
  <2>3. CASE Between(list, edge, i)
    BY <1>1, <2>1, <2>2, <2>3, ReadsHeader
  <2>4. CASE i < Len(list) /\ \E j \in 0 .. Len(list[i + 1].arguments) : Within(list, edge, at, i, j)
    <3> DEFINE n == Len(list[i + 1].arguments)
    <3>1. PICK j \in 0 .. n : Within(list, edge, at, i, j)
      BY <2>4
    <3>2. n \in Nat
      BY <2>4, NextInLayout, BuiltParts DEF Inv
    <3> HIDE DEF n
    <3>3. j < n \/ j = n
      BY <3>2
    <3>4. CASE j < n
      BY <1>1, <2>1, <2>2, <2>4, <3>1, <3>4, ReadsPayload DEF n
    <3>5. CASE j = n
      BY <1>1, <2>1, <2>2, <2>4, <3>1, <3>5, ReadsSeparator DEF n
    <3> QED BY <3>3, <3>4, <3>5
  <2> QED BY <2>2, <2>3, <2>4
<1>2. CASE Eof
  BY <1>2, ReadsEnd
<1>3. CASE UNCHANGED vars
  <2>1. /\ messages_' = messages_ /\ errors_' = errors_ /\ returned' = returned
        /\ tokenizing_header_' = tokenizing_header_ /\ offset_' = offset_
    BY <1>3 DEF vars
  <2>2. Complete' = Complete /\ Back' = Back
    BY <2>1 DEF Complete, PopBack, Back
  <2> QED BY <2>1, <2>2 DEF Reading, AreRead, Between, Within
<1> QED BY <1>1, <1>2, <1>3 DEF Next, Returned

-----------------------------------------------------------------------------
(***************************************************************************)
(* What has been read is what was built.                                   *)
(***************************************************************************)

LEMMA SubSeqIs ==
    ASSUME NEW S, NEW buffer \in Seq(S), NEW a \in Seq(S), NEW o \in Nat,
           o + Len(a) <= Len(buffer), \A k \in 1 .. Len(a) : buffer[o + k] = a[k]
    PROVE  SubSeq(buffer, o + 1, o + Len(a)) = a
<1> DEFINE l == Len(a)
           b == SubSeq(buffer, o + 1, o + l)
<1>1. l \in Nat /\ Len(buffer) \in Nat /\ o + l <= Len(buffer)
  BY LenProperties
<1>2. \A k \in o + 1 .. o + l : buffer[k] \in S
  <2>1. \A k \in o + 1 .. o + l : k \in 1 .. Len(buffer)
    BY <1>1
  <2> QED BY <2>1, ElementOfSeq
<1>3. \A k \in 1 .. l : buffer[o + k] = a[k]
  OBVIOUS
<1> HIDE DEF l
<1>4. /\ b \in Seq(S) /\ Len(b) = IF o + 1 <= o + l THEN o + l - (o + 1) + 1 ELSE 0
      /\ \A k \in 1 .. o + l - (o + 1) + 1 : b[k] = buffer[o + 1 + k - 1]
  BY <1>1, <1>2, SubSeqProperties
<1> HIDE DEF b
<1>5. Len(b) = l
  BY <1>1, <1>4
<1>6. ASSUME NEW k \in 1 .. l PROVE b[k] = a[k]
  <2>1. k \in 1 .. o + l - (o + 1) + 1 /\ o + 1 + k - 1 = o + k
    BY <1>1
  <2> QED BY <1>3, <1>4, <2>1
<1> QED BY <1>4, <1>5, <1>6, SeqEqual DEF b, l

\* The arguments of such a message are the arguments in the buffer.
LEMMA WholeIsRead ==
    ASSUME NEW message, IsBuilt(message), buffer_ \in Seq(Bytes), NEW from \in Nat,
           NEW to, to = from + size_impl_(message), to <= Len(buffer_), NEW at,
           IsBinaryAt(buffer_, message, from, to, at)
    PROVE  IsRead(Whole(message, from, at), message)
<1> DEFINE args == message.arguments
           n == Len(args)
           part(q) == [offset |-> at[q - 1] + 1, size |-> Len(message.arguments[q])]
           parts == [q \in 1 .. n |-> part(q)]
           m == Whole(message, from, at)
<1>1. n \in Nat /\ args \in Seq(Seq(Bytes))
  BY BuiltParts
<1>2. /\ m.header = Text(message) /\ m.arguments = parts /\ m.size = (at[n] - from) + 1
  BY DEF Whole, Partial
<1>3. to = at[n] + 1 /\ \A j \in 1 .. n : \A k \in 1 .. Len(args[j]) :
        buffer_[at[j - 1] + 1 + k] = args[j][k]
  BY DEF IsBinaryAt
<1>4. /\ to \in Nat /\ \A j \in 0 .. n : at[j] \in Nat /\ at[j] < to
      /\ \A j \in 1 .. n : at[j] = at[j - 1] + 1 + Len(args[j]) /\ Len(args[j]) \in Nat
  BY BinaryOffsets
<1> HIDE DEF m
<1>5. HeaderOf(m.header) = message.header
  BY <1>2, TextIs DEF IsBuilt, Text
<1>6. m.size = size_impl_(message)
  <2> DEFINE x == at[n]
             size == size_impl_(message)
  <2>1. Len(to_binary_impl_(message)) \in Nat
    BY BinaryIs, LenProperties
  <2>2. size \in Nat
    BY <2>1, BinaryIs
  <2>3. n \in 0 .. n
    BY <1>1
  <2>4. x \in Nat
    BY <1>4, <2>3
  <2>5. x + 1 = from + size /\ m.size = (x - from) + 1
    BY <1>2, <1>3
  <2> HIDE DEF x, size, m
  <2>6. m.size = size
    BY <2>2, <2>4, <2>5
  <2> QED BY <2>6 DEF size
<1> HIDE DEF n
<1>7. ASSUME NEW j \in 1 .. n PROVE get_impl_(buffer_, m, j) = args[j]
  <2> DEFINE a == args[j]
             o == at[j - 1] + 1
  <2>1. j \in 0 .. n /\ j - 1 \in 0 .. n
    BY <1>1
  <2>2. a \in Seq(Bytes)
    BY <1>1, ElementOfSeq DEF n
  <2>3. o \in Nat /\ Len(a) \in Nat /\ o + Len(a) <= Len(buffer_)
    <3>1. at[j - 1] \in Nat /\ at[j] \in Nat /\ at[j] < to /\ at[j] = at[j - 1] + 1 + Len(a)
          /\ Len(a) \in Nat /\ to \in Nat /\ Len(buffer_) \in Nat
      BY <1>4, <2>1, LenProperties
    <3> QED BY <3>1
  <2>4. \A k \in 1 .. Len(a) : buffer_[o + k] = a[k]
    BY <1>3
  <2>5. m.arguments[j].offset = o /\ m.arguments[j].size = Len(a)
    BY <1>2
  <2> HIDE DEF a, o
  <2>6. SubSeq(buffer_, o + 1, o + Len(a)) = a
    BY <2>2, <2>3, <2>4, SubSeqIs
  <2> QED BY <2>5, <2>6 DEF get_impl_, a
<1>8. DOMAIN m.arguments = 1 .. n
  BY <1>2
<1>9. [j \in DOMAIN m.arguments |-> get_impl_(buffer_, m, j)] = args
  <2>1. args = [j \in 1 .. n |-> args[j]]
    <3> HIDE DEF args
    <3>1. PICK k \in Nat : args \in [1 .. k -> Seq(Bytes)]
      BY <1>1, SeqDef
    <3>2. DOMAIN args = 1 .. n
      BY <1>1, LenProperties DEF n
    <3> QED BY <3>1, <3>2
  <2> HIDE DEF args
  <2> QED BY <1>7, <1>8, <2>1
<1> QED BY <1>5, <1>6, <1>9 DEF IsRead, m

ReadBackInv ==
    built # <<>> =>
        /\ built \in Built
        /\ \E edge, at : IsLayout(buffer_, built, edge, at) /\ Reading(built, edge, at)

LEMMA ReadBackInit == MCInit => ReadBackInv
<1> SUFFICES ASSUME MCInit, built # <<>> PROVE ReadBackInv
  BY DEF ReadBackInv
<1>1. built \in Built /\ buffer_ = Frame(built)
  BY DEF MCInit
<1>2. PICK edge, at : IsLayout(buffer_, built, edge, at)
  BY <1>1, FrameIs
<1>3. Reading(built, edge, at)
  <2>1. /\ tokenizing_header_ /\ messages_ = <<>> /\ errors_ = <<>> /\ offset_ = 0 /\ ~returned
    BY DEF MCInit, Started
  <2>2. Complete = <<>> /\ Len(Complete) = 0
    BY <2>1 DEF Complete
  <2>3. edge[0] = 0 /\ 0 \in 0 .. Len(built)
    BY <1>1, <1>2, BuiltMessages DEF IsLayout
  <2>4. AreRead(built, edge, at, 0) /\ Between(built, edge, 0)
    BY <2>1, <2>2, <2>3 DEF AreRead, Between
  <2> QED BY <2>1, <2>3, <2>4 DEF Reading
<1> QED BY <1>1, <1>2, <1>3 DEF ReadBackInv

LEMMA ReadBackStep == Inv /\ ReadBackInv /\ [MCNext]_<<vars, built>> => ReadBackInv'
<1> SUFFICES ASSUME Inv, ReadBackInv, [MCNext]_<<vars, built>>, built' # <<>> PROVE ReadBackInv'
  BY DEF ReadBackInv
<1>1. [Next]_vars /\ built' = built /\ buffer_' = buffer_
  BY DEF MCNext, vars, Next, Token, Eof, Returned
<1>2. PICK edge, at : IsLayout(buffer_, built, edge, at) /\ Reading(built, edge, at)
  BY <1>1 DEF ReadBackInv
<1>3. built \in Built
  BY <1>1 DEF ReadBackInv
<1> DEFINE list == built
<1>4. Reading(list, edge, at)'
  BY <1>1, <1>2, <1>3, ReadsOn
<1> QED BY <1>1, <1>2, <1>3, <1>4 DEF ReadBackInv

LEMMA ReadBackHolds == Inv /\ ReadBackInv => BuiltIsReadBack
<1> SUFFICES ASSUME Inv, ReadBackInv, returned, built # <<>>
             PROVE  /\ errors_ = <<>> /\ Len(messages_) = Len(built)
                    /\ \A i \in DOMAIN built : IsRead(messages_[i], built[i])
                    /\ proxy_to_binary(buffer_, messages_[1]) = to_binary_impl_(built[1])
  BY DEF BuiltIsReadBack
<1>1. PICK edge, at : IsLayout(buffer_, built, edge, at) /\ Reading(built, edge, at)
  BY DEF ReadBackInv
<1> DEFINE n == Len(built)
<1>2. /\ built \in Built /\ n \in Nat /\ n > 0 /\ DOMAIN built = 1 .. n
      /\ \A i \in 1 .. n : IsBuilt(built[i])
  BY BuiltMessages DEF ReadBackInv
<1>3. /\ errors_ = <<>> /\ Len(messages_) = n
      /\ \A q \in 1 .. n : messages_[q] = Whole(built[q], edge[q - 1], at[q])
  <2>1. PICK i \in 0 .. n : AreRead(built, edge, at, i) /\ Between(built, edge, i)
    BY <1>1 DEF Reading, Within
  <2>2. i = n /\ Complete = messages_
    BY <2>1 DEF Between, Complete
  <2> QED BY <1>1, <2>1, <2>2 DEF Reading, AreRead
<1>4. /\ edge \in [0 .. n -> Nat] /\ edge[0] = 0
      /\ \A i \in 1 .. n :
           /\ edge[i] = edge[i - 1] + size_impl_(built[i]) /\ edge[i] <= Len(buffer_)
           /\ IsBinaryAt(buffer_, built[i], edge[i - 1], edge[i], at[i])
           /\ \A k \in 1 .. size_impl_(built[i]) :
                buffer_[edge[i - 1] + k] = to_binary_impl_(built[i])[k]
  BY <1>1 DEF IsLayout
<1> HIDE DEF n
<1>5. buffer_ \in Seq(Bytes)
  BY DEF Inv, TypeOK
<1>6. ASSUME NEW i \in 1 .. n PROVE IsRead(messages_[i], built[i])
  <2> DEFINE from == edge[i - 1]
             to == edge[i]
             message == built[i]
             there == at[i]
  <2>1. from \in Nat
    BY <1>2, <1>4
  <2>2. /\ IsBuilt(message) /\ to = from + size_impl_(message) /\ to <= Len(buffer_)
        /\ IsBinaryAt(buffer_, message, from, to, there)
        /\ messages_[i] = Whole(message, from, there)
    BY <1>2, <1>3, <1>4
  <2> HIDE DEF from, to, message, there
  <2>3. IsRead(Whole(message, from, there), message)
    BY <1>5, <2>1, <2>2, WholeIsRead
  <2> QED BY <2>2, <2>3 DEF message
<1>7. proxy_to_binary(buffer_, messages_[1]) = to_binary_impl_(built[1])
  <2> DEFINE a == to_binary_impl_(built[1])
  <2>1. 1 \in 1 .. n /\ 1 - 1 = 0
    BY <1>2
  <2>2. a \in Seq(Bytes) /\ Len(a) = size_impl_(built[1])
    BY <1>2, <2>1, BinaryIs
  <2>3. /\ edge[1] = 0 + Len(a) /\ edge[1] <= Len(buffer_)
        /\ \A k \in 1 .. Len(a) : buffer_[0 + k] = a[k]
    BY <1>4, <2>1, <2>2
  <2>4. messages_[1].size = Len(a)
    BY <1>6, <2>1, <2>2 DEF IsRead
  <2> HIDE DEF a
  <2>5. SubSeq(buffer_, 0 + 1, 0 + Len(a)) = a
    BY <1>5, <2>2, <2>3, SubSeqIs
  <2>6. 0 + Len(a) = Len(a) /\ 0 + 1 = 1
    BY <2>2, LenProperties
  <2> QED BY <2>4, <2>5, <2>6 DEF proxy_to_binary, a
<1> QED BY <1>2, <1>3, <1>6, <1>7 DEF n

-----------------------------------------------------------------------------
\* A frame of built messages is a frame: what is proved of module Parser holds
\* of the messages of this one.
THEOREM ReadingIsParsing == MCSpec => Spec
<1>1. MCInit => Init
  <2> SUFFICES ASSUME MCInit PROVE buffer_ \in Inputs
    BY DEF MCInit, Init
  <2> QED BY TablesAssumption DEF MCInit, MCInputs
<1>2. [MCNext]_<<vars, built>> => [Next]_vars
  BY DEF MCNext, vars
<1> QED BY <1>1, <1>2, PTL DEF MCSpec, Spec

\* Whatever messages MessageBuilder writes one after the other, the scanner and
\* the parser find them, all of them and nothing else, with their headers, their
\* arguments and their sizes.  (message_builder.cpp, lexer.l, parser.cpp,
\* message_proxy.cpp)
THEOREM BuiltIsAlwaysReadBack == MCSpec => []BuiltIsReadBack
<1>1. MCSpec => []Inv
  BY ReadingIsParsing, InvAlways, PTL
<1>2. MCSpec => []ReadBackInv
  BY <1>1, ReadBackInit, ReadBackStep, PTL DEF MCSpec
<1> QED BY <1>1, <1>2, ReadBackHolds, PTL
=============================================================================
