---------------------------- MODULE Parser_proofs ---------------------------
(***************************************************************************)
(* Theorems about module Parser, for every table of headers and every      *)
(* frame.                                                                  *)
(***************************************************************************)
EXTENDS Parser, SequenceTheorems, FiniteSetTheorems, WellFoundedInduction, TLAPS

-----------------------------------------------------------------------------
(***************************************************************************)
(* The list of messages                                                    *)
(***************************************************************************)

LEMMA BackIsMessage ==
    ASSUME TypeOK, messages_ # <<>>
    PROVE  Len(messages_) \in 1 .. Len(messages_) /\ Back \in Message
BY DEF TypeOK, Back

LEMMA PopBackType ==
    ASSUME TypeOK, messages_ # <<>>
    PROVE  PopBack \in Seq(Message) /\ Len(PopBack) = Len(messages_) - 1
<1>1. messages_ \in Seq(Message) /\ Len(messages_) \in Nat /\ Len(messages_) > 0
  BY DEF TypeOK
<1>2. PopBack = SubSeq(messages_, 1, Len(messages_) - 1)
  BY DEF PopBack
<1> DEFINE n == Len(messages_) - 1
<1>3. n \in Nat /\ \A k \in 1 .. n : messages_[k] \in Message
  BY <1>1
<1> HIDE DEF n
<1>4. /\ SubSeq(messages_, 1, n) \in Seq(Message)
      /\ Len(SubSeq(messages_, 1, n)) = IF 1 <= n THEN n - 1 + 1 ELSE 0
  BY <1>3, SubSeqProperties
<1>5. Len(SubSeq(messages_, 1, n)) = n
  BY <1>3, <1>4
<1> QED BY <1>2, <1>4, <1>5 DEF n

\* A new last message, or a changed one.
LEMMA AppendMessage ==
    ASSUME TypeOK, NEW m \in Message, messages_' = Append(messages_, m)
    PROVE  /\ messages_' \in Seq(Message)
           /\ messages_' # <<>> /\ Back' = m /\ Len(messages_') = Len(messages_) + 1
<1>1. messages_ \in Seq(Message)
  BY DEF TypeOK
<1>2. /\ messages_' \in Seq(Message)
      /\ Len(messages_') = Len(messages_) + 1 /\ messages_'[Len(messages_')] = m
  BY <1>1
<1> QED BY <1>1, <1>2 DEF Back

LEMMA ReplaceBack ==
    ASSUME TypeOK, messages_ # <<>>, NEW m \in Message,
           messages_' = [messages_ EXCEPT ![Len(messages_)] = m]
    PROVE  /\ messages_' \in Seq(Message)
           /\ messages_' # <<>> /\ Back' = m /\ Len(messages_') = Len(messages_)
BY DEF TypeOK, Back

LEMMA AppendError ==
    ASSUME TypeOK, NEW o \in Nat, NEW n \in Nat, NEW t \in Tags,
           errors_' = Append(errors_, Error(o, n, t))
    PROVE  /\ errors_' \in Seq([offset : Nat, size : Nat, tag : Tags])
           /\ Len(errors_') = Len(errors_) + 1
<1>1. Error(o, n, t) \in [offset : Nat, size : Nat, tag : Tags]
  BY DEF Error
<1> QED BY <1>1 DEF TypeOK

-----------------------------------------------------------------------------
(***************************************************************************)
(* What the scanner matches lies in the buffer.                            *)
(***************************************************************************)

LEMMA GarbageFits ==
    ASSUME TypeOK, offset_ < Size, NEW n \in Nat, Garbage(n)
    PROVE  n > 0 /\ offset_ + n <= Size
BY DEF TypeOK, Garbage, Run, Size

LEMMA UnknownFits ==
    ASSUME TypeOK, offset_ < Size, NEW n \in Nat, MatchesUnknown(n)
    PROVE  n > 0 /\ offset_ + n <= Size
<1>1. CASE n = 1
  BY <1>1 DEF TypeOK, Size
<1>2. CASE Garbage(n)
  BY <1>2, GarbageFits
<1> QED BY <1>1, <1>2 DEF MatchesUnknown

LEMMA HeaderFits ==
    ASSUME TypeOK, NEW h \in Headers, MatchesHeader(h)
    PROVE  Len(h) \in Nat /\ Len(h) > 0 /\ offset_ + Len(h) <= Size
BY HeadersAssumption DEF TypeOK, MatchesHeader, At, Size

-----------------------------------------------------------------------------
(***************************************************************************)
(* The invariant                                                           *)
(***************************************************************************)

Inv == TypeOK /\ AssertionsHold

LEMMA InvInit == Init => Inv
<1> SUFFICES ASSUME Init PROVE Inv
  OBVIOUS
<1>1. /\ buffer_ \in Seq(Bytes) /\ Size \in Nat
      /\ offset_ \in 0 .. Size + 1 /\ offset_ <= Size
  BY InputsAssumption DEF Init, Started, Size
<1>2. /\ messages_ \in Seq(Message)
      /\ errors_ \in Seq([offset : Nat, size : Nat, tag : Tags])
  BY DEF Init, Started
<1>3. TypeOK
  BY <1>1, <1>2 DEF Init, Started, TypeOK
<1>4. AssertionsHold
  BY DEF Init, Started, AssertionsHold
<1> QED BY <1>3, <1>4 DEF Inv

LEMMA HeaderStep ==
    ASSUME Inv, ~returned, offset_ < Size, NEW h \in Headers, handle_header(h),
           UNCHANGED <<buffer_, returned>>
    PROVE  Inv'
<1> DEFINE m == [offset |-> offset_, size |-> Len(h), header |-> h, arguments |-> <<>>]
<1>1. Len(h) \in Nat /\ Len(h) > 0 /\ offset_ + Len(h) <= Size
  BY HeaderFits DEF Inv, handle_header
<1>2. m \in Message
  <2>1. <<>> \in Seq(Location)
    OBVIOUS
  <2> QED BY <1>1, <2>1 DEF Message, Inv, TypeOK
<1>3. /\ messages_' \in Seq(Message)
      /\ messages_' # <<>> /\ Back' = m /\ Len(messages_') = Len(messages_) + 1
  BY <1>2, AppendMessage DEF Inv, handle_header
<1>4. TypeOK'
  <2>1. UNCHANGED <<buffer_, returned, errors_>> /\ Size' = Size
    BY DEF handle_header, Size
  <2>2. offset_' \in 0 .. Size' + 1 /\ offset_' <= Size'
    BY <1>1, <2>1 DEF handle_header, Inv, TypeOK, Size
  <2> QED BY <1>3, <2>1, <2>2 DEF Inv, TypeOK, handle_header
<1>5. AssertionsHold'
  BY <1>1, <1>3 DEF Inv, TypeOK, AssertionsHold, handle_header, Size
<1> QED BY <1>4, <1>5 DEF Inv

LEMMA PayloadStep ==
    ASSUME Inv, ~returned, offset_ < Size, NEW n \in 1 .. Size, handle_payload(n),
           UNCHANGED <<buffer_, returned>>
    PROVE  Inv'
<1> DEFINE argument == [offset |-> offset_ + 1, size |-> n]
           m == [Back EXCEPT !.arguments = Append(@, argument), !.size = @ + n + 1]
<1>1. offset_ + 1 + n <= Size
  BY DEF handle_payload, MatchesPayload, Run, Inv, TypeOK
<1>2. ~tokenizing_header_ /\ messages_ # <<>> /\ Back.offset + Back.size = offset_
  BY DEF Inv, TypeOK, AssertionsHold, handle_payload
<1>3. Back \in Message /\ Len(messages_) \in 1 .. Len(messages_)
  BY <1>2, BackIsMessage DEF Inv
<1>4. m \in Message
  <2>1. argument \in Location
    BY DEF Location, Inv, TypeOK, Size
  <2>2. Append(Back.arguments, argument) \in Seq(Location)
    BY <1>3, <2>1 DEF Message
  <2>3. Back.size + n + 1 \in Nat
    BY <1>3 DEF Message, Inv, TypeOK, Size
  <2> QED BY <1>3, <2>2, <2>3 DEF Message
<1>5. messages_' = [messages_ EXCEPT ![Len(messages_)] = m]
  BY <1>3 DEF handle_payload, Back, Inv, TypeOK, Message
<1>6. /\ messages_' \in Seq(Message)
      /\ messages_' # <<>> /\ Back' = m /\ Len(messages_') = Len(messages_)
  BY <1>2, <1>4, <1>5, ReplaceBack DEF Inv
<1>7. Back'.offset + Back'.size = Back.offset + Back.size + n + 1
  BY <1>3, <1>6 DEF Message, Inv, TypeOK, Size
<1>8. TypeOK'
  <2>1. /\ UNCHANGED <<buffer_, returned, errors_, start, tokenizing_header_>>
        /\ Size' = Size
    BY DEF handle_payload, Size
  <2>2. offset_' \in 0 .. Size' + 1 /\ offset_' <= Size'
    BY <1>1, <2>1 DEF handle_payload, Inv, TypeOK, Size
  <2> QED BY <1>6, <2>1, <2>2 DEF Inv, TypeOK
<1>9. AssertionsHold'
  BY <1>1, <1>2, <1>6, <1>7 DEF Inv, TypeOK, AssertionsHold, handle_payload, Size
<1> QED BY <1>8, <1>9 DEF Inv

LEMMA SeparatorStep ==
    ASSUME Inv, ~returned, offset_ < Size, handle_message_separator,
           UNCHANGED <<buffer_, returned>>
    PROVE  Inv'
<1>1. ~tokenizing_header_ /\ messages_ # <<>>
  BY DEF Inv, TypeOK, AssertionsHold, handle_message_separator, EndMessage
<1>2. Back \in Message
  BY <1>1, BackIsMessage DEF Inv
<1>3. /\ offset_' = offset_ + 1 /\ offset_' <= Size
      /\ tokenizing_header_' = TRUE /\ start' = "INITIAL"
  BY DEF Inv, TypeOK, handle_message_separator, EndMessage, Size
<1>4. CASE AnyNumber /\ UNCHANGED errors_
  <2> DEFINE m == [Back EXCEPT !.size = @ + 1]
  <2>1. m \in Message
    BY <1>2 DEF Message
  <2>2. messages_' = [messages_ EXCEPT ![Len(messages_)] = m]
    BY <1>4 DEF AnyNumber, Back
  <2>3. messages_' \in Seq(Message) /\ Len(messages_') = Len(messages_)
    BY <1>1, <2>1, <2>2, ReplaceBack DEF Inv
  <2>4. TypeOK'
    BY <1>3, <1>4, <2>3 DEF Inv, TypeOK, Size
  <2> QED BY <1>3, <1>4, <2>3, <2>4 DEF Inv, TypeOK, AssertionsHold
<1>5. CASE /\ messages_' = PopBack
           /\ errors_' = Append(errors_,
                Error(Back.offset, Back.size + 1, "INVALID_NUMBER_OF_ARGUMENTS"))
  <2>1. messages_' \in Seq(Message) /\ Len(messages_') = Len(messages_) - 1
    BY <1>1, <1>5, PopBackType DEF Inv
  <2>2. /\ errors_' \in Seq([offset : Nat, size : Nat, tag : Tags])
        /\ Len(errors_') = Len(errors_) + 1
    BY <1>2, <1>5, AppendError DEF Inv, Message, Tags
  <2>3. TypeOK'
    BY <1>3, <2>1, <2>2 DEF Inv, TypeOK, Size
  <2> QED BY <1>3, <2>1, <2>2, <2>3 DEF Inv, TypeOK, AssertionsHold
<1> QED BY <1>4, <1>5 DEF handle_message_separator

LEMMA UnknownStep ==
    ASSUME Inv, ~returned, offset_ < Size, NEW n \in 1 .. Size + 1, handle_error(n),
           UNCHANGED <<buffer_, returned>>
    PROVE  Inv'
<1> USE DEF handle_error, HandleUnknown
<1>1. n > 0 /\ offset_ + n <= Size
  BY UnknownFits DEF Inv
<1>2. /\ offset_' = offset_ + n /\ offset_' <= Size
      /\ tokenizing_header_' = TRUE /\ start' = "INITIAL"
  BY <1>1
<1>3. CASE tokenizing_header_
  <2>1. /\ errors_' \in Seq([offset : Nat, size : Nat, tag : Tags])
        /\ Len(errors_') = Len(errors_) + 1
    BY <1>3, AppendError DEF Inv, TypeOK, Tags
  <2>2. TypeOK'
    BY <1>1, <1>2, <1>3, <2>1 DEF Inv, TypeOK, Size
  <2> QED BY <1>1, <1>2, <1>3, <2>1, <2>2 DEF Inv, TypeOK, AssertionsHold
<1>4. CASE ~tokenizing_header_
  <2>1. messages_ # <<>> /\ Back \in Message
    BY <1>4, BackIsMessage DEF Inv, AssertionsHold
  <2>2. messages_' \in Seq(Message) /\ Len(messages_') = Len(messages_) - 1
    BY <1>4, <2>1, PopBackType DEF Inv
  <2>3. /\ errors_' \in Seq([offset : Nat, size : Nat, tag : Tags])
        /\ Len(errors_') = Len(errors_) + 1
    BY <1>4, <2>1, AppendError DEF Inv, TypeOK, Message, Tags
  <2>4. TypeOK'
    BY <1>1, <1>2, <2>2, <2>3 DEF Inv, TypeOK, Size
  <2> QED BY <1>1, <1>2, <2>2, <2>3, <2>4 DEF Inv, TypeOK, AssertionsHold
<1> QED BY <1>3, <1>4

LEMMA EofStep == ASSUME Inv, Eof PROVE Inv'
<1>1. /\ offset_' = offset_ + 1 /\ offset_ = Size /\ UNCHANGED <<buffer_, start>>
      /\ tokenizing_header_' = TRUE /\ returned' = TRUE
  BY DEF Eof
<1>2. CASE tokenizing_header_
  BY <1>1, <1>2 DEF Inv, TypeOK, AssertionsHold, Eof, Size
<1>3. CASE ~tokenizing_header_
  <2>1. messages_ # <<>>
    BY <1>3 DEF Inv, AssertionsHold
  <2>2. messages_' \in Seq(Message) /\ Len(messages_') = Len(messages_) - 1
    BY <1>3, <2>1, PopBackType DEF Inv, Eof
  <2>3. /\ errors_' \in Seq([offset : Nat, size : Nat, tag : Tags])
        /\ Len(errors_') = Len(errors_) + 1
    BY <1>3, AppendError DEF Inv, TypeOK, Eof, Tags
  <2>4. TypeOK'
    BY <1>1, <2>2, <2>3 DEF Inv, TypeOK, Size
  <2> QED BY <1>1, <2>2, <2>3, <2>4 DEF Inv, TypeOK, AssertionsHold
<1> QED BY <1>2, <1>3

LEMMA InvStep == Inv /\ [Next]_vars => Inv'
<1> SUFFICES ASSUME Inv, [Next]_vars PROVE Inv'
  OBVIOUS
<1>1. CASE Token
  BY <1>1, HeaderStep, PayloadStep, SeparatorStep, UnknownStep DEF Token
<1>2. CASE Eof
  BY <1>2, EofStep
<1>3. CASE UNCHANGED vars
  BY <1>3 DEF vars, Inv, TypeOK, AssertionsHold, Back, Size
<1> QED BY <1>1, <1>2, <1>3 DEF Next, Returned

LEMMA InvAlways == Spec => []Inv
BY InvInit, InvStep, PTL DEF Spec

-----------------------------------------------------------------------------
\* The scanner never leaves the buffer and the locations are locations in it,
\* whatever the frame: execute() reads what it was given.
THEOREM TypeCorrect == Spec => []TypeOK
<1>1. Inv => TypeOK
  BY DEF Inv
<1> QED BY <1>1, InvAlways, PTL

\* None of the assertions of handle_token(), handle_error(), handle_payload()
\* and handle_message_separator() about the parser's state ever fails, and
\* back() and pop_back() find a message.
THEOREM ParserAssertions == Spec => []AssertionsHold
<1>1. Inv => AssertionsHold
  BY DEF Inv
<1> QED BY <1>1, InvAlways, PTL

-----------------------------------------------------------------------------
(***************************************************************************)
(* Messages and errors tile what has been read.                            *)
(***************************************************************************)

\* A list of things that have an offset and a size.
Parts(list) ==
    /\ Len(list) \in Nat
    /\ DOMAIN list = 1 .. Len(list)
    /\ \A i \in 1 .. Len(list) : list[i].offset \in Nat /\ list[i].size \in Nat

Covering(list, o) == {i \in DOMAIN list : Covers(list[i], o)}

\* Byte o is in one message or in one error.
OnlyOne(messages, errors, o) ==
    \/ \E i : Covering(messages, o) = {i} /\ Covering(errors, o) = {}
    \/ \E i : Covering(messages, o) = {} /\ Covering(errors, o) = {i}

EndsBy(list, end) == \A i \in DOMAIN list : list[i].offset + list[i].size <= end

Tiles(messages, errors, end) ==
    /\ EndsBy(messages, end)
    /\ EndsBy(errors, end)
    /\ \A o \in 0 .. end - 1 : OnlyOne(messages, errors, o)

LEMMA OnlyOneCounts ==
    ASSUME NEW messages, NEW errors, NEW o, OnlyOne(messages, errors, o)
    PROVE  Cardinality(Covering(messages, o)) + Cardinality(Covering(errors, o)) = 1
<1>1. Cardinality({}) = 0 /\ \A i : Cardinality({i}) = 1
  BY FS_EmptySet, FS_Singleton
<1>2. CASE \E i : Covering(messages, o) = {i} /\ Covering(errors, o) = {}
  <2>1. Cardinality(Covering(messages, o)) = 1 /\ Cardinality(Covering(errors, o)) = 0
    BY <1>1, <1>2, Zenon
  <2> QED BY <2>1
<1>3. CASE \E i : Covering(messages, o) = {} /\ Covering(errors, o) = {i}
  <2>1. Cardinality(Covering(messages, o)) = 0 /\ Cardinality(Covering(errors, o)) = 1
    BY <1>1, <1>3, Zenon
  <2> QED BY <2>1
<1> QED BY <1>2, <1>3 DEF OnlyOne

\* What a new part at the end of a list covers, and what it leaves alone.
LEMMA CoveringAppend ==
    ASSUME NEW list, Parts(list), NEW p, NEW longer, Parts(longer),
           p.offset \in Nat, p.size \in Nat,
           Len(longer) = Len(list) + 1, longer[Len(list) + 1] = p,
           \A i \in 1 .. Len(list) : longer[i] = list[i],
           EndsBy(list, p.offset)
    PROVE  /\ EndsBy(longer, p.offset + p.size)
           /\ \A o \in 0 .. p.offset - 1 : Covering(longer, o) = Covering(list, o)
           /\ \A o \in p.offset .. p.offset + p.size - 1 :
                Covering(list, o) = {} /\ Covering(longer, o) = {Len(list) + 1}
<1>1. /\ DOMAIN longer = DOMAIN list \cup {Len(list) + 1} /\ Len(list) \in Nat
      /\ DOMAIN list = 1 .. Len(list)
  BY DEF Parts
<1>2. EndsBy(longer, p.offset + p.size)
  <2>1. ASSUME NEW i \in DOMAIN list
        PROVE  longer[i].offset + longer[i].size <= p.offset + p.size
    <3>1. longer[i] = list[i] /\ list[i].offset \in Nat /\ list[i].size \in Nat
      BY DEF Parts
    <3>2. list[i].offset + list[i].size <= p.offset
      BY DEF EndsBy
    <3> QED BY <3>1, <3>2
  <2>2. p.offset + p.size <= p.offset + p.size
    OBVIOUS
  <2> QED BY <1>1, <2>1, <2>2 DEF EndsBy
<1>3. ASSUME NEW o \in 0 .. p.offset - 1 PROVE Covering(longer, o) = Covering(list, o)
  <2>1. ~Covers(p, o)
    BY DEF Covers
  <2> QED BY <1>1, <2>1 DEF Covering
<1>4. ASSUME NEW o \in p.offset .. p.offset + p.size - 1
      PROVE  Covering(list, o) = {} /\ Covering(longer, o) = {Len(list) + 1}
  <2>1. Covers(p, o)
    BY DEF Covers
  <2>2. \A i \in DOMAIN list : ~Covers(list[i], o)
    BY <1>1 DEF EndsBy, Covers, Parts
  <2> QED BY <1>1, <2>1, <2>2 DEF Covering
<1> QED BY <1>2, <1>3, <1>4

LEMMA EndsByLater ==
    ASSUME NEW list, Parts(list), NEW end \in Nat, EndsBy(list, end), NEW o \in Nat, end <= o
    PROVE  EndsBy(list, o)
<1> SUFFICES ASSUME NEW i \in DOMAIN list PROVE list[i].offset + list[i].size <= o
  BY DEF EndsBy
<1>1. list[i].offset \in Nat /\ list[i].size \in Nat /\ list[i].offset + list[i].size <= end
  BY DEF EndsBy, Parts
<1> QED BY <1>1

\* Nothing that ends before o covers it.
LEMMA NoneBeyond ==
    ASSUME NEW list, Parts(list), NEW end \in Nat, EndsBy(list, end), NEW o \in Nat, end <= o
    PROVE  Covering(list, o) = {}
BY DEF EndsBy, Covering, Covers, Parts

LEMMA TilesMessage ==
    ASSUME NEW ms, NEW es, Parts(ms), Parts(es), NEW p, NEW longer, Parts(longer),
           p.offset \in Nat, p.size \in Nat, Tiles(ms, es, p.offset),
           Len(longer) = Len(ms) + 1, longer[Len(ms) + 1] = p,
           \A i \in 1 .. Len(ms) : longer[i] = ms[i]
    PROVE  Tiles(longer, es, p.offset + p.size)
<1>0. EndsBy(ms, p.offset) /\ EndsBy(es, p.offset)
  BY DEF Tiles
<1>1. /\ EndsBy(longer, p.offset + p.size)
      /\ \A o \in 0 .. p.offset - 1 : Covering(longer, o) = Covering(ms, o)
      /\ \A o \in p.offset .. p.offset + p.size - 1 : Covering(longer, o) = {Len(ms) + 1}
  BY <1>0, CoveringAppend
<1>2. EndsBy(es, p.offset + p.size)
  BY DEF Tiles, EndsBy, Parts
<1>3. ASSUME NEW o \in 0 .. p.offset + p.size - 1 PROVE OnlyOne(longer, es, o)
  <2>1. CASE o \in 0 .. p.offset - 1
    BY <1>1, <2>1 DEF Tiles, OnlyOne
  <2>2. CASE o \in p.offset .. p.offset + p.size - 1
    <3>1. Covering(es, o) = {}
      BY <2>2, NoneBeyond DEF Tiles
    <3> QED BY <1>1, <2>2, <3>1 DEF OnlyOne
  <2> QED BY <2>1, <2>2
<1> QED BY <1>1, <1>2, <1>3 DEF Tiles

LEMMA TilesError ==
    ASSUME NEW ms, NEW es, Parts(ms), Parts(es), NEW p, NEW longer, Parts(longer),
           p.offset \in Nat, p.size \in Nat, Tiles(ms, es, p.offset),
           Len(longer) = Len(es) + 1, longer[Len(es) + 1] = p,
           \A i \in 1 .. Len(es) : longer[i] = es[i]
    PROVE  Tiles(ms, longer, p.offset + p.size)
<1>0. EndsBy(ms, p.offset) /\ EndsBy(es, p.offset)
  BY DEF Tiles
<1>1. /\ EndsBy(longer, p.offset + p.size)
      /\ \A o \in 0 .. p.offset - 1 : Covering(longer, o) = Covering(es, o)
      /\ \A o \in p.offset .. p.offset + p.size - 1 : Covering(longer, o) = {Len(es) + 1}
  BY <1>0, CoveringAppend
<1>2. EndsBy(ms, p.offset + p.size)
  BY DEF Tiles, EndsBy, Parts
<1>3. ASSUME NEW o \in 0 .. p.offset + p.size - 1 PROVE OnlyOne(ms, longer, o)
  <2>1. CASE o \in 0 .. p.offset - 1
    BY <1>1, <2>1 DEF Tiles, OnlyOne
  <2>2. CASE o \in p.offset .. p.offset + p.size - 1
    <3>1. Covering(ms, o) = {}
      BY <2>2, NoneBeyond DEF Tiles
    <3> QED BY <1>1, <2>2, <3>1 DEF OnlyOne
  <2> QED BY <2>1, <2>2
<1> QED BY <1>1, <1>2, <1>3 DEF Tiles

\* The messages that are complete, and where the last of them or of the errors ends.
Complete == IF tokenizing_header_ THEN messages_ ELSE PopBack
Edge == IF tokenizing_header_ THEN offset_ ELSE Back.offset

TilesInv == ~returned => Tiles(Complete, errors_, Edge)

LEMMA MessagesAreParts ==
    ASSUME NEW list \in Seq(Message)
    PROVE  Parts(list)
<1>1. Len(list) \in Nat /\ DOMAIN list = 1 .. Len(list)
  BY LenProperties
<1>2. \A i \in 1 .. Len(list) : list[i] \in Message
  BY ElementOfSeq
<1> QED BY <1>1, <1>2 DEF Parts, Message

LEMMA ErrorsAreParts ==
    ASSUME NEW list \in Seq([offset : Nat, size : Nat, tag : Tags])
    PROVE  Parts(list)
<1>1. Len(list) \in Nat /\ DOMAIN list = 1 .. Len(list)
  BY LenProperties
<1>2. \A i \in 1 .. Len(list) : list[i] \in [offset : Nat, size : Nat, tag : Tags]
  BY ElementOfSeq
<1> QED BY <1>1, <1>2 DEF Parts

\* The end of the list is what stands there.
LEMMA PopBackIs ==
    ASSUME TypeOK, messages_ # <<>>
    PROVE  /\ PopBack \in Seq(Message) /\ Len(messages_) = Len(PopBack) + 1
           /\ messages_[Len(PopBack) + 1] = Back
           /\ \A i \in 1 .. Len(PopBack) : messages_[i] = PopBack[i]
<1>1. messages_ \in Seq(Message) /\ Len(messages_) \in Nat \ {0}
  BY DEF TypeOK
<1>2. PopBack \in Seq(Message) /\ Len(PopBack) = Len(messages_) - 1
  BY PopBackType
<1>3. ASSUME NEW i \in 1 .. Len(messages_) - 1 PROVE messages_[i] = PopBack[i]
  BY <1>1 DEF PopBack
<1> QED BY <1>1, <1>2, <1>3 DEF Back

LEMMA PrefixIs ==
    ASSUME NEW S, NEW q \in Seq(S), NEW r \in Seq(S), Len(q) <= Len(r),
           \A i \in 1 .. Len(q) : r[i] = q[i]
    PROVE  SubSeq(r, 1, Len(q)) = q
<1> DEFINE n == Len(q)
           p == SubSeq(r, 1, n)
<1>1. n \in Nat /\ \A i \in 1 .. n : i \in 1 .. Len(r) /\ r[i] \in S
  BY LenProperties, ElementOfSeq
<1>2. /\ p \in Seq(S) /\ Len(p) = IF 1 <= n THEN n - 1 + 1 ELSE 0
      /\ \A i \in 1 .. n - 1 + 1 : p[i] = r[1 + i - 1]
  BY <1>1, SubSeqProperties
<1> HIDE DEF p
<1>3. Len(p) = n
  BY <1>1, <1>2
<1>4. \A i \in 1 .. n : 1 + i - 1 = i /\ i \in 1 .. n - 1 + 1
  BY <1>1
<1>5. \A i \in 1 .. n : p[i] = q[i]
  BY <1>1, <1>2, <1>4
<1> QED BY <1>2, <1>3, <1>5, SeqEqual DEF p

\* Up to the scanner, everything is in one message or one error.
LEMMA TilesAll ==
    ASSUME Inv, TilesInv, ~returned
    PROVE  Tiles(messages_, errors_, offset_)
<1>1. Parts(messages_) /\ Parts(errors_)
  BY MessagesAreParts, ErrorsAreParts DEF Inv, TypeOK
<1>2. CASE tokenizing_header_
  BY <1>2 DEF TilesInv, Complete, Edge
<1>3. CASE ~tokenizing_header_
  <2>1. messages_ # <<>> /\ Back.offset + Back.size = offset_
    BY <1>3 DEF Inv, AssertionsHold
  <2>2. Back \in Message
    BY <2>1, BackIsMessage DEF Inv
  <2>3. /\ PopBack \in Seq(Message) /\ Len(messages_) = Len(PopBack) + 1
        /\ messages_[Len(PopBack) + 1] = Back
        /\ \A i \in 1 .. Len(PopBack) : messages_[i] = PopBack[i]
    BY <2>1, PopBackIs DEF Inv
  <2>4. Parts(PopBack) /\ Tiles(PopBack, errors_, Back.offset)
    BY <1>3, <2>3, MessagesAreParts DEF TilesInv, Complete, Edge
  <2>5. Back.offset \in Nat /\ Back.size \in Nat
    BY <2>2 DEF Message
  <2>6. Tiles(messages_, errors_, Back.offset + Back.size)
    BY <1>1, <2>3, <2>4, <2>5, TilesMessage
  <2> QED BY <2>1, <2>6
<1> QED BY <1>2, <1>3

\* An error takes the place of the message that is being read, or of nothing.
LEMMA ErrorTiles ==
    ASSUME Inv, Inv', TilesInv, ~returned, NEW n \in Nat, NEW tag \in Tags,
           errors_' = Append(errors_, Error(Edge, n, tag)), messages_' = Complete,
           tokenizing_header_', offset_' = Edge + n
    PROVE  TilesInv'
<1>1. Edge \in Nat /\ Complete \in Seq(Message) /\ errors_ \in Seq([offset : Nat, size : Nat, tag : Tags])
  <2>1. CASE tokenizing_header_
    BY <2>1 DEF Edge, Complete, Inv, TypeOK, Size
  <2>2. CASE ~tokenizing_header_
    BY <2>2, PopBackType, BackIsMessage DEF Edge, Complete, Inv, TypeOK, AssertionsHold, Message
  <2> QED BY <2>1, <2>2
<1>2. /\ Parts(Complete) /\ Parts(errors_) /\ Parts(errors_')
  BY <1>1, MessagesAreParts, ErrorsAreParts DEF Inv, TypeOK
<1> DEFINE p == Error(Edge, n, tag)
<1>3. /\ p.offset = Edge /\ p.size = n /\ Len(errors_') = Len(errors_) + 1
      /\ errors_'[Len(errors_) + 1] = p
      /\ \A i \in 1 .. Len(errors_) : errors_'[i] = errors_[i]
  BY <1>1 DEF Error
<1> HIDE DEF p
<1>4. Tiles(Complete, errors_', Edge + n)
  BY <1>1, <1>2, <1>3, TilesError DEF TilesInv
<1> QED BY <1>4 DEF TilesInv, Complete, Edge

\* A message whose end has been read.
LEMMA SeparatorTiles ==
    ASSUME Inv, Inv', TilesInv, ~returned, handle_message_separator
    PROVE  TilesInv'
<1>1. /\ ~tokenizing_header_ /\ messages_ # <<>> /\ Back.offset + Back.size = offset_
      /\ tokenizing_header_' /\ offset_' = offset_ + 1
  BY DEF Inv, TypeOK, AssertionsHold, handle_message_separator, EndMessage
<1>2. Back \in Message /\ Back.offset \in Nat /\ Back.size \in Nat
  BY <1>1, BackIsMessage DEF Inv, Message
<1>3. offset_' = Edge + (Back.size + 1) /\ Complete = PopBack /\ Edge = Back.offset
  BY <1>1, <1>2 DEF Edge, Complete
<1>4. CASE AnyNumber
  <2> DEFINE m == [Back EXCEPT !.size = @ + 1]
  <2>1. m \in Message /\ m.offset = Back.offset /\ m.size = Back.size + 1
    BY <1>2 DEF Message
  <2>2. messages_' = [messages_ EXCEPT ![Len(messages_)] = m]
    BY <1>4 DEF AnyNumber, Back
  <2> HIDE DEF m
  <2>3. messages_' \in Seq(Message) /\ Back' = m /\ Len(messages_') = Len(messages_)
    BY <1>1, <2>1, <2>2, ReplaceBack DEF Inv
  <2>4. /\ PopBack \in Seq(Message) /\ Len(messages_) = Len(PopBack) + 1
        /\ \A i \in 1 .. Len(PopBack) : messages_[i] = PopBack[i]
    BY <1>1, PopBackIs DEF Inv
  <2>5. /\ messages_'[Len(PopBack) + 1] = m
        /\ \A i \in 1 .. Len(PopBack) : messages_'[i] = PopBack[i]
    BY <1>1, <2>2, <2>3, <2>4 DEF Inv, TypeOK, Back
  <2>6. Parts(PopBack) /\ Parts(messages_') /\ Parts(errors_)
    BY <2>3, <2>4, MessagesAreParts, ErrorsAreParts DEF Inv, TypeOK
  <2>7. Tiles(messages_', errors_, Back.offset + (Back.size + 1))
    <3>1. Tiles(PopBack, errors_, m.offset)
      BY <1>3, <2>1 DEF TilesInv
    <3>2. m.offset \in Nat /\ m.size \in Nat
      BY <1>2, <2>1
    <3>3. Len(messages_') = Len(PopBack) + 1
      BY <2>3, <2>4
    <3>4. Tiles(messages_', errors_, m.offset + m.size)
      BY <2>5, <2>6, <3>1, <3>2, <3>3, TilesMessage
    <3> QED BY <2>1, <3>4
  <2>8. errors_' = errors_
    BY <1>4, <2>3, <2>4 DEF handle_message_separator
  <2> QED BY <1>1, <1>3, <2>7, <2>8 DEF TilesInv, Complete, Edge
<1>5. CASE /\ messages_' = PopBack
           /\ errors_' = Append(errors_,
                Error(Back.offset, Back.size + 1, "INVALID_NUMBER_OF_ARGUMENTS"))
  BY <1>1, <1>2, <1>3, <1>5, ErrorTiles DEF Tags
<1> QED BY <1>4, <1>5 DEF handle_message_separator

\* No byte of the frame is in two places.
LEMMA TilesCover ==
    ASSUME TypeOK, Tiles(messages_, errors_, offset_)
    PROVE  EveryByteOnce
<1>1. ASSUME NEW o \in 0 .. Size - 1, o < offset_
      PROVE  Cardinality(Covering(messages_, o)) + Cardinality(Covering(errors_, o)) = 1
  BY <1>1, OnlyOneCounts DEF Tiles, TypeOK
<1> QED BY <1>1 DEF EveryByteOnce, Covering

LEMMA TilesStep ==
    ASSUME Inv, Inv', TilesInv, [Next]_vars PROVE TilesInv'
<1>0. CASE returned
  BY <1>0 DEF Next, Token, Eof, Returned, vars, TilesInv
<1>1. CASE Eof
  BY <1>1 DEF Eof, TilesInv
<1>2. CASE Token
  <2>0. ~returned /\ ~returned' /\ offset_ < Size
    BY <1>2 DEF Token
  <2>1. ASSUME NEW h \in Headers, handle_header(h) PROVE TilesInv'
    <3> DEFINE m == [offset |-> offset_, size |-> Len(h), header |-> h, arguments |-> <<>>]
    <3>1. /\ messages_' = Append(messages_, m) /\ ~tokenizing_header_' /\ tokenizing_header_
          /\ UNCHANGED errors_
      BY <2>0, <2>1 DEF handle_header, Inv, AssertionsHold
    <3>2. m \in Message
      <4>1. <<>> \in Seq(Location)
        OBVIOUS
      <4> QED BY <2>1, <4>1, HeaderFits DEF Message, Inv, TypeOK, handle_header
    <3>3. m.offset = offset_
      OBVIOUS
    <3> HIDE DEF m
    <3>4. Back' = m /\ PopBack' = messages_
      <4>1. messages_ \in Seq(Message)
        BY DEF Inv, TypeOK
      <4>2. /\ messages_' \in Seq(Message) /\ Len(messages_') = Len(messages_) + 1
            /\ Back' = m /\ Len(messages_) \in Nat
        BY <3>1, <3>2, <4>1, AppendMessage, LenProperties DEF Inv
      <4>3. Len(messages_') - 1 = Len(messages_) /\ Len(messages_) <= Len(messages_')
        BY <4>2
      <4>4. \A i \in 1 .. Len(messages_) : messages_'[i] = messages_[i]
        BY <3>1, <4>1
      <4> QED BY <4>1, <4>2, <4>3, <4>4, PrefixIs DEF PopBack
    <3> QED BY <3>1, <3>3, <3>4, <2>0 DEF TilesInv, Complete, Edge
  <2>2. ASSUME NEW n \in 1 .. Size, handle_payload(n) PROVE TilesInv'
    <3>1. /\ ~tokenizing_header_ /\ ~tokenizing_header_' /\ messages_ # <<>>
          /\ UNCHANGED errors_
      BY <2>0, <2>2 DEF handle_payload, Inv, AssertionsHold
    <3> DEFINE m == Back'
    <3>2. Back'.offset = Back.offset /\ PopBack' = PopBack
      <4>1. messages_ \in Seq(Message) /\ Len(messages_) \in 1 .. Len(messages_)
            /\ Back \in Message
        BY <3>1, BackIsMessage DEF Inv, TypeOK
      <4>2. PICK m2 : /\ m2.offset = Back.offset
                      /\ messages_' = [messages_ EXCEPT ![Len(messages_)] = m2]
        BY <2>2, <4>1 DEF handle_payload, Back, Message
      <4>3. messages_' \in Seq(Message)
        BY DEF Inv, TypeOK
      <4>4. Len(messages_') = Len(messages_) /\ Back' = m2
        BY <4>1, <4>2, <4>3 DEF Back
      <4>5. \A i \in 1 .. Len(messages_) - 1 : messages_'[i] = messages_[i]
        BY <4>1, <4>2
      <4>6. PopBack' = PopBack
        <5>1. /\ PopBack \in Seq(Message) /\ Len(messages_) - 1 = Len(PopBack)
              /\ Len(PopBack) <= Len(messages_)
              /\ \A i \in 1 .. Len(PopBack) : messages_[i] = PopBack[i]
          BY <3>1, <4>1, PopBackIs DEF Inv
        <5>2. \A i \in 1 .. Len(PopBack) : messages_'[i] = PopBack[i]
          BY <4>5, <5>1
        <5>3. SubSeq(messages_', 1, Len(PopBack)) = PopBack
          BY <4>3, <4>4, <5>1, <5>2, PrefixIs
        <5>4. PopBack' = SubSeq(messages_', 1, Len(messages_') - 1)
          BY DEF PopBack
        <5> QED BY <4>4, <5>1, <5>3, <5>4
      <4> QED BY <4>2, <4>4, <4>6
    <3> QED BY <3>1, <3>2, <2>0 DEF TilesInv, Complete, Edge
  <2>3. CASE handle_message_separator
    BY <2>0, <2>3, SeparatorTiles
  <2>4. ASSUME NEW n \in 1 .. Size + 1, handle_error(n) PROVE TilesInv'
    <3>1. tokenizing_header_' /\ offset_' = offset_ + n /\ n \in Nat /\ offset_ \in Nat
      BY <2>4 DEF handle_error, HandleUnknown, Inv, TypeOK, Size
    <3>2. CASE tokenizing_header_
      BY <2>0, <2>4, <3>1, <3>2, ErrorTiles DEF handle_error, HandleUnknown, Complete,
         Edge, Tags
    <3>3. CASE ~tokenizing_header_
      <4>1. /\ Back \in Message /\ Back.offset \in Nat /\ Back.size \in Nat
            /\ Back.offset + Back.size = offset_
        BY <3>3, BackIsMessage DEF Inv, AssertionsHold, Message
      <4>2. /\ offset_' = Back.offset + (Back.size + n) /\ Back.size + n \in Nat
        BY <3>1, <4>1
      <4> QED BY <2>0, <2>4, <3>1, <3>3, <4>2, ErrorTiles DEF handle_error, HandleUnknown,
                 Complete, Edge, Tags
    <3> QED BY <3>2, <3>3
  <2> QED BY <1>2, <2>1, <2>2, <2>3, <2>4 DEF Token
<1>3. CASE Returned \/ UNCHANGED vars
  BY <1>0, <1>3 DEF Returned, vars, TilesInv, Complete, Edge, PopBack, Back
<1> QED BY <1>1, <1>2, <1>3 DEF Next

\* The end of the frame cuts off the message that is being read.
LEMMA EofCovers ==
    ASSUME Inv, Inv', TilesInv, Eof PROVE EveryByteOnce'
<1>0. /\ ~returned /\ offset_ = Size /\ offset_' = Size + 1 /\ Size' = Size /\ Size \in Nat
  BY DEF Eof, Size, Inv, TypeOK
<1>1. Tiles(Complete, errors_, Edge)
  BY <1>0 DEF TilesInv
<1>2. CASE tokenizing_header_
  <2>1. messages_' = messages_ /\ errors_' = errors_ /\ Tiles(messages_, errors_, Size)
    BY <1>0, <1>1, <1>2 DEF Eof, Complete, Edge
  <2>2. ASSUME NEW o \in 0 .. Size - 1
        PROVE  Cardinality(Covering(messages_', o)) + Cardinality(Covering(errors_', o)) = 1
    BY <2>1, OnlyOneCounts DEF Tiles
  <2> QED BY <1>0, <2>2 DEF EveryByteOnce, Covering, Covers
<1>3. CASE ~tokenizing_header_
  <2> DEFINE e == Error(Size, 1, "UNEXPECTED_EOF")
  <2>1. /\ messages_' = PopBack /\ errors_' = Append(errors_, e)
        /\ Tiles(PopBack, errors_, Back.offset)
    BY <1>0, <1>1, <1>3 DEF Eof, Complete, Edge
  <2>2. messages_ # <<>> /\ Back.offset + Back.size = Size
    BY <1>0, <1>3 DEF Inv, AssertionsHold
  <2>3. Back.offset \in Nat /\ Back.size \in Nat
    BY <2>2, BackIsMessage DEF Inv, Message
  <2>4. /\ errors_ \in Seq([offset : Nat, size : Nat, tag : Tags]) /\ Len(errors_) \in Nat
        /\ Parts(errors_) /\ Parts(errors_')
    BY ErrorsAreParts DEF Inv, TypeOK, Parts
  <2>5. e.offset = Size /\ e.size = 1 /\ e.tag = "UNEXPECTED_EOF"
    BY DEF Error
  <2> HIDE DEF e
  <2>6. /\ Len(errors_') = Len(errors_) + 1 /\ errors_'[Len(errors_) + 1] = e
        /\ \A i \in 1 .. Len(errors_) : errors_'[i] = errors_[i]
    BY <2>1, <2>4
  <2>7. Unfinished'
    BY <2>4, <2>5, <2>6, EmptySeq DEF Unfinished
  <2>8. EndsBy(errors_, e.offset)
    <3>1. EndsBy(errors_, Back.offset) /\ Back.offset <= Size
      BY <2>1, <2>2, <2>3 DEF Tiles
    <3> QED BY <1>0, <2>3, <2>4, <2>5, <3>1 DEF EndsBy, Parts
  <2>9. \A o \in 0 .. Size - 1 : Covering(errors_', o) = Covering(errors_, o)
    <3>1. e.offset \in Nat /\ e.size \in Nat
      BY <1>0, <2>5
    <3> QED BY <2>4, <2>5, <2>6, <2>8, <3>1, CoveringAppend
  <2>10. ASSUME NEW o \in 0 .. Size - 1, o < Back.offset
         PROVE  Cardinality(Covering(messages_', o)) + Cardinality(Covering(errors_', o)) = 1
    <3>1. OnlyOne(PopBack, errors_, o)
      BY <2>1, <2>3, <2>10 DEF Tiles
    <3> QED BY <2>1, <2>9, <3>1, OnlyOneCounts
  <2>11. ASSUME NEW o \in 0 .. Size - 1, Back.offset <= o
         PROVE  /\ \A i \in DOMAIN messages_' : messages_'[i].offset + messages_'[i].size <= o
                /\ \A i \in 1 .. Len(errors_') - 1 : errors_'[i].offset + errors_'[i].size <= o
    <3>1. PopBack \in Seq(Message)
      BY <2>2, PopBackType DEF Inv
    <3>2. Parts(PopBack)
      BY <3>1, MessagesAreParts
    <3>3. \A i \in DOMAIN PopBack : PopBack[i].offset + PopBack[i].size <= o
      <4>1. EndsBy(PopBack, Back.offset)
        BY <2>1 DEF Tiles
      <4> QED BY <2>3, <2>11, <3>2, <4>1, EndsByLater DEF EndsBy
    <3>4. \A i \in 1 .. Len(errors_) : errors_[i].offset + errors_[i].size <= o
      <4>1. EndsBy(errors_, Back.offset)
        BY <2>1 DEF Tiles
      <4>2. EndsBy(errors_, o)
        BY <2>3, <2>4, <2>11, <4>1, EndsByLater
      <4> QED BY <2>4, <4>2 DEF EndsBy, Parts
    <3>5. Len(errors_') - 1 = Len(errors_)
      BY <2>4, <2>6
    <3> QED BY <2>1, <2>6, <3>3, <3>4, <3>5
  <2>12. ASSUME NEW o \in 0 .. Size - 1 PROVE o < Back.offset \/ Back.offset <= o
    BY <2>3
  <2> QED BY <1>0, <2>7, <2>10, <2>11, <2>12 DEF EveryByteOnce, Covering, Covers
<1> QED BY <1>2, <1>3

ByteInv == Inv /\ TilesInv /\ (returned => EveryByteOnce)

LEMMA ByteInit == Init => ByteInv
<1> SUFFICES ASSUME Init PROVE ByteInv
  OBVIOUS
<1>1. /\ messages_ = <<>> /\ errors_ = <<>> /\ offset_ = 0 /\ tokenizing_header_ /\ ~returned
  BY DEF Init, Started
<1>2. Tiles(Complete, errors_, Edge)
  BY <1>1 DEF Tiles, EndsBy, Complete, Edge
<1> QED BY <1>1, <1>2, InvInit DEF ByteInv, TilesInv

LEMMA ByteStep == ByteInv /\ [Next]_vars => ByteInv'
<1> SUFFICES ASSUME ByteInv, [Next]_vars PROVE ByteInv'
  OBVIOUS
<1>1. Inv' /\ TilesInv'
  BY InvStep, TilesStep DEF ByteInv
<1>2. ASSUME returned' PROVE EveryByteOnce'
  <2>1. CASE Eof
    BY <1>1, <2>1, EofCovers DEF ByteInv
  <2>2. CASE UNCHANGED vars
    BY <1>2, <2>2 DEF ByteInv, vars, EveryByteOnce, Unfinished, Size, Covers
  <2> QED BY <1>2, <2>1, <2>2 DEF Next, Token, Returned
<1> QED BY <1>1, <1>2 DEF ByteInv

\* No byte of a frame is dropped in silence or reported twice, whatever the
\* headers and the frame, but for a message cut off by the end.  (execute)
THEOREM EveryByteAccounted == Spec => []EveryByteOnce
<1>1. ByteInv => EveryByteOnce
  BY TilesAll, TilesCover DEF ByteInv, Inv
<1> QED BY ByteInit, ByteStep, <1>1, PTL DEF Spec

-----------------------------------------------------------------------------
(***************************************************************************)
(* The messages found are those that a reader of the protocol sees.        *)
(***************************************************************************)

ArgumentStarts(m) == {a.offset - 1 : a \in {m.arguments[k] : k \in DOMAIN m.arguments}}

Body(m, o) == m.offset + Len(m.header) .. o - 1

\* The beginning of message m, up to offset o, has been read as the protocol
\* says, and the header could not have been a longer one.
Reads(m, o) ==
    /\ At(m.header, m.offset)
    /\ \A g \in Headers : At(g, m.offset) => Len(g) <= Len(m.header)
    /\ m.offset + Len(m.header) <= o /\ o <= Size
    /\ \A p \in m.offset .. o - 1 : ByteAt(p) # MS
    /\ ArgumentStarts(m) = {p \in Body(m, o) : ByteAt(p) = MPS}
    /\ Body(m, o) # {} => m.offset + Len(m.header) \in ArgumentStarts(m)
    /\ \A p \in ArgumentStarts(m) : p + 1 \in Body(m, o) \ ArgumentStarts(m)
    /\ IsFiniteSet(ArgumentStarts(m))
    /\ Cardinality(ArgumentStarts(m)) = Len(m.arguments)
    /\ \A k \in DOMAIN m.arguments :
         Run(m.arguments[k].offset, Bytes \ {MPS, MS}, m.arguments[k].size)
    /\ Body(m, o) # {} /\ o < Size => ByteAt(o) \in {MPS, MS}

\* A message that has been read to its end.
Genuine(m) ==
    LET end == m.offset + m.size - 1
    IN  /\ ByteAt(end) = MS /\ IsMessage(m.offset, end)
        /\ ArgumentStarts(m) = {o \in m.offset + Len(m.header) .. end : ByteAt(o) = MPS}
        /\ \A k \in DOMAIN m.arguments :
             Run(m.arguments[k].offset, Bytes \ {MPS, MS}, m.arguments[k].size)

\* A reader of the protocol sees a message from s up to the separator at e.
Visible(s, e) ==
    /\ s = 0 \/ ByteAt(s - 1) = MS
    /\ ByteAt(e) = MS
    /\ IsMessage(s, e)

InOrder(list) == \A i \in DOMAIN list : i > 1 => list[i - 1].offset + list[i - 1].size <= list[i].offset

Found(list, s, e) == \E i \in DOMAIN list : list[i].offset = s /\ list[i].size = e - s + 1

ReadsInv == ~returned /\ ~tokenizing_header_ => Reads(Back, offset_)

GenuineInv == (\A i \in DOMAIN Complete : Genuine(Complete[i])) /\ InOrder(Complete)

\* What has been read of the frame has been found, or is being read.
FoundInv ==
    ~returned =>
        \A s, e \in 0 .. Size - 1 : Visible(s, e) =>
            /\ e < offset_ => Found(Complete, s, e)
            /\ s < offset_ /\ offset_ <= e => ~tokenizing_header_ /\ s = Back.offset

\* A new message begins, and the others are all complete.
LEMMA HeaderEffect ==
    ASSUME Inv, ~returned, NEW h \in Headers, handle_header(h)
    PROVE  /\ tokenizing_header_ /\ ~tokenizing_header_'
           /\ messages_ \in Seq(Message) /\ Complete = messages_ /\ Complete' = messages_
           /\ Back' = [offset |-> offset_, size |-> Len(h), header |-> h, arguments |-> <<>>]
<1> DEFINE m == [offset |-> offset_, size |-> Len(h), header |-> h, arguments |-> <<>>]
<1>1. /\ messages_' = Append(messages_, m) /\ ~tokenizing_header_' /\ tokenizing_header_
      /\ messages_ \in Seq(Message)
  BY DEF handle_header, Inv, TypeOK, AssertionsHold
<1>2. m \in Message
  <2>1. <<>> \in Seq(Location)
    OBVIOUS
  <2> QED BY <2>1, HeaderFits DEF Message, Inv, TypeOK, handle_header
<1> HIDE DEF m
<1>3. /\ messages_' \in Seq(Message) /\ Len(messages_') = Len(messages_) + 1
      /\ Back' = m /\ Len(messages_) \in Nat
  BY <1>1, <1>2, AppendMessage, LenProperties DEF Inv
<1>4. Len(messages_') - 1 = Len(messages_) /\ Len(messages_) <= Len(messages_')
  BY <1>3
<1>5. \A i \in 1 .. Len(messages_) : messages_'[i] = messages_[i]
  BY <1>1
<1>6. PopBack' = messages_
  BY <1>1, <1>3, <1>4, <1>5, PrefixIs DEF PopBack
<1> QED BY <1>1, <1>3, <1>6 DEF Complete, m

\* The message that is being read gets one more argument.
LEMMA PayloadEffect ==
    ASSUME Inv, ~returned, NEW n \in 1 .. Size, handle_payload(n)
    PROVE  /\ ~tokenizing_header_ /\ ~tokenizing_header_'
           /\ Back \in Message /\ Back.offset + Back.size = offset_
           /\ Back' = [Back EXCEPT
                !.arguments = Append(@, [offset |-> offset_ + 1, size |-> n]),
                !.size = @ + n + 1]
           /\ Complete' = Complete
<1>1. /\ ~tokenizing_header_ /\ ~tokenizing_header_' /\ messages_ # <<>>
      /\ Back.offset + Back.size = offset_
  BY DEF handle_payload, Inv, TypeOK, AssertionsHold
<1>2. /\ messages_ \in Seq(Message) /\ Len(messages_) \in 1 .. Len(messages_)
      /\ Back \in Message
  BY <1>1, BackIsMessage DEF Inv, TypeOK
<1> DEFINE argument == [offset |-> offset_ + 1, size |-> n]
           m == [Back EXCEPT !.arguments = Append(@, argument), !.size = @ + n + 1]
<1>3. messages_' = [messages_ EXCEPT ![Len(messages_)] = m]
  BY <1>2 DEF handle_payload, Back, Message
<1>4. m \in Message
  <2>1. argument \in Location
    BY DEF Location, Inv, TypeOK, Size
  <2>2. Append(Back.arguments, argument) \in Seq(Location)
    BY <1>2, <2>1 DEF Message
  <2>3. Back.size + n + 1 \in Nat
    BY <1>2 DEF Message, Inv, TypeOK, Size
  <2> QED BY <1>2, <2>2, <2>3 DEF Message
<1> HIDE DEF m
<1>5. messages_' \in Seq(Message) /\ Back' = m /\ Len(messages_') = Len(messages_)
  BY <1>1, <1>3, <1>4, ReplaceBack DEF Inv
<1>6. \A i \in 1 .. Len(messages_) - 1 : messages_'[i] = messages_[i]
  BY <1>2, <1>3
<1>7. /\ PopBack \in Seq(Message) /\ Len(messages_) - 1 = Len(PopBack)
      /\ Len(PopBack) <= Len(messages_)
      /\ \A i \in 1 .. Len(PopBack) : messages_[i] = PopBack[i]
  BY <1>1, <1>2, PopBackIs DEF Inv
<1>8. \A i \in 1 .. Len(PopBack) : messages_'[i] = PopBack[i]
  BY <1>6, <1>7
<1>9. PopBack' = PopBack
  <2>1. SubSeq(messages_', 1, Len(PopBack)) = PopBack
    BY <1>5, <1>7, <1>8, PrefixIs
  <2>2. PopBack' = SubSeq(messages_', 1, Len(messages_') - 1)
    BY DEF PopBack
  <2> QED BY <1>5, <1>7, <2>1, <2>2
<1> QED BY <1>1, <1>2, <1>5, <1>9 DEF Complete, m

\* The message that is being read is complete, or dropped.
LEMMA SeparatorEffect ==
    ASSUME Inv, ~returned, handle_message_separator
    PROVE  /\ ~tokenizing_header_ /\ tokenizing_header_'
           /\ Back \in Message /\ Back.offset + Back.size = offset_
           /\ Complete = PopBack /\ PopBack \in Seq(Message)
           /\ \/ /\ ~(Len(Back.arguments) \in NumArguments[Back.header][1] .. NumArguments[Back.header][2])
                 /\ Complete' = Complete
              \/ /\ Len(Back.arguments) \in NumArguments[Back.header][1] .. NumArguments[Back.header][2]
                 /\ Complete' \in Seq(Message) /\ Len(Complete') = Len(Complete) + 1
                 /\ Complete'[Len(Complete) + 1] = [Back EXCEPT !.size = @ + 1]
                 /\ \A i \in 1 .. Len(Complete) : Complete'[i] = Complete[i]
<1>1. /\ ~tokenizing_header_ /\ messages_ # <<>> /\ Back.offset + Back.size = offset_
      /\ tokenizing_header_'
  BY DEF Inv, TypeOK, AssertionsHold, handle_message_separator, EndMessage
<1>2. Back \in Message /\ messages_ \in Seq(Message)
  BY <1>1, BackIsMessage DEF Inv, TypeOK
<1>3. /\ PopBack \in Seq(Message) /\ Len(messages_) = Len(PopBack) + 1
      /\ \A i \in 1 .. Len(PopBack) : messages_[i] = PopBack[i]
  BY <1>1, PopBackIs DEF Inv
<1>4. Complete = PopBack /\ Complete' = messages_'
  BY <1>1 DEF Complete
<1>5. CASE Len(Back.arguments) \in NumArguments[Back.header][1] .. NumArguments[Back.header][2]
  <2> DEFINE m == [Back EXCEPT !.size = @ + 1]
  <2>1. m \in Message
    BY <1>2 DEF Message
  <2>2. messages_' = [messages_ EXCEPT ![Len(messages_)] = m]
    BY <1>5 DEF handle_message_separator, AnyNumber, Back
  <2> HIDE DEF m
  <2>3. messages_' \in Seq(Message) /\ Back' = m /\ Len(messages_') = Len(messages_)
    BY <1>1, <2>1, <2>2, ReplaceBack DEF Inv
  <2>4. /\ messages_'[Len(PopBack) + 1] = m
        /\ \A i \in 1 .. Len(PopBack) : messages_'[i] = PopBack[i]
    BY <1>2, <1>3, <2>2, <2>3 DEF Back
  <2> QED BY <1>1, <1>2, <1>3, <1>4, <1>5, <2>3, <2>4 DEF m
<1>6. CASE ~(Len(Back.arguments) \in NumArguments[Back.header][1] .. NumArguments[Back.header][2])
  BY <1>1, <1>2, <1>3, <1>4, <1>6 DEF handle_message_separator
<1> QED BY <1>5, <1>6

\* A header alone is the beginning of a message.
LEMMA HeaderReads ==
    ASSUME TypeOK, NEW h \in Headers, MatchesHeader(h), NEW m,
           m = [offset |-> offset_, size |-> Len(h), header |-> h, arguments |-> <<>>]
    PROVE  Reads(m, offset_ + Len(h))
<1>1. Len(h) \in Nat /\ Len(h) > 0 /\ offset_ + Len(h) <= Size /\ offset_ \in Nat /\ Size \in Nat
  BY HeaderFits DEF TypeOK, Size
<1>2. /\ At(h, offset_) /\ \A g \in Headers : At(g, offset_) => Len(g) <= Len(h)
      /\ \A k \in 1 .. Len(h) : buffer_[offset_ + k] # MS
  BY HeadersAssumption DEF MatchesHeader, At
<1>3. ASSUME NEW p \in offset_ .. offset_ + Len(h) - 1 PROVE ByteAt(p) # MS
  <2>1. p - offset_ + 1 \in 1 .. Len(h) /\ offset_ + (p - offset_ + 1) = p + 1
    BY <1>1
  <2> QED BY <1>2, <2>1 DEF ByteAt
<1>4. ArgumentStarts(m) = {} /\ Body(m, offset_ + Len(h)) = {} /\ Len(m.arguments) = 0
  <2>1. Body(m, offset_ + Len(h)) = {}
    BY <1>1 DEF Body
  <2>2. DOMAIN m.arguments = {}
    OBVIOUS
  <2> QED BY <2>1, <2>2 DEF ArgumentStarts
<1>5. IsFiniteSet({}) /\ Cardinality({}) = 0
  BY FS_EmptySet
<1>6. m.offset = offset_ /\ m.header = h /\ DOMAIN m.arguments = {}
  OBVIOUS
<1>7. Cardinality(ArgumentStarts(m)) = Len(m.arguments)
  BY <1>4, <1>5, Zenon
<1>8. ArgumentStarts(m) = {p \in Body(m, offset_ + Len(h)) : ByteAt(p) = MPS}
  BY <1>4, Zenon
<1>9. /\ At(m.header, m.offset) /\ \A g \in Headers : At(g, m.offset) => Len(g) <= Len(m.header)
      /\ m.offset + Len(m.header) <= offset_ + Len(h) /\ offset_ + Len(h) <= Size
      /\ \A p \in m.offset .. offset_ + Len(h) - 1 : ByteAt(p) # MS
  BY <1>1, <1>2, <1>3, <1>6
<1>10. IsFiniteSet(ArgumentStarts(m))
  BY <1>4, <1>5
<1> DEFINE o == offset_ + Len(h)
<1> HIDE DEF o
<1>11. Reads(m, o)
  <2>1. Body(m, o) = {}
    BY <1>4 DEF o
  <2>2. /\ At(m.header, m.offset) /\ \A g \in Headers : At(g, m.offset) => Len(g) <= Len(m.header)
        /\ m.offset + Len(m.header) <= o /\ o <= Size
        /\ \A p \in m.offset .. o - 1 : ByteAt(p) # MS
    BY <1>1, <1>9 DEF o
  <2>3. ArgumentStarts(m) = {p \in Body(m, o) : ByteAt(p) = MPS}
    BY <1>8 DEF o
  <2> QED BY <1>4, <1>6, <1>7, <1>10, <2>1, <2>2, <2>3, Zenon DEF Reads
<1> QED BY <1>11 DEF o

\* An argument more, and the message is still the beginning of one.
LEMMA PayloadReads ==
    ASSUME TypeOK, offset_ < Size, NEW m \in Message, Reads(m, offset_), m.offset <= offset_,
           NEW n \in 1 .. Size, MatchesPayload(n), NEW longer,
           longer = [m EXCEPT
               !.arguments = Append(@, [offset |-> offset_ + 1, size |-> n]),
               !.size = @ + n + 1]
    PROVE  Reads(longer, offset_ + n + 1)
<1> DEFINE a == [offset |-> offset_ + 1, size |-> n]
           o == offset_ + n + 1
<1>1. /\ Size \in Nat /\ offset_ \in Nat /\ m.offset \in Nat /\ Len(m.header) \in Nat
      /\ m.arguments \in Seq(Location) /\ Len(m.arguments) \in Nat
  BY HeadersAssumption DEF TypeOK, Size, Message
<1>2. /\ ByteAt(offset_) = MPS /\ o <= Size
      /\ \A k \in 1 .. n : buffer_[offset_ + 1 + k] \in Bytes \ {MPS, MS}
      /\ o < Size => ByteAt(o) \notin Bytes \ {MPS, MS}
      /\ Run(offset_ + 1, Bytes \ {MPS, MS}, n)
  <2>1. offset_ + 1 + n = o
    BY <1>1
  <2> QED BY <2>1 DEF MatchesPayload, Run
<1>3. /\ longer.offset = m.offset /\ longer.header = m.header
      /\ longer.arguments = Append(m.arguments, a)
  BY DEF Message
<1>4. /\ Len(longer.arguments) = Len(m.arguments) + 1
      /\ longer.arguments[Len(m.arguments) + 1] = a
      /\ \A k \in 1 .. Len(m.arguments) : longer.arguments[k] = m.arguments[k]
      /\ DOMAIN longer.arguments = DOMAIN m.arguments \cup {Len(m.arguments) + 1}
      /\ DOMAIN m.arguments = 1 .. Len(m.arguments)
  <2>1. a \in Location
    BY <1>1 DEF Location
  <2> QED BY <1>1, <1>3, <2>1, AppendProperties, LenProperties
<1>5. ArgumentStarts(longer) = ArgumentStarts(m) \cup {offset_}
  <2>1. a.offset - 1 = offset_
    BY <1>1
  <2> HIDE DEF a
  <2>2. {longer.arguments[k] : k \in DOMAIN longer.arguments}
          = {m.arguments[k] : k \in DOMAIN m.arguments} \cup {a}
    BY <1>4
  <2> QED BY <2>1, <2>2 DEF ArgumentStarts
<1>6. ASSUME NEW p \in offset_ + 1 .. o - 1 PROVE ByteAt(p) # MS /\ ByteAt(p) # MPS
  <2>0. n \in Nat /\ p \in Nat
    BY <1>1
  <2>1. p - offset_ \in 1 .. n
    BY <1>1, <2>0
  <2>2. offset_ + 1 + (p - offset_) = p + 1
    BY <1>1, <2>0
  <2> QED BY <1>2, <2>1, <2>2 DEF ByteAt
<1>7. Body(longer, o) = Body(m, offset_) \cup (offset_ .. o - 1)
  BY <1>1, <1>3 DEF Body, Reads
<1>8. \A p \in longer.offset .. o - 1 : ByteAt(p) # MS
  <2>1. \A p \in longer.offset .. o - 1 :
            p \in m.offset .. offset_ - 1 \/ p = offset_ \/ p \in offset_ + 1 .. o - 1
    BY <1>1, <1>3
  <2> QED BY <1>2, <1>6, <2>1, SeparatorsAssumption DEF Reads
<1>9. ArgumentStarts(longer) = {p \in Body(longer, o) : ByteAt(p) = MPS}
  <2>1. ASSUME NEW p \in offset_ .. o - 1 PROVE ByteAt(p) = MPS <=> p = offset_
    <3>1. p = offset_ \/ p \in offset_ + 1 .. o - 1
      BY <1>1
    <3> QED BY <1>2, <1>6, <3>1
  <2>2. offset_ \in offset_ .. o - 1
    BY <1>1
  <2> QED BY <1>5, <1>7, <2>1, <2>2 DEF Reads
<1>10. longer.offset + Len(longer.header) \in ArgumentStarts(longer)
  <2>1. CASE Body(m, offset_) # {}
    BY <1>3, <1>5, <2>1 DEF Reads
  <2>2. CASE Body(m, offset_) = {}
    <3>1. m.offset + Len(m.header) = offset_
      BY <1>1, <2>2 DEF Body, Reads
    <3> QED BY <1>3, <1>5, <3>1
  <2> QED BY <2>1, <2>2
<1>11. \A p \in ArgumentStarts(longer) : p + 1 \in Body(longer, o) \ ArgumentStarts(longer)
  <2>1. offset_ \notin Body(m, offset_)
    BY <1>1 DEF Body
  <2>2. ASSUME NEW p \in ArgumentStarts(m)
        PROVE  p + 1 \in Body(longer, o) \ ArgumentStarts(longer)
    <3>1. p + 1 \in Body(m, offset_) \ ArgumentStarts(m)
      BY DEF Reads
    <3> QED BY <1>5, <1>7, <2>1, <3>1
  <2>3. offset_ + 1 \in Body(longer, o) \ ArgumentStarts(longer)
    <3>1. offset_ + 1 \in offset_ + 1 .. o - 1 /\ offset_ + 1 \in offset_ .. o - 1
      BY <1>1
    <3> QED BY <1>6, <1>7, <1>9, <3>1
  <2> QED BY <1>5, <2>2, <2>3
<1>12. /\ IsFiniteSet(ArgumentStarts(longer))
       /\ Cardinality(ArgumentStarts(longer)) = Len(longer.arguments)
  <2>1. offset_ \notin ArgumentStarts(m)
    BY <1>1 DEF Body, Reads
  <2>2. /\ IsFiniteSet(ArgumentStarts(m))
        /\ Cardinality(ArgumentStarts(m)) = Len(m.arguments)
    BY DEF Reads
  <2>3. /\ IsFiniteSet(ArgumentStarts(m) \cup {offset_})
        /\ Cardinality(ArgumentStarts(m) \cup {offset_}) = Cardinality(ArgumentStarts(m)) + 1
    BY <2>1, <2>2, FS_AddElement
  <2> QED BY <1>4, <1>5, <2>2, <2>3
<1>13. ASSUME NEW k \in DOMAIN longer.arguments
       PROVE  Run(longer.arguments[k].offset, Bytes \ {MPS, MS}, longer.arguments[k].size)
  <2>1. CASE k \in DOMAIN m.arguments
    <3>1. longer.arguments[k] = m.arguments[k]
      BY <1>4, <2>1
    <3> QED BY <2>1, <3>1 DEF Reads
  <2>2. CASE k = Len(m.arguments) + 1
    <3>1. longer.arguments[k].offset = offset_ + 1 /\ longer.arguments[k].size = n
      BY <1>4, <2>2
    <3> QED BY <1>2, <3>1
  <2> QED BY <1>4, <2>1, <2>2
<1>14. o < Size => ByteAt(o) \in {MPS, MS}
  <2>1. o < Size => ByteAt(o) \in Bytes
    BY <1>1 DEF ByteAt, TypeOK, Size
  <2> QED BY <1>2, <2>1
<1>15. /\ At(longer.header, longer.offset) /\ longer.offset + Len(longer.header) <= o /\ o <= Size
       /\ \A g \in Headers : At(g, longer.offset) => Len(g) <= Len(longer.header)
  BY <1>1, <1>2, <1>3 DEF Reads
<1> HIDE DEF o
<1>16. Reads(longer, o)
  BY <1>8, <1>9, <1>10, <1>11, <1>12, <1>13, <1>14, <1>15 DEF Reads
<1> QED BY <1>16 DEF o

\* A separator behind it makes it a message, if it has as many arguments as it may.
LEMMA SeparatorCompletes ==
    ASSUME TypeOK, offset_ < Size, NEW m \in Message, Reads(m, offset_),
           m.offset + m.size = offset_, ByteAt(offset_) = MS,
           Len(m.arguments) \in NumArguments[m.header][1] .. NumArguments[m.header][2],
           NEW longer, longer = [m EXCEPT !.size = @ + 1]
    PROVE  Genuine(longer) /\ longer \in Message
<1>1. /\ offset_ \in Nat /\ m.offset \in Nat /\ m.size \in Nat /\ Len(m.header) \in Nat
      /\ m.header \in Headers
  BY HeadersAssumption DEF TypeOK, Size, Message
<1>2. /\ longer.offset = m.offset /\ longer.header = m.header /\ longer.arguments = m.arguments
      /\ longer.size = m.size + 1 /\ longer \in Message
  BY <1>1 DEF Message
<1>3. longer.offset + longer.size - 1 = offset_
  BY <1>1, <1>2
<1>4. ArgumentStarts(longer) = ArgumentStarts(m)
  BY <1>2 DEF ArgumentStarts
<1>5. IsMessage(m.offset, offset_)
  <2>1. ArgumentStarts(m) = {p \in m.offset + Len(m.header) .. offset_ - 1 : ByteAt(p) = MPS}
    BY DEF Reads, Body
  <2>2. \A p \in ArgumentStarts(m) :
            p + 1 \in (m.offset + Len(m.header) .. offset_ - 1) \ ArgumentStarts(m)
    BY DEF Reads, Body
  <2>3. m.offset + Len(m.header) .. offset_ - 1 # {} => m.offset + Len(m.header) \in ArgumentStarts(m)
    BY DEF Reads, Body
  <2>4. Cardinality(ArgumentStarts(m)) \in NumArguments[m.header][1] .. NumArguments[m.header][2]
    BY DEF Reads
  <2> QED BY <1>1, <2>1, <2>2, <2>3, <2>4 DEF IsMessage, Reads
<1>6. ArgumentStarts(m) = {p \in m.offset + Len(m.header) .. offset_ : ByteAt(p) = MPS}
  <2>1. m.offset + Len(m.header) .. offset_ = Body(m, offset_) \cup {offset_}
    BY <1>1 DEF Body, Reads
  <2> QED BY <2>1, SeparatorsAssumption DEF Reads
<1> QED BY <1>2, <1>3, <1>4, <1>5, <1>6 DEF Genuine, Reads

\* The frame stays as it is, and so does what is said of a part of it.
LEMMA SameFrame ==
    ASSUME UNCHANGED buffer_
    PROVE  /\ Size' = Size
           /\ Reads(Back, offset_)' <=> Reads(Back', offset_')
           /\ (\A i \in DOMAIN Complete : Genuine(Complete[i]))'
                <=> \A i \in DOMAIN Complete' : Genuine(Complete'[i])
           /\ \A s, e : Visible(s, e)' <=> Visible(s, e)
           /\ \A s, e : Found(Complete, s, e)' <=> Found(Complete', s, e)
           /\ InOrder(Complete)' <=> InOrder(Complete')
<1>1. Size' = Size
  BY DEF Size
<1>2. Reads(Back, offset_)' <=> Reads(Back', offset_')
  BY <1>1 DEF Reads, At, ByteAt, Run, Body, ArgumentStarts
<1>3. (\A i \in DOMAIN Complete : Genuine(Complete[i]))'
        <=> \A i \in DOMAIN Complete' : Genuine(Complete'[i])
  BY <1>1 DEF Genuine, IsMessage, At, ByteAt, Run, ArgumentStarts
<1>4. \A s, e : Visible(s, e)' <=> Visible(s, e)
  BY <1>1 DEF Visible, IsMessage, At, ByteAt
<1>5. \A s, e : Found(Complete, s, e)' <=> Found(Complete', s, e)
  BY DEF Found
<1>6. InOrder(Complete)' <=> InOrder(Complete')
  BY DEF InOrder
<1> QED BY <1>1, <1>2, <1>3, <1>4, <1>5, <1>6

LEMMA CompleteType ==
    ASSUME Inv
    PROVE  Complete \in Seq(Message) /\ DOMAIN Complete = 1 .. Len(Complete) /\ Len(Complete) \in Nat
<1>1. messages_ # <<>> => PopBack \in Seq(Message)
  BY PopBackType DEF Inv
<1>2. Complete \in Seq(Message)
  BY <1>1 DEF Complete, Inv, TypeOK, AssertionsHold
<1> QED BY <1>2, LenProperties

\* handle_error(), and the end of the frame, leave the complete messages.
LEMMA ErrorEffect ==
    ASSUME Inv, ~returned, Eof \/ \E n \in 1 .. Size + 1 : handle_error(n)
    PROVE  tokenizing_header_' /\ Complete' = Complete
BY DEF Eof, handle_error, HandleUnknown, Complete

LEMMA GenuineStep ==
    ASSUME Inv, TilesInv, ReadsInv, GenuineInv, [Next]_vars
    PROVE  ReadsInv' /\ GenuineInv'
<1>0. UNCHANGED buffer_
  BY DEF Next, Token, Eof, Returned, vars
<1>1. CASE UNCHANGED vars
  <2>1. Back' = Back /\ Complete' = Complete
    BY <1>1 DEF vars, Back, Complete, PopBack
  <2> QED BY <1>0, <1>1, <2>1, SameFrame DEF vars, ReadsInv, GenuineInv
<1>2. CASE Token
  <2>0. ~returned /\ ~returned' /\ offset_ < Size
    BY <1>2 DEF Token
  <2>1. ASSUME NEW h \in Headers, handle_header(h) PROVE ReadsInv' /\ GenuineInv'
    <3>1. Complete' = Complete
      BY <2>0, <2>1, HeaderEffect
    <3>2. Reads(Back', offset_')
      BY <2>0, <2>1, HeaderEffect, HeaderReads DEF handle_header, Inv
    <3> QED BY <1>0, <3>1, <3>2, SameFrame DEF ReadsInv, GenuineInv
  <2>2. ASSUME NEW n \in 1 .. Size, handle_payload(n) PROVE ReadsInv' /\ GenuineInv'
    <3>1. /\ Complete' = Complete /\ Back \in Message /\ Back.offset + Back.size = offset_
          /\ ~tokenizing_header_
          /\ Back' = [Back EXCEPT
               !.arguments = Append(@, [offset |-> offset_ + 1, size |-> n]),
               !.size = @ + n + 1]
      BY <2>0, <2>2, PayloadEffect
    <3>2. Reads(Back, offset_) /\ Back.offset <= offset_
      BY <2>0, <3>1 DEF ReadsInv, Message
    <3>3. Reads(Back', offset_')
      BY <2>0, <2>2, <3>1, <3>2, PayloadReads DEF handle_payload, Inv
    <3> QED BY <1>0, <3>1, <3>3, SameFrame DEF ReadsInv, GenuineInv
  <2>3. CASE handle_message_separator
    <3>1. /\ ~tokenizing_header_ /\ tokenizing_header_'
          /\ Back \in Message /\ Back.offset + Back.size = offset_
          /\ Complete = PopBack
      BY <2>0, <2>3, SeparatorEffect
    <3>2. CASE Complete' = Complete
      BY <1>0, <3>1, <3>2, SameFrame DEF ReadsInv, GenuineInv
    <3>3. CASE Complete' # Complete
      <4> DEFINE m == [Back EXCEPT !.size = @ + 1]
      <4>1. /\ Len(Back.arguments) \in NumArguments[Back.header][1] .. NumArguments[Back.header][2]
            /\ Complete' \in Seq(Message) /\ Len(Complete') = Len(Complete) + 1
            /\ Complete'[Len(Complete) + 1] = m
            /\ \A i \in 1 .. Len(Complete) : Complete'[i] = Complete[i]
        BY <2>0, <2>3, <3>3, SeparatorEffect
      <4>2. Genuine(m) /\ m.offset = Back.offset
        <5>1. Reads(Back, offset_)
          BY <2>0, <3>1 DEF ReadsInv
        <5>2. ByteAt(offset_) = MS
          BY <2>3 DEF handle_message_separator, EndMessage
        <5>3. Genuine(m)
          BY <2>0, <3>1, <4>1, <5>1, <5>2, SeparatorCompletes DEF Inv
        <5> QED BY <3>1, <5>3 DEF Message
      <4> HIDE DEF m
      <4>3. /\ DOMAIN Complete' = DOMAIN Complete \cup {Len(Complete) + 1}
            /\ DOMAIN Complete = 1 .. Len(Complete) /\ Len(Complete) \in Nat
        BY <4>1, CompleteType, LenProperties
      <4>4. \A i \in DOMAIN Complete' : Genuine(Complete'[i])
        BY <4>1, <4>2, <4>3 DEF GenuineInv
      <4>5. InOrder(Complete')
        <5>1. EndsBy(Complete, Back.offset)
          BY <2>0, <3>1 DEF TilesInv, Tiles, Edge
        <5>2. ASSUME NEW i \in DOMAIN Complete', i > 1
              PROVE  Complete'[i - 1].offset + Complete'[i - 1].size <= Complete'[i].offset
          <6>1. CASE i \in DOMAIN Complete
            <7>1. i - 1 \in DOMAIN Complete
              BY <4>3, <5>2, <6>1
            <7>2. Complete'[i - 1] = Complete[i - 1] /\ Complete'[i] = Complete[i]
              BY <4>1, <4>3, <6>1, <7>1
            <7> QED BY <5>2, <6>1, <7>2 DEF GenuineInv, InOrder
          <6>2. CASE i = Len(Complete) + 1
            <7>1. i - 1 \in DOMAIN Complete
              BY <4>3, <5>2, <6>2
            <7>2. Complete'[i - 1] = Complete[i - 1] /\ Complete'[i] = m
              BY <4>1, <4>3, <6>2, <7>1
            <7> QED BY <4>2, <5>1, <7>1, <7>2 DEF EndsBy
          <6> QED BY <4>3, <6>1, <6>2
        <5> QED BY <5>2 DEF InOrder
      <4> QED BY <1>0, <3>1, <4>4, <4>5, SameFrame DEF ReadsInv, GenuineInv
    <3> QED BY <3>2, <3>3
  <2>4. ASSUME NEW n \in 1 .. Size + 1, handle_error(n) PROVE ReadsInv' /\ GenuineInv'
    BY <1>0, <2>0, <2>4, ErrorEffect, SameFrame DEF ReadsInv, GenuineInv
  <2> QED BY <1>2, <2>1, <2>2, <2>3, <2>4 DEF Token
<1>3. CASE Eof
  <2>1. ~returned /\ returned'
    BY <1>3 DEF Eof
  <2> QED BY <1>0, <1>3, <2>1, ErrorEffect, SameFrame DEF ReadsInv, GenuineInv
<1> QED BY <1>1, <1>2, <1>3 DEF Next, Returned

ParserInv == ByteInv /\ ReadsInv /\ GenuineInv

LEMMA ParserInit == Init => ParserInv
<1> SUFFICES ASSUME Init PROVE ParserInv
  OBVIOUS
<1>1. messages_ = <<>> /\ tokenizing_header_
  BY DEF Init, Started
<1>2. Complete = <<>>
  BY <1>1 DEF Complete
<1>3. GenuineInv
  BY <1>2 DEF GenuineInv, InOrder
<1> QED BY <1>1, <1>3, ByteInit DEF ParserInv, ReadsInv

LEMMA ParserStep == ParserInv /\ [Next]_vars => ParserInv'
BY ByteStep, GenuineStep DEF ParserInv, ByteInv

LEMMA CompleteIsGenuine == Inv /\ GenuineInv => MessagesAreGenuine
<1> SUFFICES ASSUME Inv, GenuineInv, NEW i \in DOMAIN messages_,
                    ~(i = Len(messages_) /\ ~tokenizing_header_)
             PROVE  /\ Genuine(messages_[i])
                    /\ i > 1 => messages_[i - 1].offset + messages_[i - 1].size <= messages_[i].offset
  BY DEF MessagesAreGenuine, Genuine, ArgumentStarts
<1>1. /\ i \in DOMAIN Complete /\ Complete[i] = messages_[i]
      /\ i > 1 => Complete[i - 1] = messages_[i - 1]
  <2>1. CASE tokenizing_header_
    BY <2>1 DEF Complete
  <2>2. CASE ~tokenizing_header_
    <3>1. messages_ # <<>>
      BY <2>2 DEF Inv, AssertionsHold
    <3>2. /\ PopBack \in Seq(Message) /\ Len(messages_) = Len(PopBack) + 1
          /\ \A k \in 1 .. Len(PopBack) : messages_[k] = PopBack[k]
      BY <3>1, PopBackIs DEF Inv
    <3>3. /\ DOMAIN messages_ = 1 .. Len(messages_) /\ DOMAIN PopBack = 1 .. Len(PopBack)
          /\ Len(PopBack) \in Nat
      BY <3>2, LenProperties DEF Inv, TypeOK
    <3>4. i \in 1 .. Len(PopBack) /\ (i > 1 => i - 1 \in 1 .. Len(PopBack))
      BY <2>2, <3>2, <3>3
    <3> QED BY <2>2, <3>2, <3>3, <3>4 DEF Complete
  <2> QED BY <2>1, <2>2
<1> QED BY <1>1 DEF GenuineInv, InOrder

\* What the parser takes for a message is one, for every table of headers and
\* every frame: it has a header, its arguments are all that stand between this
\* header and the next separator, and the list is in the order of the frame.
\* (handle_header, handle_payload, handle_message_separator)
THEOREM FoundMessagesAreGenuine == Spec => []MessagesAreGenuine
<1>1. ParserInv => MessagesAreGenuine
  BY CompleteIsGenuine DEF ParserInv, ByteInv
<1> QED BY ParserInit, ParserStep, <1>1, PTL DEF Spec

-----------------------------------------------------------------------------
(***************************************************************************)
(* No message is missed.                                                   *)
(***************************************************************************)

\* A set of offsets that is not empty has a smallest one.
LEMMA Smallest ==
    ASSUME NEW T \in SUBSET Nat, T # {}
    PROVE  \E p \in T : \A r \in T : p <= r
<1>1. PICK p \in T : \A r \in T : ~(<<r, p>> \in OpToRel(<, Nat))
  BY NatLessThanWellFounded, WFMin
<1>2. ASSUME NEW r \in T PROVE p <= r
  <2>1. ~(r < p)
    BY <1>1 DEF OpToRel
  <2> QED BY <2>1
<1> QED BY <1>2

\* The bytes in front of a separator make up an argument, or begin with one.
LEMMA PayloadExists ==
    ASSUME TypeOK, NEW o \in Nat, NEW e \in o + 1 .. Size - 1, o + 1 < e,
           ByteAt(o + 1) \notin {MPS, MS}, ByteAt(e) = MS
    PROVE  \E n \in 1 .. Size : Run(o + 1, Bytes \ {MPS, MS}, n)
<1> DEFINE T == {p \in o + 1 .. e : ByteAt(p) \in {MPS, MS}}
<1>1. Size \in Nat /\ e \in Nat /\ e < Size
  BY DEF TypeOK, Size
<1>2. PICK p \in T : \A r \in T : p <= r
  <2>1. T \subseteq Nat /\ e \in T
    BY <1>1
  <2> HIDE DEF T
  <2> QED BY <2>1, Smallest
<1>3. p \in o + 2 .. e /\ ByteAt(p) \in {MPS, MS}
  <2>1. p # o + 1
    BY <1>2
  <2> QED BY <1>1, <1>2, <2>1
<1> DEFINE n == p - (o + 1)
<1>4. n \in 1 .. Size /\ o + 1 + n = p /\ p < Size
  BY <1>1, <1>3
<1>5. ASSUME NEW k \in 1 .. n PROVE buffer_[o + 1 + k] \in Bytes \ {MPS, MS}
  <2>1. o + k \in o + 1 .. e /\ o + k < p /\ o + 1 + k = o + k + 1 /\ o + k + 1 \in 1 .. Size
    BY <1>1, <1>3
  <2>2. o + k \notin T
    BY <1>1, <1>2, <1>3, <2>1
  <2>3. ByteAt(o + k) \notin {MPS, MS}
    BY <2>1, <2>2
  <2>4. ByteAt(o + k) \in Bytes
    BY <2>1 DEF ByteAt, TypeOK, Size
  <2> QED BY <2>1, <2>3, <2>4 DEF ByteAt
<1> HIDE DEF n
<1>6. Run(o + 1, Bytes \ {MPS, MS}, n)
  BY <1>1, <1>3, <1>4, <1>5 DEF Run
<1> QED BY <1>4, <1>6

\* What a reader sees of a message: its header, and what comes after it.
LEMMA VisibleParts ==
    ASSUME TypeOK, NEW s \in 0 .. Size - 1, NEW e \in 0 .. Size - 1, IsMessage(s, e)
    PROVE  /\ s < e /\ \A o \in s .. e - 1 : ByteAt(o) # MS
           /\ \E h \in Headers :
                /\ At(h, s) /\ s + Len(h) <= e /\ Len(h) \in Nat \ {0}
                /\ s + Len(h) < e => ByteAt(s + Len(h)) = MPS
                /\ \A o \in s + Len(h) .. e - 1 :
                     ByteAt(o) = MPS => o + 1 < e /\ ByteAt(o + 1) # MPS
                /\ Cardinality({o \in s + Len(h) .. e - 1 : ByteAt(o) = MPS})
                     \in NumArguments[h][1] .. NumArguments[h][2]
<1>0. s \in Nat /\ e \in Nat
  BY DEF TypeOK, Size
<1>1. PICK h \in Headers :
        /\ At(h, s) /\ s + Len(h) <= e
        /\ \A o \in s .. e - 1 : ByteAt(o) # MS
        /\ s + Len(h) .. e - 1 # {} =>
             s + Len(h) \in {o \in s + Len(h) .. e - 1 : ByteAt(o) = MPS}
        /\ \A o \in {p \in s + Len(h) .. e - 1 : ByteAt(p) = MPS} :
             o + 1 \in (s + Len(h) .. e - 1) \ {p \in s + Len(h) .. e - 1 : ByteAt(p) = MPS}
        /\ Cardinality({o \in s + Len(h) .. e - 1 : ByteAt(o) = MPS})
             \in NumArguments[h][1] .. NumArguments[h][2]
  BY Zenon DEF IsMessage
<1>2. Len(h) \in Nat \ {0}
  BY HeadersAssumption, EmptySeq
<1>3. s + Len(h) < e => ByteAt(s + Len(h)) = MPS
  <2>1. s + Len(h) < e => s + Len(h) \in s + Len(h) .. e - 1
    BY <1>0, <1>2
  <2> QED BY <1>1, <2>1
<1>4. ASSUME NEW o \in s + Len(h) .. e - 1, ByteAt(o) = MPS
      PROVE  o + 1 < e /\ ByteAt(o + 1) # MPS
  BY <1>0, <1>1, <1>2, <1>4
<1>5. s < e
  BY <1>0, <1>1, <1>2
<1> QED BY <1>1, <1>2, <1>3, <1>4, <1>5, Zenon

\* The scanner has found the header that the reader sees.
LEMMA SameHeader ==
    ASSUME TypeOK, NEW m \in Message, NEW o \in Nat, Reads(m, o), NEW e \in 0 .. Size - 1, o <= e,
           NEW h \in Headers, At(h, m.offset),
           m.offset + Len(h) < e => ByteAt(m.offset + Len(h)) = MPS
    PROVE  h = m.header
<1> DEFINE g == m.header
<1>1. /\ g \in Headers /\ g \in Seq(Bytes) /\ h \in Seq(Bytes)
      /\ Len(g) \in Nat /\ Len(h) \in Nat /\ m.offset \in Nat /\ Size \in Nat /\ e \in Nat
  <2>1. g \in Seq(Bytes \ {MS}) /\ h \in Seq(Bytes \ {MS}) /\ g \in Headers
    BY HeadersAssumption DEF Message
  <2>2. g \in Seq(Bytes) /\ h \in Seq(Bytes)
    BY <2>1, SeqMonotonic
  <2> QED BY <2>1, <2>2 DEF Message, TypeOK, Size
<1>2. /\ At(g, m.offset) /\ Len(h) <= Len(g) /\ m.offset + Len(g) <= o
  BY DEF Reads
<1>3. \A k \in 1 .. Len(h) : g[k] = h[k]
  BY <1>1, <1>2 DEF At
<1>4. CASE Len(h) < Len(g)
  <2>1. g[Len(h) + 1] # MPS
    BY <1>1, <1>3, <1>4, NoHeaderIsAnArgument
  <2>2. m.offset + Len(h) < e /\ Len(h) + 1 \in 1 .. Len(g)
    BY <1>1, <1>2, <1>4
  <2>3. ByteAt(m.offset + Len(h)) = g[Len(h) + 1]
    <3>1. m.offset + (Len(h) + 1) = m.offset + Len(h) + 1
      BY <1>1
    <3> QED BY <1>2, <2>2, <3>1 DEF At, ByteAt
  <2> QED BY <2>1, <2>2, <2>3
<1>5. CASE Len(h) = Len(g)
  BY <1>1, <1>3, <1>5, SeqEqual
<1> QED BY <1>1, <1>2, <1>4, <1>5

\* A message with a wrong number of arguments is none, ...
LEMMA SeparatorAccepts ==
    ASSUME TypeOK, offset_ < Size, NEW m \in Message, Reads(m, offset_),
           IsMessage(m.offset, offset_), m.offset < Size
    PROVE  Len(m.arguments) \in NumArguments[m.header][1] .. NumArguments[m.header][2]
<1>1. m.offset \in 0 .. Size - 1 /\ offset_ \in 0 .. Size - 1 /\ offset_ \in Nat
  BY DEF TypeOK, Size, Message
<1>2. PICK h \in Headers :
        /\ At(h, m.offset) /\ m.offset + Len(h) <= offset_
        /\ m.offset + Len(h) < offset_ => ByteAt(m.offset + Len(h)) = MPS
        /\ Cardinality({o \in m.offset + Len(h) .. offset_ - 1 : ByteAt(o) = MPS})
             \in NumArguments[h][1] .. NumArguments[h][2]
  BY <1>1, VisibleParts
<1>3. h = m.header
  BY <1>1, <1>2, SameHeader
<1>4. Cardinality({o \in m.offset + Len(h) .. offset_ - 1 : ByteAt(o) = MPS}) = Len(m.arguments)
  BY <1>3 DEF Reads, Body
<1> QED BY <1>2, <1>3, <1>4

\* ... and neither is one in which the scanner meets what it does not know.
LEMMA ErrorInNone ==
    ASSUME TypeOK, offset_ < Size, start = "yypayload", NEW n, MatchesUnknown(n),
           NEW m \in Message, Reads(m, offset_), m.offset < offset_,
           NEW e \in 0 .. Size - 1, offset_ <= e, ByteAt(e) = MS
    PROVE  ~IsMessage(m.offset, e)
<1> SUFFICES ASSUME IsMessage(m.offset, e) PROVE FALSE
  OBVIOUS
<1>1. /\ m.offset \in 0 .. Size - 1 /\ m.offset \in Nat /\ offset_ \in Nat /\ Size \in Nat
      /\ e \in Nat
  BY DEF TypeOK, Size, Message
<1>2. PICK h \in Headers :
        /\ At(h, m.offset) /\ m.offset + Len(h) <= e /\ Len(h) \in Nat \ {0}
        /\ m.offset + Len(h) < e => ByteAt(m.offset + Len(h)) = MPS
        /\ \A o \in m.offset + Len(h) .. e - 1 : ByteAt(o) = MPS => o + 1 < e /\ ByteAt(o + 1) # MPS
  BY <1>1, VisibleParts
<1>3. h = m.header
  BY <1>1, <1>2, SameHeader
<1>4. ByteAt(offset_) # MS /\ \A k \in 1 .. Size : ~MatchesPayload(k)
  BY DEF MatchesUnknown
<1>5. offset_ < e
  BY <1>1, <1>4
<1>6. m.offset + Len(h) <= offset_
  BY <1>3 DEF Reads
<1>7. ByteAt(offset_) = MPS
  <2>1. CASE m.offset + Len(h) = offset_
    BY <1>2, <1>5, <2>1
  <2>2. CASE m.offset + Len(h) # offset_
    <3>1. m.offset + Len(h) \in Body(m, offset_)
      BY <1>1, <1>2, <1>3, <1>6, <2>2 DEF Body
    <3>2. ByteAt(offset_) \in {MPS, MS}
      BY <3>1 DEF Reads
    <3> QED BY <1>4, <3>2
  <2> QED BY <2>1, <2>2
<1>8. offset_ + 1 < e /\ ByteAt(offset_ + 1) # MPS
  <2>1. offset_ \in m.offset + Len(h) .. e - 1
    BY <1>1, <1>2, <1>5, <1>6
  <2> QED BY <1>2, <1>7, <2>1
<1>9. ByteAt(offset_ + 1) # MS
  <2>1. \A o \in m.offset .. e - 1 : ByteAt(o) # MS
    BY <1>1, VisibleParts
  <2>2. offset_ + 1 \in m.offset .. e - 1
    BY <1>1, <1>8
  <2> QED BY <2>1, <2>2
<1>10. e \in offset_ + 1 .. Size - 1
  BY <1>1, <1>5
<1>11. PICK k \in 1 .. Size : Run(offset_ + 1, Bytes \ {MPS, MS}, k)
  BY <1>1, <1>8, <1>9, <1>10, PayloadExists
<1>12. MatchesPayload(k)
  BY <1>1, <1>7, <1>11 DEF MatchesPayload
<1> QED BY <1>4, <1>12

\* A token without a separator in it ends no message and begins none.
LEMMA NoSeparatorRead ==
    ASSUME Inv, Inv', FoundInv, UNCHANGED buffer_, ~returned, ~returned', ~tokenizing_header_',
           Complete' = Complete, offset_ <= offset_',
           \A p \in offset_ .. offset_' - 1 : ByteAt(p) # MS,
           \/ tokenizing_header_ /\ Back'.offset = offset_
           \/ /\ ~tokenizing_header_ /\ Back'.offset = Back.offset
              /\ offset_ > 0 /\ ByteAt(offset_ - 1) # MS
    PROVE  FoundInv'
<1> SUFFICES ASSUME NEW s \in 0 .. Size - 1, NEW e \in 0 .. Size - 1, Visible(s, e)
             PROVE  /\ e < offset_' => Found(Complete, s, e)
                    /\ s < offset_' /\ offset_' <= e => s = Back'.offset
  BY SameFrame DEF FoundInv
<1>1. /\ offset_ \in Nat /\ offset_' \in Nat /\ Size \in Nat /\ s \in Nat /\ e \in Nat
  BY DEF Inv, TypeOK, Size
<1>2. /\ ByteAt(e) = MS /\ (s = 0 \/ ByteAt(s - 1) = MS)
  BY DEF Visible
<1>3. /\ e < offset_ => Found(Complete, s, e)
      /\ s < offset_ /\ offset_ <= e => ~tokenizing_header_ /\ s = Back.offset
  BY DEF FoundInv
<1>4. ASSUME e < offset_' PROVE Found(Complete, s, e)
  <2>1. ~(e \in offset_ .. offset_' - 1)
    BY <1>2
  <2>2. \A a, b \in Nat : e < b /\ ~(e \in a .. b - 1) => e < a
    BY <1>1
  <2>3. e < offset_
    BY <1>1, <1>4, <2>1, <2>2
  <2> QED BY <1>3, <2>3
<1>5. ASSUME s < offset_', offset_' <= e PROVE s = Back'.offset
  <2>1. CASE s < offset_
    BY <1>1, <1>3, <1>5, <2>1
  <2>2. CASE s = offset_
    BY <1>2, <2>2
  <2>3. CASE s > offset_
    <3>1. \A a, b \in Nat : s > a /\ s < b => s - 1 \in a .. b - 1 /\ s # 0
      BY <1>1
    <3>2. s - 1 \in offset_ .. offset_' - 1 /\ s # 0
      BY <1>1, <1>5, <2>3, <3>1
    <3> QED BY <1>2, <3>2
  <2> QED BY <1>1, <2>1, <2>2, <2>3
<1> QED BY <1>4, <1>5

\* Garbage hides no message: where it ends, another message may begin.
LEMMA ErrorHidesNone ==
    ASSUME Inv, ReadsInv, FoundInv, ~returned, offset_ < Size,
           NEW n \in 1 .. Size + 1, MatchesUnknown(n),
           NEW s \in 0 .. Size - 1, NEW e \in 0 .. Size - 1, Visible(s, e),
           s < offset_ + n, offset_ <= e
    PROVE  FALSE
<1>1. /\ offset_ \in Nat /\ Size \in Nat /\ s \in Nat /\ e \in Nat /\ n \in Nat
  BY DEF Inv, TypeOK, Size
<1>2. /\ ByteAt(e) = MS /\ (s = 0 \/ ByteAt(s - 1) = MS) /\ IsMessage(s, e)
  BY DEF Visible
<1>3. /\ \A p \in s .. e - 1 : ByteAt(p) # MS
      /\ s < e /\ \E h \in Headers : At(h, s)
  BY <1>2, VisibleParts DEF Inv
<1>4. ~tokenizing_header_ =>
        /\ start = "yypayload" /\ Back \in Message /\ Reads(Back, offset_)
        /\ Back.offset < offset_ /\ ByteAt(offset_ - 1) # MS
  <2> SUFFICES ASSUME ~tokenizing_header_
               PROVE  /\ start = "yypayload" /\ Back \in Message /\ Reads(Back, offset_)
                      /\ Back.offset < offset_ /\ ByteAt(offset_ - 1) # MS
    OBVIOUS
  <2>1. /\ start = "yypayload" /\ Back \in Message /\ Reads(Back, offset_)
    BY BackIsMessage DEF Inv, TypeOK, AssertionsHold, ReadsInv
  <2>2. Back.offset \in Nat /\ Len(Back.header) \in Nat \ {0}
    BY <2>1, HeadersAssumption, EmptySeq DEF Message
  <2>3. Back.offset < offset_ /\ offset_ - 1 \in Back.offset .. offset_ - 1
    BY <1>1, <2>1, <2>2 DEF Reads
  <2> QED BY <2>1, <2>3 DEF Reads
<1>5. tokenizing_header_ => start = "INITIAL"
  BY DEF Inv, AssertionsHold
<1>6. CASE s < offset_
  <2>1. ~tokenizing_header_ /\ s = Back.offset
    BY <1>6 DEF FoundInv
  <2> QED BY <1>2, <1>4, <2>1, ErrorInNone DEF Inv
<1>7. CASE s = offset_
  <2>1. CASE tokenizing_header_
    BY <1>3, <1>5, <1>7, <2>1 DEF MatchesUnknown
  <2>2. CASE ~tokenizing_header_
    BY <1>1, <1>2, <1>4, <1>7, <2>2 DEF Inv, TypeOK, Message
  <2> QED BY <2>1, <2>2
<1>8. CASE s > offset_
  <2>1. n # 1
    BY <1>1, <1>8
  <2>2. Garbage(n) /\ ByteAt(offset_) # MS
    BY <2>1 DEF MatchesUnknown
  <2>3. PICK text \in 0 .. Size, separators \in 0 .. Size :
          /\ Run(offset_ + 1, Bytes \ {MS}, text)
          /\ Run(offset_ + 1 + text, {MS}, separators)
          /\ n = 1 + text + separators
    BY <2>2 DEF Garbage
  <2>4. ASSUME NEW p \in offset_ .. offset_ + text PROVE ByteAt(p) # MS
    <3>1. CASE p = offset_
      BY <2>2, <3>1
    <3>2. CASE p # offset_
      <4>1. p - offset_ \in 1 .. text /\ offset_ + 1 + (p - offset_) = p + 1
        BY <1>1, <3>2
      <4>2. buffer_[offset_ + 1 + (p - offset_)] \in Bytes \ {MS}
        BY <2>3, <4>1 DEF Run
      <4> QED BY <4>1, <4>2 DEF ByteAt
    <3> QED BY <3>1, <3>2
  <2>5. ~(s - 1 \in offset_ .. offset_ + text)
    BY <1>1, <1>2, <1>8, <2>4
  <2>6. s - (offset_ + text) \in 1 .. separators
        /\ offset_ + 1 + text + (s - (offset_ + text)) = s + 1
    BY <1>1, <1>8, <2>3, <2>5
  <2>7. ByteAt(s) = MS
    BY <2>3, <2>6 DEF Run, ByteAt
  <2> QED BY <1>1, <1>3, <2>7
<1> QED BY <1>1, <1>6, <1>7, <1>8

LEMMA SeparatorFound ==
    ASSUME Inv, ReadsInv, FoundInv, ~returned, ~returned', offset_ < Size, UNCHANGED buffer_,
           handle_message_separator
    PROVE  FoundInv'
<1>1. /\ ~tokenizing_header_ /\ tokenizing_header_'
      /\ Back \in Message /\ Back.offset + Back.size = offset_
      /\ Reads(Back, offset_)
  BY SeparatorEffect DEF ReadsInv
<1>2. offset_' = offset_ + 1 /\ ByteAt(offset_) = MS
  BY DEF handle_message_separator, EndMessage
<1> SUFFICES ASSUME NEW s \in 0 .. Size - 1, NEW e \in 0 .. Size - 1, Visible(s, e)
             PROVE  /\ e < offset_' => Found(Complete', s, e)
                    /\ ~(s < offset_' /\ offset_' <= e)
  BY SameFrame DEF FoundInv
<1>3. /\ offset_ \in Nat /\ Size \in Nat /\ s \in Nat /\ e \in Nat
      /\ Back.offset \in Nat /\ Back.size \in Nat
  BY <1>1 DEF Inv, TypeOK, Size, Message
<1>4. IsMessage(s, e) /\ s < e /\ \A p \in s .. e - 1 : ByteAt(p) # MS
  BY VisibleParts DEF Inv, Visible
<1>5. /\ e < offset_ => Found(Complete, s, e)
      /\ s < offset_ /\ offset_ <= e => s = Back.offset
  BY DEF FoundInv
<1>6. ~(s < offset_' /\ offset_' <= e)
  <2> SUFFICES ASSUME s < offset_', offset_' <= e PROVE FALSE
    OBVIOUS
  <2>1. offset_ \in s .. e - 1
    BY <1>2, <1>3
  <2> QED BY <1>2, <1>4, <2>1
<1>7. Complete' = Complete \/
        /\ Len(Complete) \in Nat /\ DOMAIN Complete = 1 .. Len(Complete)
        /\ DOMAIN Complete' = 1 .. Len(Complete) + 1
        /\ Complete'[Len(Complete) + 1] = [Back EXCEPT !.size = @ + 1]
        /\ \A i \in 1 .. Len(Complete) : Complete'[i] = Complete[i]
  BY SeparatorEffect, CompleteType, LenProperties
<1>8. CASE e < offset_
  <2>1. PICK i \in DOMAIN Complete : Complete[i].offset = s /\ Complete[i].size = e - s + 1
    BY <1>5, <1>8 DEF Found
  <2>2. i \in DOMAIN Complete' /\ Complete'[i] = Complete[i]
    BY <1>7, <2>1
  <2> QED BY <1>6, <2>1, <2>2 DEF Found
<1>9. CASE e = offset_
  <2>1. s = Back.offset
    BY <1>3, <1>4, <1>5, <1>9
  <2>2. Len(Back.arguments) \in NumArguments[Back.header][1] .. NumArguments[Back.header][2]
    BY <1>1, <1>3, <1>4, <1>9, <2>1, SeparatorAccepts DEF Inv
  <2>3. /\ Len(Complete) + 1 \in DOMAIN Complete'
        /\ Complete'[Len(Complete) + 1] = [Back EXCEPT !.size = @ + 1]
    BY <2>2, SeparatorEffect, CompleteType, LenProperties
  <2>4. /\ Complete'[Len(Complete) + 1].offset = s
        /\ Complete'[Len(Complete) + 1].size = Back.size + 1
    BY <1>1, <2>1, <2>3 DEF Message
  <2>5. Back.size + 1 = e - s + 1
    BY <1>1, <1>3, <1>9, <2>1
  <2> QED BY <1>6, <2>3, <2>4, <2>5 DEF Found
<1> QED BY <1>2, <1>3, <1>6, <1>8, <1>9

LEMMA FoundStep ==
    ASSUME Inv, Inv', ReadsInv, FoundInv, [Next]_vars
    PROVE  FoundInv'
<1>0. UNCHANGED buffer_
  BY DEF Next, Token, Eof, Returned, vars
<1>1. CASE UNCHANGED vars
  <2>1. Back' = Back /\ Complete' = Complete
    BY <1>1 DEF vars, Back, Complete, PopBack
  <2> QED BY <1>0, <1>1, <2>1, SameFrame DEF vars, FoundInv
<1>2. CASE Eof
  BY <1>2 DEF Eof, FoundInv
<1>3. CASE Token
  <2>0. ~returned /\ ~returned' /\ offset_ < Size /\ offset_ \in Nat
    BY <1>3 DEF Token, Inv, TypeOK, Size
  <2>1. ASSUME NEW h \in Headers, handle_header(h) PROVE FoundInv'
    <3>1. /\ tokenizing_header_ /\ ~tokenizing_header_' /\ Complete' = Complete
          /\ Back' = [offset |-> offset_, size |-> Len(h), header |-> h, arguments |-> <<>>]
      BY <2>0, <2>1, HeaderEffect
    <3>3. Back'.offset = offset_ /\ offset_' = offset_ + Len(h) /\ Len(h) \in Nat
      BY <2>1, <3>1, HeaderFits DEF handle_header, Inv
    <3>2. ASSUME NEW p \in offset_ .. offset_' - 1 PROVE ByteAt(p) # MS
      <4>1. \A a, b \in Nat : p \in a .. a + b - 1 => p - a + 1 \in 1 .. b /\ a + (p - a + 1) = p + 1
        OBVIOUS
      <4>2. p \in offset_ .. offset_ + Len(h) - 1
        BY <2>0, <3>3
      <4>3. p - offset_ + 1 \in 1 .. Len(h) /\ offset_ + (p - offset_ + 1) = p + 1
        BY <2>0, <3>3, <4>1, <4>2
      <4>4. h[p - offset_ + 1] # MS
        BY <4>3, HeadersAssumption
      <4> QED BY <2>1, <4>3, <4>4 DEF handle_header, MatchesHeader, At, ByteAt
    <3>4. offset_ <= offset_'
      BY <2>0, <3>3
    <3> QED BY <1>0, <2>0, <3>1, <3>2, <3>3, <3>4, NoSeparatorRead
  <2>2. ASSUME NEW n \in 1 .. Size, handle_payload(n) PROVE FoundInv'
    <3>1. /\ ~tokenizing_header_ /\ ~tokenizing_header_' /\ Complete' = Complete
          /\ Back \in Message /\ Back'.offset = Back.offset
      BY <2>0, <2>2, PayloadEffect DEF Message
    <3>2. /\ offset_' = offset_ + n + 1 /\ n \in Nat /\ ByteAt(offset_) = MPS
          /\ \A k \in 1 .. n : buffer_[offset_ + 1 + k] # MS
      BY <2>2 DEF handle_payload, MatchesPayload, Run, Inv, TypeOK, Size
    <3>3. ASSUME NEW p \in offset_ .. offset_' - 1 PROVE ByteAt(p) # MS
      <4>1. \A a, b \in Nat : p \in a .. a + b + 1 - 1 => p = a \/ (p - a \in 1 .. b /\ a + 1 + (p - a) = p + 1)
        OBVIOUS
      <4>2. p \in offset_ .. offset_ + n + 1 - 1
        BY <2>0, <3>2
      <4>3. p = offset_ \/ (p - offset_ \in 1 .. n /\ offset_ + 1 + (p - offset_) = p + 1)
        BY <2>0, <3>2, <4>1, <4>2
      <4> QED BY <3>2, <4>3, SeparatorsAssumption DEF ByteAt
    <3>4. offset_ > 0 /\ ByteAt(offset_ - 1) # MS
      <4>1. Reads(Back, offset_) /\ Back.offset \in Nat /\ Len(Back.header) \in Nat \ {0}
        BY <2>0, <3>1, HeadersAssumption, EmptySeq DEF ReadsInv, Message
      <4>2. offset_ - 1 \in Back.offset .. offset_ - 1 /\ offset_ > 0
        BY <2>0, <4>1 DEF Reads
      <4> QED BY <4>1, <4>2 DEF Reads
    <3>5. offset_ <= offset_'
      BY <2>0, <3>2
    <3> QED BY <1>0, <2>0, <3>1, <3>3, <3>4, <3>5, NoSeparatorRead
  <2>3. CASE handle_message_separator
    BY <1>0, <2>0, <2>3, SeparatorFound
  <2>4. ASSUME NEW n \in 1 .. Size + 1, handle_error(n) PROVE FoundInv'
    <3>1. /\ tokenizing_header_' /\ Complete' = Complete /\ offset_' = offset_ + n
          /\ MatchesUnknown(n)
      BY <2>0, <2>4, ErrorEffect DEF handle_error, HandleUnknown
    <3> SUFFICES ASSUME NEW s \in 0 .. Size - 1, NEW e \in 0 .. Size - 1, Visible(s, e)
                 PROVE  /\ e < offset_' => Found(Complete, s, e)
                        /\ ~(s < offset_' /\ offset_' <= e)
      BY <1>0, <3>1, SameFrame DEF FoundInv
    <3>2. ~(s < offset_ + n /\ offset_ <= e)
      BY <2>0, <3>1, ErrorHidesNone
    <3>3. e < offset_ => Found(Complete, s, e)
      BY <2>0 DEF FoundInv
    <3>4. n \in Nat /\ e \in Nat /\ s \in Nat /\ s < e
      <4>1. s < e
        BY VisibleParts DEF Visible, Inv
      <4> QED BY <4>1 DEF Inv, TypeOK, Size
    <3>5. \A a, b \in Nat : (s < a + b => e < a) => (e < a + b => e < a) /\ ~(s < a + b /\ a + b <= e)
      BY <3>4
    <3>6. s < offset_ + n => e < offset_
      BY <2>0, <3>2, <3>4
    <3> QED BY <2>0, <3>1, <3>3, <3>4, <3>5, <3>6
  <2> QED BY <1>3, <2>1, <2>2, <2>3, <2>4 DEF Token
<1> QED BY <1>1, <1>2, <1>3 DEF Next, Returned

MissedInv == ParserInv /\ FoundInv /\ NoMessageMissed

LEMMA MissedInit == Init => MissedInv
<1> SUFFICES ASSUME Init PROVE MissedInv
  OBVIOUS
<1>1. offset_ = 0 /\ ~returned /\ \A s \in 0 .. Size - 1 : ~(s < 0)
  BY InvInit DEF Init, Started, Inv, TypeOK, Size
<1>2. FoundInv
  BY <1>1 DEF FoundInv
<1> QED BY <1>1, <1>2, ParserInit DEF MissedInv, NoMessageMissed

LEMMA MissedStep == MissedInv /\ [Next]_vars => MissedInv'
<1> SUFFICES ASSUME MissedInv, [Next]_vars PROVE MissedInv'
  OBVIOUS
<1>1. ParserInv' /\ Inv /\ Inv' /\ ReadsInv /\ FoundInv
  BY ParserStep DEF MissedInv, ParserInv, ByteInv
<1>2. FoundInv'
  BY <1>1, FoundStep
<1>3. NoMessageMissed'
  <2>1. CASE ~returned'
    BY <2>1 DEF NoMessageMissed
  <2>2. CASE Eof
    <3>1. /\ UNCHANGED buffer_ /\ ~returned /\ offset_ = Size /\ tokenizing_header_'
          /\ Complete' = Complete
      BY <1>1, <2>2, ErrorEffect DEF Eof
    <3>2. messages_' = Complete /\ Size' = Size
      BY <3>1 DEF Complete, Size
    <3>3. ASSUME NEW s \in 0 .. Size - 1, NEW e \in 0 .. Size - 1, Visible(s, e)
          PROVE  Found(messages_', s, e)
      <4>1. e < offset_
        BY <1>1, <3>1 DEF Inv, TypeOK, Size
      <4> QED BY <1>1, <3>1, <3>2, <3>3, <4>1 DEF FoundInv
    <3>4. \A s, e : Visible(s, e)' <=> Visible(s, e)
      BY <3>1, SameFrame
    <3> QED BY <3>2, <3>3, <3>4 DEF NoMessageMissed, Found, Visible
  <2>3. CASE UNCHANGED vars
    <3>1. UNCHANGED <<buffer_, returned, messages_>> /\ Size' = Size
      BY <2>3 DEF vars, Size
    <3>2. \A s, e : Visible(s, e)' <=> Visible(s, e)
      BY <3>1, SameFrame
    <3> QED BY <3>1, <3>2 DEF MissedInv, NoMessageMissed, Visible
  <2> QED BY <1>1, <2>1, <2>2, <2>3 DEF Next, Token, Returned
<1> QED BY <1>1, <1>2, <1>3 DEF MissedInv

\* Nothing that a reader of the protocol would take for a message is missed,
\* whatever stands before it in the frame, for every table of headers in which
\* none goes on like another one with an argument.  (lexer.l:43, handle_error)
THEOREM NoMessageIsMissed == Spec => []NoMessageMissed
<1>1. MissedInv => NoMessageMissed
  BY DEF MissedInv
<1> QED BY MissedInit, MissedStep, <1>1, PTL DEF Spec
=============================================================================
