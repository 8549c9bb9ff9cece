------------------------------- MODULE Parser -------------------------------
(***************************************************************************)
(* From the bytes of a frame to messages: the scanner (lexer.l) and the    *)
(* parser it calls for every token (parser.cpp), together execute().       *)
(*                                                                         *)
(* A byte is one of the values of Bytes: MS ends a message, MPS starts one *)
(* of its parts, what the others are does not matter.  Offsets count from  *)
(* 0, as in the code, so the byte at offset o is buffer_[o + 1].           *)
(*                                                                         *)
(* A step is one token: what the scanner matches at offset_ and what       *)
(* handle_token() does with it.  The start condition yyerror lasts no      *)
(* longer than a token and is part of Garbage.                             *)
(***************************************************************************)
EXTENDS Naturals, Sequences, FiniteSets

CONSTANTS
    Bytes,
    MPS, MS,        \* the separators of message parts and of messages
    Headers,        \* the headers, each a sequence of bytes
    NumArguments,   \* header |-> <<least, most>> number of arguments
    Inputs          \* the frames to parse

ASSUME SeparatorsAssumption == MPS \in Bytes /\ MS \in Bytes /\ MPS # MS

ASSUME HeadersAssumption ==
    /\ Headers \subseteq Seq(Bytes \ {MS})
    /\ \A h \in Headers : h # <<>> /\ h[1] # MPS
    /\ NumArguments \in [Headers -> Nat \X Nat]

\* No header goes on like another one with an argument: what follows the shorter
\* one is never a separator.  (the rules of lexer.l)
ASSUME NoHeaderIsAnArgument ==
    \A h, g \in Headers :
        Len(h) < Len(g) /\ (\A k \in 1 .. Len(h) : g[k] = h[k]) => g[Len(h) + 1] # MPS

ASSUME InputsAssumption == Inputs \subseteq Seq(Bytes)

VARIABLES
    buffer_,
    start,                  \* the start condition of the scanner
    offset_,                \* number of bytes consumed
    tokenizing_header_,     \* the parser expects a header next
    messages_,
    errors_,
    returned                \* yylex() has returned 0

vars == <<buffer_, start, offset_, tokenizing_header_, messages_, errors_, returned>>

Size == Len(buffer_)        \* buffer_size_

Location == [offset : Nat, size : Nat]

Message == [offset : Nat, size : Nat, header : Headers, arguments : Seq(Location)]

Tags == {"UNEXPECTED_TOKEN", "UNEXPECTED_EOF", "CORRUPT_PAYLOAD",
         "INVALID_NUMBER_OF_ARGUMENTS"}

\* The offset never leaves the buffer, but for the one byte of the end.
TypeOK ==
    /\ buffer_ \in Seq(Bytes)
    /\ start \in {"INITIAL", "yypayload"}
    /\ offset_ \in 0 .. Size + 1
    /\ ~returned => offset_ <= Size
    /\ tokenizing_header_ \in BOOLEAN
    /\ messages_ \in Seq(Message)
    /\ errors_ \in Seq([offset : Nat, size : Nat, tag : Tags])
    /\ returned \in BOOLEAN

Started ==
    /\ start = "INITIAL"
    /\ offset_ = 0
    /\ tokenizing_header_ = TRUE
    /\ messages_ = <<>>
    /\ errors_ = <<>>
    /\ returned = FALSE

Init == buffer_ \in Inputs /\ Started

-----------------------------------------------------------------------------
(***************************************************************************)
(* The scanner                                                             *)
(***************************************************************************)

ByteAt(o) == buffer_[o + 1]

\* The text at offset o is h.
At(h, o) ==
    /\ o + Len(h) <= Size
    /\ \A k \in 1 .. Len(h) : buffer_[o + k] = h[k]

\* The longest run of bytes of S at offset o has length n.
Run(o, S, n) ==
    /\ n \in 0 .. Size
    /\ o + n <= Size
    /\ \A k \in 1 .. n : buffer_[o + k] \in S
    /\ o + n < Size => ByteAt(o + n) \notin S

MatchesShortHeader(h) ==    \* the shortest match wins
    /\ At(h, offset_)
    /\ \A g \in Headers : At(g, offset_) => Len(g) >= Len(h)

\* The longest match wins.
MatchesHeader(h) ==
    /\ At(h, offset_)
    /\ \A g \in Headers : At(g, offset_) => Len(g) <= Len(h)

MatchesPayload(n) ==
    /\ ByteAt(offset_) = MPS
    /\ n > 0
    /\ Run(offset_ + 1, Bytes \ {MPS, MS}, n)

GarbageAndEnd(n) ==         \* takes the end of the buffer for a byte
    \E text, separators \in 0 .. Size :
        /\ Run(offset_ + 1, Bytes \ {MS}, text)
        /\ Run(offset_ + 1 + text, {MS}, separators)
        /\ n = 1 + text + separators + (IF offset_ + 1 = Size THEN 1 ELSE 0)

\* One byte that nothing matches, then all up to and including the next
\* separators: n bytes in all.  At the end of the buffer, yyless(1) gives the
\* end back.
Garbage(n) ==
    \E text, separators \in 0 .. Size :
        /\ Run(offset_ + 1, Bytes \ {MS}, text)
        /\ Run(offset_ + 1 + text, {MS}, separators)
        /\ n = 1 + text + separators

MatchesUnknown(n) ==
    \/ /\ start = "INITIAL"
       /\ \A h \in Headers : ~At(h, offset_)
       /\ IF ByteAt(offset_) = MS THEN n = 1 ELSE Garbage(n)
    \/ /\ start = "yypayload"
       /\ ByteAt(offset_) # MS
       /\ \A k \in 1 .. Size : ~MatchesPayload(k)
       /\ Garbage(n)

-----------------------------------------------------------------------------
(***************************************************************************)
(* The parser                                                              *)
(***************************************************************************)

Back == messages_[Len(messages_)]
PopBack == SubSeq(messages_, 1, Len(messages_) - 1)

Error(offset, size, tag) == [offset |-> offset, size |-> size, tag |-> tag]

handle_header(h) ==
    /\ start = "INITIAL"
    /\ MatchesHeader(h)
    /\ start' = "yypayload"
    /\ tokenizing_header_' = FALSE
    /\ offset_' = offset_ + Len(h)
    /\ messages_' = Append(messages_,
         [offset |-> offset_, size |-> Len(h), header |-> h, arguments |-> <<>>])
    /\ UNCHANGED errors_

handle_payload(n) ==
    /\ start = "yypayload"
    /\ MatchesPayload(n)
    /\ offset_' = offset_ + n + 1
    /\ messages_' = [messages_ EXCEPT
         ![Len(messages_)].arguments = Append(@, [offset |-> offset_ + 1, size |-> n]),
         ![Len(messages_)].size = @ + n + 1]
    /\ UNCHANGED <<start, tokenizing_header_, errors_>>

EndMessage ==
    /\ start = "yypayload"
    /\ ByteAt(offset_) = MS
    /\ start' = "INITIAL"
    /\ tokenizing_header_' = TRUE
    /\ offset_' = offset_ + 1

AnyNumber == messages_' = [messages_ EXCEPT ![Len(messages_)].size = @ + 1]

handle_message_separator_unchecked ==   \* any number of arguments will do
    EndMessage /\ AnyNumber /\ UNCHANGED errors_

handle_message_separator ==
    /\ EndMessage
    /\ IF Len(Back.arguments) \in NumArguments[Back.header][1] .. NumArguments[Back.header][2]
       THEN AnyNumber /\ UNCHANGED errors_
       ELSE /\ messages_' = PopBack
            /\ errors_' = Append(errors_,
                 Error(Back.offset, Back.size + 1, "INVALID_NUMBER_OF_ARGUMENTS"))

\* handle_error() of TOKEN_UNKNOWN: in a message, the message goes with it.  The
\* location of that error and the next tokenizing_header_ are parameters.
HandleUnknown(n, offset, size, header) ==
    /\ MatchesUnknown(n)
    /\ start' = "INITIAL"
    /\ tokenizing_header_' = header
    /\ offset_' = offset_ + n
    /\ IF tokenizing_header_
       THEN /\ errors_' = Append(errors_, Error(offset_, n, "UNEXPECTED_TOKEN"))
            /\ UNCHANGED messages_
       ELSE /\ errors_' = Append(errors_, Error(offset, size, "CORRUPT_PAYLOAD"))
            /\ messages_' = PopBack

handle_error_here(n) ==     \* the beginning of the message is in no error
    HandleUnknown(n, offset_, n, TRUE)

handle_error_unreset(n) ==  \* the parser goes on with the payload
    HandleUnknown(n, Back.offset, Back.size + n, tokenizing_header_)

handle_error(n) == HandleUnknown(n, Back.offset, Back.size + n, TRUE)

Token ==
    /\ ~returned
    /\ offset_ < Size
    /\ \/ \E h \in Headers : handle_header(h)
       \/ \E n \in 1 .. Size : handle_payload(n)
       \/ handle_message_separator
       \/ \E n \in 1 .. Size + 1 : handle_error(n)
    /\ UNCHANGED <<buffer_, returned>>

\* TOKEN_EOF has length 1, and so has its error, which begins after the last byte.
Eof ==
    /\ ~returned
    /\ offset_ = Size
    /\ returned' = TRUE
    /\ offset_' = offset_ + 1
    /\ IF tokenizing_header_
       THEN UNCHANGED <<messages_, errors_>>
       ELSE /\ messages_' = PopBack
            /\ errors_' = Append(errors_, Error(offset_, 1, "UNEXPECTED_EOF"))
    /\ tokenizing_header_' = TRUE
    /\ UNCHANGED <<buffer_, start>>

Returned == returned /\ UNCHANGED vars

Next == Token \/ Eof \/ Returned

Spec == Init /\ [][Next]_vars

-----------------------------------------------------------------------------
(***************************************************************************)
(* Properties                                                              *)
(***************************************************************************)

\* What handle_token() and its helpers assert: scanner and parser agree on
\* where they are, a message that is being read ends where the scanner is, and
\* no more was found than there are bytes.
AssertionsHold ==
    /\ ~returned => (tokenizing_header_ <=> start = "INITIAL")
    /\ ~tokenizing_header_ => messages_ # <<>> /\ Back.offset + Back.size = offset_
    /\ Len(messages_) <= offset_ /\ Len(errors_) <= offset_

Covers(part, o) == part.offset <= o /\ o < part.offset + part.size

Unfinished == errors_ # <<>> /\ errors_[Len(errors_)].tag = "UNEXPECTED_EOF"

\* Every byte read belongs to one message or to one error, and to one only; but
\* the bytes of a message cut off by the end of the frame belong to none, and
\* they are the last ones.  (the offsets of handle_error and its callers)
EveryByteOnce ==
    \A o \in 0 .. Size - 1 : o < offset_ =>
        LET messages == {i \in DOMAIN messages_ : Covers(messages_[i], o)}
            errors == {i \in DOMAIN errors_ : Covers(errors_[i], o)}
        IN  \/ Cardinality(messages) + Cardinality(errors) = 1
            \/ /\ Unfinished
               /\ \A i \in DOMAIN messages_ : messages_[i].offset + messages_[i].size <= o
               /\ \A i \in 1 .. Len(errors_) - 1 : errors_[i].offset + errors_[i].size <= o

\* From s up to the separator at e, a reader of the protocol sees a message:
\* a header, then parts that are not empty, as many as it may have.
IsMessage(s, e) ==
    \E h \in Headers :
        LET rest == s + Len(h) .. e - 1
            parts == {o \in rest : ByteAt(o) = MPS}
        IN  /\ At(h, s)
            /\ s + Len(h) <= e
            /\ \A o \in s .. e - 1 : ByteAt(o) # MS
            /\ rest # {} => s + Len(h) \in parts
            /\ \A o \in parts : o + 1 \in rest \ parts
            /\ Cardinality(parts) \in NumArguments[h][1] .. NumArguments[h][2]

\* The messages found are messages, with the arguments they have in the frame,
\* in the order of the frame.  (handle_payload, handle_message_separator)
MessagesAreGenuine ==
    \A i \in DOMAIN messages_ :
        LET m == messages_[i]
            end == m.offset + m.size - 1
        IN  \/ i = Len(messages_) /\ ~tokenizing_header_
            \/ /\ ByteAt(end) = MS /\ IsMessage(m.offset, end)
               /\ {a.offset - 1 : a \in {m.arguments[k] : k \in DOMAIN m.arguments}}
                    = {o \in m.offset + Len(m.header) .. end : ByteAt(o) = MPS}
               /\ \A k \in DOMAIN m.arguments :
                    Run(m.arguments[k].offset, Bytes \ {MPS, MS}, m.arguments[k].size)
               /\ i > 1 => messages_[i - 1].offset + messages_[i - 1].size <= m.offset

\* No message is missed, whatever stands before it: not after an error, not
\* after a message with the wrong number of arguments, not after separators
\* without a message.  (lexer.l:43, handle_error)
NoMessageMissed ==
    returned =>
        \A s, e \in 0 .. Size - 1 :
            /\ s = 0 \/ ByteAt(s - 1) = MS
            /\ ByteAt(e) = MS
            /\ IsMessage(s, e)
            => \E i \in DOMAIN messages_ :
                 messages_[i].offset = s /\ messages_[i].size = e - s + 1
=============================================================================
