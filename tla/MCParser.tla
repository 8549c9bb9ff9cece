------------------------------ MODULE MCParser ------------------------------
(***************************************************************************)
(* Module Parser with the headers of module Messages, reading frames of    *)
(* messages that were built and frames of a few pieces of any kind.  Some  *)
(* of these headers begin another one, and they have two or three parts.   *)
(***************************************************************************)
EXTENDS Parser, Messages

CONSTANTS
    Arguments,      \* the arguments of the messages that are built
    MaxPieces,      \* bound: pieces of a frame
    MaxBuilt        \* bound: messages built for a frame

\* make_argument() of random.cpp: no separator, and one byte at least.
ASSUME ArgumentsAssumption ==
    Arguments \subseteq Seq(Bytes \ {MPS, MS}) /\ <<>> \notin Arguments

ASSUME BoundsAssumption == MaxPieces \in Nat /\ MaxBuilt \in Nat

VARIABLE built      \* the messages that were built for the frame, if any

ScannerHeaders == {rule.text : rule \in Rules}

MCBytes ==
    UNION {ToSet(text) : text \in ScannerHeaders} \cup {ASCII_RECORD_SEPARATOR}

\* handle_message_separator() asks Message::num_arguments().
HeaderArguments == [text \in ScannerHeaders |-> num_arguments(HeaderOf(text))]

\* Pieces of a frame: a message, headers, the beginning of an argument, separators, garbage.
Pieces == {from_human_readable(text) : text \in {
    <<"A", "|", "A", "+">>, <<"E", "|", "L">>, <<"E", "|", "L", "A">>,
    <<"E", "|", "A", "|", "L">>, <<"|", "A">>, <<"|">>, <<"+">>, <<"L">>}}

PieceFrames ==
    {FlattenSeq(p) : p \in UNION {[1 .. n -> Pieces] : n \in 0 .. MaxPieces}}

\* Arguments that continue a header or are the second part of one.
MCArguments == {<<"A">>, <<"S", "P">>}

Built == UNION {[1 .. n -> make_message(Arguments)] : n \in 1 .. MaxBuilt}

Frame(list) == FlattenSeq([i \in DOMAIN list |-> to_binary_impl_(list[i])])

MCInputs == PieceFrames \cup {Frame(list) : list \in Built}

\* The parser is given the bytes and the tables of module Messages.
ASSUME TablesAssumption ==
    /\ MPS = ASCII_UNIT_SEPARATOR /\ MS = ASCII_RECORD_SEPARATOR
    /\ Headers = ScannerHeaders /\ NumArguments = HeaderArguments
    /\ Inputs = MCInputs

MCInit ==
    /\ \/ buffer_ \in PieceFrames /\ built = <<>>
       \/ built \in Built /\ buffer_ = Frame(built)
    /\ Started

MCNext == Next /\ UNCHANGED built

MCSpec == MCInit /\ [][MCNext]_<<vars, built>>

-----------------------------------------------------------------------------
(***************************************************************************)
(* Properties                                                              *)
(***************************************************************************)

\* What is left of message m, of the frame, is the message that was built.
IsRead(m, message) ==
    /\ HeaderOf(m.header) = message.header
    /\ m.size = size_impl_(message)
    /\ [i \in DOMAIN m.arguments |-> get_impl_(buffer_, m, i)] = message.arguments

\* Messages that were built are read back, all of them, with their headers and
\* arguments and without an error: the tables of message.cpp, lexer.l and
\* parser.cpp agree, and so do the sizes and offsets of the two representations.
\* The first one can also be sent on as it is.  (message_builder.cpp,
\* message_proxy.cpp)
BuiltIsReadBack ==
    returned /\ built # <<>> =>
        /\ errors_ = <<>>
        /\ Len(messages_) = Len(built)
        /\ \A i \in DOMAIN built : IsRead(messages_[i], built[i])
        /\ proxy_to_binary(buffer_, messages_[1]) = to_binary_impl_(built[1])

-----------------------------------------------------------------------------
\* The messages that the client builds, one at a time.
ClientMessages ==
    ConnectionBuilds(<<"A">>, <<"A">>) \cup EventBuilds(<<"A">>, <<"A">>, <<"A">>)
    \cup PresenceBuilds

Known(message) == message.header \in ToSet(HEADERS)

ClientInit ==
    /\ built \in {<<message>> : message \in ClientMessages}
    /\ buffer_ = IF Known(built[1]) THEN Frame(built) ELSE <<>>
    /\ Started

ClientSpec == ClientInit /\ [][MCNext]_<<vars, built>>

\* The client builds messages whose headers are in the table and with as many
\* arguments as the table says: "The input must form a valid message header."
\* (message.hpp:95)
HeadersAreValid ==
    \A i \in DOMAIN built :
        /\ Known(built[i])
        /\ Len(built[i].arguments) \in num_arguments(built[i].header)[1]
                                       .. num_arguments(built[i].header)[2]
=============================================================================
