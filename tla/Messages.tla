------------------------------ MODULE Messages ------------------------------
(***************************************************************************)
(* Messages and their two representations: the table of headers            *)
(* (message.cpp), the scanner's own (lexer.l, parser.cpp), the builder of  *)
(* the messages that are sent (message_builder.cpp), the view of those     *)
(* that are received (message_proxy.cpp), and the ones that the client     *)
(* and random.cpp build.                                                   *)
(*                                                                         *)
(* A byte is a string.  The texts of headers are cut into letters only     *)
(* where one header is the beginning of another.                           *)
(***************************************************************************)
EXTENDS SequencesExt

CONSTANTS
    SIZE_MAX,       \* the largest std::size_t
    MaxArguments    \* HARD_NUM_ARGS_LIMIT of random.cpp

ASSUME LimitsAssumption == SIZE_MAX \in Nat /\ MaxArguments \in Nat

ASCII_UNIT_SEPARATOR == "1f"
ASCII_RECORD_SEPARATOR == "1e"

Header(topic, action) == [topic |-> topic, action |-> action, is_ack |-> FALSE]
Ack(topic, action) == [topic |-> topic, action |-> action, is_ack |-> TRUE]

-----------------------------------------------------------------------------
\* The three parallel arrays of message.cpp.

HEADERS == <<
    Ack("AUTH", "REQUEST"),
    Header("AUTH", "ERROR_INVALID_AUTH_DATA"),
    Header("AUTH", "ERROR_INVALID_AUTH_MSG"),
    Header("AUTH", "ERROR_TOO_MANY_AUTH_ATTEMPTS"),
    Header("AUTH", "REQUEST"),

    Ack("CONNECTION", "CHALLENGE_RESPONSE"),
    Header("CONNECTION", "CHALLENGE"),
    Header("CONNECTION", "CHALLENGE_RESPONSE"),
    Header("CONNECTION", "PING"),
    Header("CONNECTION", "PONG"),
    Header("CONNECTION", "REDIRECT"),
    Header("CONNECTION", "REJECT"),

    Ack("EVENT", "LISTEN"),
    Ack("EVENT", "SUBSCRIBE"),
    Ack("EVENT", "UNSUBSCRIBE"),
    Header("EVENT", "EVENT"),
    Header("EVENT", "LISTEN"),
    Header("EVENT", "LISTEN_ACCEPT"),
    Header("EVENT", "LISTEN_REJECT"),
    Header("EVENT", "SUBSCRIBE"),
    Header("EVENT", "SUBSCRIPTION_FOR_PATTERN_FOUND"),
    Header("EVENT", "SUBSCRIPTION_FOR_PATTERN_REMOVED"),
    Header("EVENT", "UNSUBSCRIBE"),

    Ack("PRESENCE", "SUBSCRIBE"),
    Ack("PRESENCE", "UNSUBSCRIBE"),
    Header("PRESENCE", "PRESENCE_JOIN"),
    Header("PRESENCE", "PRESENCE_LEAVE"),
    Header("PRESENCE", "QUERY"),
    Header("PRESENCE", "SUBSCRIBE"),
    Header("PRESENCE", "UNSUBSCRIBE") >>

HEADER_TO_STRING == <<
    <<"A", "|", "A">>,
    <<"A", "|", "E", "|", "INVALID_AUTH_DATA">>,
    <<"A", "|", "E", "|", "INVALID_AUTH_MSG">>,
    <<"A", "|", "E", "|", "TOO_MANY_AUTH_ATTEMPTS">>,
    <<"A", "|", "REQ">>,

    <<"C", "|", "A">>, <<"C", "|", "CH">>, <<"C", "|", "CH", "R">>, <<"C", "|", "PI">>,
    <<"C", "|", "PO">>, <<"C", "|", "RED">>, <<"C", "|", "REJ">>,

    <<"E", "|", "A", "|", "L">>, <<"E", "|", "A", "|", "S">>, <<"E", "|", "A", "|", "US">>,
    <<"E", "|", "EVT">>, <<"E", "|", "L">>, <<"E", "|", "L", "A">>, <<"E", "|", "L", "R">>,
    <<"E", "|", "S">>, <<"E", "|", "S", "P">>, <<"E", "|", "S", "R">>, <<"E", "|", "US">>,

    <<"U", "|", "A", "|", "S">>, <<"U", "|", "A", "|", "US">>, <<"U", "|", "PNJ">>,
    <<"U", "|", "PNL">>, <<"U", "|", "Q">>, <<"U", "|", "S", "|", "S">>,
    <<"U", "|", "US", "|", "US">> >>

HEADER_NUM_PAYLOAD == <<
    <<0, 1>>, <<1, 1>>, <<1, 1>>, <<1, 1>>, <<1, 1>>,

    <<0, 0>>, <<0, 0>>, <<1, 1>>, <<0, 0>>, <<0, 0>>, <<1, 1>>, <<0, 1>>,

    <<1, 1>>, <<1, 1>>, <<1, 1>>, <<2, 2>>, <<1, 1>>, <<2, 2>>, <<2, 2>>, <<1, 1>>,
    <<2, 2>>, <<2, 2>>, <<1, 1>>,

    <<1, 1>>, <<1, 1>>, <<1, 1>>, <<1, 1>>, <<0, SIZE_MAX>>, <<0, 0>>, <<0, 0>> >>

Row(header) == CHOOSE i \in DOMAIN HEADERS : HEADERS[i] = header

\* Neither is for a header that is not in the table.
to_string(header) == HEADER_TO_STRING[Row(header)]
num_arguments(header) == HEADER_NUM_PAYLOAD[Row(header)]

from_human_readable(text) ==
    [i \in DOMAIN text |-> CASE text[i] = "|" -> ASCII_UNIT_SEPARATOR
                             [] text[i] = "+" -> ASCII_RECORD_SEPARATOR
                             [] OTHER -> text[i]]

-----------------------------------------------------------------------------
\* What the scanner looks for, and the header it stands for in handle_header().

Rule(text, header) == [text |-> from_human_readable(text), header |-> header]

AuthRules == {
    Rule(<<"A", "|", "A">>, Ack("AUTH", "REQUEST")),
    Rule(<<"A", "|", "E", "|", "INVALID_AUTH_DATA">>, Header("AUTH", "ERROR_INVALID_AUTH_DATA")),
    Rule(<<"A", "|", "E", "|", "INVALID_AUTH_MSG">>, Header("AUTH", "ERROR_INVALID_AUTH_MSG")),
    Rule(<<"A", "|", "E", "|", "TOO_MANY_AUTH_ATTEMPTS">>,
         Header("AUTH", "ERROR_TOO_MANY_AUTH_ATTEMPTS")),
    Rule(<<"A", "|", "REQ">>, Header("AUTH", "REQUEST")) }

ConnectionRules == {
    Rule(<<"C", "|", "A">>, Ack("CONNECTION", "CHALLENGE_RESPONSE")),
    Rule(<<"C", "|", "CH">>, Header("CONNECTION", "CHALLENGE")),
    Rule(<<"C", "|", "CH", "R">>, Header("CONNECTION", "CHALLENGE_RESPONSE")),
    Rule(<<"C", "|", "PI">>, Header("CONNECTION", "PING")),
    Rule(<<"C", "|", "PO">>, Header("CONNECTION", "PONG")),
    Rule(<<"C", "|", "RED">>, Header("CONNECTION", "REDIRECT")),
    Rule(<<"C", "|", "REJ">>, Header("CONNECTION", "REJECT")) }

EventRules == {
    Rule(<<"E", "|", "A", "|", "L">>, Ack("EVENT", "LISTEN")),
    Rule(<<"E", "|", "A", "|", "S">>, Ack("EVENT", "SUBSCRIBE")),
    Rule(<<"E", "|", "A", "|", "US">>, Ack("EVENT", "UNSUBSCRIBE")),
    Rule(<<"E", "|", "EVT">>, Header("EVENT", "EVENT")),
    Rule(<<"E", "|", "L">>, Header("EVENT", "LISTEN")),
    Rule(<<"E", "|", "L", "A">>, Header("EVENT", "LISTEN_ACCEPT")),
    Rule(<<"E", "|", "L", "R">>, Header("EVENT", "LISTEN_REJECT")),
    Rule(<<"E", "|", "S">>, Header("EVENT", "SUBSCRIBE")),
    Rule(<<"E", "|", "S", "P">>, Header("EVENT", "SUBSCRIPTION_FOR_PATTERN_FOUND")),
    Rule(<<"E", "|", "S", "R">>, Header("EVENT", "SUBSCRIPTION_FOR_PATTERN_REMOVED")),
    Rule(<<"E", "|", "US">>, Header("EVENT", "UNSUBSCRIBE")) }

PresenceRules == {
    Rule(<<"U", "|", "A", "|", "S">>, Ack("PRESENCE", "SUBSCRIBE")),
    Rule(<<"U", "|", "A", "|", "US">>, Ack("PRESENCE", "UNSUBSCRIBE")),
    Rule(<<"U", "|", "PNJ">>, Header("PRESENCE", "PRESENCE_JOIN")),
    Rule(<<"U", "|", "PNL">>, Header("PRESENCE", "PRESENCE_LEAVE")),
    Rule(<<"U", "|", "Q">>, Header("PRESENCE", "QUERY")),
    Rule(<<"U", "|", "S", "|", "S">>, Header("PRESENCE", "SUBSCRIBE")),
    Rule(<<"U", "|", "US", "|", "US">>, Header("PRESENCE", "UNSUBSCRIBE")) }

Rules == AuthRules \cup ConnectionRules \cup EventRules \cup PresenceRules

\* The header that handle_header() gives to a message with this text.
HeaderOf(text) == (CHOOSE rule \in Rules : rule.text = text).header

-----------------------------------------------------------------------------
\* MessageBuilder

Build(header, arguments) == [header |-> header, arguments |-> arguments]

\* add_argument() throws otherwise.
CanAdd(argument) == \A i \in DOMAIN argument : argument[i] # ASCII_UNIT_SEPARATOR

\* size_impl_(): one separator for every argument and one for the message.
size_impl_(m) ==
    FoldLeft(LAMBDA k, argument : k + Len(argument), 0, m.arguments)
    + Len(to_string(m.header)) + Len(m.arguments) + 1

to_binary_impl_(m) ==
    from_human_readable(to_string(m.header))
    \o FlattenSeq([i \in DOMAIN m.arguments |-> <<ASCII_UNIT_SEPARATOR>> \o m.arguments[i]])
    \o <<ASCII_RECORD_SEPARATOR>>

-----------------------------------------------------------------------------
\* MessageProxy, a message m in the buffer base

get_impl_off_by_one(base, m, i) ==      \* with the separator before it
    SubSeq(base, m.arguments[i].offset, m.arguments[i].offset + m.arguments[i].size - 1)

\* m[i - 1]
get_impl_(base, m, i) ==
    SubSeq(base, m.arguments[i].offset + 1, m.arguments[i].offset + m.arguments[i].size)

\* to_binary_impl_() of MessageProxy: offset_ is not in it.
proxy_to_binary(base, m) == SubSeq(base, 1, m.size)

-----------------------------------------------------------------------------
\* The messages that the client builds, with the arguments it is given.

ConnectionBuilds(uri, auth) == {
    Build(Header("CONNECTION", "CHALLENGE_RESPONSE"), <<uri>>),
    Build(Header("AUTH", "REQUEST"), <<auth>>),
    Build(Header("CONNECTION", "PONG"), <<>>) }

EventBuilds(name, pattern, data) == {
    Build(Header("EVENT", "EVENT"), <<name, data>>),
    Build(Header("EVENT", "SUBSCRIBE"), <<name>>),
    Build(Header("EVENT", "UNSUBSCRIBE"), <<name>>),
    Build(Header("EVENT", "LISTEN"), <<pattern>>),
    Build(Header("EVENT", "UNLISTEN"), <<pattern>>),
    Build(Header("EVENT", "LISTEN_ACCEPT"), <<pattern, name>>),
    Build(Header("EVENT", "LISTEN_REJECT"), <<pattern, name>>) }

PresenceBuilds == {
    Build(Header("PRESENCE", "SUBSCRIBE"), <<>>),
    Build(Header("PRESENCE", "UNSUBSCRIBE"), <<>>),
    Build(Header("PRESENCE", "QUERY"), <<<<"Q">>>>) }

\* make_message(): any header, as many of these arguments as it may have.
make_message(arguments) ==
    UNION {{Build(header, list) :
              list \in UNION {[1 .. n -> arguments] :
                n \in num_arguments(header)[1] .. num_arguments(header)[2]
                      \cap 0 .. MaxArguments}} : header \in ToSet(HEADERS)}
=============================================================================
