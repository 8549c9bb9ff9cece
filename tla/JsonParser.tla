----------------------------- MODULE JsonParser -----------------------------
(***************************************************************************)
(* The parser of json.hpp, called without a callback, as the client does.  *)
(*                                                                         *)
(* parse_internal() is recursive: stack holds the containers it is in, and *)
(* pc is what it does next, with last_token read already:                  *)
(*    value           parse_internal() itself                              *)
(*    first_member    in an object, after its brace                        *)
(*    key             in an object, after a comma                          *)
(*    after_member    in an object, after a value                          *)
(*    first_element   in an array, after its bracket                       *)
(*    after_element   in an array, after a value                           *)
(*    after_value     back in parse()                                      *)
(* parse() ends in "returned", with result, or in "thrown".                *)
(***************************************************************************)
EXTENDS JsonLexer

VARIABLES
    text,           \* m_content
    last_token,     \* last_token
    start,          \* m_start of it ...
    cursor,         \* ... and m_cursor
    stack,          \* [value, key]: a container and the key it is at
    pc,             \* see above
    result          \* of parse(), or of what called it

lexVars == <<text, last_token, start, cursor>>
parserVars == <<lexVars, stack, pc, result>>

EmptyObject == Value("object", <<>>)
EmptyArray == Value("array", <<>>)

Top == Last(stack)

-----------------------------------------------------------------------------
TokenText == SubSeq(text, start, cursor - 1)

\* The token that is read becomes the last one.
Take(token) ==
    /\ last_token' = token.token
    /\ start' = token.start
    /\ cursor' = token.cursor

NextToken == scan(text, cursor)

get_token == Take(NextToken) /\ UNCHANGED text

\* std::invalid_argument
Throw ==
    /\ pc' = "thrown"
    /\ stack' = <<>>
    /\ UNCHANGED <<lexVars, result>>

\* Container c with v at its end or at key; the last of equal keys counts.
AddFirst(c, key, v) ==      \* the first of equal keys counts
    IF c[1] = "array"
    THEN Value("array", Append(c[2], v))
    ELSE Value("object", c[2] @@ (key :> v))

Add(c, key, v) ==
    IF c[1] = "array"
    THEN Value("array", Append(c[2], v))
    ELSE Value("object", (key :> v) @@ c[2])

\* parse_internal() returns v to the container around it, or to parse().
Return(v, outer) ==
    IF outer = <<>>
    THEN /\ result' = v
         /\ stack' = <<>>
         /\ pc' = "after_value"
    ELSE LET c == Last(outer)
         IN  /\ stack' = [outer EXCEPT ![Len(outer)].value = Add(c.value, c.key, v)]
             /\ pc' = IF c.value[1] = "array" THEN "after_element" ELSE "after_member"
             /\ UNCHANGED result

\* parse(t): a text of no bytes has no token but the NUL.
Parse(t) ==
    /\ text' = t
    /\ Take(scan(t, 1))
    /\ stack' = <<>>
    /\ pc' = "value"
    /\ UNCHANGED result

ParserInit(t) ==
    /\ text = t
    /\ last_token = "end_of_input"
    /\ start = 1 /\ cursor = 1
    /\ stack = <<>>
    /\ result = Null

-----------------------------------------------------------------------------
\* parse_internal(): containers.

Push(c, next) ==
    /\ get_token
    /\ stack' = Append(stack, [value |-> c, key |-> <<>>])
    /\ pc' = next
    /\ UNCHANGED result

ParseObject ==
    /\ pc = "value" /\ last_token = "begin_object"
    /\ Push(EmptyObject, "first_member")

ParseArray ==
    /\ pc = "value" /\ last_token = "begin_array"
    /\ Push(EmptyArray, "first_element")

\* The closing token of the container on top.
Closing == IF Top.value[1] = "object" THEN "end_object" ELSE "end_array"

CloseContainer ==
    /\ pc \in {"first_member", "after_member", "first_element", "after_element"}
    /\ last_token = Closing
    /\ get_token
    /\ Return(Top.value, Front(stack))

\* The key, the colon and the first token of the value.
ParseKey ==
    LET key == get_string(TokenText)
        colon == NextToken
    IN  /\ pc \in {"first_member", "key"}
        /\ pc = "first_member" => last_token # "end_object"
        /\ IF last_token = "value_string" /\ key.ok /\ colon.token = "name_separator"
           THEN /\ stack' = [stack EXCEPT ![Len(stack)].key = key.bytes]
                /\ Take(scan(text, colon.cursor))
                /\ pc' = "value"
                /\ UNCHANGED <<text, result>>
           ELSE Throw

\* The first element begins with a token that is read already.
ParseElement ==
    /\ pc = "first_element"
    /\ last_token # "end_array"
    /\ IF last_token = "value_separator"
       THEN Throw
       ELSE /\ pc' = "value"
            /\ UNCHANGED <<lexVars, stack, result>>

\* A comma, or neither a comma nor the closing token.
ParseComma ==
    /\ pc \in {"after_member", "after_element"}
    /\ last_token # Closing
    /\ IF last_token = "value_separator"
       THEN /\ get_token
            /\ pc' = IF pc = "after_member" THEN "key" ELSE "value"
            /\ UNCHANGED <<stack, result>>
       ELSE Throw

-----------------------------------------------------------------------------
\* parse_internal(): the rest.

Literals ==
    "literal_null" :> Null
    @@ "literal_true" :> Value("boolean", TRUE)
    @@ "literal_false" :> Value("boolean", FALSE)

ParseLiteral ==
    /\ pc = "value" /\ last_token \in DOMAIN Literals
    /\ get_token
    /\ Return(Literals[last_token], stack)

ParseString ==
    LET s == get_string(TokenText)
    IN  /\ pc = "value" /\ last_token = "value_string"
        /\ IF s.ok THEN get_token /\ Return(Value("string", s.bytes), stack) ELSE Throw

ParseNumber ==
    /\ pc = "value" /\ last_token \in {"value_unsigned", "value_integer", "value_float"}
    /\ get_token
    /\ Return(get_number(last_token, TokenText), stack)

ParseUnexpected ==
    /\ pc = "value"
    /\ last_token \in {"end_array", "end_object", "name_separator", "value_separator",
                       "parse_error", "end_of_input"}
    /\ Throw

EndAnywhere ==              \* does not expect the end of the input
    /\ pc = "after_value"
    /\ pc' = "returned"
    /\ UNCHANGED <<lexVars, stack, result>>

\* parse() expects the end of the input.
End ==
    /\ pc = "after_value"
    /\ IF last_token = "end_of_input"
       THEN /\ pc' = "returned"
            /\ UNCHANGED <<lexVars, stack, result>>
       ELSE Throw

ParserNext ==
    \/ ParseObject \/ ParseArray \/ CloseContainer \/ ParseKey \/ ParseElement
    \/ ParseComma \/ ParseLiteral \/ ParseString \/ ParseNumber \/ ParseUnexpected
    \/ End
=============================================================================
