--------------------------- MODULE TypeSerializer ---------------------------
(***************************************************************************)
(* TypeSerializer (type-serializer.hpp): the payloads of events and of the *)
(* login, a prefix that says the type and a text that says the rest.  The  *)
(* public interface (deepstream.hpp) makes a payload of what is emitted    *)
(* and a value of what arrives.                                            *)
(***************************************************************************)
EXTENDS JsonParser, JsonWriter

VARIABLES
    buffer,         \* the payload that prefixed_to_json() is called with
    errors          \* the calls of on_error() it has made

serializerVars == <<parserVars, buffer, errors>>

\* PayloadType
PayloadType ==
    [STRING |-> \h53, OBJECT |-> \h4F, NUMBER |-> \h4E, NULL_ |-> \h4C,
     TRUE_ |-> \h54, FALSE_ |-> \h46, UNDEFINED |-> \h55]

get_type(v) ==
    CASE Type(v) \in {"object", "array"} -> "OBJECT"
      [] Type(v) = "string" -> "STRING"
      [] Type(v) \in {"number_integer", "number_unsigned", "number_float"} -> "NUMBER"
      [] Type(v) = "boolean" -> IF Data(v) THEN "TRUE_" ELSE "FALSE_"
      [] Type(v) = "null" -> "NULL_"

to_prefixed_buffer(v) ==
    <<PayloadType[get_type(v)]>>
    \o CASE get_type(v) \in {"OBJECT", "NUMBER"} -> dump(v)
         [] get_type(v) = "STRING" -> Data(v)
         [] OTHER -> <<>>

\* The payload of an emit() and the auth data of a login().
EmitPayload(v) == to_prefixed_buffer(v)
AuthPayload(auth) == dump(auth)

-----------------------------------------------------------------------------
\* prefixed_to_json()

HasPrefix(types) == buffer # <<>> /\ \E type \in types : buffer[1] = PayloadType[type]

Answer(v) ==
    /\ pc = "called"
    /\ pc' = "returned"
    /\ result' = v
    /\ UNCHANGED <<lexVars, stack, buffer>>

ReadString ==
    /\ HasPrefix({"STRING"})
    /\ Answer(Value("string", Tail(buffer)))
    /\ UNCHANGED errors

\* What follows the prefix does not matter.
ReadNull == HasPrefix({"NULL_", "UNDEFINED"}) /\ Answer(Null) /\ UNCHANGED errors

ReadBoolean ==
    /\ HasPrefix({"TRUE_", "FALSE_"})
    /\ Answer(Value("boolean", HasPrefix({"TRUE_"})))
    /\ UNCHANGED errors

ReadJson ==
    /\ pc = "called"
    /\ HasPrefix({"OBJECT", "NUMBER"})
    /\ Parse(Tail(buffer))
    /\ UNCHANGED <<buffer, errors>>

ReadUnknown ==
    /\ ~HasPrefix(DOMAIN PayloadType)
    /\ Answer(Null)
    /\ errors' = errors + 1

\* to_json() catches std::invalid_argument.
Catch ==
    /\ pc = "thrown"
    /\ pc' = "returned"
    /\ result' = Null
    /\ errors' = errors + 1
    /\ UNCHANGED <<lexVars, stack, buffer>>

SerializerInit ==
    /\ ParserInit(<<>>)
    /\ pc = "called"
    /\ errors = 0

SerializerNext ==
    \/ ReadString \/ ReadNull \/ ReadBoolean \/ ReadJson \/ ReadUnknown \/ Catch
    \/ ParserNext /\ UNCHANGED <<buffer, errors>>
=============================================================================
