------------------------------ MODULE MCPatch -------------------------------
(***************************************************************************)
(* Values with patches, and what the patches should make of them: those of *)
(* diff(), and single operations at each place of a value.                 *)
(***************************************************************************)
EXTENDS JsonPatch

PatchKeys == {<<>>, <<Zero>>, <<Tilde, One>>, <<Slash, Tilde>>}

One_ == Value("number_unsigned", 1)

PatchNumbers ==
    {One_, Value("number_integer", 1), Value("number_integer", -1),
     Value("number_unsigned", MaxUnsigned), Float(Decimal(FALSE, 1, 0)), Float(Decimal(TRUE, 0, 0)),
     Float(Decimal(FALSE, 0, 0))}

PatchLeaves == {Null, One_, Value("string", <<Tilde>>)}

PatchArrays(items, most) == {Value("array", a) : a \in UNION {[1 .. n -> items] : n \in 0 .. most}}

PatchObjects(keys, items, most) ==
    {Value("object", o) : o \in UNION {[some -> items] :
        some \in {some \in SUBSET keys : Cardinality(some) <= most}}}

Inner ==
    PatchArrays({One_}, 2) \cup PatchObjects({<<>>, <<Tilde, One>>}, {One_}, 2) \cup {Null}

PatchValues ==
    PatchNumbers \cup PatchArrays(PatchLeaves, 3) \cup PatchObjects(PatchKeys, PatchLeaves, 2)
    \cup PatchArrays(Inner, 2) \cup PatchObjects({<<Slash, Tilde>>}, Inner, 1)

-----------------------------------------------------------------------------
\* The places of a value, each as its way from the root, by positions and keys;
\* what is there, and the value with something else there.
RECURSIVE Ways(_)
Ways(v) ==
    {<<>>} \cup IF Type(v) \in {"array", "object"}
               THEN UNION {{<<i>> \o way : way \in Ways(Data(v)[i])} : i \in DOMAIN Data(v)}
               ELSE {}

RECURSIVE At(_, _)
At(v, way) == IF way = <<>> THEN v ELSE At(Data(v)[Head(way)], Tail(way))

RECURSIVE With(_, _, _)
With(v, way, new) ==
    IF way = <<>>
    THEN new
    ELSE Value(Type(v), [Data(v) EXCEPT ![Head(way)] = With(@, Tail(way), new)])

RECURSIVE TokensOf(_, _)
TokensOf(v, way) ==
    IF way = <<>>
    THEN <<>>
    ELSE <<IF Type(v) = "array" THEN Digits(Head(way) - 1) ELSE Head(way)>>
         \o TokensOf(Data(v)[Head(way)], Tail(way))

Pointer(v, way) == Value("string", to_string(TokensOf(v, way)))

Case(v, operations, expected) == [value |-> v, operations |-> operations, expected |-> expected]

\* Operations at a place that leave the value as it is, or put a string there.
AtPlace(v, way) ==
    LET path == Pointer(v, way)
        there == At(v, way)
        new == Value("string", <<Slash>>)
        Take == [op |-> "remove", path |-> path]
        Put(x) == [op |-> "add", path |-> path, value |-> x]
    IN  {Case(v, <<[op |-> "test", path |-> path, value |-> there]>>, Done(v)),
         Case(v, <<[op |-> "test", path |-> path, value |-> new]>>, Failed),
         Case(v, <<[op |-> "replace", path |-> path, value |-> new]>>, Done(With(v, way, new))),
         Case(v, <<[op |-> "copy", path |-> path, from |-> path]>>, Done(v)),
         Case(v, <<[op |-> "move", path |-> path, from |-> path]>>,
              IF way = <<>> THEN Failed ELSE Done(v)),
         Case(v, <<Take, Put(there)>>, IF way = <<>> THEN Failed ELSE Done(v)),
         Case(v, <<Put(new), Take>>,
              CASE way = <<>> -> Failed
                [] way # <<>> /\ Type(At(v, Front(way))) = "array" -> Done(v)
                [] OTHER -> operation_remove(v, TokensOf(v, way)))}

\* Patches that are malformed, or point to nothing.
Malformed(v) ==
    LET at(s) == [path |-> Value("string", s)]
    IN  {Case(v, <<o>>, Failed) :
            o \in {at(s) @@ [op |-> "test", value |-> Null] :
                        s \in {<<Zero>>, <<Slash, Tilde>>, <<Slash, Tilde, \h32>>, <<Slash, Zero, Zero>>,
                               <<Slash, \h2D>>, <<Slash, \h33>>}}
                  \cup {[op |-> "add", value |-> Null], [op |-> "remove", path |-> Null],
                        [op |-> "add"] @@ at(<<>>), [op |-> "move"] @@ at(<<>>),
                        [op |-> "copy", from |-> Null] @@ at(<<>>), [op |-> "set"] @@ at(<<>>),
                        [op |-> "add", value |-> Null] @@ at(<<Slash, \h33, Slash, One>>)}}

\* A copy of the first item to the end of the second one.
CopyToEnd ==
    LET ptr == Value("string", <<Slash, One, Slash>> \o Dash)
        first == Value("string", <<Slash, Zero>>)
        Both(c) == Value("array", <<One_, c>>)
    IN  {Case(Both(c), <<[op |-> "copy", path |-> ptr, from |-> first]>>,
              Done(Both(CASE Type(c) = "array" -> Value("array", Append(Data(c), One_))
                          [] Type(c) = "null" -> Value("array", <<One_>>)
                          [] OTHER -> Value("object", (Dash :> One_) @@ Data(c))))) : c \in Inner}

PatchCases ==
    {Case(v, diff(v, w, <<>>), Done(w)) : v \in PatchValues, w \in PatchValues}
    \cup CopyToEnd
    \cup UNION {UNION {AtPlace(v, way) : way \in Ways(v)} \cup Malformed(v) : v \in PatchValues}

\* result is what the patch of case should make.
IsPatched(case, result) ==
    /\ result.ok = case.expected.ok
    /\ result.ok => Same(result.value, case.expected.value)
=============================================================================
