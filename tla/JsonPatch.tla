----------------------------- MODULE JsonPatch ------------------------------
(***************************************************************************)
(* JSON pointers and JSON patches (json.hpp): what the operations of a     *)
(* patch make of a value, and the patch that diff() makes of two values.   *)
(*                                                                         *)
(* An operation is a record with the members that it has: op, path, from   *)
(* and value, of which path and from are values too.  An index in C++ is   *)
(* one less than here.  All exceptions are one, and an assertion that the  *)
(* release build leaves out is left out.                                   *)
(***************************************************************************)
EXTENDS JsonWriter

Done(v) == [ok |-> TRUE, value |-> v]

Failed == [ok |-> FALSE, value |-> Null]

-----------------------------------------------------------------------------
\* operator==

SameDouble(x, y) == x = y \/ (x.mantissa = 0 /\ y.mantissa = 0)

IntegerTypes == {"number_integer", "number_unsigned"}

\* static_cast<number_integer_t>
ToInteger(n) == IF n >= MaxNegative THEN n - MaxUnsigned - 1 ELSE n

\* static_cast<number_float_t>
ToDouble(n) == RoundTo(FloatDigits, Decimal(n < 0, IF n < 0 THEN -n ELSE n, 0))

SameScalar(a, b) ==
    CASE Type(a) = "number_float" /\ Type(b) = "number_float" -> SameDouble(Data(a), Data(b))
      [] Type(a) \in IntegerTypes /\ Type(b) = "number_float" ->
            SameDouble(ToDouble(Data(a)), Data(b))
      [] Type(a) = "number_float" /\ Type(b) \in IntegerTypes ->
            SameDouble(Data(a), ToDouble(Data(b)))
      [] {Type(a), Type(b)} = IntegerTypes -> ToInteger(Data(a)) = ToInteger(Data(b))
      [] OTHER -> a = b

RECURSIVE Same(_, _)
Same(a, b) ==
    IF Type(a) = Type(b) /\ Type(a) \in {"array", "object"}
    THEN DOMAIN Data(a) = DOMAIN Data(b) /\ \A i \in DOMAIN Data(a) : Same(Data(a)[i], Data(b)[i])
    ELSE SameScalar(a, b)

-----------------------------------------------------------------------------
\* json_pointer: a sequence of reference tokens.

Slash == \h2F
Tilde == \h7E
Zero == \h30
One == \h31
Dash == <<\h2D>>

RECURSIVE replace_substring(_, _, _)
replace_substring(s, f, t) ==
    CASE Len(s) < Len(f) -> s
      [] Len(s) >= Len(f) /\ SubSeq(s, 1, Len(f)) = f ->
            t \o replace_substring(SubSeq(s, Len(f) + 1, Len(s)), f, t)
      [] OTHER -> <<s[1]>> \o replace_substring(Tail(s), f, t)

escape(s) ==
    replace_substring(replace_substring(s, <<Tilde>>, <<Tilde, Zero>>), <<Slash>>, <<Tilde, One>>)

unescape(s) ==
    replace_substring(replace_substring(s, <<Tilde, One>>, <<Slash>>), <<Tilde, Zero>>, <<Tilde>>)

to_string(tokens) == FlattenSeq([i \in DOMAIN tokens |-> <<Slash>> \o escape(tokens[i])])

IsEscaped(s) ==
    \A i \in DOMAIN s : s[i] = Tilde => i < Len(s) /\ s[i + 1] \in {Zero, One}

\* What the slashes of s separate.
Pieces(s) ==
    FoldLeft(LAMBDA tokens, c :
                IF c = Slash
                THEN Append(tokens, <<>>)
                ELSE [tokens EXCEPT ![Len(tokens)] = Append(@, c)],
             <<>>, s)

split(s) ==
    CASE s = <<>> -> Done(<<>>)
      [] s # <<>> /\ s[1] # Slash -> Failed
      [] OTHER -> IF \A i \in DOMAIN Pieces(s) : IsEscaped(Pieces(s)[i])
                  THEN Done([i \in DOMAIN Pieces(s) |-> unescape(Pieces(s)[i])])
                  ELSE Failed

\* std::stoi() of a token without sign and space: the digits it starts with, or
\* -1 if there are none.
stoi(token) ==
    LET digits == SelectInSeq(token, LAMBDA c : ~IsDigit(c)) - 1
        n == IF digits = -1 THEN Len(token) ELSE digits
    IN  IF n = 0 THEN -1 ELSE FoldLeft(LAMBDA x, c : x * 10 + c - Zero, 0, SubSeq(token, 1, n))

BeginsWithZero(token) == Len(token) > 1 /\ token[1] = Zero

\* Where in container v the token points to, if anywhere.
Places(v, token) ==
    CASE Type(v) = "object" -> {token} \cap DOMAIN Data(v)
      [] Type(v) = "array" ->
            IF token = Dash \/ BeginsWithZero(token) THEN {} ELSE {stoi(token) + 1} \cap DOMAIN Data(v)
      [] OTHER -> {}

RECURSIVE get_checked(_, _)
get_checked(v, tokens) ==
    IF tokens = <<>>
    THEN Done(v)
    ELSE IF Places(v, Head(tokens)) = {}
         THEN Failed
         ELSE get_checked(Data(v)[CHOOSE i \in Places(v, Head(tokens)) : TRUE], Tail(tokens))

\* v, with new at a place that it has.
RECURSIVE Assign(_, _, _)
Assign(v, tokens, new) ==
    IF tokens = <<>>
    THEN new
    ELSE LET i == CHOOSE i \in Places(v, Head(tokens)) : TRUE
         IN  Value(Type(v), [Data(v) EXCEPT ![i] = Assign(@, Tail(tokens), new)])

\* The container that a null becomes for a token.
Created(v, token) ==
    CASE Type(v) # "null" -> v
      [] Type(v) = "null" /\ (token = Dash \/ \A i \in DOMAIN token : IsDigit(token[i])) ->
            Value("array", <<>>)
      [] OTHER -> Value("object", <<>>)

\* operator[]: v, with what is missing on the way, and the way.
RECURSIVE get_unchecked(_, _)
get_unchecked(v, tokens) ==
    IF tokens = <<>>
    THEN [ok |-> TRUE, value |-> v, path |-> <<>>]
    ELSE
    LET token == Head(tokens)
        c == Created(v, token)
        size == Len(Data(c))
        i == IF token = Dash THEN size ELSE stoi(token)
        items == IF i < size THEN Data(c) ELSE [j \in 1 .. i + 1 |-> IF j <= size THEN Data(c)[j] ELSE Null]
        item == get_unchecked(items[i + 1], Tail(tokens))
        member == get_unchecked(IF token \in DOMAIN Data(c) THEN Data(c)[token] ELSE Null,
                                Tail(tokens))
    IN  CASE Type(c) = "object" ->
                [ok |-> member.ok, path |-> <<token>> \o member.path,
                 value |-> Value("object", (token :> member.value) @@ Data(c))]
          [] Type(c) = "array" /\ ~BeginsWithZero(token) /\ i >= 0 ->
                [ok |-> item.ok, path |-> <<Digits(i)>> \o item.path,
                 value |-> Value("array", [items EXCEPT ![i + 1] = item.value])]
          [] OTHER -> [ok |-> FALSE, value |-> v, path |-> <<>>]

-----------------------------------------------------------------------------
\* patch()

\* val becomes a member or an item of parent; of a scalar it becomes nothing.
AddTo(parent, token, val) ==
    CASE Type(parent) = "null" -> Done(Value("object", token :> val))
      [] Type(parent) = "object" -> Done(Value("object", (token :> val) @@ Data(parent)))
      [] Type(parent) = "array" ->
            CASE token = Dash -> Done(Value("array", Append(Data(parent), val)))
              [] token # Dash /\ stoi(token) \in 0 .. Len(Data(parent)) ->
                    Done(Value("array", InsertAt(Data(parent), stoi(token) + 1, val)))
              [] OTHER -> Failed
      [] OTHER -> Done(parent)

operation_add(v, ptr, val) ==
    LET way == get_unchecked(v, Front(ptr))
        parent == get_checked(way.value, way.path).value
        added == AddTo(parent, Last(ptr), val)
    IN  CASE ptr = <<>> -> Done(val)
          [] Len(ptr) > 1 /\ ~get_checked(v, <<Head(ptr)>>).ok -> Failed
          [] OTHER -> IF way.ok /\ added.ok THEN Done(Assign(way.value, way.path, added.value)) ELSE Failed

operation_remove(v, ptr) ==
    LET parent == get_checked(v, Front(ptr))
        data == Data(parent.value)
        last == Last(ptr)
        Without(new) == Done(Assign(v, Front(ptr), Value(Type(parent.value), new)))
    IN  CASE ptr = <<>> -> Failed
          [] ptr # <<>> /\ ~parent.ok -> Failed
          [] ptr # <<>> /\ parent.ok /\ Type(parent.value) = "object" ->
                IF last \in DOMAIN data
                THEN Without([key \in DOMAIN data \ {last} |-> data[key]])
                ELSE Failed
          [] ptr # <<>> /\ parent.ok /\ Type(parent.value) = "array" ->
                IF stoi(last) + 1 \in DOMAIN data
                THEN Without(RemoveAt(data, stoi(last) + 1))
                ELSE Failed
          [] OTHER -> Done(v)

operation_replace(v, ptr, val) ==
    IF get_checked(v, ptr).ok THEN Done(Assign(v, ptr, val)) ELSE Failed

operation_move(v, from, ptr) ==
    LET moved == get_checked(v, from)
        removed == operation_remove(v, from)
    IN  IF moved.ok /\ removed.ok THEN operation_add(removed.value, ptr, moved.value) ELSE Failed

\* result[ptr] may be made before or after result.at(from): they differ only if
\* making it moves what from points to.
operation_copy(v, from, ptr) ==
    LET copied == get_checked(v, from)
        way == get_unchecked(v, ptr)
    IN  IF copied.ok /\ way.ok THEN Done(Assign(way.value, way.path, copied.value)) ELSE Failed

operation_test(v, ptr, val) ==
    LET found == get_checked(v, ptr)
    IN  IF found.ok /\ Same(found.value, val) THEN Done(v) ELSE Failed

HasString(o, member) == member \in DOMAIN o /\ Type(o[member]) = "string"

\* What else the operation needs.
HasMembers(o) ==
    CASE o.op \in {"add", "replace", "test"} -> "value" \in DOMAIN o
      [] o.op \in {"move", "copy"} -> HasString(o, "from")
      [] o.op = "remove" -> TRUE
      [] OTHER -> FALSE

Apply(v, o) ==
    LET ptr == split(Data(o.path))
        from == split(Data(o.from))
    IN  IF ~(HasString(o, "path") /\ ptr.ok /\ HasMembers(o))
        THEN Failed
        ELSE CASE o.op = "add" -> operation_add(v, ptr.value, o.value)
               [] o.op = "remove" -> operation_remove(v, ptr.value)
               [] o.op = "replace" -> operation_replace(v, ptr.value, o.value)
               [] o.op = "test" -> operation_test(v, ptr.value, o.value)
               [] o.op = "move" ->
                    IF from.ok THEN operation_move(v, from.value, ptr.value) ELSE Failed
               [] o.op = "copy" ->
                    IF from.ok THEN operation_copy(v, from.value, ptr.value) ELSE Failed

\* The operations in their order, up to the first that throws.
patch(v, operations) ==
    FoldLeft(LAMBDA r, o : IF r.ok THEN Apply(r.value, o) ELSE r, Done(v), operations)

-----------------------------------------------------------------------------
\* diff()

PathOf(path, token) == path \o <<Slash>> \o escape(token)

ReplaceBy(path, v) == [op |-> "replace", path |-> Value("string", path), value |-> v]

AddAt(path, v) == [op |-> "add", path |-> Value("string", path), value |-> v]

RemoveFrom(path) == [op |-> "remove", path |-> Value("string", path)]

removed_items_forward(path, m, n) ==    \* the indices change meanwhile
    [j \in 1 .. n - m |-> RemoveFrom(PathOf(path, Digits(m + j - 1)))]

\* The items from m up to n, the last one first.
removed_items(path, m, n) == [j \in 1 .. n - m |-> RemoveFrom(PathOf(path, Digits(n - j)))]

added_items(path, m, items) ==
    [j \in 1 .. Len(items) - m |-> AddAt(PathOf(path, Digits(m + j - 1)), items[m + j])]

added_members(path, old, new) ==
    LET keys == SelectSeq(Keys(new), LAMBDA key : key \notin DOMAIN old)
    IN  [j \in DOMAIN keys |-> AddAt(PathOf(path, keys[j]), new[keys[j]])]

RECURSIVE diff(_, _, _)

diff_arrays(path, old, new) ==
    LET common == IF Len(old) < Len(new) THEN Len(old) ELSE Len(new)
    IN  FlattenSeq([i \in 1 .. common |-> diff(old[i], new[i], PathOf(path, Digits(i - 1)))])
        \o removed_items(path, common, Len(old)) \o added_items(path, common, new)

diff_objects(path, old, new) ==
    LET keys == Keys(old)
    IN  FlattenSeq([i \in DOMAIN keys |->
                      IF keys[i] \in DOMAIN new
                      THEN diff(old[keys[i]], new[keys[i]], PathOf(path, keys[i]))
                      ELSE <<RemoveFrom(PathOf(path, keys[i]))>>])
        \o added_members(path, old, new)

diff(source, target, path) ==
    CASE Same(source, target) -> <<>>
      [] ~Same(source, target) /\ Type(source) = "array" /\ Type(target) = "array" ->
            diff_arrays(path, Data(source), Data(target))
      [] ~Same(source, target) /\ Type(source) = "object" /\ Type(target) = "object" ->
            diff_objects(path, Data(source), Data(target))
      [] OTHER -> <<ReplaceBy(path, target)>>
=============================================================================
