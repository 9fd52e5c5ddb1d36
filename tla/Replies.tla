------------------------------ MODULE Replies ------------------------------
(***************************************************************************)
(* How cpp-redis turns a hiredis reply into a C++ value: the recv_*        *)
(* functions of src/src/reply.cpp.                                         *)
(*                                                                         *)
(* A reply has a type and a payload, the elements of an array are strings  *)
(* or nils.  A decoder returns what the call throws ("none", or the class  *)
(* of the exception), what it returns, and what it leaves in the caller's  *)
(* output argument (NULL: it does not touch it).                           *)
(***************************************************************************)
EXTENDS Integers, Sequences, FiniteSets

CONSTANTS
  IntBits,  \* the width of C++ int; redisReply::integer is wider
  NULL      \* no output

ASSUME RepliesAssumption == IntBits \in Nat \ {0}

Status(text) == [type |-> "status", str |-> text]
Failure      == [type |-> "error"]
Nil          == [type |-> "nil"]
Integer(n)   == [type |-> "integer", integer |-> n]
Bulk(v)      == [type |-> "string", str |-> v]
Array(elems) == [type |-> "array", element |-> elems]

Outcome(ret, out) == [exc |-> "none", ret |-> ret, out |-> out]

\* Mutant of Thrown: the class for a failed command.
ThrownAsCommand(r, out) == [exc |-> "CommandException", ret |-> NULL, out |-> out]

\* throw_redis_exception: out is what the decoder had already cleared.
Thrown(r, out) ==
  [exc |-> IF r.type \in {"error", "nil"} THEN "ValueException"
                                          ELSE "RedisException",
   ret |-> NULL, out |-> out]

\* A long long stored in an int.
ToInt(n) == ((n + 2 ^ (IntBits - 1)) % 2 ^ IntBits) - 2 ^ (IntBits - 1)

recv_ok_reply(r) ==
  IF r.type = "status" THEN Outcome(r.str = "OK", NULL) ELSE Thrown(r, NULL)

recv_status_reply(r) ==
  IF r.type = "status" THEN Outcome(r.str, NULL) ELSE Thrown(r, NULL)

recv_int_reply(r) ==
  IF r.type = "integer" THEN Outcome(ToInt(r.integer), NULL) ELSE Thrown(r, NULL)

\* Mutant of recv_float_reply: expects a status.
FloatFromStatus(r) ==
  IF r.type = "status" THEN Outcome(r.str, NULL) ELSE Thrown(r, NULL)

\* The number is the string's, up to float's precision.
recv_float_reply(r) ==
  IF r.type = "string" THEN Outcome(r.str, NULL) ELSE Thrown(r, NULL)

\* Mutant of recv_string_reply: ret = -1 forgotten.
StringOrNothing(r) ==
  IF r.type = "string" THEN Outcome(0, r.str) ELSE Outcome(0, NULL)

\* Whatever is not a string, an error included, is reported as -1.
recv_string_reply(r) ==
  IF r.type = "string" THEN Outcome(0, r.str) ELSE Outcome(-1, NULL)

\* The elements that are strings, and what they hold.
Strings(r) == {i \in DOMAIN r.element : r.element[i].type = "string"}
Texts(r) == [i \in Strings(r) |-> r.element[i].str]

Found(r) == SelectSeq(r.element, LAMBDA e : e.type = "string")

recv_string_array_reply(r) ==
  IF r.type = "array"
  THEN Outcome(Len(Found(r)), [i \in DOMAIN Found(r) |-> Found(r)[i].str])
  ELSE Thrown(r, <<>>)

recv_string_set_reply(r) ==
  IF r.type = "array"
  THEN Outcome(Cardinality(Strings(r)), {Texts(r)[i] : i \in Strings(r)})
  ELSE Thrown(r, {})

\* A C++ map as the set of its entries: each key takes the last value assigned
\* to it by the loop over I, in which step i assigns value[i] to key[i].
Assigned(I, key, value) ==
  {<<key[i], value[i]>> : i \in {j \in I : \A k \in I : key[k] = key[j] => k <= j}}

\* Mutant of recv_string_map_reply: keys counted by the values found so far.
MapBySuccess(r, keys) ==
  IF r.type = "array"
  THEN LET nth == [i \in Strings(r) |-> Cardinality(Strings(r) \cap 1 .. i)]
       IN Outcome(Cardinality(Strings(r)),
                  Assigned(Strings(r), [i \in Strings(r) |-> keys[nth[i]]], Texts(r)))
  ELSE Thrown(r, {})

\* Element i belongs to the i-th key; nil elements leave no entry.
recv_string_map_reply(r, keys) ==
  IF r.type = "array"
  THEN Outcome(Cardinality(Strings(r)), Assigned(Strings(r), keys, Texts(r)))
  ELSE Thrown(r, {})

\* recv_string_hash_map_reply with fields: the same loop over another map type.
recv_string_field_map_reply(r, fields) == recv_string_map_reply(r, fields)

\* recv_string_hash_map_reply without fields: fields and values alternate; the
\* first pair that is not two strings ends it, entries already made stay.
Fields(r) == {i \in DOMAIN r.element : i % 2 = 1}
Broken(r) == {i \in Fields(r) : ~{i, i + 1} \subseteq Strings(r)}
Taken(r)  == {i \in Fields(r) : \A b \in Broken(r) : i < b}
Entries(r) == Assigned(Taken(r), Texts(r), [i \in Taken(r) |-> Texts(r)[i + 1]])

recv_string_hash_map_reply(r) ==
  IF r.type # "array" THEN Thrown(r, {})
  ELSE IF Broken(r) # {} THEN Thrown(r, Entries(r))
  ELSE Outcome(Cardinality(Fields(r)), Entries(r))

\* The decoder a command names; keys are the list it was called with.
Decode(decoder, r, keys) ==
  CASE decoder = "ok"     -> recv_ok_reply(r)
    [] decoder = "status" -> recv_status_reply(r)
    [] decoder = "int"    -> recv_int_reply(r)
    [] decoder = "float"  -> recv_float_reply(r)
    [] decoder = "string" -> recv_string_reply(r)
    [] decoder = "array"  -> recv_string_array_reply(r)
    [] decoder = "set"    -> recv_string_set_reply(r)
    [] decoder = "map"    -> recv_string_map_reply(r, keys)
    [] decoder = "fields" -> recv_string_field_map_reply(r, keys)
    [] decoder = "hash"   -> recv_string_hash_map_reply(r)

=============================================================================
