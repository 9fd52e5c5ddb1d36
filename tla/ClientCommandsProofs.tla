------------------------ MODULE ClientCommandsProofs ------------------------
(***************************************************************************)
(* Proofs about ClientCommands.  The tables are looked up twice: what a    *)
(* method sends and how it decodes (its row) against what Redis accepts    *)
(* and answers (the row of its word in Server).  The words are therefore   *)
(* sorted first, by the reply they have and by their length; every other   *)
(* fact is about one such class.  A url is written from its parts and read *)
(* back from its tokens: each cut of the parser is at the first place of a *)
(* separator, and ParseFindsParts puts the cuts together.  The history of  *)
(* a call is CallInv.                                                      *)
(***************************************************************************)
EXTENDS ClientCommands, FiniteSetTheorems, FunctionTheorems, SequenceTheorems,
        WellFoundedInduction, TLAPS

-----------------------------------------------------------------------------
(* The tables                                                              *)

\* The words by the decoder their replies want.
Wanting ==
  [ok     |-> {"HMSET", "LSET", "LTRIM", "MSET", "SET", "SETEX"},
   status |-> {"TYPE"},
   int    |-> {"APPEND", "BITCOUNT", "BITOP", "DECR", "DECRBY", "DEL", "EXISTS",
               "EXPIRE", "EXPIREAT", "GETBIT", "HEXISTS", "HINCRBY", "HLEN",
               "HSET", "HSETNX", "INCR", "INCRBY", "LINSERT", "LLEN", "LPUSH",
               "LPUSHX", "LREM", "MSETNX", "PERSIST", "PEXPIRE", "PEXPIREAT",
               "PTTL", "PUBLISH", "RPUSH", "RPUSHX", "SADD", "SCARD",
               "SDIFFSTORE", "SETBIT", "SETNX", "SETRANGE", "SINTERSTORE",
               "SISMEMBER", "SMOVE", "SREM", "STRLEN", "SUNIONSTORE", "TTL"},
   float  |-> {"HINCRBYFLOAT", "INCRBYFLOAT"},
   string |-> {"GET", "GETRANGE", "GETSET", "HGET", "LINDEX", "LPOP", "RPOP", "SPOP"},
   array  |-> {"BLPOP", "HKEYS", "HVALS", "KEYS", "LRANGE", "SRANDMEMBER"},
   set    |-> {"SDIFF", "SINTER", "SMEMBERS", "SUNION"},
   map    |-> {"MGET"},
   fields |-> {"HMGET"},
   hash   |-> {"HGETALL"}]

\* The kinds of reply each decoder takes without surprise.
Fit ==
  [ok     |-> {"OK"},            status |-> {"word"},
   int    |-> {"int"},           float  |-> {"bulk"},
   string |-> {"bulk", "nil"},   array  |-> {"bulks", "nil"},
   set    |-> {"bulks"},         map    |-> {"each"},
   fields |-> {"each"},          hash   |-> {"pairs"}]

\* The words by their length; those that want pairs, and BITCOUNT, are not
\* among them.
Exactly ==
  [two   |-> {"DECR", "EXISTS", "GET", "HGETALL", "HKEYS", "HLEN", "HVALS", "INCR",
              "KEYS", "LLEN", "LPOP", "PERSIST", "PTTL", "RPOP", "SCARD",
              "SMEMBERS", "SPOP", "STRLEN", "TTL", "TYPE"},
   three |-> {"APPEND", "DECRBY", "EXPIRE", "EXPIREAT", "GETBIT", "GETSET",
              "HEXISTS", "HGET", "INCRBY", "INCRBYFLOAT", "LINDEX", "LPUSHX",
              "PEXPIRE", "PEXPIREAT", "PUBLISH", "RPOPLPUSH", "RPUSHX", "SETNX",
              "SISMEMBER"},
   four  |-> {"BRPOPLPUSH", "GETRANGE", "HINCRBY", "HINCRBYFLOAT", "HSET",
              "HSETNX", "LRANGE", "LREM", "LSET", "LTRIM", "SETBIT", "SETEX",
              "SETRANGE", "SMOVE"},
   five  |-> {"LINSERT"}]

AtLeast ==
  [two   |-> {"DEL", "MGET", "SDIFF", "SINTER", "SRANDMEMBER", "SUNION"},
   three |-> {"BLPOP", "HMGET", "LPUSH", "RPUSH", "SADD", "SDIFFSTORE", "SET",
              "SINTERSTORE", "SREM", "SUNIONSTORE"},
   four  |-> {"BITOP"}]

\* A row c of method m: its word has as many operands as c gives it.
Single(m, c) ==
  \/ c.fixed = 1 /\ c.word \in Exactly.two \cup {"BITCOUNT"}
  \/ c.fixed = 2 /\ c.word \in Exactly.three \cup AtLeast.two \cup AtLeast.three
  \/ c.fixed = 3 /\ c.word \in Exactly.four \cup {"BITCOUNT"}
  \/ c.fixed = 4 /\ c.word \in Exactly.five
  \/ c.fixed = 2 /\ c.word = "BITCOUNT" /\ m = "bitcount_from"
Listed(m, c) ==
  \/ c.fixed = 0 /\ c.word \in AtLeast.two
  \/ c.fixed = 1 /\ c.word \in AtLeast.three
  \/ c.fixed = 2 /\ c.word \in AtLeast.four
  \/ c.fixed = 0 /\ c.word \in {"MSET", "MSETNX"} /\ m \in DOMAIN VariadicCommands
  \/ c.fixed = 1 /\ c.word = "HMSET" /\ m \in DOMAIN VariadicCommands
Mapped(c) ==
  \/ c.fixed = 0 /\ c.word \in {"MSET", "MSETNX"}
  \/ c.fixed = 1 /\ c.word = "HMSET"

Shaped(m, c) ==
  /\ c.tail \in {"none", "list", "map"}
  /\ c.tail = "none" => Single(m, c)
  /\ c.tail = "list" => Listed(m, c)
  /\ c.tail = "map" => Mapped(c)

\* ... and its decoder takes the replies of its word.
Matched(m, c) ==
  /\ c.decoder \in DOMAIN Wanting
  /\ c.word \in DOMAIN Server
  /\ \/ c.word \in Wanting[c.decoder]
     \/ m \in {"rpoplpush", "brpoplpush"} /\ c.decoder = "array"

LEMMA WantedKinds ==
  ASSUME NEW d \in DOMAIN Wanting, NEW w \in Wanting[d]
  PROVE  Server[w].kinds \subseteq Fit[d]
<1>1. \A x \in Wanting["ok"] : Server[x].kinds \subseteq Fit["ok"]
  <2>1. \A x \in Wanting["ok"] : Server[x].kinds = {"OK"}
    BY SMTT(60) DEF Wanting, Server, Srv
  <2> QED
    BY <2>1 DEF Fit
<1>2. \A x \in Wanting["status"] : Server[x].kinds \subseteq Fit["status"]
  BY SMTT(60) DEF Wanting, Server, Srv, Fit
<1>3. \A x \in Wanting["int"] : Server[x].kinds \subseteq Fit["int"]
  <2>1. \A x \in Wanting["int"] : Server[x].kinds = {"int"}
    BY SMTT(60) DEF Wanting, Server, Srv
  <2> QED
    BY <2>1 DEF Fit
<1>4. \A x \in Wanting["float"] : Server[x].kinds \subseteq Fit["float"]
  BY SMTT(60) DEF Wanting, Server, Srv, Fit
<1>5. \A x \in Wanting["string"] : Server[x].kinds \subseteq Fit["string"]
  <2>1. \A x \in Wanting["string"] : Server[x].kinds \subseteq {"bulk", "nil"}
    BY SMTT(60) DEF Wanting, Server, Srv
  <2> QED
    BY <2>1 DEF Fit
<1>6. \A x \in Wanting["array"] : Server[x].kinds \subseteq Fit["array"]
  <2>1. \A x \in Wanting["array"] : Server[x].kinds \subseteq {"bulks", "nil"}
    BY SMTT(60) DEF Wanting, Server, Srv
  <2> QED
    BY <2>1 DEF Fit
<1>7. \A x \in Wanting["set"] : Server[x].kinds \subseteq Fit["set"]
  BY SMTT(60) DEF Wanting, Server, Srv, Fit
<1>8. \A x \in Wanting["map"] : Server[x].kinds \subseteq Fit["map"]
  BY SMTT(60) DEF Wanting, Server, Srv, Fit
<1>9. \A x \in Wanting["fields"] : Server[x].kinds \subseteq Fit["fields"]
  BY SMTT(60) DEF Wanting, Server, Srv, Fit
<1>10. \A x \in Wanting["hash"] : Server[x].kinds \subseteq Fit["hash"]
  BY SMTT(60) DEF Wanting, Server, Srv, Fit
<1> QED
  BY <1>1, <1>2, <1>3, <1>4, <1>5, <1>6, <1>7, <1>8, <1>9, <1>10 DEF Wanting

LEMMA ExactLengths ==
  /\ \A w \in Exactly.two : \A n \in Nat : n = 2 => Accepts(w, n)
  /\ \A w \in Exactly.three : \A n \in Nat : n = 3 => Accepts(w, n)
  /\ \A w \in Exactly.four : \A n \in Nat : n = 4 => Accepts(w, n)
  /\ \A w \in Exactly.five : \A n \in Nat : n = 5 => Accepts(w, n)
<1>1. \A w \in Exactly.two : Server[w].arity = 2
  BY SMTT(60) DEF Exactly, Server, Srv
<1>2. \A w \in Exactly.three : Server[w].arity = 3
  BY SMTT(60) DEF Exactly, Server, Srv
<1>3. \A w \in Exactly.four : Server[w].arity = 4
  BY SMTT(60) DEF Exactly, Server, Srv
<1>4. \A w \in Exactly.five : Server[w].arity = 5
  BY SMTT(60) DEF Exactly, Server, Srv
<1> QED
  BY <1>1, <1>2, <1>3, <1>4 DEF Accepts, Exactly

LEMMA LeastLengths ==
  /\ \A w \in AtLeast.two : \A n \in Nat : n >= 2 => Accepts(w, n)
  /\ \A w \in AtLeast.three : \A n \in Nat : n >= 3 => Accepts(w, n)
  /\ \A w \in AtLeast.four : \A n \in Nat : n >= 4 => Accepts(w, n)
<1>1. \A w \in AtLeast.two : Server[w].arity = -2
  BY SMTT(60) DEF AtLeast, Server, Srv
<1>2. \A w \in AtLeast.three : Server[w].arity = -3
  BY SMTT(60) DEF AtLeast, Server, Srv
<1>3. \A w \in AtLeast.four : Server[w].arity = -4
  BY SMTT(60) DEF AtLeast, Server, Srv
<1> QED
  BY <1>1, <1>2, <1>3 DEF Accepts, AtLeast

LEMMA PairedLengths ==
  /\ \A w \in {"MSET", "MSETNX"} : \A n \in Nat : n >= 3 /\ n % 2 = 1 => Accepts(w, n)
  /\ \A n \in Nat : n >= 4 /\ n % 2 = 0 => Accepts("HMSET", n)
  /\ \A n \in {2, 4} : Accepts("BITCOUNT", n)
<1>1. /\ \A w \in {"MSET", "MSETNX"} : Server[w].arity = -3
      /\ Server["HMSET"].arity = -4 /\ Server["BITCOUNT"].arity = -2
  BY DEF Server, Srv
<1> QED
  BY <1>1 DEF Accepts

LEMMA StringRows == \A m \in DOMAIN StringCommands : Shaped(m, StringCommands[m]) /\ Matched(m, StringCommands[m])
<1>1. \A m \in DOMAIN StringCommands : Shaped(m, StringCommands[m])
  <2>1. \A m \in DOMAIN StringCommands : StringCommands[m].tail \in {"none", "list", "map"}
    BY DEF StringCommands, Cmd
  <2>2. \A m \in DOMAIN StringCommands : StringCommands[m].tail = "none" => Single(m, StringCommands[m])
    BY DEF StringCommands, Cmd, Single, Exactly, AtLeast
  <2>3. \A m \in DOMAIN StringCommands : StringCommands[m].tail = "list" => Listed(m, StringCommands[m])
    BY DEF StringCommands, Cmd, Listed, AtLeast, VariadicCommands
  <2>4. \A m \in DOMAIN StringCommands : StringCommands[m].tail = "map" => Mapped(StringCommands[m])
    BY DEF StringCommands, Cmd, Mapped
  <2> QED
    BY <2>1, <2>2, <2>3, <2>4 DEF Shaped
<1>2. \A m \in DOMAIN StringCommands : Matched(m, StringCommands[m])
  <2>1. \A m \in DOMAIN StringCommands :
          LET c == StringCommands[m]
          IN c.decoder \in DOMAIN Wanting /\ c.word \in Wanting[c.decoder]
    BY DEF StringCommands, Cmd, Wanting
  <2>2. \A m \in DOMAIN StringCommands : StringCommands[m].word \in DOMAIN Server
    BY DEF StringCommands, Cmd, Server
  <2> QED
    BY <2>1, <2>2 DEF Matched
<1> QED
  BY <1>1, <1>2

LEMMA KeyRows == \A m \in DOMAIN KeyCommands : Shaped(m, KeyCommands[m]) /\ Matched(m, KeyCommands[m])
<1>1. \A m \in DOMAIN KeyCommands : Shaped(m, KeyCommands[m])
  <2>1. \A m \in DOMAIN KeyCommands : KeyCommands[m].tail \in {"none", "list", "map"}
    BY DEF KeyCommands, Cmd
  <2>2. \A m \in DOMAIN KeyCommands : KeyCommands[m].tail = "none" => Single(m, KeyCommands[m])
    BY DEF KeyCommands, Cmd, Single, Exactly, AtLeast
  <2>3. \A m \in DOMAIN KeyCommands : KeyCommands[m].tail = "list" => Listed(m, KeyCommands[m])
    BY DEF KeyCommands, Cmd, Listed, AtLeast, VariadicCommands
  <2>4. \A m \in DOMAIN KeyCommands : KeyCommands[m].tail = "map" => Mapped(KeyCommands[m])
    BY DEF KeyCommands, Cmd, Mapped
  <2> QED
    BY <2>1, <2>2, <2>3, <2>4 DEF Shaped
<1>2. \A m \in DOMAIN KeyCommands : Matched(m, KeyCommands[m])
  BY DEF KeyCommands, Cmd, Matched, Wanting, Server
<1> QED
  BY <1>1, <1>2

LEMMA SetRows == \A m \in DOMAIN SetCommands : Shaped(m, SetCommands[m]) /\ Matched(m, SetCommands[m])
<1>1. \A m \in DOMAIN SetCommands : Shaped(m, SetCommands[m])
  <2>1. \A m \in DOMAIN SetCommands : SetCommands[m].tail \in {"none", "list", "map"}
    BY DEF SetCommands, Cmd
  <2>2. \A m \in DOMAIN SetCommands : SetCommands[m].tail = "none" => Single(m, SetCommands[m])
    BY DEF SetCommands, Cmd, Single, Exactly, AtLeast
  <2>3. \A m \in DOMAIN SetCommands : SetCommands[m].tail = "list" => Listed(m, SetCommands[m])
    BY DEF SetCommands, Cmd, Listed, AtLeast, VariadicCommands
  <2>4. \A m \in DOMAIN SetCommands : SetCommands[m].tail = "map" => Mapped(SetCommands[m])
    BY DEF SetCommands, Cmd, Mapped
  <2> QED
    BY <2>1, <2>2, <2>3, <2>4 DEF Shaped
<1>2. \A m \in DOMAIN SetCommands : Matched(m, SetCommands[m])
  BY DEF SetCommands, Cmd, Matched, Wanting, Server
<1> QED
  BY <1>1, <1>2

LEMMA HashRows == \A m \in DOMAIN HashCommands : Shaped(m, HashCommands[m]) /\ Matched(m, HashCommands[m])
<1>1. \A m \in DOMAIN HashCommands : Shaped(m, HashCommands[m])
  <2>1. \A m \in DOMAIN HashCommands : HashCommands[m].tail \in {"none", "list", "map"}
    BY DEF HashCommands, Cmd
  <2>2. \A m \in DOMAIN HashCommands : HashCommands[m].tail = "none" => Single(m, HashCommands[m])
    BY DEF HashCommands, Cmd, Single, Exactly, AtLeast
  <2>3. \A m \in DOMAIN HashCommands : HashCommands[m].tail = "list" => Listed(m, HashCommands[m])
    BY DEF HashCommands, Cmd, Listed, AtLeast, VariadicCommands
  <2>4. \A m \in DOMAIN HashCommands : HashCommands[m].tail = "map" => Mapped(HashCommands[m])
    BY DEF HashCommands, Cmd, Mapped
  <2> QED
    BY <2>1, <2>2, <2>3, <2>4 DEF Shaped
<1>2. \A m \in DOMAIN HashCommands : Matched(m, HashCommands[m])
  BY DEF HashCommands, Cmd, Matched, Wanting, Server
<1> QED
  BY <1>1, <1>2

LEMMA ListRows == \A m \in DOMAIN ListCommands : Shaped(m, ListCommands[m]) /\ Matched(m, ListCommands[m])
<1>1. \A m \in DOMAIN ListCommands : Shaped(m, ListCommands[m])
  <2>1. \A m \in DOMAIN ListCommands : ListCommands[m].tail \in {"none", "list", "map"}
    BY DEF ListCommands, Cmd
  <2>2. \A m \in DOMAIN ListCommands : ListCommands[m].tail = "none" => Single(m, ListCommands[m])
    BY DEF ListCommands, Cmd, Single, Exactly, AtLeast
  <2>3. \A m \in DOMAIN ListCommands : ListCommands[m].tail = "list" => Listed(m, ListCommands[m])
    BY DEF ListCommands, Cmd, Listed, AtLeast, VariadicCommands
  <2>4. \A m \in DOMAIN ListCommands : ListCommands[m].tail = "map" => Mapped(ListCommands[m])
    BY DEF ListCommands, Cmd, Mapped
  <2> QED
    BY <2>1, <2>2, <2>3, <2>4 DEF Shaped
<1>2. \A m \in DOMAIN ListCommands : Matched(m, ListCommands[m])
  BY DEF ListCommands, Cmd, Matched, Wanting, Server
<1> QED
  BY <1>1, <1>2

LEMMA PublishRows == \A m \in DOMAIN PublishCommand : Shaped(m, PublishCommand[m]) /\ Matched(m, PublishCommand[m])
<1>1. \A m \in DOMAIN PublishCommand : Shaped(m, PublishCommand[m])
  <2>1. \A m \in DOMAIN PublishCommand : PublishCommand[m].tail \in {"none", "list", "map"}
    BY DEF PublishCommand, Cmd
  <2>2. \A m \in DOMAIN PublishCommand : PublishCommand[m].tail = "none" => Single(m, PublishCommand[m])
    BY DEF PublishCommand, Cmd, Single, Exactly, AtLeast
  <2>3. \A m \in DOMAIN PublishCommand : PublishCommand[m].tail = "list" => Listed(m, PublishCommand[m])
    BY DEF PublishCommand, Cmd, Listed, AtLeast, VariadicCommands
  <2>4. \A m \in DOMAIN PublishCommand : PublishCommand[m].tail = "map" => Mapped(PublishCommand[m])
    BY DEF PublishCommand, Cmd, Mapped
  <2> QED
    BY <2>1, <2>2, <2>3, <2>4 DEF Shaped
<1>2. \A m \in DOMAIN PublishCommand : Matched(m, PublishCommand[m])
  BY DEF PublishCommand, Cmd, Matched, Wanting, Server
<1> QED
  BY <1>1, <1>2

LEMMA VariadicRows == \A m \in DOMAIN VariadicCommands : Shaped(m, VariadicCommands[m]) /\ Matched(m, VariadicCommands[m])
<1>1. \A m \in DOMAIN VariadicCommands : Shaped(m, VariadicCommands[m])
  <2>1. \A m \in DOMAIN VariadicCommands : VariadicCommands[m].tail \in {"none", "list", "map"}
    BY DEF VariadicCommands, Cmd
  <2>2. \A m \in DOMAIN VariadicCommands : VariadicCommands[m].tail = "none" => Single(m, VariadicCommands[m])
    BY DEF VariadicCommands, Cmd, Single, Exactly, AtLeast
  <2>3. \A m \in DOMAIN VariadicCommands : VariadicCommands[m].tail = "list" => Listed(m, VariadicCommands[m])
    BY DEF VariadicCommands, Cmd, Listed, AtLeast
  <2>4. \A m \in DOMAIN VariadicCommands : VariadicCommands[m].tail = "map" => Mapped(VariadicCommands[m])
    BY DEF VariadicCommands, Cmd, Mapped
  <2> QED
    BY <2>1, <2>2, <2>3, <2>4 DEF Shaped
<1>2. \A m \in DOMAIN VariadicCommands : Matched(m, VariadicCommands[m])
  BY DEF VariadicCommands, Cmd, Matched, Wanting, Server
<1> QED
  BY <1>1, <1>2

LEMMA EveryRow == \A m \in Methods : Shaped(m, Commands[m]) /\ Matched(m, Commands[m])
<1>1. ASSUME NEW m \in Methods
      PROVE  \E T \in Tables : m \in DOMAIN T /\ Commands[m] = T[m]
  BY DEF Methods, Commands
<1>2. ASSUME NEW T \in Tables, NEW m \in DOMAIN T
      PROVE  Shaped(m, T[m]) /\ Matched(m, T[m])
  BY StringRows, KeyRows, SetRows, HashRows, ListRows, PublishRows, VariadicRows
  DEF Tables
<1> QED
  BY <1>1, <1>2

\* A row with the arguments its method was called with.
LEMMA RowsAccepted ==
  ASSUME NEW m, NEW c, Shaped(m, c), NEW args, Len(args) \in Nat,
         c.tail # "none" => Len(args) > 0,
         m \in DOMAIN VariadicCommands => Len(args) % 2 = 0,
         m # "bitcount_from"
  PROVE  Accepts(c.word, Argc(c, args))
<1>1. CASE c.tail = "none"
  <2>1. \A k \in {1, 2, 3, 4} : c.fixed = k => Argc(c, args) = 1 + k
    BY <1>1 DEF Argc
  <2> QED
    BY <1>1, <2>1, ExactLengths, LeastLengths, PairedLengths DEF Shaped, Single
<1>2. CASE c.tail = "list"
  <2>1. \A k \in {0, 1, 2} : c.fixed = k => Argc(c, args) = 1 + k + Len(args)
    BY <1>2 DEF Argc
  <2>2. Len(args) >= 1
    BY <1>2
  <2>3. CASE m \notin DOMAIN VariadicCommands
    BY <1>2, <2>1, <2>2, <2>3, LeastLengths DEF Shaped, Listed
  <2>4. CASE m \in DOMAIN VariadicCommands
    <3>1. Len(args) >= 2 /\ (1 + Len(args)) % 2 = 1 /\ (2 + Len(args)) % 2 = 0
      BY <2>2, <2>4
    <3> QED
      BY <1>2, <2>1, <2>2, <3>1, LeastLengths, PairedLengths DEF Shaped, Listed
  <2> QED
    BY <2>3, <2>4
<1>3. CASE c.tail = "map"
  <2>1. \A k \in {0, 1} : c.fixed = k => Argc(c, args) = 1 + k + 2 * Len(args)
    BY <1>3 DEF Argc
  <2>2. /\ Len(args) >= 1
        /\ (1 + 2 * Len(args)) % 2 = 1 /\ (2 + 2 * Len(args)) % 2 = 0
    BY <1>3
  <2> QED
    BY <1>3, <2>1, <2>2, PairedLengths DEF Shaped, Mapped
<1> QED
  BY <1>1, <1>2, <1>3 DEF Shaped

-----------------------------------------------------------------------------
(* The decoders                                                            *)

\* Whatever comes back, a decoder throws one of the two classes or nothing.
LEMMA DecoderThrows ==
  ASSUME NEW d \in DOMAIN Wanting, NEW r, NEW keys
  PROVE  Decode(d, r, keys).exc \in DecoderExceptions
<1>1. \A ret, out : Outcome(ret, out).exc = "none" /\ Thrown(r, out).exc \in DecoderExceptions
  BY DEF Outcome, Thrown, DecoderExceptions
<1>2. recv_ok_reply(r).exc \in DecoderExceptions
  BY <1>1 DEF recv_ok_reply, DecoderExceptions
<1>3. recv_status_reply(r).exc \in DecoderExceptions
  BY <1>1 DEF recv_status_reply, DecoderExceptions
<1>4. recv_int_reply(r).exc \in DecoderExceptions
  BY <1>1 DEF recv_int_reply, DecoderExceptions
<1>5. recv_float_reply(r).exc \in DecoderExceptions
  BY <1>1 DEF recv_float_reply, DecoderExceptions
<1>6. recv_string_reply(r).exc \in DecoderExceptions
  BY <1>1 DEF recv_string_reply, DecoderExceptions
<1>7. recv_string_array_reply(r).exc \in DecoderExceptions
  BY <1>1 DEF recv_string_array_reply, DecoderExceptions
<1>8. recv_string_set_reply(r).exc \in DecoderExceptions
  BY <1>1 DEF recv_string_set_reply, DecoderExceptions
<1>9. recv_string_map_reply(r, keys).exc \in DecoderExceptions
  BY <1>1 DEF recv_string_map_reply, DecoderExceptions
<1>10. recv_string_hash_map_reply(r).exc \in DecoderExceptions
  BY <1>1 DEF recv_string_hash_map_reply, DecoderExceptions
<1> QED
  BY <1>2, <1>3, <1>4, <1>5, <1>6, <1>7, <1>8, <1>9, <1>10
  DEF Decode, Wanting, recv_string_field_map_reply

\* An error is thrown as a ValueException, or is the -1 of a string decoder.
LEMMA FailureThrown ==
  ASSUME NEW d \in DOMAIN Wanting, d # "string", NEW r, r.type = "error", NEW keys
  PROVE  Decode(d, r, keys).exc = "ValueException"
<1>1. \A out : Thrown(r, out).exc = "ValueException"
  BY DEF Thrown
<1>2. \E out : Decode(d, r, keys) = Thrown(r, out)
  BY DEF Decode, Wanting, recv_ok_reply, recv_status_reply, recv_int_reply,
     recv_float_reply, recv_string_array_reply, recv_string_set_reply,
     recv_string_map_reply, recv_string_field_map_reply, recv_string_hash_map_reply
<1> QED
  BY <1>1, <1>2

LEMMA FailureSurfaces ==
  ASSUME NEW d \in DOMAIN Wanting, NEW r, r.type = "error", NEW keys
  PROVE  \/ Decode(d, r, keys).exc = "ValueException"
         \/ Decode(d, r, keys).exc = "none" /\ Decode(d, r, keys).ret = -1
<1>1. CASE d = "string"
  BY <1>1 DEF Decode, recv_string_reply, Outcome
<1> QED
  BY <1>1, FailureThrown

LEMMA UpToIsSeq ==
  ASSUME NEW S, NEW f \in UpTo(S)
  PROVE  /\ f \in Seq(S) /\ Len(f) \in Nat
         /\ DOMAIN f = 1 .. Len(f) /\ \A i \in 1 .. Len(f) : f[i] \in S
<1>1. PICK n \in 0 .. MaxArgs : f \in [1 .. n -> S]
  BY DEF UpTo
<1>2. n \in Nat
  BY CommandsAssumption
<1>3. f \in Seq(S) /\ Len(f) = n
  BY <1>1, <1>2, SeqDef, LenProperties
<1> QED
  BY <1>1, <1>2, <1>3

\* What an array reply of strings and nils is.
Element == {Nil} \cup {Bulk(v) : v \in Values}

LEMMA StringElements ==
  ASSUME NEW n \in Nat, NEW e \in [1 .. n -> Element]
  PROVE  /\ Strings(Array(e)) = {i \in 1 .. n : e[i] # Nil}
         /\ \A i \in Strings(Array(e)) : e[i] = Bulk(Texts(Array(e))[i])
<1>1. Array(e).element = e /\ DOMAIN e = 1 .. n
  BY DEF Array
<1>2. \A i \in 1 .. n : e[i].type = "string" <=> e[i] # Nil
  BY DEF Element, Nil, Bulk
<1>3. \A i \in 1 .. n : e[i].type = "string" => e[i] = Bulk(e[i].str)
  BY DEF Element, Nil, Bulk
<1> QED
  BY <1>1, <1>2, <1>3 DEF Strings, Texts

\* The pairs of a hash reply: fields and values in turn, all of them strings.
LEMMA PairElements ==
  ASSUME NEW count, NEW r \in OfKind("pairs", count)
  PROVE  \E n \in Nat :
           /\ r.type = "array" /\ DOMAIN r.element = 1 .. n /\ Len(r.element) = n
           /\ n % 2 = 0 /\ Strings(r) = 1 .. n
           /\ \A i \in 1 .. n : Texts(r)[i] \in IF i % 2 = 1 THEN Keys ELSE Values
<1>1. PICK f \in UpTo({Bulk(v) : v \in Keys \cup Values}) :
        /\ r = Array(f) /\ Len(f) % 2 = 0
        /\ \A i \in DOMAIN f : f[i].str \in IF i % 2 = 1 THEN Keys ELSE Values
  BY DEF OfKind
<1>2. /\ Len(f) \in Nat /\ DOMAIN f = 1 .. Len(f)
      /\ \A i \in 1 .. Len(f) : f[i] \in {Bulk(v) : v \in Keys \cup Values}
  BY UpToIsSeq
<1>3. r.type = "array" /\ r.element = f
  BY <1>1 DEF Array
<1>4. \A i \in 1 .. Len(f) : f[i].type = "string"
  BY <1>2 DEF Bulk
<1>5. Strings(r) = 1 .. Len(f)
  BY <1>2, <1>3, <1>4 DEF Strings
<1>6. \A i \in 1 .. Len(f) : Texts(r)[i] \in IF i % 2 = 1 THEN Keys ELSE Values
  BY <1>1, <1>2, <1>3, <1>5 DEF Texts
<1> QED
  BY <1>1, <1>2, <1>3, <1>5, <1>6

\* The fields of a hash reply, by position: one for each value, none of them bad.
LEMMA HashPositions ==
  ASSUME NEW n \in Nat, n % 2 = 0
  PROVE  /\ \A i \in 1 .. n : i % 2 = 1 => i + 1 \in 1 .. n /\ (i + 1) % 2 = 0
         /\ IsFiniteSet({i \in 1 .. n : i % 2 = 1})
         /\ 2 * Cardinality({i \in 1 .. n : i % 2 = 1}) = n
<1> DEFINE odd == {i \in 1 .. n : i % 2 = 1}
<1>1. \A i \in 1 .. n : i % 2 = 1 => i + 1 \in 1 .. n /\ (i + 1) % 2 = 0
  OBVIOUS
<1>2. PICK k \in Nat : n = 2 * k
  <2>1. n = 2 * (n \div 2) /\ n \div 2 \in Nat
    OBVIOUS
  <2> QED
    BY <2>1
<1>3. ExistsBijection(1 .. k, odd)
  <2> DEFINE f == [i \in 1 .. k |-> 2 * i - 1]
  <2>1. f \in [1 .. k -> odd]
    BY <1>2
  <2>2. \A i, j \in 1 .. k : f[i] = f[j] => i = j
    OBVIOUS
  <2>3. ASSUME NEW x \in odd PROVE \E i \in 1 .. k : f[i] = x
    <3>1. x = 2 * ((x + 1) \div 2) - 1 /\ (x + 1) \div 2 \in 1 .. k
      BY <1>2
    <3> QED
      BY <3>1
  <2> QED
    BY <2>1, <2>2, <2>3, Fun_IsBij, Fun_ExistsBij
<1> HIDE DEF odd
<1>4. Cardinality(odd) = k
  BY <1>2, <1>3, FS_CountingElements
<1>5. IsFiniteSet(odd)
  BY <1>2, <1>3, FS_NatBijection
<1> QED
  BY <1>1, <1>2, <1>4, <1>5 DEF odd

-----------------------------------------------------------------------------
(* Replies of the kinds a decoder wants                                    *)

\* The hash decoder uses up a reply of pairs: every field keeps its value.
LEMMA HashDecoded ==
  ASSUME NEW count, NEW r \in OfKind("pairs", count)
  PROVE  LET res == recv_string_hash_map_reply(r)
         IN /\ res.exc = "none"
            /\ 2 * res.ret = Len(r.element)
            /\ \A e \in res.out : e[1] \in Keys /\ e[2] \in Values
<1>1. PICK n \in Nat :
        /\ r.type = "array" /\ DOMAIN r.element = 1 .. n /\ Len(r.element) = n
        /\ n % 2 = 0 /\ Strings(r) = 1 .. n
        /\ \A i \in 1 .. n : Texts(r)[i] \in IF i % 2 = 1 THEN Keys ELSE Values
  BY PairElements
<1>2. Fields(r) = {i \in 1 .. n : i % 2 = 1}
  BY <1>1 DEF Fields
<1>3. /\ \A i \in Fields(r) : i + 1 \in 1 .. n /\ (i + 1) % 2 = 0
      /\ 2 * Cardinality(Fields(r)) = n
  BY <1>1, <1>2, HashPositions
<1>4. Broken(r) = {}
  BY <1>1, <1>2, <1>3 DEF Broken
<1>5. ASSUME NEW e \in Entries(r) PROVE e[1] \in Keys /\ e[2] \in Values
  <2>1. PICK i \in Taken(r) : e = <<Texts(r)[i], [j \in Taken(r) |-> Texts(r)[j + 1]][i]>>
    BY <1>5 DEF Entries, Assigned
  <2>2. /\ i \in 1 .. n /\ i % 2 = 1
        /\ i + 1 \in 1 .. n /\ (i + 1) % 2 = 0
    BY <1>2, <1>3, <2>1 DEF Taken
  <2>3. e[1] = Texts(r)[i] /\ e[2] = Texts(r)[i + 1]
    BY <2>1
  <2> QED
    BY <1>1, <2>2, <2>3
<1>6. recv_string_hash_map_reply(r) = Outcome(Cardinality(Fields(r)), Entries(r))
  BY <1>1, <1>4 DEF recv_string_hash_map_reply
<1> QED
  BY <1>1, <1>3, <1>5, <1>6 DEF Outcome

\* A decoder throws for such a reply only when it is nil.
LEMMA FittingReplies ==
  ASSUME NEW d \in DOMAIN Wanting, NEW kind \in Fit[d], NEW count \in Nat,
         NEW r \in OfKind(kind, count), NEW keys
  PROVE  Decode(d, r, keys).exc # "RedisException"
<1>1. \A ret, out : Outcome(ret, out).exc = "none"
  BY DEF Outcome
<1>2. CASE kind = "pairs"
  <2>1. d = "hash" /\ r \in OfKind("pairs", count)
    BY <1>2 DEF Fit, Wanting
  <2> QED
    BY <2>1, HashDecoded DEF Decode
<1>3. CASE kind = "nil"
  <2>1. r.type = "nil"
    BY <1>3 DEF OfKind, Nil
  <2>2. \A out : Thrown(r, out).exc = "ValueException"
    BY <2>1 DEF Thrown
  <2>3. d \in {"string", "array"}
    BY <1>3 DEF Fit, Wanting
  <2> QED
    BY <1>1, <2>1, <2>2, <2>3 DEF Decode, recv_string_reply, recv_string_array_reply
<1>4. CASE kind \in {"OK", "word"}
  <2>1. r.type = "status" /\ d \in {"ok", "status"}
    BY <1>4 DEF OfKind, Status, Fit, Wanting
  <2> QED
    BY <1>1, <2>1 DEF Decode, recv_ok_reply, recv_status_reply
<1>5. CASE kind = "int"
  <2>1. r.type = "integer" /\ d = "int"
    BY <1>5 DEF OfKind, Integer, Fit, Wanting
  <2> QED
    BY <1>1, <2>1 DEF Decode, recv_int_reply
<1>6. CASE kind = "bulk"
  <2>1. r.type = "string" /\ d \in {"float", "string"}
    BY <1>6 DEF OfKind, Bulk, Fit, Wanting
  <2> QED
    BY <1>1, <2>1 DEF Decode, recv_float_reply, recv_string_reply
<1>7. CASE kind \in {"bulks", "each"}
  <2>1. r.type = "array"
    <3>1. ASSUME kind = "bulks" PROVE \E e : r = Array(e)
      <4>1. r \in OfKind("bulks", count)
        BY <3>1
      <4> QED
        BY <4>1 DEF OfKind
    <3>2. ASSUME kind = "each" PROVE \E e : r = Array(e)
      <4>1. r \in OfKind("each", count)
        BY <3>2
      <4> QED
        BY <4>1 DEF OfKind
    <3> QED
      BY <1>7, <3>1, <3>2 DEF Array
  <2>2. d \in {"array", "set", "map", "fields"}
    BY <1>7 DEF Fit, Wanting
  <2> QED
    BY <1>1, <2>1, <2>2 DEF Decode, recv_string_array_reply, recv_string_set_reply,
         recv_string_map_reply, recv_string_field_map_reply
<1>8. kind \in {"pairs", "nil", "OK", "word", "int", "bulk", "bulks", "each"}
  BY DEF Fit, Wanting
<1> QED
  BY <1>2, <1>3, <1>4, <1>5, <1>6, <1>7, <1>8

\* Finitely many positions have a last one.
LEMMA LastPosition ==
  ASSUME NEW n \in Nat, NEW I \in SUBSET (1 .. n), I # {}
  PROVE  \E j \in I : \A k \in I : k <= j
<1> DEFINE T == {n - j : j \in I}
           R == {ss \in Nat \X Nat : ss[1] < ss[2]}
<1>1. \A j \in I : n - j \in Nat
  OBVIOUS
<1>2. T \subseteq Nat
  BY <1>1
<1>3. T # {}
  OBVIOUS
<1>4. IsWellFoundedOn(R, Nat)
  BY NatLessThanWellFounded DEF OpToRel
<1>5. PICK x \in T : \A y \in T : <<y, x>> \notin R
  <2> HIDE DEF T, R
  <2> QED
    BY <1>2, <1>3, <1>4, WFMin
<1>6. \A y \in T : ~(y < x)
  BY <1>2, <1>5
<1>7. PICK j \in I : x = n - j
  BY <1>5
<1>8. ASSUME NEW k \in I PROVE k <= j
  <2>1. n - k \in T /\ ~(n - k < n - j)
    BY <1>6, <1>7
  <2> QED
    BY <1>7, <2>1
<1> QED
  BY <1>7, <1>8

\* The map of a reply with one element for each key pairs them by position.
LEMMA MapDecoded ==
  ASSUME NEW n \in Nat, NEW keys, NEW e \in [1 .. n -> Element]
  PROVE  LET out == recv_string_map_reply(Array(e), keys).out
         IN /\ {p[1] : p \in out} = {keys[i] : i \in {j \in 1 .. n : e[j] # Nil}}
            /\ \A p, q \in out : p[1] = q[1] => p = q
            /\ \A p \in out : \E i \in 1 .. n :
                 keys[i] = p[1] /\ e[i] = Bulk(p[2])
<1> DEFINE r == Array(e)
           I == Strings(r)
           out == Assigned(I, keys, Texts(r))
<1>1. /\ I = {i \in 1 .. n : e[i] # Nil}
      /\ \A i \in I : e[i] = Bulk(Texts(r)[i])
  BY StringElements
<1>2. recv_string_map_reply(r, keys).out = out
  BY DEF recv_string_map_reply, Outcome, Array
<1> HIDE DEF r, I
<1>3. ASSUME NEW p \in out
      PROVE  \E i \in I : /\ p[1] = keys[i] /\ p[2] = Texts(r)[i]
                          /\ p = <<keys[i], Texts(r)[i]>>
                          /\ \A k \in I : keys[k] = keys[i] => k <= i
  BY <1>3 DEF Assigned
<1>4. ASSUME NEW p \in out, NEW q \in out, p[1] = q[1] PROVE p = q
  <2>1. PICK i \in I : /\ p[1] = keys[i] /\ p = <<keys[i], Texts(r)[i]>>
                       /\ \A k \in I : keys[k] = keys[i] => k <= i
    BY <1>3
  <2>2. PICK k \in I : /\ q[1] = keys[k] /\ q = <<keys[k], Texts(r)[k]>>
                       /\ \A j \in I : keys[j] = keys[k] => j <= k
    BY <1>3
  <2>3. keys[i] = keys[k]
    BY <1>4, <2>1, <2>2
  <2>4. i <= k /\ k <= i /\ i \in Nat /\ k \in Nat
    BY <1>1, <2>1, <2>2, <2>3
  <2>5. i = k
    BY <2>4
  <2> QED
    BY <2>1, <2>2, <2>5
<1>5. ASSUME NEW i \in I PROVE \E p \in out : p[1] = keys[i]
  <2>1. PICK j \in I : keys[j] = keys[i] /\ \A k \in I : keys[k] = keys[j] => k <= j
    <3> DEFINE same == {k \in I : keys[k] = keys[i]}
    <3>1. same \in SUBSET (1 .. n) /\ same # {}
      BY <1>1
    <3>2. PICK j \in same : \A k \in same : k <= j
      <4> HIDE DEF same
      <4> QED
        BY <3>1, LastPosition
    <3> QED
      BY <3>2
  <2>2. <<keys[j], Texts(r)[j]>> \in out
    BY <2>1 DEF Assigned
  <2> QED
    BY <2>1, <2>2
<1> HIDE DEF out
<1>6. {p[1] : p \in out} = {keys[i] : i \in I}
  BY <1>3, <1>5
<1>7. \A p \in out : \E i \in 1 .. n : keys[i] = p[1] /\ e[i] = Bulk(p[2])
  BY <1>1, <1>3
<1> QED
  BY <1>1, <1>2, <1>4, <1>6, <1>7 DEF r

-----------------------------------------------------------------------------
(* Urls                                                                    *)

\* Concatenation under a name of its own: the provers rewrite \o, and facts about
\* every a \o b are then instances of nothing they see.
Join(a, b) == a \o b

\* Texts joined are a text, in whichever order they are joined.
LEMMA JoinTyped == \A a, b \in Seq(Tokens) : Join(a, b) \in Seq(Tokens)
  BY DEF Join

LEMMA JoinAssociates ==
  \A a, b, c \in Seq(Tokens) : Join(Join(a, b), c) = Join(a, Join(b, c))
<1> SUFFICES ASSUME NEW a \in Seq(Tokens), NEW b \in Seq(Tokens), NEW c \in Seq(Tokens)
             PROVE  (a \o b) \o c = a \o (b \o c)
  BY DEF Join
<1> QED
  OBVIOUS

\* The first of the places of a set.
LEMMA FirstPlace ==
  ASSUME NEW I \in SUBSET Nat, NEW k \in I, \A i \in I : k <= i
  PROVE  U!First(I) = k
<1>1. ASSUME NEW x \in I, \A y \in I : x <= y PROVE x = k
  <2>1. x <= k /\ k <= x /\ x \in Nat /\ k \in Nat
    BY <1>1
  <2> QED
    BY <2>1
<1> QED
  BY <1>1 DEF U!First

\* A token that a text does not have.
Without(text, t) == \A i \in 1 .. Len(text) : text[i] # t

\* A text cut at the first place of a token: what is before it and what is after.
LEMMA CutAtToken ==
  ASSUME NEW a \in Seq(Tokens), NEW b \in Seq(Tokens), NEW t \in Tokens,
         Without(a, t), NEW text, text = Join(Join(a, <<t>>), b)
  PROVE  U!Has(text, t) /\ U!Before(text, t) = a /\ U!After(text, t) = b
<1> DEFINE n == Len(a)
           m == Len(b)
<1>1. <<t>> \in Seq(Tokens) /\ a \o <<t>> \in Seq(Tokens) /\ Len(a \o <<t>>) = n + 1 /\ n \in Nat /\ m \in Nat
  OBVIOUS
<1>2. \A i \in 1 .. n + 1 : (a \o <<t>>)[i] = IF i <= n THEN a[i] ELSE t
  BY <1>1
<1>3. text \in Seq(Tokens) /\ Len(text) = n + 1 + m
  BY <1>1 DEF Join
<1>4. \A i \in 1 .. n + 1 + m : text[i] = IF i <= n THEN a[i] ELSE IF i = n + 1 THEN t ELSE b[i - (n + 1)]
  BY <1>1, <1>2, ConcatProperties DEF Join
<1>5. U!Places(text, t) \subseteq Nat /\ n + 1 \in U!Places(text, t)
  BY <1>1, <1>3, <1>4 DEF U!Places
<1>6. ASSUME NEW i \in U!Places(text, t) PROVE n + 1 <= i
  <2>1. i \in 1 .. n + 1 + m /\ text[i] = t
    BY <1>3 DEF U!Places
  <2>2. i <= n => text[i] = a[i] /\ a[i] # t
    BY <1>1, <1>4, <2>1 DEF Without
  <2> QED
    BY <1>1, <2>1, <2>2
<1>7. U!Find(text, t) = n + 1 /\ U!Has(text, t)
  BY <1>5, <1>6, FirstPlace DEF U!Find, U!Has
<1>8. U!Before(text, t) = SubSeq(text, 1, n)
  BY <1>1, <1>7 DEF U!Before
<1>9. SubSeq(text, 1, n) = a
  BY <1>1, <1>3, <1>4, SMTT(30)
<1>10. U!After(text, t) = SubSeq(text, n + 1 + 1, n + 1 + m)
  BY <1>3, <1>7, Zenon DEF U!After
<1>11. SubSeq(text, n + 1 + 1, n + 1 + m) = b
  BY <1>1, <1>3, <1>4, SMTT(30)
<1> QED
  BY <1>7, <1>8, <1>9, <1>10, <1>11

\* A text without the token is not cut.
LEMMA NothingToCut ==
  ASSUME NEW a \in Seq(Tokens), NEW t, Without(a, t)
  PROVE  ~U!Has(a, t) /\ U!Before(a, t) = a /\ U!After(a, t) = <<>>
  BY DEF Without, U!Has, U!Places, U!Before, U!After

\* A token of neither text is not in the two joined.
LEMMA WithoutBoth ==
  ASSUME NEW a \in Seq(Tokens), NEW b \in Seq(Tokens), NEW t,
         Without(a, t), Without(b, t)
  PROVE  Without(a \o b, t)
<1>1. Len(a) \in Nat /\ Len(b) \in Nat
  OBVIOUS
<1> QED
  BY <1>1, ConcatProperties DEF Without

\* What Escaped says of a part, as the parser looks at it.
LEMMA LacksWithout ==
  ASSUME NEW a \in Seq(Tokens), a # NULL, NEW S, NEW t \in S, Lacks(a, S)
  PROVE  Without(a, t)
  BY DEF Lacks, ToSet, Without

\* "://" stands where its three tokens do.
LEMMA SeparatorTokens ==
  ASSUME NEW a \in Seq(Tokens), NEW i \in 1 .. Len(a) - 2
  PROVE  i \in U!Separators(a) <=> a[i] = ":" /\ a[i + 1] = "/" /\ a[i + 2] = "/"
<1>1. Len(a) \in Nat
  OBVIOUS
<1> DEFINE w == SubSeq(a, i, i + 2)
<1>2. i \in Int /\ i + 2 \in Int /\ i <= i + 2 /\ \A j \in i .. i + 2 : a[j] \in Tokens
  BY <1>1
<1>3. /\ w \in Seq(Tokens) /\ Len(w) = 3
      /\ \A j \in 1 .. 3 : w[j] = a[i + j - 1]
  BY <1>2, SubSeqProperties, SMTT(30)
<1>4. w[1] = a[i] /\ w[2] = a[i + 1] /\ w[3] = a[i + 2]
  BY <1>2, <1>3
<1> HIDE DEF w
<1>5. ASSUME w[1] = ":", w[2] = "/", w[3] = "/"
      PROVE  w = <<":", "/", "/">>
  <2>1. /\ <<w[1], w[2], w[3]>> \in Seq(Tokens) /\ Len(<<w[1], w[2], w[3]>>) = 3
        /\ \A j \in 1 .. 3 : w[j] = <<w[1], w[2], w[3]>>[j]
    BY <1>3
  <2>2. w = <<w[1], w[2], w[3]>>
    BY <1>3, <2>1, SeqEqual
  <2> QED
    BY <1>5, <2>2
<1>6. w = <<":", "/", "/">> => w[1] = ":" /\ w[2] = "/" /\ w[3] = "/"
  OBVIOUS
<1>7. i \in U!Separators(a) <=> w = <<":", "/", "/">>
  BY DEF U!Separators, w
<1> QED
  BY <1>4, <1>5, <1>6, <1>7

\* A text cut at "://": a scheme that ends in ":" or in ":/" does not move it.
LEMMA CutAtScheme ==
  ASSUME NEW a \in Seq(Tokens), NEW b \in Seq(Tokens),
         U!Separators(a) = {},
         NEW text, text = Join(Join(a, <<":", "/", "/">>), b)
  PROVE  /\ U!Separators(text) # {}
         /\ SubSeq(text, 1, U!First(U!Separators(text)) - 1) = a
         /\ SubSeq(text, U!First(U!Separators(text)) + 3, Len(text)) = b
<1> DEFINE mark == <<":", "/", "/">>
           n == Len(a)
           m == Len(b)
<1>0. {":", "/"} \subseteq Tokens
  BY UrlsAssumption
<1>1. /\ mark \in Seq(Tokens) /\ a \o mark \in Seq(Tokens)
      /\ Len(a \o mark) = n + 3 /\ n \in Nat /\ m \in Nat
  BY <1>0
<1>2. \A i \in 1 .. n + 3 : (a \o mark)[i] = IF i <= n THEN a[i] ELSE mark[i - n]
  BY <1>1, ConcatProperties
<1>3. text \in Seq(Tokens) /\ Len(text) = n + 3 + m
  BY <1>1 DEF Join
<1>4. \A i \in 1 .. n + 3 + m :
        text[i] = IF i <= n THEN a[i] ELSE IF i <= n + 3 THEN mark[i - n] ELSE b[i - (n + 3)]
  BY <1>1, <1>2, ConcatProperties DEF Join
<1>5. text[n + 1] = ":" /\ text[n + 2] = "/" /\ text[n + 3] = "/"
  BY <1>1, <1>4, SMTT(30)
<1>6. U!Separators(text) \subseteq 1 .. n + 1 + m
  BY <1>1, <1>3 DEF U!Separators
<1>7. n + 1 \in U!Separators(text)
  <2> DEFINE k == n + 1
  <2>1. k \in 1 .. Len(text) - 2 /\ k + 1 = n + 2 /\ k + 2 = n + 3
    BY <1>1, <1>3
  <2>2. text[k] = ":" /\ text[k + 1] = "/" /\ text[k + 2] = "/"
    BY <1>5, <2>1
  <2> HIDE DEF k
  <2>3. k \in U!Separators(text)
    BY <1>3, <2>1, <2>2, SeparatorTokens
  <2> QED
    BY <2>3 DEF k
<1>8. ASSUME NEW i \in U!Separators(text), i <= n PROVE FALSE
  <2>1. i \in 1 .. n /\ text[i] = ":" /\ text[i + 1] = "/" /\ text[i + 2] = "/"
    <3>1. i \in 1 .. n /\ i \in 1 .. Len(text) - 2
      BY <1>1, <1>3, <1>6, <1>8
    <3> QED
      BY <1>3, <3>1, SeparatorTokens
  <2>2. i + 2 <= n
    BY <1>1, <1>5, <2>1
  <2>3. \A j \in 1 .. n : text[j] = a[j]
    BY <1>1, <1>4
  <2>5. i + 1 \in 1 .. n /\ i + 2 \in 1 .. n
    BY <1>1, <2>1, <2>2
  <2>4. i \in 1 .. Len(a) - 2
    BY <1>1, <2>1, <2>2
  <2> QED
    BY <2>1, <2>3, <2>4, <2>5, SeparatorTokens
<1>9. \A i \in U!Separators(text) : n + 1 <= i
  BY <1>1, <1>6, <1>8
<1>10. U!First(U!Separators(text)) = n + 1
  BY <1>1, <1>6, <1>7, <1>9, FirstPlace
<1>11. SubSeq(text, 1, n) = a
  BY <1>1, <1>3, <1>4
<1>12. SubSeq(text, n + 4, n + 3 + m) = b
  <2>1. /\ SubSeq(text, n + 4, n + 3 + m) \in Seq(Tokens)
        /\ Len(SubSeq(text, n + 4, n + 3 + m)) = m
        /\ \A i \in 1 .. m : SubSeq(text, n + 4, n + 3 + m)[i] = text[n + 3 + i]
    BY <1>1, <1>3
  <2>2. \A i \in 1 .. m : text[n + 3 + i] = b[i]
    BY <1>1, <1>4
  <2> QED
    BY <1>1, <2>1, <2>2
<1>13. n + 1 - 1 = n /\ n + 1 + 3 = n + 4
  BY <1>1
<1>14. /\ U!First(U!Separators(text)) - 1 = n
       /\ U!First(U!Separators(text)) + 3 = n + 4
  BY <1>10, <1>13
<1> QED
  BY <1>3, <1>7, <1>11, <1>12, <1>14, Zenon

\* The text of a url by what the parser cuts out of it.
Address(u) == u.host \o Part(<<":">>, u.port, <<>>)
Netloc(u) == Part(<<>>, u.userinfo, <<"@">>) \o Address(u)
Remain(u) == Part(<<"/">>, u.path, <<>>) \o Part(<<"?">>, u.query, <<>>)

\* The parts of a url, and what is made of them, are texts.
LEMMA UrlTyped ==
  ASSUME NEW u \in Urls
  PROVE  /\ u.scheme \in Seq(Tokens) /\ u.host \in Seq(Tokens)
         /\ u.userinfo # NULL => u.userinfo \in Seq(Tokens)
         /\ u.port # NULL => u.port \in Seq(Tokens)
         /\ u.path # NULL => u.path \in Seq(Tokens)
         /\ u.query # NULL => u.query \in Seq(Tokens)
         /\ Part(<<>>, u.userinfo, <<"@">>) \in Seq(Tokens)
         /\ Part(<<":">>, u.port, <<>>) \in Seq(Tokens)
         /\ Part(<<"/">>, u.path, <<>>) \in Seq(Tokens)
         /\ Part(<<"?">>, u.query, <<>>) \in Seq(Tokens)
         /\ Address(u) \in Seq(Tokens) /\ Netloc(u) \in Seq(Tokens)
         /\ Remain(u) \in Seq(Tokens)
<1>1. u \in [scheme : Seq(Tokens), userinfo : Seq(Tokens) \cup {NULL},
             host : Seq(Tokens), port : Seq(Tokens) \cup {NULL},
             path : Seq(Tokens) \cup {NULL}, query : Seq(Tokens) \cup {NULL}]
  BY UrlsAssumption
<1>2. /\ <<":">> \in Seq(Tokens) /\ <<"/">> \in Seq(Tokens) /\ <<"@">> \in Seq(Tokens)
      /\ <<"?">> \in Seq(Tokens) /\ <<>> \in Seq(Tokens)
  BY UrlsAssumption
<1>3. ASSUME NEW b \in Seq(Tokens), NEW e \in Seq(Tokens), NEW t \in Seq(Tokens) \cup {NULL}
      PROVE  Part(b, t, e) \in Seq(Tokens)
  BY <1>2, ConcatProperties DEF Part
<1>4. /\ Part(<<>>, u.userinfo, <<"@">>) \in Seq(Tokens)
      /\ Part(<<":">>, u.port, <<>>) \in Seq(Tokens)
      /\ Part(<<"/">>, u.path, <<>>) \in Seq(Tokens)
      /\ Part(<<"?">>, u.query, <<>>) \in Seq(Tokens)
  BY <1>1, <1>2, <1>3
<1> QED
  BY <1>1, <1>4, ConcatProperties DEF Address, Netloc, Remain

\* The text of a url, by what the parser cuts it into.
LEMMA TextParts ==
  ASSUME NEW u \in Urls
  PROVE  Text(u) = Join(Join(u.scheme, <<":", "/", "/">>), Join(Netloc(u), Remain(u)))
<1> DEFINE s == u.scheme \o <<":", "/", "/">>
           a == Part(<<>>, u.userinfo, <<"@">>)
           h == u.host
           p == Part(<<":">>, u.port, <<>>)
           d == Part(<<"/">>, u.path, <<>>)
           q == Part(<<"?">>, u.query, <<>>)
<1>1. /\ a \in Seq(Tokens) /\ h \in Seq(Tokens) /\ p \in Seq(Tokens)
      /\ d \in Seq(Tokens) /\ q \in Seq(Tokens)
  BY UrlTyped
<1>2. s \in Seq(Tokens)
  <2>1. <<":", "/", "/">> \in Seq(Tokens)
    BY UrlsAssumption
  <2> QED
    BY <2>1, UrlTyped, ConcatProperties
<1>3. Text(u) = Join(Join(Join(Join(Join(s, a), h), p), d), q)
  BY DEF Text, Join
<1>4. Join(s, Join(Netloc(u), Remain(u))) = Join(s, Join(Join(a, Join(h, p)), Join(d, q)))
  BY DEF Netloc, Address, Remain, Join
<1> HIDE DEF s, a, h, p, d, q
<1>5. \A x, y, z, v \in Seq(Tokens) :
        Join(Join(Join(x, y), z), v) = Join(x, Join(y, Join(z, v)))
  BY JoinTyped, JoinAssociates
<1>6. Join(Join(Join(s, a), h), p) = Join(s, Join(a, Join(h, p)))
  BY <1>1, <1>2, <1>5
<1>7. Join(a, Join(h, p)) \in Seq(Tokens)
  BY <1>1, JoinTyped
<1>8. Join(Join(Join(s, Join(a, Join(h, p))), d), q)
        = Join(s, Join(Join(a, Join(h, p)), Join(d, q)))
  BY <1>1, <1>2, <1>5, <1>7
<1> QED
  BY <1>3, <1>4, <1>6, <1>8, Zenon DEF s, Join

\* What parse makes of the parts.
ParsedParts(u) ==
  IF Refusable(u) THEN U!Rejected
  ELSE U!Converted(u.host, u.port, IF u.path = NULL THEN <<>> ELSE u.path)

\* Without a separator that had to be escaped, the parser finds the parts that
\* the url was written from.
LEMMA ParseFindsParts ==
  ASSUME NEW u \in Urls, Escaped(u)
  PROVE  U!Parse(Text(u)) = ParsedParts(u)
<1> DEFINE text == Text(u)
           remain == SubSeq(text, U!First(U!Separators(text)) + 3, Len(text))
           scheme == SubSeq(text, 1, U!First(U!Separators(text)) - 1)
<1>1. /\ U!Separators(text) # {} /\ scheme = u.scheme
      /\ remain = Join(Netloc(u), Remain(u))
  <2>1. Netloc(u) \in Seq(Tokens) /\ Remain(u) \in Seq(Tokens)
        /\ Join(Netloc(u), Remain(u)) \in Seq(Tokens)
    BY UrlTyped, JoinTyped
  <2>2. u.scheme \in Seq(Tokens) /\ U!Separators(u.scheme) = {}
    BY UrlTyped DEF Escaped
  <2>3. text = Join(Join(u.scheme, <<":", "/", "/">>), Join(Netloc(u), Remain(u)))
    BY TextParts
  <2> HIDE DEF text
  <2> QED
    BY <2>1, <2>2, <2>3, CutAtScheme, SMTT(30)
<1>2. Without(Address(u), "/") /\ Without(Address(u), "@")
  <2>1. ASSUME NEW t \in {"/", "@"} PROVE Without(Address(u), t)
    <3>1. Without(u.host, t)
      <4>1. u.host \in Seq(Tokens) /\ u.host # NULL
        BY UrlTyped, UrlsAssumption
      <4> QED
        BY <4>1, LacksWithout DEF Escaped
    <3>2. Without(Part(<<":">>, u.port, <<>>), t)
      <4>1. CASE u.port = NULL
        BY <4>1 DEF Part, Without
      <4>2. CASE u.port # NULL
        <5>1. Without(u.port, t)
          BY <4>2, UrlTyped, LacksWithout DEF Escaped
        <5>2. Part(<<":">>, u.port, <<>>) = <<":">> \o u.port
          BY <4>2, UrlTyped, UrlsAssumption DEF Part
        <5>3. Without(<<":">>, t) /\ <<":">> \in Seq(Tokens)
          BY UrlsAssumption DEF Without
        <5> QED
          BY <4>2, <5>1, <5>2, <5>3, UrlTyped, WithoutBoth
      <4> QED
        BY <4>1, <4>2
    <3> QED
      BY <3>1, <3>2, UrlTyped, WithoutBoth DEF Address
  <2> QED
    BY <2>1
<1>3. Without(Netloc(u), "/")
  <2>1. Without(Part(<<>>, u.userinfo, <<"@">>), "/")
    <3>1. CASE u.userinfo = NULL
      BY <3>1 DEF Part, Without
    <3>2. CASE u.userinfo # NULL
      <4>1. Without(u.userinfo, "/") /\ u.userinfo \in Seq(Tokens)
        BY <3>2, UrlTyped, LacksWithout DEF Escaped
      <4>2. Part(<<>>, u.userinfo, <<"@">>) = u.userinfo \o <<"@">>
        BY <3>2, <4>1 DEF Part
      <4>3. Without(<<"@">>, "/") /\ <<"@">> \in Seq(Tokens)
        BY UrlsAssumption DEF Without
      <4> QED
        BY <4>1, <4>2, <4>3, WithoutBoth
    <3> QED
      BY <3>1, <3>2
  <2> QED
    BY <1>2, <2>1, UrlTyped, WithoutBoth DEF Netloc
<1>4. /\ U!Before(Join(Netloc(u), Remain(u)), "/") = Netloc(u)
      /\ U!Before(U!After(Join(Netloc(u), Remain(u)), "/"), "?")
           = IF u.path = NULL THEN <<>> ELSE u.path
  <2>1. CASE u.path = NULL
    <3>1. Remain(u) = <<>>
      BY <2>1 DEF Remain, Part, Escaped
    <3>2. Join(Netloc(u), Remain(u)) = Netloc(u)
      BY <3>1, UrlTyped, ConcatEmptySeq DEF Join
    <3>3. /\ U!Before(Netloc(u), "/") = Netloc(u)
          /\ U!After(Netloc(u), "/") = <<>>
      BY <1>3, UrlTyped, NothingToCut
    <3>4. <<>> \in Seq(Tokens) /\ Without(<<>>, "?")
      BY DEF Without
    <3>5. U!Before(<<>>, "?") = <<>>
      BY <3>4, NothingToCut
    <3> QED
      BY <2>1, <3>2, <3>3, <3>5
  <2>2. CASE u.path # NULL
    <3> DEFINE q == Part(<<"?">>, u.query, <<>>)
    <3>1. /\ u.path \in Seq(Tokens) /\ q \in Seq(Tokens)
          /\ Join(u.path, q) \in Seq(Tokens) /\ Netloc(u) \in Seq(Tokens) /\ {":", "/", "@", "?"} \subseteq Tokens
      BY <2>2, UrlTyped, UrlsAssumption, JoinTyped
    <3>2. Without(u.path, "?")
      BY <2>2, <3>1, LacksWithout DEF Escaped
    <3>3. Part(<<"/">>, u.path, <<>>) = Join(<<"/">>, u.path)
      BY <2>2, <3>1 DEF Part, Join
    <3>4. Join(Netloc(u), Remain(u)) = Join(Join(Netloc(u), <<"/">>), Join(u.path, q))
      <4>1. Remain(u) = Join(Join(<<"/">>, u.path), q)
        BY <3>3, Zenon DEF Remain, Join
      <4>2. <<"/">> \in Seq(Tokens)
        BY <3>1
      <4> HIDE DEF q
      <4> QED
        <5>1. Join(Join(<<"/">>, u.path), q) = Join(<<"/">>, Join(u.path, q))
          BY <3>1, <4>2, JoinAssociates
        <5>2. Join(Netloc(u), Join(<<"/">>, Join(u.path, q)))
                = Join(Join(Netloc(u), <<"/">>), Join(u.path, q))
          BY <3>1, <4>2, JoinAssociates
        <5> QED
          BY <4>1, <5>1, <5>2
    <3>5. /\ U!Before(Join(Netloc(u), Remain(u)), "/") = Netloc(u)
          /\ U!After(Join(Netloc(u), Remain(u)), "/") = Join(u.path, q)
      <4> HIDE DEF q
      <4> QED
        BY <1>3, <3>1, <3>4, CutAtToken
    <3>6. U!Before(Join(u.path, q), "?") = u.path
      <4>1. CASE u.query = NULL
        <5>1. Join(u.path, q) = u.path
          BY <3>1, <4>1, ConcatEmptySeq DEF Part, Join
        <5> QED
          BY <3>1, <3>2, <5>1, NothingToCut
      <4>2. CASE u.query # NULL
        <5>1. u.query \in Seq(Tokens)
          BY <4>2, UrlTyped
        <5>2. q = Join(<<"?">>, u.query)
          BY <4>2, <5>1 DEF Part, Join
        <5>3. <<"?">> \in Seq(Tokens)
          BY <3>1
        <5>4. Join(u.path, q) = Join(Join(u.path, <<"?">>), u.query)
          <6> HIDE DEF q
          <6>1. Join(u.path, Join(<<"?">>, u.query)) = Join(Join(u.path, <<"?">>), u.query)
            <7>1. u.path \in Seq(Tokens)
              BY <3>1
            <7> QED
              BY <5>1, <5>3, <7>1, JoinAssociates
          <6> QED
            BY <5>2, <6>1
        <5> HIDE DEF q
        <5> QED
          BY <3>1, <3>2, <5>1, <5>4, CutAtToken
      <4> QED
        BY <4>1, <4>2
    <3> QED
      BY <2>2, <3>5, <3>6
  <2> QED
    BY <2>1, <2>2
<1>5. /\ U!Has(Netloc(u), "@") <=> u.userinfo # NULL
      /\ u.userinfo # NULL => /\ U!Before(Netloc(u), "@") = u.userinfo
                             /\ U!After(Netloc(u), "@") = Address(u)
  <2>1. Address(u) \in Seq(Tokens) /\ "@" \in Tokens
    BY UrlTyped, UrlsAssumption
  <2>2. CASE u.userinfo = NULL
    <3>1. Netloc(u) = Address(u)
      BY <2>1, <2>2, ConcatEmptySeq DEF Netloc, Part
    <3> QED
      BY <1>2, <2>1, <2>2, <3>1, NothingToCut
  <2>3. CASE u.userinfo # NULL
    <3>1. u.userinfo \in Seq(Tokens)
      BY <2>3, UrlTyped
    <3>2. Without(u.userinfo, "@")
      BY <2>3, <3>1, LacksWithout DEF Escaped
    <3>3. Part(<<>>, u.userinfo, <<"@">>) = Join(u.userinfo, <<"@">>)
      BY <2>3, <3>1 DEF Part, Join
    <3>4. Netloc(u) = Join(Join(u.userinfo, <<"@">>), Address(u))
      BY <3>3, Zenon DEF Netloc, Join
    <3> QED
      BY <2>1, <2>3, <3>1, <3>2, <3>4, CutAtToken
  <2> QED
    BY <2>2, <2>3
<1>6. /\ U!Has(Address(u), ":") <=> u.port # NULL
      /\ u.port # NULL => /\ U!Before(Address(u), ":") = u.host
                         /\ U!After(Address(u), ":") = u.port
  <2>1. u.host \in Seq(Tokens) /\ u.host # NULL /\ ":" \in Tokens
    BY UrlTyped, UrlsAssumption
  <2>2. Without(u.host, ":")
    BY <2>1, LacksWithout DEF Escaped
  <2>3. CASE u.port = NULL
    <3>1. Address(u) = u.host
      BY <2>1, <2>3, ConcatEmptySeq DEF Address, Part
    <3> QED
      BY <2>1, <2>2, <2>3, <3>1, NothingToCut
  <2>4. CASE u.port # NULL
    <3>1. u.port \in Seq(Tokens) /\ <<":">> \in Seq(Tokens)
      BY <2>1, <2>4, UrlTyped
    <3>2. Part(<<":">>, u.port, <<>>) = Join(<<":">>, u.port)
      BY <2>4, <3>1 DEF Part, Join
    <3>3. Address(u) = Join(u.host, Join(<<":">>, u.port))
      BY <3>2, Zenon DEF Address, Join
    <3>4. Address(u) = Join(Join(u.host, <<":">>), u.port)
      BY <2>1, <3>1, <3>3, JoinAssociates
    <3> QED
      BY <2>1, <2>2, <2>4, <3>1, <3>4, CutAtToken
  <2> QED
    BY <2>3, <2>4
<1>7. u.userinfo # NULL => (U!Has(u.userinfo, ":") <=> ":" \in ToSet(u.userinfo))
  <2>1. ASSUME u.userinfo # NULL
        PROVE  U!Has(u.userinfo, ":") <=> ":" \in ToSet(u.userinfo)
    <3>1. u.userinfo \in Seq(Tokens)
      BY <2>1, UrlTyped
    <3>2. DOMAIN u.userinfo = 1 .. Len(u.userinfo)
      BY <3>1
    <3> QED
      BY <3>2 DEF U!Has, U!Places, ToSet
  <2> QED
    BY <2>1
<1>8. U!Parse(text) =
        IF \/ u.scheme \notin {<<r>> : r \in Redis}
           \/ u.userinfo # NULL /\ ~U!Has(u.userinfo, ":")
           \/ u.port = NULL
        THEN U!Rejected
        ELSE U!Converted(u.host, u.port, IF u.path = NULL THEN <<>> ELSE u.path)
  <2> DEFINE netloc == U!Before(remain, "/")
             path == U!Before(U!After(remain, "/"), "?")
             userinfo == U!Before(netloc, "@")
             address == IF U!Has(netloc, "@") THEN U!After(netloc, "@") ELSE netloc
  <2>1. U!Parse(text) =
          IF \/ U!Separators(text) = {}
             \/ scheme \notin {<<r>> : r \in Redis}
             \/ U!Has(netloc, "@") /\ ~U!Has(userinfo, ":")
             \/ ~U!Has(address, ":")
          THEN U!Rejected
          ELSE U!Converted(U!Before(address, ":"), U!After(address, ":"), path)
    BY DEF U!Parse
  <2>2. netloc = Netloc(u) /\ path = IF u.path = NULL THEN <<>> ELSE u.path
    BY <1>1, <1>4
  <2>3. address = Address(u)
    <3>1. u.userinfo = NULL => Netloc(u) = Address(u)
      BY UrlTyped, ConcatEmptySeq DEF Netloc, Part
    <3> QED
      BY <1>5, <2>2, <3>1
  <2> HIDE DEF netloc, path, address
  <2> QED
    BY <1>1, <1>5, <1>6, <2>1, <2>2, <2>3
<1> QED
  BY <1>7, <1>8 DEF ParsedParts, Refusable

\* What stoi returns is an int, and then 0 is one.
LEMMA StoiInRange ==
  ASSUME NEW text, U!StoiThrows(text) = "none"
  PROVE  U!Stoi(text) \in CInt /\ 0 \in CInt
<1>1. 2 ^ (IntBits - 1) \in Int
  BY RepliesAssumption
<1>2. /\ U!Stoi(text) \in Int
      /\ U!Stoi(text) <= 2 ^ (IntBits - 1) - 1
      /\ U!Stoi(text) >= -(2 ^ (IntBits - 1))
  BY <1>1, CommandsAssumption DEF U!Stoi, U!StoiThrows
<1>3. 2 ^ (IntBits - 1) >= 1
  BY <1>1, <1>2
<1> QED
  BY <1>1, <1>2, <1>3 DEF CInt

\* What is converted is a pool's port and db, or one of the exceptions of stoi.
LEMMA ConvertedInRange ==
  ASSUME NEW host, NEW port, NEW path
  PROVE  LET c == U!Converted(host, port, path)
         IN /\ c.result = "true" => c.uri.port \in CInt /\ c.uri.db \in CInt
            /\ c.result = "throws" => c.exc \in {"invalid_argument", "out_of_range"}
<1> DEFINE c == U!Converted(host, port, path)
<1>1. \A text : U!StoiThrows(text) \in {"none", "invalid_argument", "out_of_range"}
  BY DEF U!StoiThrows
<1>2. \/ /\ U!StoiThrows(port) # "none"
         /\ c = U!Throws(U!StoiThrows(port))
      \/ /\ U!StoiThrows(port) = "none"
         /\ c = U!Parsed(host, U!Stoi(port), 0)
      \/ /\ U!StoiThrows(path) # "none"
         /\ c = U!Throws(U!StoiThrows(path))
      \/ /\ U!StoiThrows(port) = "none" /\ U!StoiThrows(path) = "none"
         /\ c = U!Parsed(host, U!Stoi(port), U!Stoi(path))
  BY Zenon DEF U!Converted
<1> HIDE DEF c
<1>3. /\ c.result = "true" => c.uri.port \in CInt /\ c.uri.db \in CInt
      /\ c.result = "throws" => c.exc \in {"invalid_argument", "out_of_range"}
  BY <1>1, <1>2, StoiInRange DEF U!Parsed, U!Throws
<1> QED
  BY <1>3 DEF c

LEMMA ParsedInRange ==
  ASSUME NEW text
  PROVE  LET parsed == U!Parse(text)
         IN /\ parsed.result = "true" => parsed.uri.port \in CInt /\ parsed.uri.db \in CInt
            /\ parsed.result = "throws" => parsed.exc \in {"invalid_argument", "out_of_range"}
<1>1. \/ U!Parse(text) = U!Rejected
      \/ \E host, port, path : U!Parse(text) = U!Converted(host, port, path)
  BY DEF U!Parse
<1>2. U!Rejected.result \notin {"true", "throws"}
  BY DEF U!Rejected
<1> QED
  BY <1>1, <1>2, ConvertedInRange

-----------------------------------------------------------------------------
(* A call                                                                  *)

Sent(m, args) ==
  [word |-> Commands[m].word, argc |-> Argc(Commands[m], args)]
Possible(m, args) ==
  RedisReplies(Commands[m].word, Argc(Commands[m], args), Len(args))

\* What connect leaves of a parsed url.
ConnectedBy(parsed) ==
  \/ parsed.result = "true" /\ pool = parsed.uri
  \/ parsed.result = "false" /\ pool = NULL /\ outcome = Outcome(-1, NULL)
  \/ parsed.result = "throws" /\ pool = NULL /\ outcome = Raised(parsed.exc)

\* What a call has done so far: a reply is one Redis has for what was sent, and
\* an outcome is what the decoder makes of the reply, or comes from no reply.
CallInv ==
  /\ phase \in {"idle", "sent", "replied", "done"}
  /\ phase # "idle" => method \in Methods \cup {"connect"}
  /\ list \in UpTo(Keys)
  /\ phase \in {"sent", "replied"} => method \in Methods /\ wire = Sent(method, list)
  /\ phase \in {"idle", "sent"} => reply = NULL
  /\ phase = "replied" => reply \in Possible(method, list)
  /\ phase = "done" =>
       \/ method = "connect" /\ reply = NULL /\ outcome.exc \in ConnectExceptions
       \/ method \in Methods /\ reply = NULL /\ outcome.exc \in NoAnswerExceptions
       \/ /\ method \in Methods
          /\ reply \in Possible(method, list)
          /\ outcome = Decode(Commands[method].decoder, reply, list)
  /\ url \in Urls \cup {NULL}
  /\ pool # NULL => pool.port \in CInt /\ pool.db \in CInt
  /\ phase = "idle" => pool = NULL
  /\ phase = "done" /\ method = "connect" => url \in Urls /\ ConnectedBy(U!Parse(Text(url)))

\* No table has a method named connect.
LEMMA ConnectIsNoMethod == "connect" \notin Methods
<1>1. \A T \in Tables : "connect" \notin DOMAIN T
  BY DEF Tables, StringCommands, KeyCommands, SetCommands, HashCommands,
         ListCommands, PublishCommand, VariadicCommands
<1> QED
  BY <1>1 DEF Methods, Commands

LEMMA CallInvInit == Init => CallInv
<1>1. <<>> \in UpTo(Keys)
  <2>1. <<>> \in [1 .. 0 -> Keys] /\ 0 \in 0 .. MaxArgs
    BY CommandsAssumption
  <2> QED
    BY <2>1 DEF UpTo
<1> QED
  BY <1>1 DEF Init, CallInv

LEMMA CallInvNext == CallInv /\ [Next]_vars => CallInv'
<1> SUFFICES ASSUME CallInv, [Next]_vars PROVE CallInv'
  OBVIOUS
<1>1. ASSUME NEW m \in Methods, NEW args \in UpTo(Keys), NEW expiry \in {0, 1},
             Call(m, args, expiry)
      PROVE  CallInv'
  <2>1. /\ phase = "idle" /\ method' = m /\ list' = args
        /\ reply' = NULL /\ UNCHANGED <<url, pool>>
    BY <1>1 DEF Call, CallInv
  <2>2. CASE phase' = "done" /\ outcome' \in Early(m, args, expiry)
    <3>1. outcome'.exc = "none"
      BY <2>2 DEF Early, EarlyInStrings, EarlyInSets, Outcome
    <3>2. method' # "connect"
      BY <2>1, ConnectIsNoMethod
    <3> QED
      BY <2>1, <2>2, <3>1, <3>2 DEF CallInv, NoAnswerExceptions
  <2>3. CASE phase' = "sent" /\ wire' = Sent(m, args)
    BY <2>1, <2>3 DEF CallInv, Sent
  <2> QED
    BY <1>1, <2>2, <2>3 DEF Call, Sent
<1>2. ASSUME NEW u \in Urls, Connect(u) PROVE CallInv'
  <2> DEFINE parsed == U!Parse(Text(u))
  <2>1. /\ phase' = "done" /\ method' = "connect" /\ url' = u
        /\ list' = list /\ reply' = NULL
    BY <1>2 DEF Connect, CallInv
  <2>2. outcome'.exc \in ConnectExceptions
    <3>1. parsed.result = "throws" => parsed.exc \in {"invalid_argument", "out_of_range"}
      BY ParsedInRange
    <3> HIDE DEF parsed
    <3> QED
      BY <1>2, <3>1 DEF Connect, parsed, Outcome, Raised, ConnectExceptions
  <2>3. pool' = pool \/ (parsed.result = "true" /\ pool' = parsed.uri)
    <3> HIDE DEF parsed
    <3> QED
      BY <1>2 DEF Connect, parsed
  <2>4. pool' # NULL => pool'.port \in CInt /\ pool'.db \in CInt
    BY <2>3, ParsedInRange DEF CallInv
  <2>5. ConnectedBy(U!Parse(Text(url)))'
    <3>1. pool = NULL
      BY <1>2 DEF Connect, CallInv
    <3>2. \/ parsed.result = "true" /\ pool' = parsed.uri
          \/ parsed.result = "false" /\ outcome' = Outcome(-1, NULL) /\ pool' = pool
          \/ parsed.result = "throws" /\ outcome' = Raised(parsed.exc) /\ pool' = pool
      <4> HIDE DEF parsed
      <4> QED
        BY <1>2 DEF Connect, parsed
    <3>3. U!Parse(Text(url))' = parsed
      BY <2>1
    <3> HIDE DEF parsed
    <3> QED
      BY <3>1, <3>2, <3>3 DEF ConnectedBy
  <2> QED
    BY <2>1, <2>2, <2>4, <2>5 DEF CallInv
<1>3. CASE ServerReplies
  BY <1>3 DEF ServerReplies, CallInv, Possible, Sent
<1>4. CASE Unanswered
  <2>1. outcome'.exc \in NoAnswerExceptions
    BY <1>4 DEF Unanswered, Raised, NoAnswerExceptions
  <2> QED
    BY <1>4, <2>1, ConnectIsNoMethod DEF Unanswered, CallInv
<1>5. CASE Return
  BY <1>5, ConnectIsNoMethod DEF Return, CallInv, Possible
<1>6. CASE UNCHANGED vars
  <2>1. ConnectedBy(U!Parse(Text(url)))' <=> ConnectedBy(U!Parse(Text(url)))
    BY <1>6 DEF vars, ConnectedBy
  <2> QED
    BY <1>6, <2>1 DEF vars, CallInv, Possible, Sent
<1> QED
  BY <1>1, <1>2, <1>3, <1>4, <1>5, <1>6 DEF Next

LEMMA CallInvariant == Spec => []CallInv
  BY CallInvInit, CallInvNext, PTL DEF Spec

LEMMA PossibleKinds ==
  ASSUME NEW m \in Methods, NEW args, NEW r \in Possible(m, args)
  PROVE  \/ r = Failure
         \/ \E kind \in Server[Commands[m].word].kinds : r \in OfKind(kind, Len(args))
  BY DEF Possible, RedisReplies

LEMMA ReplyIsNotNull ==
  ASSUME NEW m \in Methods, NEW args \in UpTo(Keys), NEW r \in Possible(m, args)
  PROVE  r # NULL
<1>1. Commands[m].word \in DOMAIN Server
  BY EveryRow DEF Matched
<1>2. Len(args) \in 0 .. MaxArgs
  <2>1. PICK n \in 0 .. MaxArgs : args \in [1 .. n -> Keys]
    BY DEF UpTo
  <2>2. args \in Seq(Keys) /\ DOMAIN args = 1 .. Len(args) /\ Len(args) \in Nat
    BY UpToIsSeq
  <2>3. Len(args) = n
    BY <2>1, <2>2, CommandsAssumption
  <2> QED
    BY <2>3
<1> QED
  BY <1>1, <1>2, PossibleKinds, NullIsNoReply

\* The kinds of reply a method's decoder is made for.
LEMMA MethodKinds ==
  ASSUME NEW m \in Methods,
         m \notin {"rpoplpush", "brpoplpush"} \/ Commands[m].decoder # "array"
  PROVE  /\ Commands[m].decoder \in DOMAIN Wanting
         /\ Server[Commands[m].word].kinds \subseteq Fit[Commands[m].decoder]
  BY EveryRow, WantedKinds DEF Matched

LEMMA ListLength ==
  ASSUME NEW args \in UpTo(Keys)
  PROVE  Len(args) \in Nat /\ (args # <<>> => Len(args) > 0)
<1>1. args \in Seq(Keys) /\ Len(args) \in Nat
  BY UpToIsSeq
<1> QED
  BY <1>1, EmptySeq

-----------------------------------------------------------------------------
(* Theorems                                                                *)

\* Every call is one of the methods of the tables or connect, and what is sent is
\* a command of Redis.  What reaches the caller, whatever the server answers: of
\* connect, a refused SELECT or one of stoi's two exceptions; of a method whose
\* command was answered, only the two classes of the decoders; of one that was
\* not, only what execute throws.
THEOREM TypeCorrect == Spec => []TypeOK
<1>1. CallInv => TypeOK
  <2> SUFFICES ASSUME CallInv PROVE TypeOK
    OBVIOUS
  <2>1. ASSUME phase \in {"sent", "replied"}
        PROVE  wire.word \in DOMAIN Server /\ wire.argc \in Nat \ {0}
    <3> DEFINE c == Commands[method]
    <3>1. /\ c.word \in DOMAIN Server /\ Shaped(method, c)
          /\ wire.word = c.word /\ wire.argc = Argc(c, list)
      BY <2>1, EveryRow DEF CallInv, Sent, Matched
    <3>2. c.fixed \in 0 .. 4 /\ c.tail \in {"none", "list", "map"}
      BY <3>1 DEF Shaped, Single, Listed, Mapped
    <3>3. Len(list) \in Nat
      BY ListLength DEF CallInv
    <3> HIDE DEF c
    <3> QED
      BY <3>1, <3>2, <3>3 DEF Argc
  <2>2. ASSUME phase = "done"
        PROVE  outcome.exc \in IF method = "connect" THEN ConnectExceptions
                               ELSE IF reply = NULL THEN NoAnswerExceptions
                               ELSE DecoderExceptions
    <3>1. ASSUME method \in Methods, reply \in Possible(method, list)
          PROVE  reply # NULL
      BY <3>1, ReplyIsNotNull DEF CallInv
    <3> QED
      BY <2>2, <3>1, EveryRow, DecoderThrows, ConnectIsNoMethod DEF CallInv, Matched
  <2> QED
    BY <2>1, <2>2 DEF CallInv, TypeOK
<1> QED
  BY <1>1, CallInvariant, PTL

\* What a method sends has a length that Redis accepts for its word, whatever
\* list it was called with (bitcount with a start and no end excepted).
THEOREM CommandsAreAccepted == Spec => []AcceptedByRedis
<1>1. CallInv => AcceptedByRedis
  <2> SUFFICES ASSUME CallInv, phase = "sent", WellFormed, method # "bitcount_from"
               PROVE  Accepts(wire.word, wire.argc)
    BY DEF AcceptedByRedis
  <2>1. /\ wire.word = Commands[method].word
        /\ wire.argc = Argc(Commands[method], list)
        /\ Shaped(method, Commands[method])
    BY EveryRow DEF CallInv, Sent
  <2>2. Len(list) \in Nat /\ (list # <<>> => Len(list) > 0)
    BY ListLength DEF CallInv
  <2> QED
    BY <2>1, <2>2, RowsAccepted DEF WellFormed
<1> QED
  BY <1>1, CallInvariant, PTL

\* The decoder of a method knows the type of every reply Redis has for its
\* command: a RedisException, which stands for a reply of the wrong type, is
\* never thrown (rpoplpush and brpoplpush excepted).
THEOREM DecodersFit == Spec => []DecoderFits
<1>1. CallInv => DecoderFits
  <2> SUFFICES ASSUME CallInv, Answered, method \notin {"rpoplpush", "brpoplpush"}
               PROVE  outcome.exc # "RedisException"
    BY DEF DecoderFits
  <2> DEFINE d == Commands[method].decoder
  <2>1. /\ method \in Methods /\ reply \in Possible(method, list)
        /\ outcome = Decode(d, reply, list)
    BY DEF CallInv, Answered
  <2>2. d \in DOMAIN Wanting /\ Server[Commands[method].word].kinds \subseteq Fit[d]
    BY <2>1, MethodKinds
  <2>3. Len(list) \in Nat
    BY ListLength DEF CallInv
  <2>4. CASE reply = Failure
    <3>1. reply.type = "error"
      BY <2>4 DEF Failure
    <3> QED
      BY <2>1, <2>2, <3>1, FailureSurfaces
  <2>5. CASE \E kind \in Fit[d] : reply \in OfKind(kind, Len(list))
    BY <2>1, <2>2, <2>3, <2>5, FittingReplies
  <2> QED
    BY <2>1, <2>2, <2>4, <2>5, PossibleKinds
<1> QED
  BY <1>1, CallInvariant, PTL

\* An error of the server never looks like success: it is thrown, or the method
\* returns -1.
THEOREM ErrorsAreReported == Spec => []ErrorsSurface
<1>1. CallInv => ErrorsSurface
  BY EveryRow, FailureSurfaces DEF CallInv, ErrorsSurface, Answered, Matched
<1> QED
  BY <1>1, CallInvariant, PTL

\* Every map pairs what belongs together: mget and hmget by the position of the
\* key asked for, hgetall by taking fields and values in turn.
THEOREM MapsAreByPosition == Spec => []MapsByPosition
<1>1. CallInv => MapsByPosition
  <2> SUFFICES ASSUME CallInv, Answered, outcome.exc = "none"
               PROVE  /\ Decoder \in {"map", "fields"} => KeyedPairs
                      /\ Decoder = "hash" => AlternatingPairs
    BY DEF MapsByPosition
  <2>1. /\ method \in Methods /\ reply \in Possible(method, list)
        /\ outcome = Decode(Decoder, reply, list)
    BY DEF CallInv, Answered, Decoder
  <2>2. Len(list) \in Nat
    BY ListLength DEF CallInv
  <2>3. Decoder \in DOMAIN Wanting
    BY <2>1, EveryRow DEF Decoder, Matched
  <2>4. Decoder # "string" => reply # Failure
    <3>1. ASSUME Decoder # "string", reply = Failure PROVE outcome.exc = "ValueException"
      <4>1. reply.type = "error"
        BY <3>1 DEF Failure
      <4> QED
        BY <2>1, <2>3, <3>1, <4>1, FailureThrown
    <3> QED
      BY <3>1
  <2>5. ASSUME Decoder \in {"map", "fields", "hash"}
        PROVE  \E kind \in Fit[Decoder] : reply \in OfKind(kind, Len(list))
    BY <2>1, <2>4, <2>5, MethodKinds, PossibleKinds DEF Decoder
  <2>6. ASSUME Decoder \in {"map", "fields"} PROVE KeyedPairs
    <3>1. reply \in OfKind("each", Len(list))
      BY <2>5, <2>6 DEF Fit
    <3>2. PICK e \in [1 .. Len(list) -> Element] : reply = Array(e)
      BY <3>1 DEF OfKind, Element
    <3>3. outcome.out = recv_string_map_reply(Array(e), list).out
      BY <2>1, <2>6, <3>2 DEF Decode, recv_string_field_map_reply
    <3>4. reply.element = e
      BY <3>2 DEF Array
    <3> DEFINE out == recv_string_map_reply(Array(e), list).out
               n == Len(list)
    <3>5. /\ {p[1] : p \in out} = {list[i] : i \in {j \in 1 .. n : e[j] # Nil}}
          /\ \A p, q \in out : p[1] = q[1] => p = q
          /\ \A p \in out : \E i \in 1 .. n : list[i] = p[1] /\ e[i] = Bulk(p[2])
      <4>1. n \in Nat /\ e \in [1 .. n -> Element]
        BY <2>2
      <4> HIDE DEF n
      <4> QED
        BY <4>1, MapDecoded
    <3> HIDE DEF out
    <3> QED
      BY <3>3, <3>4, <3>5 DEF KeyedPairs, out
  <2>7. ASSUME Decoder = "hash" PROVE AlternatingPairs
    <3>1. reply \in OfKind("pairs", Len(list))
      BY <2>5, <2>7 DEF Fit
    <3>2. outcome = recv_string_hash_map_reply(reply)
      BY <2>1, <2>7 DEF Decode
    <3> QED
      BY <3>1, <3>2, HashDecoded DEF AlternatingPairs
  <2> QED
    BY <2>6, <2>7
<1> QED
  BY <1>1, CallInvariant, PTL

\* A documented url makes a pool for exactly its host, port and db; a url of
\* another scheme, with userinfo without a colon or without a port makes none.
THEOREM ConnectsAsDocumented == Spec => []ConnectsWhereUrlSays
<1>1. CallInv => ConnectsWhereUrlSays
  <2> SUFFICES ASSUME CallInv, phase = "done", method = "connect", Escaped(url)
               PROVE  /\ Refusable(url) => outcome = Outcome(-1, NULL) /\ pool = NULL
                      /\ Documented(url) =>
                           pool = [host |-> url.host, port |-> Numerals[url.port[1]],
                                   db |-> IF url.path \in {NULL, <<>>} THEN 0
                                          ELSE Numerals[url.path[1]]]
    BY DEF ConnectsWhereUrlSays
  <2>1. url \in Urls /\ ConnectedBy(ParsedParts(url))
    BY ParseFindsParts DEF CallInv
  <2>2. CASE Refusable(url)
    <3>1. ParsedParts(url) = [result |-> "false"]
      BY <2>2 DEF ParsedParts, U!Rejected
    <3> QED
      BY <2>1, <2>2, <3>1 DEF ConnectedBy, Documented
  <2>3. ASSUME Documented(url)
        PROVE  pool = [host |-> url.host, port |-> Numerals[url.port[1]],
                       db |-> IF url.path \in {NULL, <<>>} THEN 0
                              ELSE Numerals[url.path[1]]]
    <3>1. ASSUME NEW text, OneNumeral(text), text \in Seq(Tokens)
          PROVE  U!StoiThrows(text) = "none" /\ U!Stoi(text) = Numerals[text[1]]
      <4>1. text # <<>> /\ Head(text) = text[1]
        BY <3>1, SMTT(30) DEF OneNumeral
      <4>2. text[1] \in DOMAIN Numerals /\ Numerals[text[1]] \in CInt
        BY <3>1 DEF OneNumeral
      <4>3. 2 ^ (IntBits - 1) \in Int
        BY RepliesAssumption
      <4>4. Numerals[text[1]]
              \in -(2 ^ (IntBits - 1) - 1) - 1 .. 2 ^ (IntBits - 1) - 1
        BY <4>2, <4>3 DEF CInt
      <4> QED
        BY <4>1, <4>2, <4>4 DEF U!Stoi, U!StoiThrows
    <3>2. U!StoiThrows(url.port) = "none" /\ U!Stoi(url.port) = Numerals[url.port[1]]
      BY <2>1, <2>3, <3>1, UrlTyped DEF Documented, Refusable
    <3>3. ParsedParts(url) =
            U!Parsed(url.host, Numerals[url.port[1]],
                     IF url.path \in {NULL, <<>>} THEN 0 ELSE Numerals[url.path[1]])
      <4>1. ParsedParts(url) =
              U!Converted(url.host, url.port, IF url.path = NULL THEN <<>> ELSE url.path)
        BY <2>3 DEF ParsedParts, Documented
      <4>2. CASE url.path \in {NULL, <<>>}
        BY <3>2, <4>1, <4>2 DEF U!Converted
      <4>3. CASE url.path \notin {NULL, <<>>}
        <5>1. OneNumeral(url.path) /\ url.path \in Seq(Tokens)
          BY <2>1, <2>3, <4>3, UrlTyped DEF Documented
        <5>2. U!StoiThrows(url.path) = "none" /\ U!Stoi(url.path) = Numerals[url.path[1]]
          BY <3>1, <5>1
        <5> QED
          BY <3>2, <4>1, <4>3, <5>2 DEF U!Converted
      <4> QED
        BY <4>2, <4>3
    <3> QED
      BY <2>1, <3>3 DEF ConnectedBy, U!Parsed
  <2> QED
    BY <2>2, <2>3
<1> QED
  BY <1>1, CallInvariant, PTL

=============================================================================
