-------------------------- MODULE SubscriberProofs --------------------------
(***************************************************************************)
(* What Subscriber keeps in step, for any channels, patterns, commands,    *)
(* messages and losses of the connection.                                  *)
(*                                                                         *)
(* The argument is about the order of what is under way.  As long as the   *)
(* application awaits the confirmation of each unsubscribe (~pipelined),   *)
(* an unsubscribe is the last command, and only messages of other names    *)
(* follow its confirmation (OrderInv).  So its confirmation leaves nothing *)
(* behind that it could contradict: no callback, no message and no         *)
(* subscription.                                                           *)
(***************************************************************************)
EXTENDS Subscriber, AsyncContextProofs, SequenceTheorems, FiniteSetTheorems

Commands == [op : {"subscribe", "unsubscribe"}, names : Seq(Names)]
Answers == [type : {"subscribe", "unsubscribe", "message", "error"},
            name : Names \cup {NULL}, count : Nat]

MemberTypeOK ==
  /\ channels \subseteq Channels /\ patterns \subseteq Patterns
HiredisTypeOK ==
  /\ handlers \subseteq Names
  /\ subscribed \in BOOLEAN
  /\ regular \in Nat
  /\ cb \in BOOLEAN
  /\ aborted \in BOOLEAN
PipeTypeOK ==
  /\ toServer \in Seq(Commands)
  /\ toClient \in Seq(Answers)
  /\ served \subseteq Names
HistoryTypeOK ==
  /\ wanted \subseteq Names
  /\ request \in [Names -> {"settled", "asked", "overtaken"}]
  /\ missed \in BOOLEAN
  /\ pipelined \in BOOLEAN
  /\ commands \in 0 .. MaxCommands
  /\ messages \in 0 .. MaxMessages

TypeInv ==
  /\ ContextTypeOK /\ MemberTypeOK /\ HiredisTypeOK /\ PipeTypeOK /\ HistoryTypeOK

\* One connection; and before the first connect nothing is held.
LinkInv ==
  /\ Alone
  /\ ~Current => /\ toServer = <<>> /\ toClient = <<>>
                 /\ served = {} /\ handlers = {} /\ regular = 0 /\ ~subscribed
  /\ current = NULL => Held = {}

\* A command under way, and a reply, that is an unsubscribe.
LastCommand(k) ==
  toServer[k].op = "unsubscribe" =>
    /\ k = Len(toServer)
    /\ Len(toServer[k].names) = 1
    /\ toServer[k].names[1] \notin wanted
LastAnswer(k) ==
  toClient[k].type = "unsubscribe" =>
    /\ toServer = <<>>
    /\ toClient[k].name \notin wanted \cup served
    /\ \A j \in k + 1 .. Len(toClient) :
         toClient[j].type = "message" /\ toClient[j].name # toClient[k].name
    /\ toClient[k].count = 0 => served = {} /\ k = Len(toClient)
OrderInv ==
  /\ \A k \in 1 .. Len(toServer) : LastCommand(k)
  /\ \A k \in 1 .. Len(toClient) : LastAnswer(k)

\* A context that is not subscribed has only empty subscribes under way.
UnsubscribedInv ==
  ~subscribed => /\ \A k \in 1 .. Len(toServer) : toServer[k].names = <<>>
                 /\ \A k \in 1 .. Len(toClient) : toClient[k].type = "error"
                 /\ served = {}

\* A name in a subscribe, or its confirmation, that is under way.
AskedFor(n) ==
  \E k \in 1 .. Len(toServer) :
    /\ toServer[k].op = "subscribe"
    /\ \E j \in 1 .. Len(toServer[k].names) : toServer[k].names[j] = n
Answered(type, n) ==
  \E k \in 1 .. Len(toClient) : toClient[k].type = type /\ toClient[k].name = n
Underway(n) == AskedFor(n) \/ Answered("subscribe", n)

\* A subscribe that is not wanted any more has an unsettled request behind it.
IntentInv ==
  \A n \in Names :
    request[n] = "settled" =>
      /\ n \in Held <=> n \in wanted
      /\ Underway(n) => n \in wanted

\* Everything a reply can be about has a handler.
HandlersInv ==
  \A n \in Names \cup {NULL} :
    n \in served \/ Underway(n) \/ Answered("message", n) => n \in handlers

\* The callbacks that wait for a regular reply wait for the errors that come
\* first.
RegularInv ==
  /\ \A k \in 1 .. Len(toClient) : k <= regular => toClient[k].type = "error"
  /\ \A k \in 1 .. Len(toServer) :
       k + Len(toClient) <= regular =>
         toServer[k].op = "subscribe" /\ toServer[k].names = <<>>
  /\ regular <= Len(toServer) + Len(toClient)
  /\ regular > Len(toClient) => served = {}

\* The three tables, up to what is under way.
TablesInv ==
  /\ Current => Held \subseteq handlers
  /\ \A n \in handlers : n \in served \/ Underway(n) \/ Answered("unsubscribe", n)
  /\ \A n \in served : n \in Held \/ Answered("subscribe", n)
  /\ \A n \in Names : Answered("subscribe", n) =>
       n \in served \/ Answered("unsubscribe", n)

-----------------------------------------------------------------------------
(* Queues                                                                  *)

LEMMA TailOf ==
  ASSUME NEW S, NEW s \in Seq(S), s # <<>>
  PROVE  /\ Head(s) = s[1] /\ 1 \in 1 .. Len(s) /\ s[1] \in S
         /\ Tail(s) \in Seq(S) /\ Len(s) \in Nat /\ Len(Tail(s)) = Len(s) - 1
         /\ \A k \in 1 .. Len(Tail(s)) :
              k \in Nat /\ k + 1 \in 1 .. Len(s) /\ Tail(s)[k] = s[k + 1]
         /\ \A k \in 1 .. Len(s) :
              k = 1 \/ (k - 1 \in 1 .. Len(Tail(s)) /\ Tail(s)[k - 1] = s[k])
<1>1. Len(s) \in Nat \ {0}
  BY EmptySeq
<1>2. /\ Head(s) \in S /\ Tail(s) \in Seq(S) /\ Len(Tail(s)) = Len(s) - 1
      /\ \A k \in 1 .. Len(Tail(s)) : Tail(s)[k] = s[k + 1]
  BY HeadTailProperties
<1>3. Head(s) = s[1]
  OBVIOUS
<1>4. \A k \in 1 .. Len(Tail(s)) : k \in Nat /\ k + 1 \in 1 .. Len(s)
  BY <1>1, <1>2
<1>5. ASSUME NEW k \in 1 .. Len(s), k # 1
      PROVE  k - 1 \in 1 .. Len(Tail(s)) /\ Tail(s)[k - 1] = s[k]
  <2>1. k - 1 \in 1 .. Len(Tail(s)) /\ (k - 1) + 1 = k
    BY <1>1, <1>2, <1>5
  <2> QED
    BY <1>2, <2>1
<1> QED
  BY <1>1, <1>2, <1>3, <1>4, <1>5

LEMMA PlusOf ==
  ASSUME NEW S, NEW s \in Seq(S), NEW e \in Seq(S)
  PROVE  /\ s \o e \in Seq(S) /\ Len(s) \in Nat /\ Len(e) \in Nat
         /\ Len(s \o e) = Len(s) + Len(e)
         /\ \A k \in 1 .. Len(s \o e) :
              \/ k \in 1 .. Len(s) /\ (s \o e)[k] = s[k]
              \/ k - Len(s) \in 1 .. Len(e) /\ (s \o e)[k] = e[k - Len(s)]
         /\ \A k \in 1 .. Len(s) : k \in 1 .. Len(s \o e) /\ (s \o e)[k] = s[k]
         /\ \A k \in 1 .. Len(e) :
              k + Len(s) \in 1 .. Len(s \o e) /\ (s \o e)[k + Len(s)] = e[k]
<1>1. Len(s) \in Nat /\ Len(e) \in Nat
  BY LenProperties
<1>2. /\ s \o e \in Seq(S)
      /\ Len(s \o e) = Len(s) + Len(e)
      /\ \A i \in 1 .. Len(s) + Len(e) :
           (s \o e)[i] = IF i <= Len(s) THEN s[i] ELSE e[i - Len(s)]
  BY ConcatProperties
<1>3. ASSUME NEW k \in 1 .. Len(s \o e)
      PROVE  \/ k \in 1 .. Len(s) /\ (s \o e)[k] = s[k]
             \/ k - Len(s) \in 1 .. Len(e) /\ (s \o e)[k] = e[k - Len(s)]
  BY <1>1, <1>2
<1>4. ASSUME NEW k \in 1 .. Len(s)
      PROVE  k \in 1 .. Len(s \o e) /\ (s \o e)[k] = s[k]
  BY <1>1, <1>2
<1>5. ASSUME NEW k \in 1 .. Len(e)
      PROVE  k + Len(s) \in 1 .. Len(s \o e) /\ (s \o e)[k + Len(s)] = e[k]
  <2>1. /\ k + Len(s) \in 1 .. Len(s) + Len(e)
        /\ ~(k + Len(s) <= Len(s)) /\ (k + Len(s)) - Len(s) = k
    BY <1>1
  <2> QED
    BY <1>2, <2>1
<1> QED
  BY <1>1, <1>2, <1>3, <1>4, <1>5

LEMMA AppendOf ==
  ASSUME NEW S, NEW s \in Seq(S), NEW x \in S
  PROVE  /\ Append(s, x) \in Seq(S) /\ Len(s) \in Nat
         /\ Len(Append(s, x)) = Len(s) + 1
         /\ Append(s, x)[Len(s) + 1] = x
         /\ \A k \in 1 .. Len(s) : Append(s, x)[k] = s[k]
         /\ \A k \in 1 .. Len(Append(s, x)) : k \in 1 .. Len(s) \/ k = Len(s) + 1
         /\ Append(s, x) # <<>>
BY LenProperties, AppendProperties

LEMMA AppendOne == \A x, y : Append(<<x>>, y) = <<x, y>>
<1> TAKE x, y
<1>1. <<x>> \in Seq({x, y}) /\ <<x, y>> \in Seq({x, y})
  OBVIOUS
<1>2. Len(<<x>>) = 1 /\ <<x>>[1] = x /\ Len(<<x, y>>) = 2
      /\ <<x, y>>[1] = x /\ <<x, y>>[2] = y
  OBVIOUS
<1>3. /\ Append(<<x>>, y) \in Seq({x, y})
      /\ Len(Append(<<x>>, y)) = 2
      /\ Append(<<x>>, y)[1] = x /\ Append(<<x>>, y)[2] = y
  BY <1>1, <1>2, AppendProperties
<1>4. \A k \in 1 .. 2 : k = 1 \/ k = 2
  OBVIOUS
<1> QED
  BY <1>1, <1>2, <1>3, <1>4, SeqEqual

\* The set of names as SetToSeq lists them.
LEMMA SetToSeqOf ==
  ASSUME NEW S, IsFiniteSet(S)
  PROVE  /\ SetToSeq(S) \in Seq(S)
         /\ SetToSeq(S) \in [1 .. Cardinality(S) -> S]
         /\ Len(SetToSeq(S)) = Cardinality(S)
         /\ ToSet(SetToSeq(S)) = S
         /\ SetToSeq(S) = <<>> <=> S = {}
<1> DEFINE n == Cardinality(S)
           f == SetToSeq(S)
<1>1. n \in Nat /\ ExistsBijection(1 .. n, S)
  BY FS_CardinalityType
<1>2. \E g \in [1 .. n -> S] : IsInjective(g)
  BY <1>1 DEF ExistsBijection, Bijection, Injection
<1>3. f \in [1 .. n -> S] /\ IsInjective(f)
  BY <1>2 DEF SetToSeq
<1> HIDE DEF f
<1>4. f \in Seq(S) /\ Len(f) = n
  BY <1>1, <1>3
<1>5. f \in Surjection(1 .. n, S)
  <2>1. f \in Injection(1 .. n, S)
    BY <1>3 DEF Injection
  <2>2. Cardinality(1 .. n) = n
    BY <1>1, FS_Interval
  <2> QED
    BY <2>1, <2>2, FS_Injection
<1>6. ToSet(f) = S
  BY <1>3, <1>5 DEF ToSet, Surjection
<1>7. f = <<>> <=> S = {}
  <2>1. f = <<>> <=> n = 0
    BY <1>1, <1>4, EmptySeq
  <2> QED
    BY <2>1, FS_EmptySet
<1> QED
  BY <1>3, <1>4, <1>6, <1>7 DEF f

\* Every set of names is finite.
LEMMA NamesFinite ==
  /\ IsFiniteSet(Names)
  /\ \A S : S \subseteq Names => IsFiniteSet(S) /\ Cardinality(S) \in Nat
<1>1. IsFiniteSet(Names)
  BY SubscriberAssumption, FS_Union DEF Names
<1> QED
  BY <1>1, FS_Subset, FS_CardinalityType

-----------------------------------------------------------------------------
(* What is sent                                                            *)

LEMMA SubscribeSends ==
  ASSUME NEW n \in Names, Sends(Subscribes(Sender, <<n>>))
  PROVE  /\ toServer' = Append(toServer, Command("subscribe", <<n>>))
         /\ handlers' = handlers \cup {n}
         /\ subscribed' = TRUE
         /\ regular' = regular
<1>1. ToSet(<<n>>) = {n} /\ <<n>> # <<>>
  BY DEF ToSet
<1> QED
  BY <1>1 DEF Sends, Subscribes, Sender

LEMMA UnsubscribeSends ==
  ASSUME NEW n \in Names, Sends(Unsubscribes(Sender, <<n>>))
  PROVE  /\ toServer' = IF subscribed
                        THEN Append(toServer, Command("unsubscribe", <<n>>))
                        ELSE toServer
         /\ UNCHANGED <<handlers, subscribed, regular>>
<1>1. CASE subscribed
  BY <1>1 DEF Sends, Unsubscribes, Sender
<1>2. CASE ~subscribed
  BY <1>2 DEF Sends, Unsubscribes, Sender
<1> QED
  BY <1>1, <1>2

LEMMA ReconnectSends ==
  ASSUME MemberTypeOK,
         Sends(Subscribes(Subscribes(FreshContext, SetToSeq(channels)),
                          SetToSeq(patterns)))
  PROVE  /\ toServer' = <<Command("subscribe", SetToSeq(channels)),
                          Command("subscribe", SetToSeq(patterns))>>
         /\ handlers' = Held
         /\ subscribed' = (Held # {})
         /\ regular' = IF channels # {} THEN 0 ELSE IF patterns # {} THEN 1 ELSE 2
<1> DEFINE cs == SetToSeq(channels)
           ps == SetToSeq(patterns)
<1>1. /\ ToSet(cs) = channels /\ ToSet(ps) = patterns
      /\ cs = <<>> <=> channels = {}
      /\ ps = <<>> <=> patterns = {}
  <2>1. IsFiniteSet(channels) /\ IsFiniteSet(patterns)
    BY SubscriberAssumption, FS_Subset DEF MemberTypeOK
  <2> QED
    BY <2>1, SetToSeqOf
<1>s. Sends(Subscribes(Subscribes(FreshContext, cs), ps))
  OBVIOUS
<1> HIDE DEF cs, ps
<1>2. toServer' = Append(Append(<<>>, Command("subscribe", cs)), Command("subscribe", ps))
  BY <1>s DEF Sends, Subscribes, FreshContext
<1>3. handlers' = ({} \cup ToSet(cs)) \cup ToSet(ps)
  BY <1>s DEF Sends, Subscribes, FreshContext
<1>4. subscribed' = ((FALSE \/ cs # <<>>) \/ ps # <<>>)
  BY <1>s DEF Sends, Subscribes, FreshContext
<1>5. regular' = IF ps = <<>> /\ ~(FALSE \/ cs # <<>>)
                 THEN (IF cs = <<>> /\ ~FALSE THEN 0 + 1 ELSE 0) + 1
                 ELSE IF cs = <<>> /\ ~FALSE THEN 0 + 1 ELSE 0
  BY <1>s, Zenon DEF Sends, Subscribes, FreshContext
<1>6. Append(Append(<<>>, Command("subscribe", cs)), Command("subscribe", ps))
        = <<Command("subscribe", cs), Command("subscribe", ps)>>
  <2> DEFINE c1 == Command("subscribe", cs)
             c2 == Command("subscribe", ps)
  <2> HIDE DEF c1, c2
  <2>1. Append(<<>>, c1) = <<c1>>
    OBVIOUS
  <2>2. Append(Append(<<>>, c1), c2) = <<c1, c2>>
    BY <2>1, AppendOne
  <2> QED
    BY <2>2 DEF c1, c2
<1>7. /\ toServer' = <<Command("subscribe", cs), Command("subscribe", ps)>>
      /\ handlers' = Held
  BY <1>1, <1>2, <1>3, <1>6 DEF Held
<1>8. subscribed' = (Held # {})
  BY <1>1, <1>4, Zenon DEF Held
<1>9. regular' = IF channels # {} THEN 0 ELSE IF patterns # {} THEN 1 ELSE 2
  BY <1>1, <1>5
<1> QED
  BY <1>7, <1>8, <1>9 DEF cs, ps

-----------------------------------------------------------------------------
(* What is answered                                                        *)

\* What the server serves once it has taken the first j names of command c, and
\* the replies it sends.
After(c, j) ==
  LET some == {c.names[k] : k \in 1 .. j}
  IN IF c.op = "subscribe" THEN served \cup some ELSE served \ some
AnswersTo(c) ==
  IF c.names = <<>> THEN <<Reply("error", NULL, 0)>>
  ELSE [j \in 1 .. Len(c.names) |->
          Reply(c.op, c.names[j], Cardinality(After(c, j)))]
Heard(c) == served \cap ({c} \cup Patterns)
Messages(c) ==
  [j \in 1 .. Cardinality(Heard(c)) |-> Reply("message", SetToSeq(Heard(c))[j], 0)]

LEMMA AnswersTyped ==
  ASSUME served \subseteq Names, NEW c \in Commands
  PROVE  /\ AnswersTo(c) \in Seq(Answers)
         /\ c.names \in Seq(Names) /\ Len(c.names) \in Nat
         /\ After(c, Len(c.names)) \subseteq Names
         /\ c.names = <<>> =>
              /\ Len(AnswersTo(c)) = 1
              /\ AnswersTo(c)[1] = Reply("error", NULL, 0)
              /\ After(c, Len(c.names)) = served
         /\ c.names # <<>> =>
              /\ Len(AnswersTo(c)) = Len(c.names)
              /\ \A j \in 1 .. Len(c.names) :
                   AnswersTo(c)[j] = Reply(c.op, c.names[j], Cardinality(After(c, j)))
<1>1. c.names \in Seq(Names) /\ Len(c.names) \in Nat
      /\ c.op \in {"subscribe", "unsubscribe"}
      /\ \A j \in 1 .. Len(c.names) : c.names[j] \in Names
  BY DEF Commands
<1>2. \A j \in 1 .. Len(c.names) : 1 .. j \subseteq 1 .. Len(c.names)
  BY <1>1
<1>3. \A j \in 1 .. Len(c.names) : After(c, j) \subseteq Names
  BY <1>1, <1>2 DEF After
<1>4. After(c, Len(c.names)) \subseteq Names
  BY <1>1 DEF After
<1>5. CASE c.names = <<>>
  <2>1. AnswersTo(c) = <<Reply("error", NULL, 0)>> /\ Len(c.names) = 0
    BY <1>5 DEF AnswersTo
  <2>2. Reply("error", NULL, 0) \in Answers
    BY DEF Reply, Answers
  <2>3. /\ AnswersTo(c) \in Seq(Answers) /\ Len(AnswersTo(c)) = 1
        /\ AnswersTo(c)[1] = Reply("error", NULL, 0)
    <3> DEFINE x == Reply("error", NULL, 0)
    <3> HIDE DEF x
    <3>1. x \in Answers /\ AnswersTo(c) = <<x>>
      BY <2>1, <2>2 DEF x
    <3>2. /\ AnswersTo(c) \in Seq(Answers) /\ Len(AnswersTo(c)) = 1
          /\ AnswersTo(c)[1] = x
      BY <3>1
    <3> QED
      BY <3>2 DEF x
  <2>4. {c.names[k] : k \in 1 .. 0} = {}
    OBVIOUS
  <2>5. After(c, 0) = served
    BY <2>4 DEF After
  <2> QED
    BY <1>1, <1>4, <1>5, <2>1, <2>3, <2>5
<1>6. CASE c.names # <<>>
  <2> DEFINE a == [j \in 1 .. Len(c.names) |->
                     Reply(c.op, c.names[j], Cardinality(After(c, j)))]
  <2>1. AnswersTo(c) = a
    BY <1>6 DEF AnswersTo
  <2>2. \A j \in 1 .. Len(c.names) :
          Reply(c.op, c.names[j], Cardinality(After(c, j))) \in Answers
    <3> SUFFICES ASSUME NEW j \in 1 .. Len(c.names)
                 PROVE  Reply(c.op, c.names[j], Cardinality(After(c, j))) \in Answers
      OBVIOUS
    <3>1. Cardinality(After(c, j)) \in Nat
      BY <1>3, NamesFinite
    <3> QED
      BY <1>1, <3>1 DEF Reply, Answers
  <2>3. a \in [1 .. Len(c.names) -> Answers]
    BY <2>2
  <2>4. a \in Seq(Answers) /\ Len(a) = Len(c.names)
    <3> HIDE DEF a
    <3> QED
      BY <1>1, <2>3
  <2> QED
    BY <1>1, <1>4, <1>6, <2>1, <2>4
<1> QED
  BY <1>5, <1>6

LEMMA MessagesTyped ==
  ASSUME served \subseteq Names, NEW c
  PROVE  /\ Messages(c) \in Seq(Answers)
         /\ \A j \in 1 .. Len(Messages(c)) :
              /\ Messages(c)[j].type = "message"
              /\ Messages(c)[j].name \in served
<1> DEFINE n == Cardinality(Heard(c))
           f == SetToSeq(Heard(c))
<1>1. n \in Nat /\ f \in [1 .. n -> Heard(c)]
  BY NamesFinite, SetToSeqOf DEF Heard
<1>2. Messages(c) = [j \in 1 .. n |-> Reply("message", f[j], 0)]
  BY DEF Messages
<1> HIDE DEF n, f
<1>3. \A j \in 1 .. n : f[j] \in served /\ f[j] \in Names
  BY <1>1 DEF Heard
<1>4. /\ Messages(c) \in [1 .. n -> Answers]
      /\ \A j \in 1 .. n : Messages(c)[j] = Reply("message", f[j], 0)
  BY <1>2, <1>3 DEF Reply, Answers
<1>5. Messages(c) \in Seq(Answers) /\ Len(Messages(c)) = n
  BY <1>1, <1>4
<1>6. \A x : Reply("message", x, 0).type = "message" /\ Reply("message", x, 0).name = x
  BY DEF Reply
<1> QED
  BY <1>3, <1>4, <1>5, <1>6

LEMMA ServeSends ==
  ASSUME Serve
  PROVE  /\ toServer # <<>>
         /\ served' = After(Head(toServer), Len(Head(toServer).names))
         /\ toClient' = toClient \o AnswersTo(Head(toServer))
         /\ toServer' = Tail(toServer)
         /\ UNCHANGED <<contextVars, memberVars, hiredisVars, historyVars>>
BY DEF Serve, After, AnswersTo

LEMMA PublishSends ==
  ASSUME NEW c \in Channels, Publish(c)
  PROVE  toClient' = toClient \o Messages(c)
BY DEF Publish, Messages, Heard

-----------------------------------------------------------------------------
(* What a step does                                                        *)

\* Nothing that the subscriber, hiredis's tables or the pipes show.
Idles ==
  /\ UNCHANGED <<memberVars, hiredisVars, pipeVars, historyVars>>
  /\ current = NULL \/ (Current' <=> Current)
  /\ current' = NULL => current = NULL

\* The context is gone.
Disposes ==
  /\ Sends(FreshContext) /\ Disposed
  /\ UNCHANGED <<memberVars, aborted, wanted, missed, tallies>>
  /\ ~Current' /\ current' # NULL

\* There is a new one, with two commands under way.
Reconnects ==
  /\ toServer' = <<Command("subscribe", SetToSeq(channels)),
                   Command("subscribe", SetToSeq(patterns))>>
  /\ handlers' = Held
  /\ subscribed' = (Held # {})
  /\ regular' = IF channels # {} THEN 0 ELSE IF patterns # {} THEN 1 ELSE 2
  /\ Disposed
  /\ UNCHANGED <<memberVars, aborted, wanted, missed, tallies>>
  /\ Current' /\ current' # NULL

LEMMA StepCases ==
  ASSUME TypeInv, LinkInv, [Next]_vars
  PROVE  \/ Idles
         \/ Disposes
         \/ Reconnects
         \/ \E n \in Names : Subscribe(n) \/ Unsubscribe(n)
         \/ Serve
         \/ \E c \in Channels : Publish(c)
         \/ \E r : ReadRegular(r) \/ ReadAborts(r)
         \/ \E r : \E batch \in {"new", "same"} : ReadSubscribed(r, batch)
<1>0. current \in Links \cup {NULL} /\ NULL \notin Links /\ ContextTypeOK /\ MemberTypeOK
  BY ContextAssumption DEF TypeInv, ContextTypeOK
<1>1. CASE UNCHANGED vars
  BY <1>1 DEF vars, contextVars, Idles, Current
<1>2. ASSUME NEW l \in Links, NEW s \in {"connecting", "failed"}, Connect(l, s)
      PROVE  Idles
  <2>1. current = NULL /\ current' = l
    BY <1>2 DEF Connect, Open
  <2> QED
    BY <1>0, <1>2, <2>1 DEF Connect, Idles
<1>3. ASSUME NEW l \in Links, NEW s \in {"connecting", "failed"}, Reconnect(l, s)
      PROVE  Reconnects
  <2>1. Open(l, s)
    BY <1>3 DEF Reconnect, Reopen
  <2>2. link'[l] = s /\ current' = l
    BY <1>0, <2>1, OpenLinks
  <2>3. Current' /\ current' # NULL
    BY <1>0, <2>2 DEF Current
  <2>4. Sends(Subscribes(Subscribes(FreshContext, SetToSeq(channels)),
                         SetToSeq(patterns)))
    BY <1>3 DEF Reconnect
  <2>5. Disposed /\ UNCHANGED <<memberVars, aborted, wanted, missed, tallies>>
    BY <1>3 DEF Reconnect
  <2> QED
    BY <1>0, <2>3, <2>4, <2>5, ReconnectSends DEF Reconnects
<1>4. ASSUME Server PROVE Idles
  <2>1. UNCHANGED <<memberVars, hiredisVars, pipeVars, historyVars>>
        /\ (ServerStops \/ ServerStarts)
    BY <1>4 DEF Server
  <2>2. current' = current /\ (Current' <=> Current)
    BY <1>0, <2>1 DEF ServerStops, ServerStarts, Interrupted, Current, ContextTypeOK
  <2> QED
    BY <2>1, <2>2 DEF Idles
<1>5. ASSUME NEW l \in Links, Established(l) PROVE Idles
  <2>1. UNCHANGED <<memberVars, hiredisVars, pipeVars, historyVars>> /\ Establish(l)
    BY <1>5 DEF Established
  <2>2. current' = current /\ (Current' <=> Current)
    BY <1>0, <2>1 DEF Establish, Connecting, Current, ContextTypeOK
  <2> QED
    BY <2>1, <2>2 DEF Idles
<1>6. ASSUME NEW l \in Links, Refused(l) \/ Lost(l) PROVE Disposes
  <2>1. Live(l) /\ link' = [link EXCEPT ![l] = "none"] /\ current' = current
    BY <1>6 DEF Refused, Lost, Refuse, Refusable, Free, Live, Up, Connecting
  <2>2. l = current
    BY <2>1 DEF LinkInv, Alone
  <2>3. ~Current' /\ current' # NULL
    BY <1>0, <2>1, <2>2 DEF Current, ContextTypeOK
  <2>4. Sends(FreshContext) /\ Disposed
        /\ UNCHANGED <<memberVars, aborted, wanted, missed, tallies>>
    BY <1>6 DEF Refused, Lost
  <2> QED
    BY <2>3, <2>4 DEF Disposes
<1>7. ASSUME NEW r, ReadError(r) PROVE Disposes
  <2>1. current \in Links /\ link' = [link EXCEPT ![current] = "none"]
        /\ current' = current
    BY <1>0, <1>7 DEF ReadError, Reads, Current, Free
  <2>2. ~Current' /\ current' # NULL
    BY <1>0, <2>1 DEF Current, ContextTypeOK
  <2>3. Sends(FreshContext) /\ Disposed
        /\ UNCHANGED <<memberVars, aborted, wanted, missed, tallies>>
    BY <1>7 DEF ReadError
  <2> QED
    BY <2>2, <2>3 DEF Disposes
<1>8. CASE Next
  <2>1. CASE Application
    BY <1>2, <1>3, <2>1 DEF Application
  <2>2. CASE Handle
    BY <1>5, <1>6, <1>7, <2>2 DEF Handle
  <2> QED
    BY <1>4, <1>8, <2>1, <2>2 DEF Next
<1> QED
  BY <1>1, <1>8

\* The context's types, and that one at most is alive.
LEMMA ContextStep ==
  ASSUME TypeInv, LinkInv, [Next]_vars
  PROVE  ContextTypeOK' /\ Alone'
<1>0. ContextTypeOK /\ Alone /\ current \in Links \cup {NULL}
  BY DEF TypeInv, ContextTypeOK, LinkInv
<1>1. ASSUME UNCHANGED contextVars PROVE ContextTypeOK' /\ Alone'
  <2>1. \A l \in Links : Live(l)' => Live(l)
    BY <1>1 DEF contextVars, Live, Up, Connecting
  <2> QED
    BY <1>0, <1>1, <2>1, StaysTyped, StaysAlone DEF contextVars
<1>2. ASSUME NEW l \in Links, NEW s \in {"connecting", "failed"}, Connect(l, s) \/ Reconnect(l, s)
      PROVE  ContextTypeOK' /\ Alone'
  <2>1. Open(l, s)
    BY <1>2 DEF Connect, Reconnect, Reopen
  <2>2. \A k \in Links : ~Live(k)
    BY <1>0, <1>2, ContextAssumption DEF Connect, Reconnect, Alone
  <2> QED
    BY <1>0, <2>1, <2>2, OpenTyped, OpenAlone
<1>3. ASSUME NEW l \in Links, Established(l) \/ Refused(l) \/ Lost(l)
      PROVE  ContextTypeOK' /\ Alone'
  <2>1. Establish(l) \/ Refuse(l) \/ Free(l)
    BY <1>3 DEF Established, Refused, Lost
  <2> QED
    BY <1>0, <2>1, EventTyped, EventLinks, StaysAlone
<1>4. ASSUME NEW r, ReadError(r)
      PROVE  ContextTypeOK' /\ Alone'
  <2>1. current \in Links /\ Free(current)
    BY <1>0, <1>4 DEF ReadError, Reads, Current
  <2> QED
    BY <1>0, <2>1, EventTyped, EventLinks, StaysAlone
<1>5. ASSUME Server PROVE ContextTypeOK' /\ Alone'
  <2>1. ServerStops \/ ServerStarts
    BY <1>5 DEF Server
  <2> QED
    BY <1>0, <2>1, ServerTyped, ServerLinks, StaysAlone
<1>6. ASSUME NEW n \in Names, Subscribe(n) \/ Unsubscribe(n)
      PROVE  ContextTypeOK' /\ Alone'
  BY <1>1, <1>6 DEF Subscribe, Unsubscribe
<1>7. ASSUME NEW r, NEW batch \in {"new", "same"},
             ReadRegular(r) \/ ReadAborts(r) \/ ReadSubscribed(r, batch)
      PROVE  ContextTypeOK' /\ Alone'
  BY <1>1, <1>7 DEF ReadRegular, ReadAborts, ReadSubscribed
<1>8. ASSUME NEW c \in Channels, Publish(c)
      PROVE  ContextTypeOK' /\ Alone'
  BY <1>1, <1>8 DEF Publish
<1>9. ASSUME Serve PROVE ContextTypeOK' /\ Alone'
  BY <1>1, <1>9 DEF Serve
<1>10. CASE UNCHANGED vars
  BY <1>1, <1>10 DEF vars
<1>11. CASE Next
  <2>1. CASE Application
    BY <1>2, <1>6, <2>1 DEF Application
  <2>2. CASE Handle
    BY <1>3, <1>4, <1>7, <2>2 DEF Handle
  <2> QED
    BY <1>5, <1>8, <1>9, <1>11, <2>1, <2>2 DEF Next
<1> QED
  BY <1>10, <1>11

\* The callback of a reply, or none.
Calls(r) ==
  (SubCallback(r) /\ Settles(r)) \/ UNCHANGED <<memberVars, request>>

LEMMA CallsTyped ==
  ASSUME MemberTypeOK, HistoryTypeOK, NEW r \in Answers, Calls(r)
  PROVE  /\ channels' \subseteq Channels /\ patterns' \subseteq Patterns
         /\ request' \in [Names -> {"settled", "asked", "overtaken"}]
<1>1. channels' \subseteq Channels /\ patterns' \subseteq Patterns
  BY DEF Calls, SubCallback, MemberTypeOK, memberVars
<1>2. request' \in [Names -> {"settled", "asked", "overtaken"}]
  BY DEF Calls, Settles, HistoryTypeOK
<1> QED
  BY <1>1, <1>2

\* What a read takes from the pipe.
LEMMA ReadTakes ==
  ASSUME TypeInv, NEW r, Reads(r)
  PROVE  /\ toClient # <<>> /\ r = toClient[1] /\ r \in Answers
         /\ Tail(toClient) \in Seq(Answers)
  BY TailOf DEF Reads, TypeInv, PipeTypeOK

LEMMA OvertakenTyped ==
  ASSUME HistoryTypeOK, Overtaken
  PROVE  request' \in [Names -> {"settled", "asked", "overtaken"}]
BY DEF HistoryTypeOK, Overtaken

LEMMA AsksTyped ==
  ASSUME HistoryTypeOK, NEW n \in Names, Asks(n)
  PROVE  /\ request' \in [Names -> {"settled", "asked", "overtaken"}]
         /\ pipelined' \in BOOLEAN
         /\ commands' \in 0 .. MaxCommands
<1>1. request' \in [Names -> {"settled", "asked", "overtaken"}]
  BY DEF HistoryTypeOK, Asks
<1>2. pipelined' \in BOOLEAN
  BY DEF HistoryTypeOK, Asks
<1>3. commands' \in 0 .. MaxCommands
  BY SubscriberAssumption DEF HistoryTypeOK, Asks
<1> QED
  BY <1>1, <1>2, <1>3

LEMMA NamesAsked ==
  ASSUME NEW n \in Names, NEW op \in {"subscribe", "unsubscribe"}
  PROVE  /\ Command(op, <<n>>) \in Commands
         /\ Command(op, <<n>>).op = op /\ Command(op, <<n>>).names = <<n>>
         /\ Len(<<n>>) = 1 /\ <<n>>[1] = n /\ <<n>> # <<>>
<1>1. <<n>> \in Seq(Names) /\ Len(<<n>>) = 1 /\ <<n>>[1] = n
  OBVIOUS
<1> QED
  BY <1>1 DEF Command, Commands

\* What subscribe and unsubscribe do.
LEMMA SubscribeDoes ==
  ASSUME NEW n \in Names, Subscribe(n)
  PROVE  /\ Asks(n)
         /\ toServer' = Append(toServer, Command("subscribe", <<n>>))
         /\ handlers' = handlers \cup {n} /\ subscribed' = TRUE
         /\ wanted' = wanted \cup {n}
         /\ UNCHANGED <<contextVars, memberVars, cb, aborted, toClient, served,
                        missed, messages, regular>>
BY SubscribeSends DEF Subscribe

LEMMA UnsubscribeDoes ==
  ASSUME NEW n \in Names, Unsubscribe(n)
  PROVE  /\ Asks(n)
         /\ toServer' = IF subscribed
                        THEN Append(toServer, Command("unsubscribe", <<n>>))
                        ELSE toServer
         /\ wanted' = wanted \ {n}
         /\ UNCHANGED <<contextVars, memberVars, cb, aborted, toClient, served,
                        missed, messages, handlers, subscribed, regular>>
BY UnsubscribeSends DEF Unsubscribe

\* The two commands of reconnect.
LEMMA TwoCommands ==
  ASSUME MemberTypeOK
  PROVE  LET cs == SetToSeq(channels)
             ps == SetToSeq(patterns)
             s == <<Command("subscribe", cs), Command("subscribe", ps)>>
         IN /\ s \in Seq(Commands) /\ Len(s) = 2
            /\ s[1].op = "subscribe" /\ s[1].names = cs
            /\ s[2].op = "subscribe" /\ s[2].names = ps
            /\ s # <<>>
            /\ cs = <<>> <=> channels = {}
            /\ ps = <<>> <=> patterns = {}
            /\ \A n : n \in channels <=> \E j \in 1 .. Len(cs) : cs[j] = n
            /\ \A n : n \in patterns <=> \E j \in 1 .. Len(ps) : ps[j] = n
<1> DEFINE cs == SetToSeq(channels)
           ps == SetToSeq(patterns)
<1>1. IsFiniteSet(channels) /\ IsFiniteSet(patterns)
  BY SubscriberAssumption, FS_Subset DEF MemberTypeOK
<1>2. /\ cs \in Seq(channels) /\ ToSet(cs) = channels /\ (cs = <<>> <=> channels = {})
      /\ ps \in Seq(patterns) /\ ToSet(ps) = patterns /\ (ps = <<>> <=> patterns = {})
  BY <1>1, SetToSeqOf
<1> HIDE DEF cs, ps
<1>3. cs \in Seq(Names) /\ ps \in Seq(Names)
  BY <1>2 DEF MemberTypeOK, Names
<1>4. Command("subscribe", cs) \in Commands /\ Command("subscribe", ps) \in Commands
  BY <1>3 DEF Command, Commands
<1>5. /\ \A n : n \in channels <=> \E j \in 1 .. Len(cs) : cs[j] = n
      /\ \A n : n \in patterns <=> \E j \in 1 .. Len(ps) : ps[j] = n
  BY <1>2 DEF ToSet
<1> DEFINE s == <<Command("subscribe", cs), Command("subscribe", ps)>>
<1>6. /\ s \in Seq(Commands) /\ Len(s) = 2 /\ s # <<>>
      /\ s[1] = Command("subscribe", cs) /\ s[2] = Command("subscribe", ps)
  <2> DEFINE c1 == Command("subscribe", cs)
             c2 == Command("subscribe", ps)
  <2> HIDE DEF c1, c2
  <2> SUFFICES /\ <<c1, c2>> \in Seq(Commands) /\ Len(<<c1, c2>>) = 2
               /\ <<c1, c2>> # <<>>
               /\ <<c1, c2>>[1] = c1 /\ <<c1, c2>>[2] = c2
    BY DEF c1, c2
  <2>1. c1 \in Commands /\ c2 \in Commands
    BY <1>4 DEF c1, c2
  <2> QED
    BY <2>1
<1> HIDE DEF s
<1>7. /\ s[1].op = "subscribe" /\ s[1].names = cs
      /\ s[2].op = "subscribe" /\ s[2].names = ps
  BY <1>6 DEF Command
<1> QED
  BY <1>2, <1>5, <1>6, <1>7 DEF cs, ps, s

LEMMA TypeStep ==
  ASSUME TypeInv, LinkInv, [Next]_vars
  PROVE  TypeInv'
<1>0. MemberTypeOK /\ HiredisTypeOK /\ PipeTypeOK /\ HistoryTypeOK
  BY DEF TypeInv
<1> SUFFICES (MemberTypeOK /\ HiredisTypeOK /\ PipeTypeOK /\ HistoryTypeOK)'
  BY ContextStep DEF TypeInv
<1>1. CASE Idles
  BY <1>0, <1>1 DEF Idles, memberVars, hiredisVars, pipeVars, historyVars, tallies,
     MemberTypeOK, HiredisTypeOK, PipeTypeOK, HistoryTypeOK
<1>2. CASE Disposes
  <2>1. /\ toServer' = <<>> /\ toClient' = <<>> /\ served' = {} /\ handlers' = {}
        /\ subscribed' = FALSE /\ regular' = 0 /\ cb' = FALSE
    BY <1>2 DEF Disposes, Sends, Disposed, FreshContext
  <2>2. UNCHANGED <<channels, patterns, aborted, wanted, missed, pipelined,
                    commands, messages>> /\ Overtaken
    BY <1>2 DEF Disposes, Disposed, memberVars, tallies
  <2>3. toServer' \in Seq(Commands) /\ toClient' \in Seq(Answers)
    BY <2>1
  <2> QED
    BY <1>0, <2>1, <2>2, <2>3, OvertakenTyped
    DEF MemberTypeOK, HiredisTypeOK, PipeTypeOK, HistoryTypeOK
<1>3. CASE Reconnects
  <2>1. toServer' \in Seq(Commands)
    BY <1>0, <1>3, TwoCommands DEF Reconnects
  <2>2. toClient' = <<>> /\ served' = {} /\ cb' = FALSE /\ Overtaken
    BY <1>3 DEF Reconnects, Disposed
  <2>3. UNCHANGED <<channels, patterns, aborted, wanted, missed, pipelined,
                    commands, messages>>
    BY <1>3 DEF Reconnects, memberVars, tallies
  <2>4. handlers' \subseteq Names /\ regular' \in Nat
    BY <1>0, <1>3 DEF Reconnects, Held, MemberTypeOK, Names
  <2>5. subscribed' \in BOOLEAN
    BY <1>3 DEF Reconnects
  <2>6. toClient' \in Seq(Answers)
    BY <2>2
  <2> QED
    BY <1>0, <2>1, <2>2, <2>3, <2>4, <2>5, <2>6, OvertakenTyped
    DEF MemberTypeOK, HiredisTypeOK, PipeTypeOK, HistoryTypeOK
<1>4. ASSUME NEW n \in Names, Subscribe(n)
      PROVE  (MemberTypeOK /\ HiredisTypeOK /\ PipeTypeOK /\ HistoryTypeOK)'
  <2>1. toServer' \in Seq(Commands)
    <3>1. toServer \in Seq(Commands) /\ Command("subscribe", <<n>>) \in Commands
      BY <1>0, NamesAsked DEF PipeTypeOK
    <3>2. Append(toServer, Command("subscribe", <<n>>)) \in Seq(Commands)
      BY <3>1, AppendOf
    <3> QED
      BY <1>4, <3>2, SubscribeDoes
  <2> QED
    BY <1>0, <1>4, <2>1, SubscribeDoes, AsksTyped
    DEF memberVars, MemberTypeOK, HiredisTypeOK, PipeTypeOK, HistoryTypeOK
<1>5. ASSUME NEW n \in Names, Unsubscribe(n)
      PROVE  (MemberTypeOK /\ HiredisTypeOK /\ PipeTypeOK /\ HistoryTypeOK)'
  <2>1. toServer' \in Seq(Commands)
    <3>1. toServer \in Seq(Commands) /\ Command("unsubscribe", <<n>>) \in Commands
      BY <1>0, NamesAsked DEF PipeTypeOK
    <3>2. Append(toServer, Command("unsubscribe", <<n>>)) \in Seq(Commands)
      BY <3>1, AppendOf
    <3> QED
      BY <1>5, <3>1, <3>2, UnsubscribeDoes
  <2> QED
    BY <1>0, <1>5, <2>1, UnsubscribeDoes, AsksTyped
    DEF memberVars, MemberTypeOK, HiredisTypeOK, PipeTypeOK, HistoryTypeOK
<1>6. CASE Serve
  <2> DEFINE c == Head(toServer)
  <2>1. c \in Commands /\ Tail(toServer) \in Seq(Commands)
    BY <1>0, <1>6, ServeSends, TailOf DEF PipeTypeOK
  <2>2. AnswersTo(c) \in Seq(Answers) /\ After(c, Len(c.names)) \subseteq Names
    BY <1>0, <2>1, AnswersTyped DEF PipeTypeOK
  <2>3. toClient' \in Seq(Answers)
    BY <1>0, <1>6, <2>2, ServeSends, PlusOf DEF PipeTypeOK
  <2>4. UNCHANGED <<memberVars, hiredisVars, historyVars>>
    BY <1>6, ServeSends
  <2> QED
    BY <1>0, <1>6, <2>1, <2>2, <2>3, <2>4, ServeSends
    DEF memberVars, hiredisVars, historyVars, tallies,
        MemberTypeOK, HiredisTypeOK, PipeTypeOK, HistoryTypeOK
<1>7. ASSUME NEW c \in Channels, Publish(c)
      PROVE  (MemberTypeOK /\ HiredisTypeOK /\ PipeTypeOK /\ HistoryTypeOK)'
  <2>1. toClient' \in Seq(Answers)
    BY <1>0, <1>7, PublishSends, MessagesTyped, PlusOf DEF PipeTypeOK
  <2>2. messages' \in 0 .. MaxMessages
    BY <1>0, <1>7, SubscriberAssumption DEF Publish, HistoryTypeOK
  <2>3. UNCHANGED <<memberVars, hiredisVars, toServer, served, wanted,
                    request, missed, pipelined, commands>>
    BY <1>7 DEF Publish
  <2> QED
    BY <1>0, <2>1, <2>2, <2>3
    DEF memberVars, hiredisVars,
        MemberTypeOK, HiredisTypeOK, PipeTypeOK, HistoryTypeOK
<1>8. ASSUME NEW r, ReadRegular(r)
      PROVE  (MemberTypeOK /\ HiredisTypeOK /\ PipeTypeOK /\ HistoryTypeOK)'
  <2>1. r \in Answers /\ toClient' \in Seq(Answers) /\ Calls(r)
    BY <1>8, ReadTakes DEF ReadRegular, Calls
  <2>2. cb' \in BOOLEAN /\ regular' \in Nat
    BY <1>0, <1>8 DEF ReadRegular, HiredisTypeOK
  <2>3. UNCHANGED <<handlers, subscribed, aborted, toServer, served,
                    wanted, missed, tallies>>
    BY <1>8 DEF ReadRegular
  <2> QED
    BY <1>0, <2>1, <2>2, <2>3, CallsTyped
    DEF tallies, MemberTypeOK, HiredisTypeOK, PipeTypeOK, HistoryTypeOK
<1>9. ASSUME NEW r, NEW batch \in {"new", "same"}, ReadSubscribed(r, batch)
      PROVE  (MemberTypeOK /\ HiredisTypeOK /\ PipeTypeOK /\ HistoryTypeOK)'
  <2>1. r \in Answers /\ toClient' \in Seq(Answers) /\ Calls(r)
    BY <1>9, ReadTakes DEF ReadSubscribed, Calls
  <2>2. cb' \in BOOLEAN /\ subscribed' \in BOOLEAN /\ missed' \in BOOLEAN
    BY <1>0, <1>9 DEF ReadSubscribed, HiredisTypeOK, HistoryTypeOK
  <2>3. handlers' \subseteq Names
    BY <1>0, <1>9 DEF ReadSubscribed, HiredisTypeOK
  <2>4. UNCHANGED <<regular, aborted, toServer, served, wanted, tallies>>
    BY <1>9 DEF ReadSubscribed
  <2> QED
    BY <1>0, <2>1, <2>2, <2>3, <2>4, CallsTyped
    DEF tallies, MemberTypeOK, HiredisTypeOK, PipeTypeOK, HistoryTypeOK
<1>10. ASSUME NEW r, ReadAborts(r)
       PROVE  (MemberTypeOK /\ HiredisTypeOK /\ PipeTypeOK /\ HistoryTypeOK)'
  <2>1. aborted' \in BOOLEAN
        /\ UNCHANGED <<memberVars, handlers, subscribed, regular, cb, pipeVars,
                       historyVars>>
    BY <1>10 DEF ReadAborts
  <2> QED
    BY <1>0, <2>1 DEF memberVars, pipeVars, historyVars, tallies,
       MemberTypeOK, HiredisTypeOK, PipeTypeOK, HistoryTypeOK
<1> QED
  BY <1>1, <1>2, <1>3, <1>4, <1>5, <1>6, <1>7, <1>8, <1>9, <1>10, StepCases

LEMMA LinkStep ==
  ASSUME TypeInv, LinkInv, [Next]_vars
  PROVE  LinkInv'
<1> DEFINE Gone == /\ toServer = <<>> /\ toClient = <<>>
                   /\ served = {} /\ handlers = {} /\ regular = 0 /\ ~subscribed
<1>0. Alone' /\ Alone /\ (~Current => Gone) /\ (current = NULL => Held = {})
  BY ContextStep DEF LinkInv
<1> SUFFICES (~Current' => Gone') /\ (current' = NULL => Held' = {})
  BY <1>0 DEF LinkInv
<1>c. Current => current # NULL
  BY DEF Current
<1>1. CASE Idles
  <2>1. Gone' <=> Gone
    BY <1>1 DEF Idles, hiredisVars, pipeVars
  <2>2. Held' = Held
    BY <1>1 DEF Idles, memberVars, Held
  <2>3. current = NULL \/ (Current' <=> Current)
    BY <1>1 DEF Idles
  <2>4. current' = NULL => current = NULL
    BY <1>1 DEF Idles
  <2> QED
    BY <1>0, <1>c, <2>1, <2>2, <2>3, <2>4
<1>2. CASE Disposes
  <2>1. Gone'
    BY <1>2 DEF Disposes, Sends, Disposed, FreshContext
  <2> QED
    BY <1>2, <2>1 DEF Disposes
<1>3. CASE Reconnects
  BY <1>3 DEF Reconnects
<1>4. ASSUME UNCHANGED contextVars, Current
      PROVE  (~Current' => Gone') /\ (current' = NULL => Held' = {})
  BY <1>c, <1>4 DEF contextVars, Current
<1>5. ASSUME NEW n \in Names, Subscribe(n) \/ Unsubscribe(n)
      PROVE  UNCHANGED contextVars /\ Current
  BY <1>5, SubscribeDoes, UnsubscribeDoes DEF Asks
<1>6. ASSUME Serve PROVE UNCHANGED contextVars /\ Current
  BY <1>6 DEF Serve
<1>7. ASSUME NEW c \in Channels, Publish(c) PROVE UNCHANGED contextVars /\ Current
  BY <1>7 DEF Publish
<1>8. ASSUME NEW r, NEW batch \in {"new", "same"},
             ReadRegular(r) \/ ReadAborts(r) \/ ReadSubscribed(r, batch)
      PROVE  UNCHANGED contextVars /\ Current
  BY <1>8 DEF ReadRegular, ReadAborts, ReadSubscribed, Reads
<1> QED
  BY <1>1, <1>2, <1>3, <1>4, <1>5, <1>6, <1>7, <1>8, StepCases

LEMMA TypeLinkInit == Init => TypeInv /\ LinkInv
<1> SUFFICES ASSUME Init PROVE TypeInv /\ LinkInv
  OBVIOUS
<1>1. ContextTypeOK
  BY ContextTyped DEF Init
<1>2. toServer \in Seq(Commands) /\ toClient \in Seq(Answers)
  BY DEF Init
<1>3. commands \in 0 .. MaxCommands /\ messages \in 0 .. MaxMessages
  BY SubscriberAssumption DEF Init
<1>4. Alone
  BY DEF Init, ContextInit, Alone, Live, Up, Connecting
<1>5. MemberTypeOK /\ HiredisTypeOK
  BY DEF Init, MemberTypeOK, HiredisTypeOK
<1>6. PipeTypeOK
  BY <1>2 DEF Init, PipeTypeOK
<1>7. HistoryTypeOK
  BY <1>3 DEF Init, HistoryTypeOK
<1> QED
  BY <1>1, <1>4, <1>5, <1>6, <1>7 DEF TypeInv, LinkInv, Init, Held

LEMMA TypeLink == Spec => [](TypeInv /\ LinkInv)
<1>1. Init => TypeInv /\ LinkInv
  BY TypeLinkInit
<1>2. TypeInv /\ LinkInv /\ [Next]_vars => (TypeInv /\ LinkInv)'
  BY TypeStep, LinkStep
<1> QED
  BY <1>1, <1>2, PTL DEF Spec

\* Every variable keeps its type, and each end of the pipes reads nothing but
\* what the other can have sent.
THEOREM TypeCorrect == Spec => []TypeOK
<1>1. TypeInv => TypeOK
  <2> SUFFICES ASSUME TypeInv PROVE TypeOK
    OBVIOUS
  <2>1. \A k \in 1 .. Len(toServer) :
          toServer[k].op \in {"subscribe", "unsubscribe"} /\ toServer[k].names \in Seq(Names)
    <3> SUFFICES ASSUME NEW k \in 1 .. Len(toServer)
                 PROVE  toServer[k].op \in {"subscribe", "unsubscribe"}
                        /\ toServer[k].names \in Seq(Names)
      OBVIOUS
    <3>1. toServer[k] \in Commands
      BY DEF TypeInv, PipeTypeOK
    <3> QED
      BY <3>1 DEF Commands
  <2>2. \A k \in 1 .. Len(toClient) :
          toClient[k].type \in {"subscribe", "unsubscribe", "message", "error"}
    <3> SUFFICES ASSUME NEW k \in 1 .. Len(toClient)
                 PROVE  toClient[k].type \in {"subscribe", "unsubscribe", "message", "error"}
      OBVIOUS
    <3>1. toClient[k] \in Answers
      BY DEF TypeInv, PipeTypeOK
    <3> QED
      BY <3>1 DEF Answers
  <2> QED
    BY <2>1, <2>2, Zenon
    DEF TypeInv, MemberTypeOK, HiredisTypeOK, PipeTypeOK, HistoryTypeOK, TypeOK
<1> QED
  BY <1>1, TypeLink, PTL

-----------------------------------------------------------------------------
(* The order of what is under way                                          *)

\* pipelined is for ever; it is set by the application alone.
LEMMA PipelinedStays ==
  ASSUME TypeInv, LinkInv, [Next]_vars, ~pipelined'
  PROVE  ~pipelined
<1>1. Idles \/ Disposes \/ Reconnects => ~pipelined
  BY DEF Idles, Disposes, Reconnects, historyVars, tallies
<1>2. \A n \in Names : Subscribe(n) \/ Unsubscribe(n) => ~pipelined
  BY DEF Subscribe, Unsubscribe, Asks
<1>3. Serve => ~pipelined
  BY DEF Serve, historyVars, tallies
<1>4. \A c : Publish(c) => ~pipelined
  BY DEF Publish
<1>5. \A r : ReadRegular(r) \/ ReadAborts(r) => ~pipelined
  BY DEF ReadRegular, ReadAborts, historyVars, tallies
<1>6. \A r, batch : ReadSubscribed(r, batch) => ~pipelined
  BY DEF ReadSubscribed, tallies
<1> QED
  BY <1>1, <1>2, <1>3, <1>4, <1>5, <1>6, StepCases

\* A command is sent while no unsubscribe is unanswered.
LEMMA AsksAlone ==
  ASSUME NEW n, Asks(n), ~pipelined'
  PROVE  /\ \A k \in 1 .. Len(toServer) : toServer[k].op # "unsubscribe"
         /\ \A k \in 1 .. Len(toClient) : toClient[k].type # "unsubscribe"
BY DEF Asks, Unsubscribing

\* The first reply is taken: the order of the rest is what it was.
LEMMA OrderOfTail ==
  ASSUME TypeInv, OrderInv, NEW r, Reads(r), toClient' = Tail(toClient),
         UNCHANGED <<toServer, served, wanted>>
  PROVE  OrderInv'
<1>1. /\ Len(toClient) \in Nat /\ Len(Tail(toClient)) = Len(toClient) - 1
      /\ \A k \in 1 .. Len(Tail(toClient)) :
           k \in Nat /\ k + 1 \in 1 .. Len(toClient) /\ Tail(toClient)[k] = toClient[k + 1]
  BY TailOf DEF Reads, TypeInv, PipeTypeOK
<1>2. \A k \in 1 .. Len(toServer) : LastCommand(k)'
  BY DEF OrderInv, LastCommand
<1>3. ASSUME NEW k \in 1 .. Len(Tail(toClient)), Tail(toClient)[k].type = "unsubscribe"
      PROVE  LastAnswer(k)'
  <2>1. LastAnswer(k + 1) /\ toClient[k + 1].type = "unsubscribe"
        /\ toClient'[k] = toClient[k + 1]
    BY <1>1, <1>3 DEF OrderInv
  <2>2. ASSUME NEW j \in k + 1 .. Len(Tail(toClient))
        PROVE  toClient'[j].type = "message" /\ toClient'[j].name # toClient'[k].name
    <3>1. j \in 1 .. Len(Tail(toClient)) /\ j + 1 \in (k + 1) + 1 .. Len(toClient)
      BY <1>1
    <3>2. toClient'[j] = toClient[j + 1]
      BY <1>1, <3>1
    <3> QED
      BY <2>1, <3>1, <3>2 DEF LastAnswer
  <2>3. k + 1 = Len(toClient) => k = Len(toClient')
    BY <1>1
  <2> QED
    BY <2>1, <2>2, <2>3 DEF LastAnswer
<1> QED
  BY <1>2, <1>3 DEF OrderInv, LastAnswer

LEMMA OrderOfServe ==
  ASSUME TypeInv, OrderInv, Serve
  PROVE  OrderInv'
<1> DEFINE c == Head(toServer)
           e == AnswersTo(c)
<1>0. toServer \in Seq(Commands) /\ toClient \in Seq(Answers) /\ served \subseteq Names
  BY DEF TypeInv, PipeTypeOK
<1>1. /\ toServer # <<>>
      /\ served' = After(c, Len(c.names))
      /\ toClient' = toClient \o e
      /\ toServer' = Tail(toServer)
      /\ wanted' = wanted
  BY ServeSends DEF historyVars
<1>2. /\ c = toServer[1] /\ 1 \in 1 .. Len(toServer) /\ c \in Commands
      /\ Len(toServer) \in Nat /\ Len(Tail(toServer)) = Len(toServer) - 1
      /\ Tail(toServer) \in Seq(Commands)
      /\ \A k \in 1 .. Len(Tail(toServer)) :
           k \in Nat /\ k + 1 \in 1 .. Len(toServer) /\ Tail(toServer)[k] = toServer[k + 1]
  BY <1>0, <1>1, TailOf
<1>3. ASSUME NEW k \in 1 .. Len(Tail(toServer))
      PROVE  LastCommand(k)'
  <2>1. LastCommand(k + 1) /\ toServer'[k] = toServer[k + 1]
    BY <1>1, <1>2 DEF OrderInv
  <2>2. k + 1 = Len(toServer) => k = Len(toServer')
    <3>1. k \in Nat /\ Len(toServer) \in Nat /\ Len(toServer') = Len(toServer) - 1
      BY <1>1, <1>2
    <3> QED
      BY <3>1
  <2> QED
    BY <1>1, <2>1, <2>2 DEF LastCommand
<1>4. /\ e \in Seq(Answers) /\ Len(c.names) \in Nat
      /\ c.names = <<>> => Len(e) = 1 /\ e[1] = Reply("error", NULL, 0)
      /\ c.names # <<>> =>
           /\ Len(e) = Len(c.names)
           /\ \A j \in 1 .. Len(c.names) :
                e[j] = Reply(c.op, c.names[j], Cardinality(After(c, j)))
  BY <1>0, <1>2, AnswersTyped
<1> HIDE DEF e
<1>5. /\ Len(toClient) \in Nat /\ Len(toClient \o e) = Len(toClient) + Len(e)
      /\ \A k \in 1 .. Len(toClient \o e) :
           \/ k \in 1 .. Len(toClient) /\ (toClient \o e)[k] = toClient[k]
           \/ k - Len(toClient) \in 1 .. Len(e)
              /\ (toClient \o e)[k] = e[k - Len(toClient)]
  BY <1>0, <1>4, PlusOf
<1>6. \A k \in 1 .. Len(toClient) : toClient[k].type # "unsubscribe"
  BY <1>1 DEF OrderInv, LastAnswer
<1>7. ASSUME NEW j \in 1 .. Len(e), e[j].type = "unsubscribe"
      PROVE  c.op = "unsubscribe"
  <2>1. CASE c.names = <<>>
    <3>0. Len(e) = 1 /\ e[1] = Reply("error", NULL, 0)
      BY <1>4, <2>1
    <3>1. j = 1 /\ e[j] = Reply("error", NULL, 0)
      BY <3>0
    <3> QED
      BY <1>7, <3>1 DEF Reply
  <2>2. CASE c.names # <<>>
    <3>1. e[j] = Reply(c.op, c.names[j], Cardinality(After(c, j)))
      BY <1>4, <2>2
    <3> QED
      BY <1>7, <3>1 DEF Reply
  <2> QED
    BY <2>1, <2>2
<1>8. CASE c.op # "unsubscribe"
  <2>1. \A k \in 1 .. Len(toClient') : toClient'[k].type # "unsubscribe"
    BY <1>1, <1>5, <1>6, <1>7, <1>8
  <2> QED
    BY <1>1, <1>3, <2>1 DEF OrderInv, LastAnswer
<1>9. CASE c.op = "unsubscribe"
  <2> DEFINE n == c.names[1]
  <2>1. 1 = Len(toServer) /\ Len(c.names) = 1 /\ n \notin wanted
    BY <1>2, <1>9 DEF OrderInv, LastCommand
  <2>2. c.names # <<>>
    BY <2>1
  <2>3. toServer' = <<>>
    BY <1>1, <1>2, <2>1, EmptySeq
  <2>4. {c.names[k] : k \in 1 .. 1} = {n}
    OBVIOUS
  <2>5. After(c, 1) = served \ {n}
    BY <1>9, <2>4 DEF After
  <2>6. Len(e) = 1 /\ e[1] = Reply("unsubscribe", n, Cardinality(served \ {n}))
    <3>1. 1 \in 1 .. Len(c.names) /\ Len(e) = 1
      BY <1>4, <2>1, <2>2
    <3>2. e[1] = Reply(c.op, c.names[1], Cardinality(After(c, 1)))
      BY <1>4, <2>2, <3>1
    <3> QED
      BY <1>9, <2>5, <3>1, <3>2
  <2>7. served' = served \ {n}
    BY <1>1, <2>1, <2>5
  <2>8. ASSUME NEW k \in 1 .. Len(toClient'), toClient'[k].type = "unsubscribe"
        PROVE  LastAnswer(k)'
    <3>1. k = Len(toClient') /\ toClient'[k] = e[1]
      BY <1>1, <1>5, <1>6, <2>6, <2>8
    <3>2. toClient'[k].name = n /\ toClient'[k].count = Cardinality(served \ {n})
      BY <2>6, <3>1 DEF Reply
    <3>3. Cardinality(served \ {n}) = 0 => served \ {n} = {}
      BY <1>0, NamesFinite, FS_EmptySet
    <3>4. \A j \in k + 1 .. Len(toClient') : FALSE
      BY <1>1, <1>4, <1>5, <2>6, <3>1
    <3> QED
      BY <1>1, <2>1, <2>3, <2>7, <3>1, <3>2, <3>3, <3>4 DEF LastAnswer
  <2> QED
    BY <1>1, <1>3, <2>8 DEF OrderInv, LastAnswer
<1> QED
  BY <1>8, <1>9

LEMMA OrderOfPublish ==
  ASSUME TypeInv, OrderInv, NEW c \in Channels, Publish(c)
  PROVE  OrderInv'
<1> DEFINE e == Messages(c)
<1>0. toClient \in Seq(Answers) /\ served \subseteq Names
  BY DEF TypeInv, PipeTypeOK
<1>1. /\ toClient' = toClient \o e /\ served # {}
      /\ UNCHANGED <<toServer, served, wanted>>
  BY PublishSends DEF Publish
<1>2. e \in Seq(Answers)
      /\ \A j \in 1 .. Len(e) : e[j].type = "message" /\ e[j].name \in served
  BY <1>0, MessagesTyped
<1> HIDE DEF e
<1>3. /\ Len(toClient) \in Nat /\ Len(e) \in Nat
      /\ Len(toClient \o e) = Len(toClient) + Len(e)
      /\ \A k \in 1 .. Len(toClient \o e) :
           \/ k \in 1 .. Len(toClient) /\ (toClient \o e)[k] = toClient[k]
           \/ k - Len(toClient) \in 1 .. Len(e)
              /\ (toClient \o e)[k] = e[k - Len(toClient)]
  BY <1>0, <1>2, PlusOf
<1>4. \A k \in 1 .. Len(toServer') : LastCommand(k)'
  BY <1>1 DEF OrderInv, LastCommand
<1>5. ASSUME NEW k \in 1 .. Len(toClient'), toClient'[k].type = "unsubscribe"
      PROVE  LastAnswer(k)'
  <2>1. k \in 1 .. Len(toClient) /\ toClient'[k] = toClient[k] /\ LastAnswer(k)
    BY <1>1, <1>2, <1>3, <1>5 DEF OrderInv
  <2>2. toClient[k].name \notin wanted \cup served /\ toServer = <<>>
        /\ toClient[k].count # 0
    BY <1>1, <1>5, <2>1 DEF LastAnswer
  <2>3. ASSUME NEW j \in k + 1 .. Len(toClient')
        PROVE  toClient'[j].type = "message" /\ toClient'[j].name # toClient'[k].name
    <3>1. j \in 1 .. Len(toClient')
      BY <1>1, <1>3, <2>1
    <3>2. CASE j \in 1 .. Len(toClient) /\ toClient'[j] = toClient[j]
      <4>1. j \in k + 1 .. Len(toClient)
        BY <1>3, <2>1, <3>2
      <4> QED
        BY <1>5, <2>1, <3>2, <4>1 DEF LastAnswer
    <3>3. CASE j - Len(toClient) \in 1 .. Len(e) /\ toClient'[j] = e[j - Len(toClient)]
      BY <1>2, <2>1, <2>2, <3>3
    <3> QED
      BY <1>1, <1>3, <3>1, <3>2, <3>3
  <2> QED
    BY <1>1, <2>1, <2>2, <2>3 DEF LastAnswer
<1> QED
  BY <1>4, <1>5 DEF OrderInv, LastAnswer

LEMMA OrderStep ==
  ASSUME TypeInv, LinkInv, OrderInv, [Next]_vars, ~pipelined'
  PROVE  OrderInv'
<1>0. toServer \in Seq(Commands) /\ MemberTypeOK
  BY DEF TypeInv, PipeTypeOK
<1>1. CASE UNCHANGED <<toServer, toClient, served, wanted>>
  BY <1>1 DEF OrderInv, LastCommand, LastAnswer
<1>2. CASE Idles
  BY <1>1, <1>2 DEF Idles, pipeVars, historyVars
<1>3. CASE Disposes
  <2>1. toServer' = <<>> /\ toClient' = <<>>
    BY <1>3 DEF Disposes, Sends, FreshContext, Disposed
  <2> QED
    BY <2>1 DEF OrderInv
<1>4. CASE Reconnects
  <2>1. toClient' = <<>>
    BY <1>4 DEF Reconnects, Disposed
  <2>2. \A k \in 1 .. Len(toServer') : toServer'[k].op # "unsubscribe"
    <3>1. Len(toServer') = 2 /\ toServer'[1].op = "subscribe" /\ toServer'[2].op = "subscribe"
      BY <1>0, <1>4, TwoCommands DEF Reconnects
    <3>2. \A k \in 1 .. 2 : k = 1 \/ k = 2
      OBVIOUS
    <3> QED
      BY <3>1, <3>2
  <2> QED
    BY <2>1, <2>2 DEF OrderInv, LastCommand
<1>5. ASSUME NEW n \in Names, Subscribe(n)
      PROVE  OrderInv'
  <2> DEFINE x == Command("subscribe", <<n>>)
  <2>1. x \in Commands /\ x.op = "subscribe"
    BY NamesAsked
  <2>2. toServer' = Append(toServer, x) /\ toClient' = toClient /\ Asks(n)
    BY <1>5, SubscribeDoes
  <2> HIDE DEF x
  <2>3. \A k \in 1 .. Len(toServer') : toServer'[k].op # "unsubscribe"
    BY <1>0, <2>1, <2>2, AppendOf, AsksAlone
  <2>4. \A k \in 1 .. Len(toClient') : toClient'[k].type # "unsubscribe"
    BY <2>2, AsksAlone
  <2> QED
    BY <2>3, <2>4 DEF OrderInv, LastCommand, LastAnswer
<1>6. ASSUME NEW n \in Names, Unsubscribe(n)
      PROVE  OrderInv'
  <2> DEFINE x == Command("unsubscribe", <<n>>)
  <2>1. x \in Commands /\ x.names = <<n>> /\ Len(<<n>>) = 1 /\ <<n>>[1] = n
    BY NamesAsked
  <2>2. /\ toServer' = IF subscribed THEN Append(toServer, x) ELSE toServer
        /\ toClient' = toClient /\ Asks(n) /\ n \notin wanted'
    BY <1>6, UnsubscribeDoes
  <2> HIDE DEF x
  <2>3. ASSUME NEW k \in 1 .. Len(toServer'), toServer'[k].op = "unsubscribe"
        PROVE  k = Len(toServer') /\ toServer'[k] = x
    <3>1. toServer' = Append(toServer, x)
      BY <2>2, <2>3, AsksAlone
    <3> QED
      BY <1>0, <2>1, <2>2, <2>3, <3>1, AppendOf, AsksAlone
  <2>4. \A k \in 1 .. Len(toClient') : toClient'[k].type # "unsubscribe"
    BY <2>2, AsksAlone
  <2>5. \A k \in 1 .. Len(toServer') : LastCommand(k)'
    BY <2>1, <2>2, <2>3 DEF LastCommand
  <2> QED
    BY <2>4, <2>5 DEF OrderInv, LastAnswer
<1>7. ASSUME NEW r, ReadRegular(r)
      PROVE  OrderInv'
  BY <1>7, OrderOfTail DEF ReadRegular
<1>8. ASSUME NEW r, NEW batch \in {"new", "same"}, ReadSubscribed(r, batch)
      PROVE  OrderInv'
  BY <1>8, OrderOfTail DEF ReadSubscribed
<1>9. ASSUME NEW r, ReadAborts(r)
      PROVE  OrderInv'
  BY <1>1, <1>9 DEF ReadAborts, pipeVars, historyVars
<1> QED
  BY <1>2, <1>3, <1>4, <1>5, <1>6, <1>7, <1>8, <1>9, OrderOfServe, OrderOfPublish, StepCases

LEMMA UnsubscribedStep ==
  ASSUME TypeInv, LinkInv, OrderInv, UnsubscribedInv, [Next]_vars, ~pipelined'
  PROVE  UnsubscribedInv'
<1>0. /\ toServer \in Seq(Commands) /\ MemberTypeOK
      /\ toClient \in Seq(Answers) /\ served \subseteq Names
  BY DEF TypeInv, PipeTypeOK
<1>1. CASE UNCHANGED <<subscribed, toServer, toClient, served>>
  BY <1>1 DEF UnsubscribedInv
<1>2. CASE Idles
  BY <1>1, <1>2 DEF Idles, pipeVars, hiredisVars
<1>3. CASE Disposes
  <2>1. toServer' = <<>> /\ toClient' = <<>> /\ served' = {}
    BY <1>3 DEF Disposes, Sends, FreshContext, Disposed
  <2> QED
    BY <2>1 DEF UnsubscribedInv
<1>4. CASE Reconnects
  <2> SUFFICES ASSUME ~subscribed' PROVE UnsubscribedInv'
    BY DEF UnsubscribedInv
  <2>1. toClient' = <<>> /\ served' = {} /\ channels = {} /\ patterns = {}
    BY <1>4 DEF Reconnects, Disposed, Held
  <2>2. /\ Len(toServer') = 2 /\ toServer'[1].names = <<>> /\ toServer'[2].names = <<>>
    BY <1>0, <1>4, <2>1, TwoCommands DEF Reconnects
  <2>3. \A k \in 1 .. 2 : k = 1 \/ k = 2
    OBVIOUS
  <2> QED
    BY <2>1, <2>2, <2>3 DEF UnsubscribedInv
<1>5. ASSUME NEW n \in Names, Subscribe(n)
      PROVE  UnsubscribedInv'
  BY <1>5, SubscribeDoes DEF UnsubscribedInv
<1>6. ASSUME NEW n \in Names, Unsubscribe(n)
      PROVE  UnsubscribedInv'
  <2>1. CASE subscribed
    BY <1>6, <2>1, UnsubscribeDoes DEF UnsubscribedInv
  <2>2. CASE ~subscribed
    BY <1>1, <1>6, <2>2, UnsubscribeDoes
  <2> QED
    BY <2>1, <2>2
<1>7. CASE Serve
  <2> DEFINE c == Head(toServer)
             e == AnswersTo(c)
  <2> SUFFICES ASSUME ~subscribed PROVE UnsubscribedInv'
    BY <1>7, ServeSends DEF hiredisVars, UnsubscribedInv
  <2>1. /\ toServer # <<>> /\ toServer' = Tail(toServer)
        /\ served' = After(c, Len(c.names)) /\ toClient' = toClient \o e
    BY <1>7, ServeSends
  <2>2. /\ c = toServer[1] /\ 1 \in 1 .. Len(toServer) /\ c \in Commands
        /\ \A k \in 1 .. Len(Tail(toServer)) :
             k + 1 \in 1 .. Len(toServer) /\ Tail(toServer)[k] = toServer[k + 1]
    BY <1>0, <2>1, TailOf
  <2>3. c.names = <<>> /\ served = {}
    BY <2>2 DEF UnsubscribedInv
  <2>4. /\ e \in Seq(Answers) /\ Len(e) = 1 /\ e[1] = Reply("error", NULL, 0)
        /\ After(c, Len(c.names)) = served
    BY <1>0, <2>2, <2>3, AnswersTyped
  <2> HIDE DEF e
  <2>5. \A k \in 1 .. Len(e) : e[k].type = "error"
    <3>1. \A k \in 1 .. 1 : k = 1
      OBVIOUS
    <3> QED
      BY <2>4, <3>1 DEF Reply
  <2>6. \A k \in 1 .. Len(toClient') : toClient'[k].type = "error"
    <3>1. \A k \in 1 .. Len(toClient \o e) :
            \/ k \in 1 .. Len(toClient) /\ (toClient \o e)[k] = toClient[k]
            \/ k - Len(toClient) \in 1 .. Len(e)
               /\ (toClient \o e)[k] = e[k - Len(toClient)]
      <4>1. toClient \in Seq(Answers) /\ e \in Seq(Answers)
        BY <1>0, <2>4
      <4> QED
        BY <4>1, PlusOf
    <3> QED
      BY <2>1, <2>5, <3>1 DEF UnsubscribedInv
  <2>7. \A k \in 1 .. Len(toServer') : toServer'[k].names = <<>>
    BY <2>1, <2>2 DEF UnsubscribedInv
  <2> QED
    BY <2>1, <2>3, <2>4, <2>6, <2>7 DEF UnsubscribedInv
<1>8. ASSUME NEW c \in Channels, Publish(c)
      PROVE  UnsubscribedInv'
  BY <1>8 DEF Publish, hiredisVars, UnsubscribedInv
<1>9. ASSUME NEW r, Reads(r), toClient' = Tail(toClient), UNCHANGED <<toServer, served>>,
             subscribed' = subscribed
      PROVE  UnsubscribedInv'
  <2>1. \A k \in 1 .. Len(Tail(toClient)) :
          k + 1 \in 1 .. Len(toClient) /\ Tail(toClient)[k] = toClient[k + 1]
    BY <1>0, <1>9, TailOf DEF Reads
  <2> QED
    BY <1>9, <2>1 DEF UnsubscribedInv
<1>10. ASSUME NEW r, ReadRegular(r)
       PROVE  UnsubscribedInv'
  BY <1>9, <1>10 DEF ReadRegular
<1>11. ASSUME NEW r, NEW batch \in {"new", "same"}, ReadSubscribed(r, batch)
       PROVE  UnsubscribedInv'
  <2>1. /\ Reads(r) /\ toClient' = Tail(toClient) /\ UNCHANGED <<toServer, served>>
        /\ subscribed
    BY <1>11 DEF ReadSubscribed
  <2>2. /\ 1 \in 1 .. Len(toClient) /\ r = toClient[1] /\ Len(toClient) \in Nat
        /\ Len(Tail(toClient)) = Len(toClient) - 1
    BY <1>0, <2>1, TailOf DEF Reads
  <2>3. CASE r.type = "unsubscribe" /\ r.count = 0
    <3>1. served = {} /\ 1 = Len(toClient) /\ toServer = <<>>
      BY <2>2, <2>3 DEF OrderInv, LastAnswer
    <3>2. Len(toClient') = 0 /\ Len(toServer') = 0
      BY <2>1, <2>2, <3>1
    <3>3. \A k \in 1 .. 0 : FALSE
      OBVIOUS
    <3> QED
      BY <2>1, <3>1, <3>2, <3>3 DEF UnsubscribedInv
  <2>4. CASE ~(r.type = "unsubscribe" /\ r.count = 0)
    <3>1. subscribed'
      BY <1>11, <2>4 DEF ReadSubscribed
    <3> QED
      BY <3>1 DEF UnsubscribedInv
  <2> QED
    BY <2>3, <2>4
<1>12. ASSUME NEW r, ReadAborts(r)
       PROVE  UnsubscribedInv'
  BY <1>1, <1>12 DEF ReadAborts, pipeVars
<1> QED
  BY <1>2, <1>3, <1>4, <1>5, <1>6, <1>7, <1>8, <1>10, <1>11, <1>12, StepCases

\* What holds while the application awaits its confirmations.
QuietInv ==
  /\ TypeInv /\ LinkInv
  /\ ~pipelined => OrderInv /\ UnsubscribedInv

LEMMA QuietInit == Init => QuietInv
<1>1. Init => OrderInv /\ UnsubscribedInv
  BY DEF Init, OrderInv, UnsubscribedInv
<1> QED
  BY <1>1, TypeLinkInit DEF QuietInv

LEMMA QuietStep == QuietInv /\ [Next]_vars => QuietInv'
BY TypeStep, LinkStep, OrderStep, UnsubscribedStep, PipelinedStays DEF QuietInv

\* hiredis's assertion (async.c:450) fails for no application that awaits the
\* confirmation of an unsubscribe, whatever it asks for, and however often its
\* connection is lost and its empty commands refused.
THEOREM AbortsNeedPipelining == Spec => []AbortsOnPipeliningOnly
<1> DEFINE Inv == QuietInv /\ (aborted => pipelined)
<1>1. Init => Inv
  BY QuietInit DEF Init
<1>2. Inv /\ [Next]_vars => Inv'
  <2> SUFFICES ASSUME Inv, [Next]_vars, aborted', ~pipelined' PROVE FALSE
    BY QuietStep
  <2>0. TypeInv /\ LinkInv /\ ~pipelined /\ ~aborted /\ UnsubscribedInv
    BY PipelinedStays DEF QuietInv
  <2>1. \A n : ~Subscribe(n) /\ ~Unsubscribe(n)
    BY <2>0 DEF Subscribe, Unsubscribe
  <2>2. ~Serve /\ \A c : ~Publish(c)
    BY <2>0 DEF Serve, Publish, hiredisVars
  <2>3. ~Idles /\ ~Disposes /\ ~Reconnects
    BY <2>0 DEF Idles, Disposes, Reconnects, hiredisVars
  <2>4. \A r, batch : ~ReadRegular(r) /\ ~ReadSubscribed(r, batch)
    BY <2>0 DEF ReadRegular, ReadSubscribed
  <2>5. ASSUME NEW r, ReadAborts(r) PROVE FALSE
    <3>1. Reads(r) /\ ~subscribed /\ r.type # "error"
      BY <2>5 DEF ReadAborts
    <3>2. 1 \in 1 .. Len(toClient) /\ r = toClient[1]
      BY <2>0, <3>1, TailOf DEF Reads, TypeInv, PipeTypeOK
    <3> QED
      BY <2>0, <3>1, <3>2 DEF UnsubscribedInv
  <2> QED
    BY <2>0, <2>1, <2>2, <2>3, <2>4, <2>5, StepCases
<1>3. Inv => AbortsOnPipeliningOnly
  BY DEF AbortsOnPipeliningOnly
<1> QED
  BY <1>1, <1>2, <1>3, PTL DEF Spec

-----------------------------------------------------------------------------
(* Which names are under way                                               *)

NamesOf(c) == {c.names[k] : k \in 1 .. Len(c.names)}

\* What a read takes from the names under way.
LEMMA ReadUnderway ==
  ASSUME TypeInv, NEW r, Reads(r), toClient' = Tail(toClient), UNCHANGED toServer
  PROVE  /\ \A n : AskedFor(n)' <=> AskedFor(n)
         /\ \A type, n : Answered(type, n)' => Answered(type, n)
         /\ \A type, n : Answered(type, n) =>
              Answered(type, n)' \/ (r.type = type /\ r.name = n)
         /\ Answered(r.type, r.name)
<1>1. /\ r = toClient[1] /\ 1 \in 1 .. Len(toClient)
      /\ \A k \in 1 .. Len(Tail(toClient)) :
           k + 1 \in 1 .. Len(toClient) /\ Tail(toClient)[k] = toClient[k + 1]
      /\ \A k \in 1 .. Len(toClient) :
           k = 1 \/ (k - 1 \in 1 .. Len(Tail(toClient)) /\ Tail(toClient)[k - 1] = toClient[k])
  BY TailOf DEF Reads, TypeInv, PipeTypeOK
<1>2. \A n : AskedFor(n)' <=> AskedFor(n)
  BY DEF AskedFor
<1>3. \A type, n : Answered(type, n)' => Answered(type, n)
  BY <1>1 DEF Answered
<1>4. ASSUME NEW type, NEW n, Answered(type, n), ~(r.type = type /\ r.name = n)
      PROVE  Answered(type, n)'
  <2>1. PICK k \in 1 .. Len(toClient) : toClient[k].type = type /\ toClient[k].name = n
    BY <1>4 DEF Answered
  <2>2. k - 1 \in 1 .. Len(Tail(toClient)) /\ Tail(toClient)[k - 1] = toClient[k]
    BY <1>1, <1>4, <2>1
  <2> QED
    BY <2>1, <2>2 DEF Answered
<1>5. Answered(r.type, r.name)
  BY <1>1 DEF Answered
<1> QED
  BY <1>2, <1>3, <1>4, <1>5

\* The confirmation of an unsubscribe is the last that is said of its name.
LEMMA ReadUnsubscribe ==
  ASSUME TypeInv, OrderInv, NEW r, Reads(r), toClient' = Tail(toClient),
         UNCHANGED toServer, r.type = "unsubscribe"
  PROVE  /\ r.name \notin wanted /\ r.name \notin served
         /\ \A n : ~AskedFor(n) /\ ~AskedFor(n)'
         /\ \A type, n : Answered(type, n)' => type = "message" /\ n # r.name
<1>1. /\ r = toClient[1] /\ 1 \in 1 .. Len(toClient) /\ Len(toClient) \in Nat
      /\ Len(Tail(toClient)) = Len(toClient) - 1
      /\ \A k \in 1 .. Len(Tail(toClient)) :
           k \in Nat /\ Tail(toClient)[k] = toClient[k + 1]
  BY TailOf DEF Reads, TypeInv, PipeTypeOK
<1>2. LastAnswer(1) /\ toClient[1].type = "unsubscribe"
  BY <1>1 DEF OrderInv
<1>3. toServer = <<>> /\ r.name \notin wanted \cup served
  BY <1>1, <1>2 DEF LastAnswer
<1>4. \A k \in 1 .. Len(Tail(toClient)) : k + 1 \in 1 + 1 .. Len(toClient)
  BY <1>1
<1>5. \A k \in 1 .. Len(Tail(toClient)) :
        Tail(toClient)[k].type = "message" /\ Tail(toClient)[k].name # r.name
  BY <1>1, <1>2, <1>4 DEF LastAnswer
<1>6. \A n : ~AskedFor(n) /\ ~AskedFor(n)'
  BY <1>3 DEF AskedFor
<1>7. \A type, n : Answered(type, n)' => type = "message" /\ n # r.name
  BY <1>5 DEF Answered
<1> QED
  BY <1>3, <1>6, <1>7

\* What the server makes of the names of a command.
LEMMA ServeUnderway ==
  ASSUME TypeInv, Serve
  PROVE  LET c == Head(toServer)
         IN /\ c.op \in {"subscribe", "unsubscribe"}
            /\ \A n : AskedFor(n)' => AskedFor(n)
            /\ \A n : AskedFor(n) => AskedFor(n)' \/ (c.op = "subscribe" /\ n \in NamesOf(c))
            /\ \A n : n \in NamesOf(c) /\ c.op = "subscribe" => AskedFor(n)
            /\ \A type, n : Answered(type, n) => Answered(type, n)'
            /\ \A type, n : Answered(type, n)' =>
                 Answered(type, n) \/ type = "error" \/ (type = c.op /\ n \in NamesOf(c))
            /\ \A type, n : type = c.op /\ n \in NamesOf(c) => Answered(type, n)'
            /\ served' = IF c.op = "subscribe" THEN served \cup NamesOf(c)
                         ELSE served \ NamesOf(c)
<1> DEFINE c == Head(toServer)
           e == AnswersTo(c)
<1>0. toServer \in Seq(Commands) /\ toClient \in Seq(Answers) /\ served \subseteq Names
  BY DEF TypeInv, PipeTypeOK
<1>1. /\ toServer # <<>>
      /\ served' = After(c, Len(c.names))
      /\ toClient' = toClient \o e
      /\ toServer' = Tail(toServer)
  BY ServeSends
<1>2. /\ c = toServer[1] /\ 1 \in 1 .. Len(toServer) /\ c \in Commands
      /\ \A k \in 1 .. Len(Tail(toServer)) :
           k + 1 \in 1 .. Len(toServer) /\ Tail(toServer)[k] = toServer[k + 1]
      /\ \A k \in 1 .. Len(toServer) :
           k = 1 \/ (k - 1 \in 1 .. Len(Tail(toServer)) /\ Tail(toServer)[k - 1] = toServer[k])
  BY <1>0, <1>1, TailOf
<1>3. /\ e \in Seq(Answers) /\ Len(c.names) \in Nat
      /\ c.names = <<>> => Len(e) = 1 /\ e[1] = Reply("error", NULL, 0)
      /\ c.names # <<>> =>
           /\ Len(e) = Len(c.names)
           /\ \A j \in 1 .. Len(c.names) :
                e[j] = Reply(c.op, c.names[j], Cardinality(After(c, j)))
      /\ c.names \in Seq(Names)
  BY <1>0, <1>2, AnswersTyped
<1> HIDE DEF e
<1>4. /\ Len(toClient) \in Nat
      /\ \A k \in 1 .. Len(toClient \o e) :
           \/ k \in 1 .. Len(toClient) /\ (toClient \o e)[k] = toClient[k]
           \/ k - Len(toClient) \in 1 .. Len(e)
              /\ (toClient \o e)[k] = e[k - Len(toClient)]
      /\ \A k \in 1 .. Len(toClient) :
           k \in 1 .. Len(toClient \o e) /\ (toClient \o e)[k] = toClient[k]
      /\ \A k \in 1 .. Len(e) :
           k + Len(toClient) \in 1 .. Len(toClient \o e)
           /\ (toClient \o e)[k + Len(toClient)] = e[k]
  BY <1>0, <1>3, PlusOf
<1>5. c.op \in {"subscribe", "unsubscribe"}
  BY <1>2 DEF Commands
<1>6. served' = IF c.op = "subscribe" THEN served \cup NamesOf(c) ELSE served \ NamesOf(c)
  BY <1>1 DEF After, NamesOf
<1> HIDE DEF c
<1>7. \A n : AskedFor(n)' => AskedFor(n)
  BY <1>1, <1>2 DEF AskedFor
<1>8. ASSUME NEW n, AskedFor(n), ~(c.op = "subscribe" /\ n \in NamesOf(c))
      PROVE  AskedFor(n)'
  <2>1. PICK k \in 1 .. Len(toServer) :
          /\ toServer[k].op = "subscribe"
          /\ \E j \in 1 .. Len(toServer[k].names) : toServer[k].names[j] = n
    BY <1>8 DEF AskedFor
  <2>2. k - 1 \in 1 .. Len(Tail(toServer)) /\ Tail(toServer)[k - 1] = toServer[k]
    BY <1>2, <1>8, <2>1 DEF NamesOf
  <2> QED
    BY <1>1, <2>1, <2>2 DEF AskedFor
<1>9. \A n : n \in NamesOf(c) /\ c.op = "subscribe" => AskedFor(n)
  BY <1>2 DEF NamesOf, AskedFor
<1>10. \A type, n : Answered(type, n) => Answered(type, n)'
  BY <1>1, <1>4 DEF Answered
<1>r. \A t, n, k : Reply(t, n, k).type = t /\ Reply(t, n, k).name = n
  BY DEF Reply
<1>11. \A j \in 1 .. Len(e) :
         e[j].type = "error" \/ (e[j].type = c.op /\ e[j].name \in NamesOf(c))
  <2>1. CASE c.names = <<>>
    <3>1. \A k \in 1 .. 1 : k = 1
      OBVIOUS
    <3>2. Len(e) = 1 /\ e[1].type = "error"
      BY <1>3, <1>r, <2>1
    <3> QED
      BY <3>1, <3>2
  <2>2. CASE c.names # <<>>
    <3> SUFFICES ASSUME NEW j \in 1 .. Len(e)
                 PROVE  e[j].type = c.op /\ e[j].name \in NamesOf(c)
      OBVIOUS
    <3>1. j \in 1 .. Len(c.names)
          /\ e[j] = Reply(c.op, c.names[j], Cardinality(After(c, j)))
      BY <1>3, <2>2
    <3>2. e[j].type = c.op /\ e[j].name = c.names[j]
      BY <1>r, <3>1
    <3> QED
      BY <3>1, <3>2 DEF NamesOf
  <2> QED
    BY <2>1, <2>2
<1>12. \A type, n : Answered(type, n)' =>
         Answered(type, n) \/ type = "error" \/ (type = c.op /\ n \in NamesOf(c))
  BY <1>1, <1>4, <1>11 DEF Answered
<1>13. ASSUME NEW type, NEW n, type = c.op, n \in NamesOf(c)
       PROVE  Answered(type, n)'
  <2>1. PICK j \in 1 .. Len(c.names) : c.names[j] = n
    BY <1>13, Zenon DEF NamesOf
  <2>2. c.names # <<>>
    BY <1>3, <2>1, EmptySeq
  <2>3. j \in 1 .. Len(e) /\ e[j].type = c.op /\ e[j].name = n
    <3>1. j \in 1 .. Len(e) /\ e[j] = Reply(c.op, c.names[j], Cardinality(After(c, j)))
      BY <1>3, <2>2
    <3> QED
      BY <1>r, <2>1, <3>1
  <2>4. j + Len(toClient) \in 1 .. Len(toClient') /\ toClient'[j + Len(toClient)] = e[j]
    BY <1>1, <1>4, <2>3
  <2>5. \E k \in 1 .. Len(toClient') : toClient'[k].type = type /\ toClient'[k].name = n
    BY <1>13, <2>3, <2>4
  <2> QED
    BY <2>5 DEF Answered
<1> QED
  BY <1>5, <1>6, <1>7, <1>8, <1>9, <1>10, <1>12, <1>13 DEF c

LEMMA PublishUnderway ==
  ASSUME TypeInv, NEW c \in Channels, Publish(c)
  PROVE  /\ \A n : AskedFor(n)' <=> AskedFor(n)
         /\ \A type, n : Answered(type, n) => Answered(type, n)'
         /\ \A type, n : Answered(type, n)' =>
              Answered(type, n) \/ (type = "message" /\ n \in served)
<1> DEFINE e == Messages(c)
<1>0. toClient \in Seq(Answers) /\ served \subseteq Names
  BY DEF TypeInv, PipeTypeOK
<1>1. toClient' = toClient \o e /\ toServer' = toServer
  BY PublishSends DEF Publish
<1>2. e \in Seq(Answers)
      /\ \A j \in 1 .. Len(e) : e[j].type = "message" /\ e[j].name \in served
  BY <1>0, MessagesTyped
<1> HIDE DEF e
<1>3. /\ \A k \in 1 .. Len(toClient \o e) :
           \/ k \in 1 .. Len(toClient) /\ (toClient \o e)[k] = toClient[k]
           \/ k - Len(toClient) \in 1 .. Len(e)
              /\ (toClient \o e)[k] = e[k - Len(toClient)]
      /\ \A k \in 1 .. Len(toClient) :
           k \in 1 .. Len(toClient \o e) /\ (toClient \o e)[k] = toClient[k]
  BY <1>0, <1>2, PlusOf
<1>4. \A n : AskedFor(n)' <=> AskedFor(n)
  BY <1>1 DEF AskedFor
<1>5. \A type, n : Answered(type, n) => Answered(type, n)'
  BY <1>1, <1>3 DEF Answered
<1>6. \A type, n : Answered(type, n)' =>
        Answered(type, n) \/ (type = "message" /\ n \in served)
  BY <1>1, <1>2, <1>3 DEF Answered
<1> QED
  BY <1>4, <1>5, <1>6

LEMMA SubscribeUnderway ==
  ASSUME TypeInv, NEW m \in Names, Subscribe(m)
  PROVE  /\ \A n : AskedFor(n)' <=> AskedFor(n) \/ n = m
         /\ \A type, n : Answered(type, n)' <=> Answered(type, n)
<1> DEFINE x == Command("subscribe", <<m>>)
<1>1. x \in Commands /\ x.op = "subscribe" /\ Len(x.names) = 1 /\ x.names[1] = m
  BY NamesAsked
<1>2. toServer' = Append(toServer, x) /\ toClient' = toClient
  BY SubscribeDoes
<1> HIDE DEF x
<1>3. toServer \in Seq(Commands)
  BY DEF TypeInv, PipeTypeOK
<1>4. /\ Len(toServer) \in Nat /\ Len(toServer') = Len(toServer) + 1
      /\ toServer'[Len(toServer) + 1] = x
      /\ \A k \in 1 .. Len(toServer) : toServer'[k] = toServer[k]
      /\ \A k \in 1 .. Len(toServer') : k \in 1 .. Len(toServer) \/ k = Len(toServer) + 1
  BY <1>1, <1>2, <1>3, AppendOf
<1>5. \A k \in 1 .. Len(toServer) : k \in 1 .. Len(toServer')
  BY <1>4
<1>6. \A j \in 1 .. 1 : j = 1
  OBVIOUS
<1>7. \A n : AskedFor(n)' => AskedFor(n) \/ n = m
  BY <1>1, <1>4, <1>6 DEF AskedFor
<1>8. \A n : AskedFor(n) => AskedFor(n)'
  BY <1>4, <1>5 DEF AskedFor
<1>9. AskedFor(m)'
  <2>1. Len(toServer) + 1 \in 1 .. Len(toServer') /\ 1 \in 1 .. 1
    BY <1>4
  <2> QED
    BY <1>1, <1>4, <2>1 DEF AskedFor
<1>10. \A type, n : Answered(type, n)' <=> Answered(type, n)
  BY <1>2 DEF Answered
<1> QED
  BY <1>7, <1>8, <1>9, <1>10

LEMMA UnsubscribeUnderway ==
  ASSUME TypeInv, NEW m \in Names, Unsubscribe(m)
  PROVE  /\ \A n : AskedFor(n)' <=> AskedFor(n)
         /\ \A type, n : Answered(type, n)' <=> Answered(type, n)
<1> DEFINE x == Command("unsubscribe", <<m>>)
<1>1. x \in Commands /\ x.op = "unsubscribe"
  BY NamesAsked
<1>2. /\ toServer' = IF subscribed THEN Append(toServer, x) ELSE toServer
      /\ toClient' = toClient
  BY UnsubscribeDoes
<1> HIDE DEF x
<1>3. toServer \in Seq(Commands)
  BY DEF TypeInv, PipeTypeOK
<1>4. CASE subscribed
  <2>1. /\ Len(toServer) \in Nat /\ Len(toServer') = Len(toServer) + 1
        /\ toServer'[Len(toServer) + 1] = x
        /\ \A k \in 1 .. Len(toServer) : toServer'[k] = toServer[k]
        /\ \A k \in 1 .. Len(toServer') : k \in 1 .. Len(toServer) \/ k = Len(toServer) + 1
    BY <1>1, <1>2, <1>3, <1>4, AppendOf
  <2>2. \A k \in 1 .. Len(toServer) : k \in 1 .. Len(toServer')
    BY <2>1
  <2>3. \A n : AskedFor(n)' => AskedFor(n)
    BY <1>1, <2>1 DEF AskedFor
  <2>4. \A n : AskedFor(n) => AskedFor(n)'
    BY <2>1, <2>2 DEF AskedFor
  <2> QED
    BY <1>2, <2>3, <2>4 DEF Answered
<1>5. CASE ~subscribed
  BY <1>2, <1>5 DEF AskedFor, Answered
<1> QED
  BY <1>4, <1>5

LEMMA ReconnectUnderway ==
  ASSUME TypeInv, Reconnects
  PROVE  /\ \A n : AskedFor(n)' <=> n \in Held
         /\ \A type, n : ~Answered(type, n)'
<1>1. MemberTypeOK
  BY DEF TypeInv
<1>2. /\ Len(toServer') = 2
      /\ toServer'[1].op = "subscribe" /\ toServer'[2].op = "subscribe"
      /\ \A n : n \in channels <=>
           \E j \in 1 .. Len(toServer'[1].names) : toServer'[1].names[j] = n
      /\ \A n : n \in patterns <=>
           \E j \in 1 .. Len(toServer'[2].names) : toServer'[2].names[j] = n
  BY <1>1, TwoCommands DEF Reconnects
<1>3. \A k : k \in 1 .. 2 <=> k = 1 \/ k = 2
  OBVIOUS
<1>4. \A n : AskedFor(n)' <=> n \in Held
  BY <1>2, <1>3 DEF AskedFor, Held
<1>5. toClient' = <<>>
  BY DEF Reconnects, Disposed
<1>6. \A type, n : ~Answered(type, n)'
  BY <1>5 DEF Answered
<1> QED
  BY <1>4, <1>6

LEMMA DisposeUnderway ==
  ASSUME Disposes
  PROVE  /\ \A n : ~AskedFor(n)'
         /\ \A type, n : ~Answered(type, n)'
<1>1. toServer' = <<>> /\ toClient' = <<>>
  BY DEF Disposes, Sends, FreshContext, Disposed
<1> QED
  BY <1>1 DEF AskedFor, Answered

LEMMA SameUnderway ==
  ASSUME UNCHANGED <<toServer, toClient>>
  PROVE  /\ \A n : AskedFor(n)' <=> AskedFor(n)
         /\ \A type, n : Answered(type, n)' <=> Answered(type, n)
BY DEF AskedFor, Answered

-----------------------------------------------------------------------------
(* What the application asked for                                          *)

LEMMA CallbackHolds ==
  ASSUME NEW r, SubCallback(r)
  PROVE  /\ r.type = "subscribe" /\ r.name \in Names =>
              \A n : n \in Held' <=> n \in Held \/ n = r.name
         /\ r.type = "unsubscribe" => \A n : n \in Held' <=> n \in Held /\ n # r.name
         /\ r.type \notin {"subscribe", "unsubscribe"} => UNCHANGED Held
<1>1. CASE r.type = "subscribe"
  BY <1>1 DEF SubCallback, Held, Names
<1>2. CASE r.type = "unsubscribe"
  BY <1>2 DEF SubCallback, Held
<1>3. CASE r.type \notin {"subscribe", "unsubscribe"}
  BY <1>3 DEF SubCallback, Held
<1> QED
  BY <1>1, <1>2, <1>3

LEMMA SettledBy ==
  ASSUME HistoryTypeOK, NEW r, Settles(r), NEW n \in Names, request'[n] = "settled"
  PROVE  \/ request[n] = "settled"
         \/ n = r.name /\ r.type = "subscribe" /\ n \in wanted
         \/ n = r.name /\ r.type = "unsubscribe" /\ n \notin wanted
BY DEF HistoryTypeOK, Settles

LEMMA AskedAgain ==
  ASSUME HistoryTypeOK, NEW m \in Names, Asks(m), NEW n \in Names, request'[n] = "settled"
  PROVE  n # m /\ request[n] = "settled"
BY DEF HistoryTypeOK, Asks

LEMMA NotOvertaken ==
  ASSUME HistoryTypeOK, Overtaken, NEW n \in Names, request'[n] = "settled"
  PROVE  request[n] = "settled"
BY DEF HistoryTypeOK, Overtaken

LEMMA IntentOfRead ==
  ASSUME TypeInv, OrderInv, IntentInv, NEW r, Reads(r), toClient' = Tail(toClient),
         UNCHANGED <<toServer, wanted>>,
         Calls(r)
  PROVE  IntentInv'
<1> SUFFICES ASSUME NEW n \in Names, request'[n] = "settled"
             PROVE  (n \in Held' <=> n \in wanted) /\ (Underway(n)' => n \in wanted)
  BY DEF IntentInv
<1>0. HistoryTypeOK /\ r \in Answers
  BY ReadTakes DEF TypeInv
<1>1. Underway(n)' => Underway(n)
  BY ReadUnderway DEF Underway
<1>2. r.type = "subscribe" /\ r.name = n => Underway(n)
  BY ReadUnderway DEF Underway
<1>3. r.type = "unsubscribe" => ~Underway(n)'
  <2> SUFFICES ASSUME r.type = "unsubscribe" PROVE ~Underway(n)'
    OBVIOUS
  <2>1. ~AskedFor(n)' /\ ~Answered("subscribe", n)'
    BY ReadUnsubscribe
  <2> QED
    BY <2>1 DEF Underway
<1>4. r.type = "unsubscribe" => r.name \notin wanted
  BY ReadUnsubscribe
<1>5. CASE UNCHANGED <<memberVars, request>>
  BY <1>1, <1>5 DEF memberVars, Held, IntentInv
<1>6. CASE SubCallback(r) /\ Settles(r)
  <2>1. \/ request[n] = "settled"
        \/ n = r.name /\ r.type = "subscribe" /\ n \in wanted
        \/ n = r.name /\ r.type = "unsubscribe" /\ n \notin wanted
    BY <1>0, <1>6, SettledBy
  <2>2. CASE r.type = "subscribe" /\ n = r.name
    <3>1. n \in Held' /\ n \in wanted
      BY <1>2, <1>6, <2>1, <2>2, CallbackHolds DEF IntentInv
    <3> QED
      BY <3>1
  <2>3. CASE r.type = "unsubscribe" /\ n = r.name
    <3>1. n \notin Held' /\ n \notin wanted
      BY <1>4, <1>6, <2>3, CallbackHolds
    <3> QED
      BY <1>3, <2>3, <3>1
  <2>4. CASE ~(n = r.name /\ r.type \in {"subscribe", "unsubscribe"})
    <3>1. request[n] = "settled"
      BY <2>1, <2>4
    <3>2. n \in Held' <=> n \in Held
      <4>1. CASE r.type = "subscribe"
        BY <1>6, <2>4, <4>1 DEF SubCallback, Held
      <4>2. CASE r.type = "unsubscribe"
        BY <1>6, <2>4, <4>2 DEF SubCallback, Held
      <4>3. CASE r.type \notin {"subscribe", "unsubscribe"}
        BY <1>6, <4>3 DEF SubCallback, Held
      <4> QED
        BY <4>1, <4>2, <4>3
    <3> QED
      BY <1>1, <3>1, <3>2 DEF IntentInv
  <2> QED
    BY <2>2, <2>3, <2>4
<1> QED
  BY <1>5, <1>6 DEF Calls

LEMMA IntentStep ==
  ASSUME TypeInv, LinkInv, OrderInv, IntentInv, [Next]_vars
  PROVE  IntentInv'
<1>0. HistoryTypeOK
  BY DEF TypeInv
<1>s. ASSUME \A n \in Names : request'[n] = "settled" =>
               /\ request[n] = "settled"
               /\ n \in Held' <=> n \in Held
               /\ n \in wanted' <=> n \in wanted
               /\ Underway(n)' => Underway(n) \/ n \in Held
      PROVE  IntentInv'
  BY <1>s DEF IntentInv
<1>1. CASE UNCHANGED <<toServer, toClient, memberVars, wanted, request>>
  BY <1>s, <1>1, SameUnderway DEF memberVars, Held, Underway
<1>2. CASE Idles
  BY <1>1, <1>2 DEF Idles, pipeVars, historyVars
<1>3. CASE Disposes
  <2>1. UNCHANGED <<memberVars, wanted>> /\ Overtaken
    BY <1>3 DEF Disposes, Disposed
  <2>2. \A n : ~Underway(n)'
    BY <1>3, DisposeUnderway DEF Underway
  <2> QED
    BY <1>0, <1>s, <2>1, <2>2, NotOvertaken DEF memberVars, Held
<1>4. CASE Reconnects
  <2>1. UNCHANGED <<memberVars, wanted>> /\ Overtaken
    BY <1>4 DEF Reconnects, Disposed
  <2>2. \A n : Underway(n)' => n \in Held
    BY <1>4, ReconnectUnderway DEF Underway
  <2> QED
    BY <1>0, <1>s, <2>1, <2>2, NotOvertaken DEF memberVars, Held
<1>5. ASSUME NEW m \in Names, Subscribe(m)
      PROVE  IntentInv'
  <2>1. UNCHANGED memberVars /\ Asks(m) /\ wanted' = wanted \cup {m}
    BY <1>5, SubscribeDoes
  <2>2. \A n : Underway(n)' <=> Underway(n) \/ n = m
    BY <1>5, SubscribeUnderway DEF Underway
  <2> QED
    BY <1>0, <1>s, <2>1, <2>2, AskedAgain DEF memberVars, Held
<1>6. ASSUME NEW m \in Names, Unsubscribe(m)
      PROVE  IntentInv'
  <2>1. UNCHANGED memberVars /\ Asks(m) /\ wanted' = wanted \ {m}
    BY <1>6, UnsubscribeDoes
  <2>2. \A n : Underway(n)' <=> Underway(n)
    BY <1>6, UnsubscribeUnderway DEF Underway
  <2> QED
    BY <1>0, <1>s, <2>1, <2>2, AskedAgain DEF memberVars, Held
<1>7. CASE Serve
  <2>1. UNCHANGED <<memberVars, wanted, request>>
    BY <1>7, ServeSends DEF historyVars
  <2>2. \A n : Underway(n)' => Underway(n)
    <3>1. \A n : AskedFor(n)' => AskedFor(n)
      BY <1>7, ServeUnderway
    <3>2. \A n : Answered("subscribe", n)' => Answered("subscribe", n) \/ AskedFor(n)
      BY <1>7, ServeUnderway
    <3> QED
      BY <3>1, <3>2 DEF Underway
  <2> QED
    BY <1>s, <2>1, <2>2 DEF memberVars, Held
<1>8. ASSUME NEW c \in Channels, Publish(c)
      PROVE  IntentInv'
  <2>1. UNCHANGED <<memberVars, wanted, request>>
    BY <1>8 DEF Publish
  <2>2. \A n : Underway(n)' => Underway(n)
    BY <1>8, PublishUnderway DEF Underway
  <2> QED
    BY <1>s, <2>1, <2>2 DEF memberVars, Held
<1>9. ASSUME NEW r, ReadRegular(r)
      PROVE  IntentInv'
  BY <1>9, IntentOfRead DEF ReadRegular, Calls
<1>10. ASSUME NEW r, NEW batch \in {"new", "same"}, ReadSubscribed(r, batch)
       PROVE  IntentInv'
  BY <1>10, IntentOfRead DEF ReadSubscribed, Calls
<1>11. ASSUME NEW r, ReadAborts(r)
       PROVE  IntentInv'
  BY <1>1, <1>11 DEF ReadAborts, pipeVars, historyVars
<1> QED
  BY <1>2, <1>3, <1>4, <1>5, <1>6, <1>7, <1>8, <1>9, <1>10, <1>11, StepCases

\* What channels_ and patterns_ hold, and reconnect will subscribe to again, is
\* what the application asked for, but for requests that are unanswered or whose
\* answer was lost with a connection.
THEOREM IntentIsKept == Spec => []IntentKept
<1> DEFINE Inv == QuietInv /\ (~pipelined => IntentInv)
<1>1. Init => Inv
  <2>1. Init => IntentInv
    BY DEF Init, IntentInv, Held, Underway, AskedFor, Answered
  <2> QED
    BY <2>1, QuietInit
<1>2. Inv /\ [Next]_vars => Inv'
  BY QuietStep, IntentStep, PipelinedStays DEF QuietInv
<1>3. Inv => IntentKept
  BY DEF IntentKept, IntentInv
<1> QED
  BY <1>1, <1>2, <1>3, PTL DEF Spec

-----------------------------------------------------------------------------
(* Who hears what is under way                                             *)

\* A name that must have a handler.
Heeded(n) == n \in served \/ Underway(n) \/ Answered("message", n)

LEMMA HandlersStep ==
  ASSUME TypeInv, LinkInv, OrderInv, HandlersInv, [Next]_vars
  PROVE  HandlersInv'
<1>0. \A n \in Names \cup {NULL} : Heeded(n) => n \in handlers
  BY DEF HandlersInv, Heeded
<1>s. ASSUME \A n \in Names \cup {NULL} :
               Heeded(n)' => n \in handlers' \/ (Heeded(n) /\ (n \in handlers => n \in handlers'))
      PROVE  HandlersInv'
  BY <1>0, <1>s DEF HandlersInv, Heeded
<1>1. CASE UNCHANGED <<toServer, toClient, served, handlers>>
  BY <1>s, <1>1, SameUnderway DEF Heeded, Underway
<1>2. CASE Idles
  BY <1>1, <1>2 DEF Idles, pipeVars, hiredisVars
<1>3. CASE Disposes
  <2>1. served' = {}
    BY <1>3 DEF Disposes, Disposed
  <2>2. \A n : ~Heeded(n)'
    BY <1>3, <2>1, DisposeUnderway DEF Heeded, Underway
  <2> QED
    BY <1>s, <2>2
<1>4. CASE Reconnects
  <2>1. served' = {} /\ handlers' = Held
    BY <1>4 DEF Reconnects, Disposed
  <2>2. \A n : Heeded(n)' => n \in Held
    BY <1>4, <2>1, ReconnectUnderway DEF Heeded, Underway
  <2> QED
    BY <1>s, <2>1, <2>2
<1>5. ASSUME NEW m \in Names, Subscribe(m)
      PROVE  HandlersInv'
  <2>1. served' = served /\ handlers' = handlers \cup {m}
    BY <1>5, SubscribeDoes
  <2>2. \A n : Heeded(n)' => Heeded(n) \/ n = m
    BY <1>5, <2>1, SubscribeUnderway DEF Heeded, Underway
  <2> QED
    BY <1>s, <2>1, <2>2
<1>6. ASSUME NEW m \in Names, Unsubscribe(m)
      PROVE  HandlersInv'
  <2>1. served' = served /\ handlers' = handlers
    BY <1>6, UnsubscribeDoes
  <2>2. \A n : Heeded(n)' => Heeded(n)
    BY <1>6, <2>1, UnsubscribeUnderway DEF Heeded, Underway
  <2> QED
    BY <1>s, <2>1, <2>2
<1>7. CASE Serve
  <2>1. handlers' = handlers
    BY <1>7, ServeSends DEF hiredisVars
  <2>2. ASSUME NEW n, Heeded(n)' PROVE Heeded(n)
    <3>1. CASE n \in served'
      <4>1. n \in served \/ AskedFor(n)
        BY <1>7, <3>1, ServeUnderway
      <4> QED
        BY <4>1 DEF Heeded, Underway
    <3>2. CASE AskedFor(n)'
      <4>1. AskedFor(n)
        BY <1>7, <3>2, ServeUnderway
      <4> QED
        BY <4>1 DEF Heeded, Underway
    <3>3. CASE Answered("subscribe", n)'
      <4>1. Answered("subscribe", n) \/ AskedFor(n)
        BY <1>7, <3>3, ServeUnderway
      <4> QED
        BY <4>1 DEF Heeded, Underway
    <3>4. CASE Answered("message", n)'
      <4>1. Answered("message", n)
        BY <1>7, <3>4, ServeUnderway
      <4> QED
        BY <4>1 DEF Heeded
    <3> QED
      BY <2>2, <3>1, <3>2, <3>3, <3>4 DEF Heeded, Underway
  <2> QED
    BY <1>s, <2>1, <2>2
<1>8. ASSUME NEW c \in Channels, Publish(c)
      PROVE  HandlersInv'
  <2>1. handlers' = handlers /\ served' = served
    BY <1>8 DEF Publish, hiredisVars
  <2>2. \A n : Heeded(n)' => Heeded(n)
    BY <1>8, <2>1, PublishUnderway DEF Heeded, Underway
  <2> QED
    BY <1>s, <2>1, <2>2
<1>9. ASSUME NEW r, Reads(r), toClient' = Tail(toClient), UNCHANGED <<toServer, served>>
      PROVE  \A n : Heeded(n)' => Heeded(n)
  BY <1>9, ReadUnderway DEF Heeded, Underway
<1>10. ASSUME NEW r, ReadRegular(r)
       PROVE  HandlersInv'
  BY <1>s, <1>9, <1>10 DEF ReadRegular
<1>11. ASSUME NEW r, NEW batch \in {"new", "same"}, ReadSubscribed(r, batch)
       PROVE  HandlersInv'
  <2>1. /\ Reads(r) /\ toClient' = Tail(toClient) /\ UNCHANGED <<toServer, served>>
        /\ handlers' = IF r.name \in handlers /\ r.type = "unsubscribe"
                       THEN handlers \ {r.name} ELSE handlers
    BY <1>11 DEF ReadSubscribed
  <2>2. CASE r.type = "unsubscribe"
    <3>1. ASSUME NEW n, Heeded(n)' PROVE n # r.name
      <4>1. r.name \notin served'
        BY <2>1, <2>2, ReadUnsubscribe
      <4>2. ~AskedFor(n)' /\ ~Answered("subscribe", n)'
        BY <2>1, <2>2, ReadUnsubscribe
      <4>3. Answered("message", n)' => n # r.name
        BY <2>1, <2>2, ReadUnsubscribe
      <4> QED
        BY <3>1, <4>1, <4>2, <4>3 DEF Heeded, Underway
    <3> QED
      BY <1>s, <1>9, <2>1, <3>1
  <2>3. CASE r.type # "unsubscribe"
    BY <1>s, <1>9, <2>1, <2>3
  <2> QED
    BY <2>2, <2>3
<1>12. ASSUME NEW r, ReadAborts(r)
       PROVE  HandlersInv'
  BY <1>1, <1>12 DEF ReadAborts, pipeVars
<1> QED
  BY <1>2, <1>3, <1>4, <1>5, <1>6, <1>7, <1>8, <1>10, <1>11, <1>12, StepCases

\* No message is read without a callback, however the replies are cut into
\* batches, by an application that awaits its confirmations.
THEOREM NoMessageIsMissed == Spec => []NothingMissed
<1> DEFINE Inv == QuietInv /\ (~pipelined => HandlersInv) /\ (missed => pipelined)
<1>1. Init => Inv
  <2>1. Init => HandlersInv
    BY DEF Init, HandlersInv, Underway, AskedFor, Answered
  <2>2. Init => ~missed
    BY DEF Init
  <2> QED
    BY <2>1, <2>2, QuietInit
<1>2. Inv /\ [Next]_vars => Inv'
  <2> SUFFICES ASSUME Inv, [Next]_vars, missed', ~pipelined' PROVE FALSE
    BY QuietStep, HandlersStep, PipelinedStays DEF QuietInv
  <2>0. TypeInv /\ LinkInv /\ ~pipelined /\ ~missed /\ HandlersInv
    BY PipelinedStays DEF QuietInv
  <2>1. \A n : ~Subscribe(n) /\ ~Unsubscribe(n)
    BY <2>0 DEF Subscribe, Unsubscribe
  <2>2. ~Serve /\ \A c : ~Publish(c)
    BY <2>0 DEF Serve, Publish, historyVars
  <2>3. ~Idles /\ ~Disposes /\ ~Reconnects
    BY <2>0 DEF Idles, Disposes, Reconnects, historyVars
  <2>4. \A r : ~ReadRegular(r) /\ ~ReadAborts(r)
    BY <2>0 DEF ReadRegular, ReadAborts, historyVars
  <2>5. ASSUME NEW r, NEW batch, ReadSubscribed(r, batch) PROVE FALSE
    <3>1. Reads(r) /\ r.type = "message" /\ r.name \notin handlers
          /\ toClient' = Tail(toClient) /\ UNCHANGED toServer
      BY <2>0, <2>5 DEF ReadSubscribed
    <3>2. r \in Answers /\ Answered("message", r.name)
      BY <2>0, <3>1, ReadTakes, ReadUnderway
    <3>3. r.name \in Names \cup {NULL}
      BY <3>2 DEF Answers
    <3> QED
      BY <2>0, <3>1, <3>2, <3>3 DEF HandlersInv
  <2> QED
    BY <2>0, <2>1, <2>2, <2>3, <2>4, <2>5, StepCases
<1>3. Inv => NothingMissed
  BY DEF NothingMissed
<1> QED
  BY <1>1, <1>2, <1>3, PTL DEF Spec

-----------------------------------------------------------------------------
(* The callbacks that wait for an error                                    *)

LEMMA RegularStep ==
  ASSUME TypeInv, LinkInv, RegularInv, [Next]_vars
  PROVE  RegularInv'
<1>0. /\ toServer \in Seq(Commands) /\ toClient \in Seq(Answers)
      /\ served \subseteq Names /\ MemberTypeOK /\ regular \in Nat
      /\ Len(toServer) \in Nat /\ Len(toClient) \in Nat
  BY DEF TypeInv, PipeTypeOK, HiredisTypeOK
<1>1. CASE UNCHANGED <<toServer, toClient, served, regular>>
  BY <1>1 DEF RegularInv
<1>2. CASE Idles
  BY <1>1, <1>2 DEF Idles, pipeVars, hiredisVars
<1>3. CASE Disposes
  <2>1. toServer' = <<>> /\ toClient' = <<>> /\ regular' = 0
    BY <1>3 DEF Disposes, Sends, FreshContext, Disposed
  <2> QED
    BY <2>1 DEF RegularInv
<1>4. CASE Reconnects
  <2>1. toClient' = <<>> /\ served' = {}
        /\ regular' = IF channels # {} THEN 0 ELSE IF patterns # {} THEN 1 ELSE 2
    BY <1>4 DEF Reconnects, Disposed
  <2>2. /\ Len(toServer') = 2
        /\ toServer'[1].op = "subscribe" /\ toServer'[2].op = "subscribe"
        /\ toServer'[1].names = <<>> <=> channels = {}
        /\ toServer'[2].names = <<>> <=> patterns = {}
    BY <1>0, <1>4, TwoCommands DEF Reconnects
  <2>3. Len(toClient') = 0
    BY <2>1
  <2>4. ASSUME NEW k \in 1 .. Len(toServer'), k + Len(toClient') <= regular'
        PROVE  toServer'[k].op = "subscribe" /\ toServer'[k].names = <<>>
    <3>1. k = 1 \/ k = 2
      BY <2>2
    <3>2. k = 1 => channels = {}
      BY <2>1, <2>3, <2>4
    <3>3. k = 2 => patterns = {}
      BY <2>1, <2>3, <2>4
    <3> QED
      BY <2>2, <3>1, <3>2, <3>3
  <2>5. regular' <= Len(toServer') + Len(toClient')
    BY <2>1, <2>2, <2>3
  <2> QED
    BY <2>1, <2>3, <2>4, <2>5 DEF RegularInv
<1>5. ASSUME NEW x \in Commands, toServer' = Append(toServer, x),
             UNCHANGED <<toClient, served, regular>>
      PROVE  RegularInv'
  <2>1. /\ Len(toServer') = Len(toServer) + 1
        /\ \A k \in 1 .. Len(toServer) : toServer'[k] = toServer[k]
        /\ \A k \in 1 .. Len(toServer') : k \in 1 .. Len(toServer) \/ k = Len(toServer) + 1
    BY <1>0, <1>5, AppendOf
  <2>2. ASSUME NEW k \in 1 .. Len(toServer'), k + Len(toClient) <= regular
        PROVE  toServer'[k].op = "subscribe" /\ toServer'[k].names = <<>>
    <3>1. k # Len(toServer) + 1
      BY <1>0, <2>2 DEF RegularInv
    <3>2. k \in 1 .. Len(toServer) /\ toServer'[k] = toServer[k]
      BY <2>1, <3>1
    <3> QED
      BY <2>2, <3>2 DEF RegularInv
  <2>3. regular <= Len(toServer') + Len(toClient)
    BY <1>0, <2>1 DEF RegularInv
  <2> QED
    BY <1>5, <2>2, <2>3 DEF RegularInv
<1>6. ASSUME NEW m \in Names, Subscribe(m)
      PROVE  RegularInv'
  <2>1. /\ toServer' = Append(toServer, Command("subscribe", <<m>>))
        /\ UNCHANGED <<toClient, served, regular>>
    BY <1>6, SubscribeDoes
  <2>2. Command("subscribe", <<m>>) \in Commands
    BY NamesAsked
  <2> QED
    BY <1>5, <2>1, <2>2
<1>7. ASSUME NEW m \in Names, Unsubscribe(m)
      PROVE  RegularInv'
  <2>1. CASE subscribed
    <3>1. /\ toServer' = Append(toServer, Command("unsubscribe", <<m>>))
          /\ UNCHANGED <<toClient, served, regular>>
      BY <1>7, <2>1, UnsubscribeDoes
    <3>2. Command("unsubscribe", <<m>>) \in Commands
      BY NamesAsked
    <3> QED
      BY <1>5, <3>1, <3>2
  <2>2. CASE ~subscribed
    BY <1>1, <1>7, <2>2, UnsubscribeDoes
  <2> QED
    BY <2>1, <2>2
<1>8. CASE Serve
  <2> DEFINE c == Head(toServer)
             e == AnswersTo(c)
  <2>1. /\ toServer # <<>> /\ toServer' = Tail(toServer)
        /\ served' = After(c, Len(c.names)) /\ toClient' = toClient \o e
        /\ regular' = regular
    BY <1>8, ServeSends DEF hiredisVars
  <2>2. /\ c = toServer[1] /\ 1 \in 1 .. Len(toServer) /\ c \in Commands
        /\ Len(Tail(toServer)) = Len(toServer) - 1
        /\ \A k \in 1 .. Len(Tail(toServer)) :
             k \in Nat /\ k + 1 \in 1 .. Len(toServer) /\ Tail(toServer)[k] = toServer[k + 1]
    BY <1>0, <2>1, TailOf
  <2>3. /\ e \in Seq(Answers) /\ Len(c.names) \in Nat
        /\ c.names = <<>> => /\ Len(e) = 1 /\ e[1] = Reply("error", NULL, 0)
                             /\ After(c, Len(c.names)) = served
        /\ c.names # <<>> => Len(e) = Len(c.names)
        /\ c.names \in Seq(Names)
    BY <1>0, <2>2, AnswersTyped
  <2> HIDE DEF e
  <2>4. Len(e) \in Nat /\ Len(e) >= 1
    <3>1. c.names # <<>> => Len(c.names) # 0
      BY <2>3, EmptySeq
    <3> QED
      BY <2>3, <3>1
  <2>5. /\ Len(toClient') = Len(toClient) + Len(e)
        /\ \A k \in 1 .. Len(toClient') :
             \/ k \in 1 .. Len(toClient) /\ toClient'[k] = toClient[k]
             \/ k - Len(toClient) \in 1 .. Len(e)
                /\ toClient'[k] = e[k - Len(toClient)]
    <3>1. toClient \in Seq(Answers) /\ e \in Seq(Answers)
      BY <1>0, <2>3
    <3> QED
      BY <2>1, <3>1, PlusOf
  <2>6. regular > Len(toClient) =>
          c.op = "subscribe" /\ c.names = <<>> /\ served = {}
    BY <1>0, <2>2 DEF RegularInv
  <2> HIDE DEF c
  <2>7. ASSUME NEW k \in 1 .. Len(toClient'), k <= regular
        PROVE  toClient'[k].type = "error"
    <3>1. CASE k \in 1 .. Len(toClient) /\ toClient'[k] = toClient[k]
      BY <2>7, <3>1 DEF RegularInv
    <3>2. CASE k - Len(toClient) \in 1 .. Len(e) /\ toClient'[k] = e[k - Len(toClient)]
      <4>1. regular > Len(toClient)
        BY <1>0, <2>7, <3>2
      <4>2. Len(e) = 1 /\ e[1] = Reply("error", NULL, 0)
        BY <2>3, <2>6, <4>1
      <4>3. k - Len(toClient) = 1
        BY <3>2, <4>2
      <4> QED
        BY <3>2, <4>2, <4>3 DEF Reply
    <3> QED
      BY <2>5, <3>1, <3>2
  <2>8. ASSUME NEW k \in 1 .. Len(toServer'), k + Len(toClient') <= regular
        PROVE  toServer'[k].op = "subscribe" /\ toServer'[k].names = <<>>
    <3>1. k \in Nat /\ k + 1 \in 1 .. Len(toServer) /\ toServer'[k] = toServer[k + 1]
      BY <2>1, <2>2
    <3>2. (k + 1) + Len(toClient) <= regular
      BY <1>0, <2>4, <2>5, <2>8, <3>1
    <3> QED
      BY <3>1, <3>2 DEF RegularInv
  <2>9. regular <= Len(toServer') + Len(toClient')
    <3>1. regular <= Len(toServer) + Len(toClient)
      BY DEF RegularInv
    <3>2. Len(toServer') = Len(toServer) - 1
      BY <2>1, <2>2
    <3> QED
      BY <1>0, <2>4, <2>5, <3>1, <3>2
  <2>10. regular > Len(toClient') => served' = {}
    <3>1. regular > Len(toClient') => regular > Len(toClient)
      BY <1>0, <2>4, <2>5
    <3> QED
      BY <2>1, <2>3, <2>6, <3>1
  <2> QED
    BY <2>1, <2>7, <2>8, <2>9, <2>10 DEF RegularInv
<1>9. ASSUME NEW c \in Channels, Publish(c)
      PROVE  RegularInv'
  <2> DEFINE e == Messages(c)
  <2>1. /\ toClient' = toClient \o e /\ UNCHANGED <<toServer, served, regular>>
        /\ served # {}
    BY <1>9, PublishSends DEF Publish, hiredisVars
  <2>2. e \in Seq(Answers) /\ toClient \in Seq(Answers)
    BY <1>0, MessagesTyped
  <2> HIDE DEF e
  <2>3. /\ Len(toClient') = Len(toClient) + Len(e) /\ Len(e) \in Nat
        /\ \A k \in 1 .. Len(toClient') :
             \/ k \in 1 .. Len(toClient) /\ toClient'[k] = toClient[k]
             \/ k - Len(toClient) \in 1 .. Len(e)
                /\ toClient'[k] = e[k - Len(toClient)]
    BY <2>1, <2>2, PlusOf
  <2>4. regular <= Len(toClient)
    BY <1>0, <2>1 DEF RegularInv
  <2>5. ASSUME NEW k \in 1 .. Len(toClient'), k <= regular
        PROVE  toClient'[k].type = "error"
    <3>1. k \in 1 .. Len(toClient) /\ toClient'[k] = toClient[k]
      BY <1>0, <2>3, <2>4, <2>5
    <3> QED
      BY <2>5, <3>1 DEF RegularInv
  <2>6. \A k \in 1 .. Len(toServer) : ~(k + Len(toClient') <= regular)
    BY <1>0, <2>3, <2>4
  <2>7. regular <= Len(toServer) + Len(toClient') /\ ~(regular > Len(toClient'))
    BY <1>0, <2>3, <2>4
  <2> QED
    BY <2>1, <2>5, <2>6, <2>7 DEF RegularInv
<1>10. ASSUME NEW r, ReadRegular(r)
       PROVE  RegularInv'
  <2>1. /\ toClient # <<>> /\ toClient' = Tail(toClient)
        /\ UNCHANGED <<toServer, served>> /\ regular > 0 /\ regular' = regular - 1
    BY <1>10 DEF ReadRegular, Reads
  <2>2. /\ Len(toClient') = Len(toClient) - 1
        /\ \A k \in 1 .. Len(toClient') :
             k \in Nat /\ k + 1 \in 1 .. Len(toClient) /\ toClient'[k] = toClient[k + 1]
    BY <1>0, <2>1, TailOf
  <2>3. ASSUME NEW k \in 1 .. Len(toClient'), k <= regular'
        PROVE  toClient'[k].type = "error"
    <3>1. k + 1 \in 1 .. Len(toClient) /\ toClient'[k] = toClient[k + 1]
      BY <2>2
    <3>2. k + 1 <= regular
      BY <1>0, <2>1, <2>2, <2>3
    <3> QED
      BY <3>1, <3>2 DEF RegularInv
  <2>4. \A k \in 1 .. Len(toServer) :
          k + Len(toClient') <= regular' => k + Len(toClient) <= regular
    BY <1>0, <2>1, <2>2
  <2>5. regular' <= Len(toServer) + Len(toClient') <=> regular <= Len(toServer) + Len(toClient)
    BY <1>0, <2>1, <2>2
  <2>6. regular' > Len(toClient') <=> regular > Len(toClient)
    BY <1>0, <2>1, <2>2
  <2> QED
    BY <2>1, <2>3, <2>4, <2>5, <2>6 DEF RegularInv
<1>11. ASSUME NEW r, NEW batch \in {"new", "same"}, ReadSubscribed(r, batch)
       PROVE  RegularInv'
  <2>1. /\ toClient # <<>> /\ toClient' = Tail(toClient)
        /\ UNCHANGED <<toServer, served>> /\ regular = 0 /\ regular' = 0
    BY <1>11 DEF ReadSubscribed, Reads
  <2>2. Len(toClient') \in Nat
    BY <1>0, <2>1, TailOf
  <2>3. /\ \A k \in 1 .. Len(toClient') : ~(k <= 0)
        /\ \A k \in 1 .. Len(toServer') : ~(k + Len(toClient') <= 0)
        /\ 0 <= Len(toServer') + Len(toClient') /\ ~(0 > Len(toClient'))
    BY <1>0, <2>1, <2>2
  <2> QED
    BY <2>1, <2>3 DEF RegularInv
<1>12. ASSUME NEW r, ReadAborts(r)
       PROVE  RegularInv'
  BY <1>1, <1>12 DEF ReadAborts, pipeVars
<1> QED
  BY <1>2, <1>3, <1>4, <1>6, <1>7, <1>8, <1>9, <1>10, <1>11, <1>12, StepCases

-----------------------------------------------------------------------------
(* The three tables                                                        *)

\* What a read leaves of the tables: the confirmations one by one.
LEMMA TablesOfSubscribe ==
  ASSUME TypeInv, HandlersInv, TablesInv, NEW r, NEW batch \in {"new", "same"},
         ReadSubscribed(r, batch), r.type = "subscribe"
  PROVE  TablesInv'
<1>1. /\ Reads(r) /\ toClient' = Tail(toClient) /\ UNCHANGED <<contextVars, toServer, served>>
      /\ handlers' = handlers
      /\ r.name \in handlers => SubCallback(r)
  BY DEF ReadSubscribed
<1>2. /\ \A n : AskedFor(n)' <=> AskedFor(n)
      /\ \A type, n : Answered(type, n)' => Answered(type, n)
      /\ \A type, n : Answered(type, n) =>
              Answered(type, n)' \/ (r.type = type /\ r.name = n)
      /\ Answered(r.type, r.name)
  BY <1>1, ReadUnderway
<1>3. r.name \in handlers /\ r.name \in Names
  <2>1. r \in Answers
    BY <1>1, ReadTakes
  <2>2. r.name \in Names \cup {NULL}
    BY <2>1 DEF Answers
  <2>3. r.name \in handlers
    BY <1>2, <2>2 DEF HandlersInv, Underway
  <2> QED
    BY <2>3 DEF TypeInv, HiredisTypeOK
<1>4. \A n : n \in Held' <=> n \in Held \/ n = r.name
  BY <1>1, <1>3, CallbackHolds
<1>5. Current' => Held' \subseteq handlers'
  BY <1>1, <1>3, <1>4 DEF TablesInv, contextVars, Current
<1>6. ASSUME NEW n \in handlers
      PROVE  n \in served \/ Underway(n)' \/ Answered("unsubscribe", n)'
  <2>1. CASE n \in served
    BY <2>1
  <2>2. CASE AskedFor(n)
    BY <1>2, <2>2 DEF Underway
  <2>3. CASE Answered("subscribe", n)
    <3>1. n \in Names
      BY DEF TypeInv, HiredisTypeOK
    <3>2. n \in served \/ Answered("unsubscribe", n)
      BY <2>3, <3>1 DEF TablesInv
    <3> QED
      BY <1>2, <3>2
  <2>4. CASE Answered("unsubscribe", n)
    BY <1>2, <2>4
  <2> QED
    BY <2>1, <2>2, <2>3, <2>4 DEF TablesInv, Underway
<1>7. \A n \in served : n \in Held' \/ Answered("subscribe", n)'
  BY <1>2, <1>4 DEF TablesInv
<1>8. \A n \in Names : Answered("subscribe", n)' => n \in served \/ Answered("unsubscribe", n)'
  BY <1>2 DEF TablesInv
<1> QED
  BY <1>1, <1>5, <1>6, <1>7, <1>8 DEF TablesInv

LEMMA TablesOfUnsubscribe ==
  ASSUME TypeInv, OrderInv, TablesInv, NEW r, NEW batch \in {"new", "same"},
         ReadSubscribed(r, batch), r.type = "unsubscribe"
  PROVE  TablesInv'
<1>1. /\ Reads(r) /\ toClient' = Tail(toClient) /\ UNCHANGED <<contextVars, toServer, served>>
      /\ handlers' = IF r.name \in handlers THEN handlers \ {r.name} ELSE handlers
      /\ r.name \in handlers => SubCallback(r)
      /\ SubCallback(r) \/ UNCHANGED memberVars
      /\ Current
  BY DEF ReadSubscribed, Reads
<1>2. /\ r.name \notin served
      /\ \A n : ~AskedFor(n) /\ ~AskedFor(n)'
      /\ \A type, n : Answered(type, n)' => type = "message" /\ n # r.name
  BY <1>1, ReadUnsubscribe
<1>3. \A type, n : Answered(type, n) =>
              Answered(type, n)' \/ (r.type = type /\ r.name = n)
  BY <1>1, ReadUnderway
<1>4. \A n : n \in Held' <=> n \in Held /\ n # r.name
  <2>1. CASE SubCallback(r)
    BY <2>1, CallbackHolds
  <2>2. CASE UNCHANGED memberVars /\ r.name \notin handlers
    <3>1. r.name \notin Held
      BY <1>1, <2>2 DEF TablesInv
    <3> QED
      BY <2>2, <3>1 DEF memberVars, Held
  <2> QED
    BY <1>1, <2>1, <2>2
<1>5. \A n : n \in handlers' <=> n \in handlers /\ n # r.name
  BY <1>1
<1>6. \A n : ~Answered("subscribe", n)
  BY <1>2, <1>3
<1>7. \A n : Answered("unsubscribe", n) => n = r.name
  BY <1>2, <1>3
<1>8. Current' => Held' \subseteq handlers'
  BY <1>1, <1>4, <1>5 DEF TablesInv
<1>9. \A n \in handlers' : n \in served
  BY <1>2, <1>5, <1>6, <1>7 DEF TablesInv, Underway
<1>10. \A n \in served : n \in Held'
  BY <1>2, <1>4, <1>6 DEF TablesInv
<1>11. \A n : ~Answered("subscribe", n)'
  BY <1>2
<1> QED
  BY <1>1, <1>8, <1>9, <1>10, <1>11 DEF TablesInv

\* The names of a command and the table that changes with them.
LEMMA TablesOfServe ==
  ASSUME TypeInv, TablesInv, Serve
  PROVE  TablesInv'
<1> DEFINE c == Head(toServer)
<1>1. UNCHANGED <<contextVars, memberVars, handlers>>
  BY ServeSends DEF hiredisVars
<1>2. /\ c.op \in {"subscribe", "unsubscribe"}
      /\ \A n : AskedFor(n)' => AskedFor(n)
      /\ \A n : AskedFor(n) => AskedFor(n)' \/ (c.op = "subscribe" /\ n \in NamesOf(c))
      /\ \A n : n \in NamesOf(c) /\ c.op = "subscribe" => AskedFor(n)
      /\ \A type, n : Answered(type, n) => Answered(type, n)'
      /\ \A type, n : Answered(type, n)' =>
           Answered(type, n) \/ type = "error" \/ (type = c.op /\ n \in NamesOf(c))
      /\ \A type, n : type = c.op /\ n \in NamesOf(c) => Answered(type, n)'
      /\ served' = IF c.op = "subscribe" THEN served \cup NamesOf(c)
                   ELSE served \ NamesOf(c)
  BY ServeUnderway
<1> HIDE DEF c
<1>3. Current' => Held' \subseteq handlers'
  BY <1>1 DEF TablesInv, contextVars, memberVars, Current, Held
<1>4. \A n : n \in served => n \in served' \/ Answered("unsubscribe", n)'
  BY <1>2
<1>5. ASSUME NEW n \in handlers
      PROVE  n \in served' \/ Underway(n)' \/ Answered("unsubscribe", n)'
  <2>1. CASE n \in served
    BY <1>4, <2>1
  <2>2. CASE AskedFor(n)
    BY <1>2, <2>2 DEF Underway
  <2>3. CASE Answered("subscribe", n) \/ Answered("unsubscribe", n)
    BY <1>2, <2>3 DEF Underway
  <2> QED
    BY <2>1, <2>2, <2>3 DEF TablesInv, Underway
<1>6. ASSUME NEW n \in served'
      PROVE  n \in Held \/ Answered("subscribe", n)'
  <2>1. CASE n \in served
    BY <1>2, <2>1 DEF TablesInv
  <2>2. CASE n \notin served
    BY <1>2, <1>6, <2>2
  <2> QED
    BY <2>1, <2>2
<1>7. ASSUME NEW n \in Names, Answered("subscribe", n)'
      PROVE  n \in served' \/ Answered("unsubscribe", n)'
  <2>1. CASE Answered("subscribe", n)
    <3>1. n \in served \/ Answered("unsubscribe", n)
      BY <2>1 DEF TablesInv
    <3> QED
      BY <1>2, <1>4, <3>1
  <2>2. CASE ~Answered("subscribe", n)
    BY <1>2, <1>7, <2>2
  <2> QED
    BY <2>1, <2>2
<1>8. Held' = Held
  BY <1>1 DEF memberVars, Held
<1> QED
  BY <1>1, <1>3, <1>5, <1>6, <1>7, <1>8 DEF TablesInv

LEMMA TablesStep ==
  ASSUME TypeInv, LinkInv, OrderInv, HandlersInv, RegularInv, TablesInv, [Next]_vars
  PROVE  TablesInv'
<1>s. ASSUME Current' => Current \/ Held = {}, UNCHANGED <<memberVars, served>>,
             handlers \subseteq handlers',
             \A n \in handlers' : n \notin handlers => Underway(n)',
             \A n : Underway(n) => Underway(n)',
             \A n : Answered("subscribe", n)' <=> Answered("subscribe", n),
             \A n : Answered("unsubscribe", n)' <=> Answered("unsubscribe", n)
      PROVE  TablesInv'
  <2>1. Held' = Held
    BY <1>s DEF memberVars, Held
  <2>2. Current' => Held' \subseteq handlers'
    BY <1>s, <2>1 DEF TablesInv
  <2>3. \A n \in handlers' : n \in served \/ Underway(n)' \/ Answered("unsubscribe", n)'
    BY <1>s DEF TablesInv
  <2>4. \A n \in served : n \in Held \/ Answered("subscribe", n)'
    BY <1>s DEF TablesInv
  <2>5. \A n \in Names : Answered("subscribe", n)' => n \in served \/ Answered("unsubscribe", n)'
    BY <1>s DEF TablesInv
  <2> QED
    BY <1>s, <2>1, <2>2, <2>3, <2>4, <2>5 DEF TablesInv
<1>c. UNCHANGED contextVars => (Current' => Current)
  BY DEF contextVars, Current
<1>1. CASE Idles
  <2>1. UNCHANGED <<memberVars, served, handlers, toServer, toClient>>
    BY <1>1 DEF Idles, hiredisVars, pipeVars
  <2>2. Current' => Current \/ Held = {}
    BY <1>1 DEF Idles, LinkInv
  <2> QED
    BY <1>s, <2>1, <2>2, SameUnderway DEF Underway
<1>2. CASE Disposes
  <2>1. ~Current' /\ handlers' = {} /\ served' = {}
    BY <1>2 DEF Disposes, Disposed, Sends, FreshContext
  <2> QED
    BY <1>2, <2>1, DisposeUnderway DEF TablesInv
<1>3. CASE Reconnects
  <2>1. handlers' = Held /\ served' = {} /\ Held' = Held
    BY <1>3 DEF Reconnects, Disposed, memberVars, Held
  <2>2. \A n \in Held : Underway(n)'
    BY <1>3, ReconnectUnderway DEF Underway
  <2>3. \A n : ~Answered("subscribe", n)'
    BY <1>3, ReconnectUnderway
  <2> QED
    BY <2>1, <2>2, <2>3 DEF TablesInv
<1>4. ASSUME NEW m \in Names, Subscribe(m)
      PROVE  TablesInv'
  <2>1. handlers' = handlers \cup {m} /\ UNCHANGED <<contextVars, memberVars, served>>
    BY <1>4, SubscribeDoes
  <2>2. \A n : Underway(n)' <=> Underway(n) \/ n = m
    BY <1>4, SubscribeUnderway DEF Underway
  <2> QED
    BY <1>4, <1>c, <1>s, <2>1, <2>2, SubscribeUnderway
<1>5. ASSUME NEW m \in Names, Unsubscribe(m)
      PROVE  TablesInv'
  <2>1. handlers' = handlers /\ UNCHANGED <<contextVars, memberVars, served>>
    BY <1>5, UnsubscribeDoes
  <2>2. \A n : Underway(n)' <=> Underway(n)
    BY <1>5, UnsubscribeUnderway DEF Underway
  <2> QED
    BY <1>5, <1>c, <1>s, <2>1, <2>2, UnsubscribeUnderway
<1>6. ASSUME NEW c \in Channels, Publish(c)
      PROVE  TablesInv'
  <2>1. UNCHANGED <<contextVars, memberVars, served, handlers>>
    BY <1>6 DEF Publish, hiredisVars
  <2>2. \A n : Answered("subscribe", n)' <=> Answered("subscribe", n)
    BY <1>6, PublishUnderway
  <2>3. \A n : Answered("unsubscribe", n)' <=> Answered("unsubscribe", n)
    BY <1>6, PublishUnderway
  <2>4. \A n : Underway(n) => Underway(n)'
    BY <1>6, PublishUnderway DEF Underway
  <2> QED
    BY <1>c, <1>s, <2>1, <2>2, <2>3, <2>4
\* A reply that confirms nothing changes no table.
<1>7. ASSUME NEW r, Reads(r), toClient' = Tail(toClient),
             UNCHANGED <<contextVars, toServer, served, handlers>>,
             r.type \notin {"subscribe", "unsubscribe"},
             SubCallback(r) \/ UNCHANGED memberVars
      PROVE  TablesInv'
  <2>1. UNCHANGED memberVars
    BY <1>7 DEF SubCallback, memberVars
  <2>2. \A n : AskedFor(n)' <=> AskedFor(n)
    BY <1>7, ReadUnderway
  <2>3. \A type, n : Answered(type, n)' => Answered(type, n)
    BY <1>7, ReadUnderway
  <2>4. \A n : Answered("subscribe", n) => Answered("subscribe", n)'
    BY <1>7, ReadUnderway
  <2>5. \A n : Answered("unsubscribe", n) => Answered("unsubscribe", n)'
    BY <1>7, ReadUnderway
  <2> QED
    BY <1>7, <1>c, <1>s, <2>1, <2>2, <2>3, <2>4, <2>5 DEF Underway
<1>8. ASSUME NEW r, ReadRegular(r)
      PROVE  TablesInv'
  <2>1. /\ Reads(r) /\ toClient' = Tail(toClient) /\ regular > 0
        /\ UNCHANGED <<contextVars, toServer, served, handlers>> /\ SubCallback(r)
    BY <1>8 DEF ReadRegular
  <2>2. r = toClient[1] /\ 1 \in 1 .. Len(toClient) /\ regular \in Nat
    BY <2>1, TailOf DEF Reads, TypeInv, PipeTypeOK, HiredisTypeOK
  <2>3. r.type = "error"
    BY <2>1, <2>2 DEF RegularInv
  <2> QED
    BY <1>7, <2>1, <2>3
<1>9. ASSUME NEW r, NEW batch \in {"new", "same"}, ReadSubscribed(r, batch)
      PROVE  TablesInv'
  <2>1. CASE r.type \notin {"subscribe", "unsubscribe"}
    <3>1. /\ Reads(r) /\ toClient' = Tail(toClient)
          /\ UNCHANGED <<contextVars, toServer, served>>
          /\ SubCallback(r) \/ UNCHANGED memberVars
      BY <1>9 DEF ReadSubscribed
    <3>2. handlers' = handlers
      BY <1>9, <2>1 DEF ReadSubscribed
    <3> QED
      BY <1>7, <2>1, <3>1, <3>2
  <2> QED
    BY <1>9, <2>1, TablesOfSubscribe, TablesOfUnsubscribe
<1>10. ASSUME NEW r, ReadAborts(r)
       PROVE  TablesInv'
  <2>1. UNCHANGED <<contextVars, memberVars, served, handlers, toServer, toClient>>
    BY <1>10 DEF ReadAborts, pipeVars
  <2> QED
    BY <1>c, <1>s, <2>1, SameUnderway DEF Underway
<1> QED
  BY <1>1, <1>2, <1>3, <1>4, <1>5, <1>6, <1>8, <1>9, <1>10, TablesOfServe, StepCases

\* Once every command and reply has arrived, channels_ and patterns_, hiredis's
\* handlers and what Redis serves are the same names, on the first connection
\* and after any number of losses and reconnects.
THEOREM TablesAgree == Spec => []InStep
<1> DEFINE Inv == QuietInv /\ (~pipelined => HandlersInv /\ RegularInv /\ TablesInv)
<1>1. Init => Inv
  <2>1. Init => HandlersInv /\ TablesInv
    BY DEF Init, ContextInit, HandlersInv, TablesInv, Current, Held, Underway, AskedFor, Answered
  <2>2. Init => RegularInv
    BY DEF Init, RegularInv
  <2> QED
    BY <2>1, <2>2, QuietInit
<1>2. Inv /\ [Next]_vars => Inv'
  BY QuietStep, HandlersStep, RegularStep, TablesStep, PipelinedStays DEF QuietInv
<1>3. Inv => InStep
  <2> SUFFICES ASSUME Inv, Drained, ~pipelined PROVE Held = served /\ handlers = served
    BY DEF InStep
  <2>1. TablesInv /\ Current /\ toServer = <<>> /\ toClient = <<>>
    BY DEF Drained
  <2>2. \A n : ~Underway(n) /\ \A type : ~Answered(type, n)
    BY <2>1 DEF Underway, AskedFor, Answered
  <2>3. Held \subseteq handlers /\ handlers \subseteq served /\ served \subseteq Held
    BY <2>1, <2>2 DEF TablesInv
  <2> QED
    BY <2>3
<1> QED
  BY <1>1, <1>2, <1>3, PTL DEF Spec

=============================================================================
