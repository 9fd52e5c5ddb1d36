----------------------------- MODULE Subscriber -----------------------------
(***************************************************************************)
(* redis::Subscriber on one AsyncConnection: subscriptions, their          *)
(* confirmations, messages, lost connections and reconnect                 *)
(* (src/src/pubsub.cpp and .hpp; hiredis's async.c as vendored).           *)
(*                                                                         *)
(* Three tables have to agree: channels_ and patterns_, which the          *)
(* confirmations fill; the handlers of the hiredis context, which the      *)
(* commands fill and the confirmations empty; and what Redis serves.       *)
(* Commands and replies are FIFO.  The loop reads one reply at a time; a   *)
(* batch of replies that came in one read share the variable cb of         *)
(* redisProcessCallbacks, which a reply without handler inherits.          *)
(*                                                                         *)
(* The application reconnects only when it has no connection, and uses no  *)
(* freed context.  Whether it ever sent a command while an unsubscribe of  *)
(* its own was unanswered is remembered in pipelined.                      *)
(***************************************************************************)
EXTENDS AsyncContext, SequencesExt

CONSTANTS
  Channels,     \* names of channels
  Patterns,     \* names of patterns; every channel matches each of them
  MaxCommands,  \* bound: commands of the application
  MaxMessages   \* bound: messages published

ASSUME SubscriberAssumption ==
  /\ IsFiniteSet(Channels)
  /\ IsFiniteSet(Patterns)
  /\ Channels \cap Patterns = {}
  /\ MaxCommands \in Nat
  /\ MaxMessages \in Nat

Names == Channels \cup Patterns

VARIABLES
  channels,    \* channels_
  patterns,    \* patterns_
  handlers,    \* names with a callback in the context's sub.channels, .patterns
  subscribed,  \* the context's flag REDIS_SUBSCRIBED
  regular,     \* callbacks in the context's list of replies
  cb,          \* a callback ran in this batch: what cb.fn still holds
  toServer,    \* commands the server has not taken yet
  toClient,    \* replies the loop has not read yet
  served,      \* what Redis has subscribed this connection to
  aborted,     \* an assertion of hiredis failed
  wanted,      \* history: what the application last asked for
  request,     \* history: what became of its last request for each name
  missed,      \* history: a message no callback was called for
  pipelined,   \* history: see above
  commands, messages

memberVars  == <<channels, patterns>>
hiredisVars == <<handlers, subscribed, regular, cb, aborted>>
pipeVars    == <<toServer, toClient, served>>
tallies     == <<pipelined, commands, messages>>
historyVars == <<wanted, request, missed, tallies>>
vars == <<contextVars, memberVars, hiredisVars, pipeVars, historyVars>>

Command(op, names) == [op |-> op, names |-> names]
Reply(type, name, count) == [type |-> type, name |-> name, count |-> count]

TypeOK ==
  /\ ContextTypeOK
  /\ channels \subseteq Channels
  /\ patterns \subseteq Patterns
  /\ handlers \subseteq Names
  /\ subscribed \in BOOLEAN
  /\ regular \in Nat
  /\ cb \in BOOLEAN
  /\ \A k \in 1 .. Len(toServer) :
       toServer[k].op \in {"subscribe", "unsubscribe"} /\ toServer[k].names \in Seq(Names)
  /\ \A k \in 1 .. Len(toClient) :
       toClient[k].type \in {"subscribe", "unsubscribe", "message", "error"}
  /\ served \subseteq Names
  /\ aborted \in BOOLEAN
  /\ wanted \subseteq Names
  /\ request \in [Names -> {"settled", "asked", "overtaken"}]
  /\ missed \in BOOLEAN
  /\ pipelined \in BOOLEAN
  /\ commands \in 0 .. MaxCommands
  /\ messages \in 0 .. MaxMessages

Held == channels \cup patterns

-----------------------------------------------------------------------------
(* send_command and what hiredis does with a (p)subscribe or (p)unsubscribe *)

\* Mutant of Subscribes: the callback is registered without the flag.
SubscribesUnflagged(S, names) ==
  [S EXCEPT !.toServer = Append(@, Command("subscribe", names)),
            !.handlers = @ \cup ToSet(names),
            !.regular = IF names = <<>> /\ ~S.subscribed THEN @ + 1 ELSE @]

\* A subscribe without names has no handler to register: its callback waits
\* for a regular reply, or, in subscribed mode, for an error that is fatal
\* before it can be called.
Subscribes(S, names) ==
  [S EXCEPT !.toServer = Append(@, Command("subscribe", names)),
            !.handlers = @ \cup ToSet(names),
            !.subscribed = @ \/ names # <<>>,
            !.regular = IF names = <<>> /\ ~S.subscribed THEN @ + 1 ELSE @]

\* An unsubscribe is not sent by a context that is not subscribed.
Unsubscribes(S, names) ==
  IF S.subscribed
  THEN [S EXCEPT !.toServer = Append(@, Command("unsubscribe", names))]
  ELSE S

Sender == [toServer |-> toServer, handlers |-> handlers,
           subscribed |-> subscribed, regular |-> regular]

Sends(S) ==
  /\ toServer' = S.toServer
  /\ handlers' = S.handlers
  /\ subscribed' = S.subscribed
  /\ regular' = S.regular

\* A context and its pipes are gone; an unanswered request is overtaken.
FreshContext == [toServer |-> <<>>, handlers |-> {}, subscribed |-> FALSE,
                 regular |-> 0]
Overtaken ==
  request' = [n \in Names |-> IF request[n] = "asked" THEN "overtaken" ELSE request[n]]
Disposed ==
  /\ toClient' = <<>>
  /\ served' = {}
  /\ cb' = FALSE
  /\ Overtaken

-----------------------------------------------------------------------------
(* The application                                                         *)

Connect(l, s) ==
  /\ current = NULL
  /\ Open(l, s)
  /\ UNCHANGED <<memberVars, hiredisVars, pipeVars, historyVars>>

\* Mutant of Reconnect: the patterns are not subscribed again.
ReconnectForgets(l, s) ==
  /\ \A k \in Links : ~Live(k)
  /\ Reopen(l, s)
  /\ Sends(Subscribes(FreshContext, SetToSeq(channels)))
  /\ Disposed
  /\ UNCHANGED <<memberVars, aborted, wanted, missed, tallies>>

\* reconnect(): both commands are sent, empty or not.
Reconnect(l, s) ==
  /\ \A k \in Links : ~Live(k)
  /\ Reopen(l, s)
  /\ Sends(Subscribes(Subscribes(FreshContext, SetToSeq(channels)),
                      SetToSeq(patterns)))
  /\ Disposed
  /\ UNCHANGED <<memberVars, aborted, wanted, missed, tallies>>

\* An unsubscribe is unanswered.
Unsubscribing ==
  \/ \E k \in 1 .. Len(toServer) : toServer[k].op = "unsubscribe"
  \/ \E k \in 1 .. Len(toClient) : toClient[k].type = "unsubscribe"

Asks(n) ==
  /\ Current
  /\ commands < MaxCommands
  /\ commands' = commands + 1
  /\ request' = [request EXCEPT ![n] = "asked"]
  /\ pipelined' = (pipelined \/ Unsubscribing)

\* subscribe and psubscribe.
Subscribe(n) ==
  /\ Asks(n)
  /\ Sends(Subscribes(Sender, <<n>>))
  /\ wanted' = wanted \cup {n}
  /\ UNCHANGED <<contextVars, memberVars, cb, aborted, toClient, served, missed,
                 messages>>

\* unsubscribe and punsubscribe of any name, subscribed or not.
Unsubscribe(n) ==
  /\ Asks(n)
  /\ Sends(Unsubscribes(Sender, <<n>>))
  /\ wanted' = wanted \ {n}
  /\ UNCHANGED <<contextVars, memberVars, cb, aborted, toClient, served, missed,
                 messages>>

-----------------------------------------------------------------------------
(* The server                                                              *)

\* One confirmation for each name, with the number of subscriptions left.
Serve ==
  /\ Current /\ link[current] = "connected"
  /\ toServer # <<>>
  /\ LET c == Head(toServer)
         After(j) == LET some == {c.names[k] : k \in 1 .. j}
                     IN IF c.op = "subscribe" THEN served \cup some ELSE served \ some
     IN /\ served' = After(Len(c.names))
        /\ toClient' = toClient \o
             IF c.names = <<>>
             THEN <<Reply("error", NULL, 0)>>
             ELSE [j \in 1 .. Len(c.names) |->
                     Reply(c.op, c.names[j], Cardinality(After(j)))]
  /\ toServer' = Tail(toServer)
  /\ UNCHANGED <<contextVars, memberVars, hiredisVars, historyVars>>

\* A message on channel c: once for c, once for each pattern.
Publish(c) ==
  /\ Current /\ link[current] = "connected"
  /\ messages < MaxMessages
  /\ served \cap ({c} \cup Patterns) # {}
  /\ messages' = messages + 1
  /\ toClient' = toClient \o
       [j \in 1 .. Cardinality(served \cap ({c} \cup Patterns)) |->
          Reply("message", SetToSeq(served \cap ({c} \cup Patterns))[j], 0)]
  /\ UNCHANGED <<contextVars, memberVars, hiredisVars, toServer, served, wanted,
                 request, missed, pipelined, commands>>

Server ==
  /\ ServerStops \/ ServerStarts
  /\ UNCHANGED <<memberVars, hiredisVars, pipeVars, historyVars>>

-----------------------------------------------------------------------------
(* The event loop                                                          *)

Established(l) ==
  /\ Establish(l)
  /\ UNCHANGED <<memberVars, hiredisVars, pipeVars, historyVars>>

\* The connection is refused or lost: callbacks without a reply do nothing.
Refused(l) ==
  /\ Refuse(l)
  /\ Sends(FreshContext) /\ Disposed
  /\ UNCHANGED <<memberVars, aborted, wanted, missed, tallies>>

Lost(l) ==
  /\ link[l] = "broken"
  /\ Free(l)
  /\ Sends(FreshContext) /\ Disposed
  /\ UNCHANGED <<memberVars, aborted, wanted, missed, tallies>>

\* Mutants of SubCallback: a pattern is kept as a channel; an unsubscribe keeps
\* what it was for.
SubCallbackMixes(r) ==
  /\ channels' = CASE r.type = "subscribe"   -> channels \cup {r.name}
                   [] r.type = "unsubscribe" -> channels \ {r.name}
                   [] OTHER                  -> channels
  /\ patterns' = patterns
SubCallbackKeeps(r) ==
  /\ channels' = IF r.type = "subscribe" THEN channels \cup ({r.name} \cap Channels)
                 ELSE channels
  /\ patterns' = IF r.type = "subscribe" THEN patterns \cup ({r.name} \cap Patterns)
                 ELSE patterns

\* sub_callback: on_subscribe, on_psubscribe, on_unsubscribe, on_punsubscribe;
\* a message goes to the listener, an error has no elements.
SubCallback(r) ==
  /\ channels' = CASE r.type = "subscribe"   -> channels \cup ({r.name} \cap Channels)
                   [] r.type = "unsubscribe" -> channels \ {r.name}
                   [] OTHER                  -> channels
  /\ patterns' = CASE r.type = "subscribe"   -> patterns \cup ({r.name} \cap Patterns)
                   [] r.type = "unsubscribe" -> patterns \ {r.name}
                   [] OTHER                  -> patterns

\* The application's request is settled by the confirmation that carries it out.
Settles(r) ==
  request' = IF \/ r.type = "subscribe" /\ r.name \in wanted
                \/ r.type = "unsubscribe" /\ r.name \notin wanted
             THEN [request EXCEPT ![r.name] =
                     IF @ = "asked" THEN "settled" ELSE @]
             ELSE request

Reads(r) ==
  /\ Current /\ Up(current)
  /\ toClient # <<>>
  /\ r = Head(toClient)

\* A regular callback is waiting: it gets the reply, whatever it is.
ReadRegular(r) ==
  /\ Reads(r)
  /\ regular > 0
  /\ regular' = regular - 1
  /\ SubCallback(r)
  /\ Settles(r)
  /\ cb' = TRUE
  /\ toClient' = Tail(toClient)
  /\ UNCHANGED <<contextVars, handlers, subscribed, aborted, toServer, served,
                 wanted, missed, tallies>>

\* "A spontaneous reply": an error closes the connection.
ReadError(r) ==
  /\ Reads(r)
  /\ regular = 0
  /\ r.type = "error"
  /\ Free(current)
  /\ Sends(FreshContext) /\ Disposed
  /\ UNCHANGED <<memberVars, aborted, wanted, missed, tallies>>

\* Mutant of ReadSubscribed: a pattern is looked up among the channels.
ReadChannelsOnly(r, batch) ==
  /\ Reads(r) /\ regular = 0 /\ r.type # "error" /\ subscribed
  /\ LET found == r.name \in handlers \cap Channels
         runs  == found \/ (batch = "same" /\ cb)
     IN /\ IF runs THEN SubCallback(r) /\ Settles(r) ELSE UNCHANGED <<memberVars, request>>
        /\ cb' = runs
        /\ handlers' = IF r.type = "unsubscribe" THEN handlers \ {r.name} ELSE handlers
        /\ subscribed' = ~(r.type = "unsubscribe" /\ found /\ r.count = 0)
        /\ missed' = (missed \/ (r.type = "message" /\ ~runs))
  /\ toClient' = Tail(toClient)
  /\ UNCHANGED <<contextVars, regular, aborted, toServer, served, wanted, tallies>>

\* Subscribed mode: the handler of the reply's name, or what cb still holds from
\* an earlier reply of the same batch; an unsubscribe removes the handler, the
\* last one ends subscribed mode.
ReadSubscribed(r, batch) ==
  /\ Reads(r)
  /\ regular = 0
  /\ r.type # "error"
  /\ subscribed
  /\ LET found == r.name \in handlers
         runs  == found \/ (batch = "same" /\ cb)
         drops == found /\ r.type = "unsubscribe"
     IN /\ IF runs THEN SubCallback(r) /\ Settles(r)
                   ELSE UNCHANGED <<memberVars, request>>
        /\ cb' = runs
        /\ handlers' = IF drops THEN handlers \ {r.name} ELSE handlers
        /\ subscribed' = ~(drops /\ r.count = 0)
        /\ missed' = (missed \/ (r.type = "message" /\ ~runs))
  /\ toClient' = Tail(toClient)
  /\ UNCHANGED <<contextVars, regular, aborted, toServer, served, wanted, tallies>>

\* No callback and not subscribed: the assertion of async.c:450 fails.
ReadAborts(r) ==
  /\ Reads(r)
  /\ regular = 0
  /\ r.type # "error"
  /\ ~subscribed
  /\ aborted' = TRUE
  /\ UNCHANGED <<contextVars, memberVars, handlers, subscribed, regular, cb,
                 pipeVars, historyVars>>

-----------------------------------------------------------------------------
Init ==
  /\ ContextInit
  /\ channels = {} /\ patterns = {}
  /\ handlers = {} /\ subscribed = FALSE /\ regular = 0 /\ cb = FALSE
  /\ toServer = <<>> /\ toClient = <<>> /\ served = {}
  /\ aborted = FALSE
  /\ wanted = {} /\ request = [n \in Names |-> "settled"]
  /\ missed = FALSE /\ pipelined = FALSE /\ commands = 0 /\ messages = 0

Application ==
  \/ \E l \in Links, s \in {"connecting", "failed"} : Connect(l, s) \/ Reconnect(l, s)
  \/ \E n \in Names : Subscribe(n) \/ Unsubscribe(n)

Handle ==
  \/ \E l \in Links : Established(l) \/ Refused(l) \/ Lost(l)
  \/ \E r \in {toClient[k] : k \in 1 .. Len(toClient)} :
       \/ ReadRegular(r) \/ ReadError(r) \/ ReadAborts(r)
       \/ \E batch \in {"new", "same"} : ReadSubscribed(r, batch)

Next ==
  /\ ~aborted
  /\ Application \/ Serve \/ (\E c \in Channels : Publish(c)) \/ Server \/ Handle

Spec == Init /\ [][Next]_vars

Retry == ~aborted /\ \E l \in Links : Reconnect(l, "connecting")

\* The loop handles its events, Redis answers while it is up, and the
\* application calls reconnect() again and again; the network does not refuse it
\* at once for ever.
FairSpec ==
  /\ Spec
  /\ WF_vars(~aborted /\ Handle)
  /\ WF_vars(~aborted /\ Serve)
  /\ WF_vars(Retry)

-----------------------------------------------------------------------------
(* Properties                                                              *)

Drained ==
  Current /\ link[current] = "connected" /\ toServer = <<>> /\ toClient = <<>>

\* Once every command and reply has arrived the three tables agree, on this
\* connection or the tenth: channels_ and patterns_, hiredis's handlers and what
\* Redis serves.
InStep == Drained /\ ~pipelined => Held = served /\ handlers = served

\* What the subscriber holds, and will subscribe to again, is what the
\* application asked for, except for requests not confirmed yet and those whose
\* confirmation a lost connection took with it.
IntentKept ==
  ~pipelined =>
    \A n \in Names : request[n] = "settled" => (n \in Held <=> n \in wanted)

\* No message that Redis sends is read without a callback, whichever way the
\* replies are cut into batches.
NothingMissed == missed => pipelined

\* hiredis's assertion is met by no application that awaits the confirmation of
\* an unsubscribe, although reconnect sends two commands at once, one of which
\* may be refused.
AbortsOnPipeliningOnly == aborted => pipelined

\* After a loss everything held is subscribed again and stays, provided the
\* subscriber has a pattern or no channel: with channels only, the empty
\* psubscribe of reconnect ends every new connection.
Restored ==
  <>[](server /\ current # NULL /\ addressed /\ (channels = {} \/ patterns # {})) =>
    <>[](pipelined \/ (Drained /\ served = Held))

-----------------------------------------------------------------------------
(* What hiredis says of itself and does not keep.                          *)

\* "No more regular callbacks and no errors, the context *must* be subscribed"
\* (async.c:449): the assertion under that comment holds.
ContextSubscribed == ~aborted

=============================================================================
