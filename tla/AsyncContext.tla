---------------------------- MODULE AsyncContext ----------------------------
(***************************************************************************)
(* The life of AsyncConnection's hiredis contexts and what status_ makes   *)
(* of it (src/src/async_connection.cpp, hiredis's async.c as vendored).    *)
(*                                                                         *)
(* async_context_ is current, a slot of Links.  A slot whose link is       *)
(* "none" has no context: current may point to one that was freed.  The    *)
(* actions are building blocks: they say what happens to the connection,   *)
(* AsyncConnection and Subscriber add what happens to the commands.        *)
(***************************************************************************)
EXTENDS Integers, FiniteSets

CONSTANTS
  Links,     \* room for hiredis contexts
  NULL,      \* the null async_context_
  MaxStops   \* bound: times the server goes down

ASSUME ContextAssumption ==
  /\ IsFiniteSet(Links)
  /\ NULL \notin Links
  /\ MaxStops \in Nat

VARIABLES
  status,    \* status_
  current,   \* async_context_
  link,      \* what each context is
  addressed, \* host_ and port_ are set
  server,    \* the server is up
  stops      \* times it went down

contextVars == <<status, current, link, addressed, server, stops>>

ContextTypeOK ==
  /\ status \in {"DISCONNECTED", "CONNECTED", "DISCONNECTING"}
  /\ current \in Links \cup {NULL}
  /\ link \in [Links -> {"none", "failed", "connecting", "interrupted",
                         "connected", "broken"}]
  /\ addressed \in BOOLEAN
  /\ server \in BOOLEAN
  /\ stops \in 0 .. MaxStops

ContextInit ==
  /\ status = "DISCONNECTED"
  /\ current = NULL
  /\ link = [l \in Links |-> "none"]
  /\ addressed = FALSE
  /\ server = TRUE
  /\ stops = 0

\* hiredis's REDIS_CONNECTED flag; a broken link is a closed socket that the
\* client has not noticed.  An interrupted link is connecting, and the server
\* went down or came back meanwhile.
Up(l) == link[l] \in {"connected", "broken"}
Connecting(l) == link[l] \in {"connecting", "interrupted"}
Live(l) == Up(l) \/ Connecting(l)
Current == current # NULL /\ link[current] # "none"

-----------------------------------------------------------------------------
\* Where a new context may go.  Contexts are not told apart, so any one will do.
Unused == {l \in Links : link[l] = "none" \/ (l = current /\ link[l] = "failed")}

\* connect(host, port): a new context replaces async_context_, whatever the
\* old one was; status_ stays.  A context with an error at once is attached to
\* no event loop and never freed, and leaves host_ and port_ as they were.
Open(l, s) ==
  /\ l \in Unused
  /\ l = CHOOSE k \in Unused : TRUE
  /\ s \in {"connecting", "failed"}
  /\ link' = [k \in Links |->
                CASE k = l -> s
                  [] k = current /\ k # l /\ link[k] = "failed" -> "none"
                  [] OTHER -> link[k]]
  /\ current' = l
  /\ addressed' = (addressed \/ s = "connecting")
  /\ UNCHANGED <<status, server, stops>>

\* reconnect() asks status_ only, and reports success whatever connect says.
\* Without an address there is nothing to connect to.
Reopen(l, s) ==
  /\ status = "DISCONNECTED"
  /\ current # NULL
  /\ addressed \/ s = "failed"
  /\ Open(l, s)

\* The first event without a socket error: on_connect(REDIS_OK).  The server may
\* have closed an interrupted connection by then.
Establish(l) ==
  /\ \/ /\ Connecting(l) /\ server
        /\ link' = [link EXCEPT ![l] = "connected"]
     \/ /\ link[l] = "interrupted"
        /\ link' = [link EXCEPT ![l] = "broken"]
  /\ status' = "CONNECTED"
  /\ UNCHANGED <<current, addressed, server, stops>>

\* on_connect(REDIS_ERR) only prints; hiredis frees the context and, as it was
\* never connected, calls no disconnect callback.
Refusable(l) == Connecting(l) /\ (server => link[l] = "interrupted")
Refuse(l) ==
  /\ Refusable(l)
  /\ link' = [link EXCEPT ![l] = "none"]
  /\ UNCHANGED <<status, current, addressed, server, stops>>

\* Mutant of Free: on_disconnect leaves status_ alone when there is no error.
FreeSilently(l) ==
  /\ link' = [link EXCEPT ![l] = "none"]
  /\ status' = IF link[l] = "broken" THEN "DISCONNECTED" ELSE status
  /\ UNCHANGED <<current, addressed, server, stops>>

\* hiredis frees a context; on_disconnect hears of it if it was connected.
Free(l) ==
  /\ link' = [link EXCEPT ![l] = "none"]
  /\ status' = IF Up(l) THEN "DISCONNECTED" ELSE status
  /\ UNCHANGED <<current, addressed, server, stops>>

-----------------------------------------------------------------------------
\* The server goes down, with every connection it has, and comes back.
Interrupted == [l \in Links |-> IF link[l] = "connecting" THEN "interrupted" ELSE link[l]]

ServerStops ==
  /\ server
  /\ stops < MaxStops
  /\ server' = FALSE
  /\ stops' = stops + 1
  /\ link' = [l \in Links |->
                IF link[l] = "connected" THEN "broken" ELSE Interrupted[l]]
  /\ UNCHANGED <<status, current, addressed>>

ServerStarts ==
  /\ ~server
  /\ server' = TRUE
  /\ link' = Interrupted
  /\ UNCHANGED <<status, current, addressed, stops>>

=============================================================================
