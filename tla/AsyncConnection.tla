--------------------------- MODULE AsyncConnection ---------------------------
(***************************************************************************)
(* redis::AsyncConnection on the event loop of AsyncService                *)
(* (src/src/async_connection.cpp, hiredis's async.c as vendored).          *)
(*                                                                         *)
(* The application connects, sends, disconnects and, as nothing tells it   *)
(* of a lost connection, calls reconnect() when it likes.  The loop thread *)
(* runs hiredis's handlers, and these the callbacks, which may disconnect  *)
(* as well.  What an application does that AsyncConnection does not        *)
(* survive is remembered in habits:                                        *)
(*   "early"    disconnect() before the connection is up,                  *)
(*   "pending"  disconnect() with other commands still unanswered.         *)
(* Calls that overlap a connection are counted in overlaps: connect()      *)
(* beside a live context, which it does not look at, and reconnect()       *)
(* during a connect, which status_ does not tell it of.                    *)
(* It never uses async_context_ once hiredis has freed it, which it has no *)
(* way to know.  Handlers and the application's calls do not overlap.      *)
(***************************************************************************)
EXTENDS AsyncContext, AsyncService

CONSTANTS
  MaxSends,        \* bound: commands sent
  MaxDisconnects,  \* bound: calls of disconnect() by the application
  MaxOverlaps      \* bound: its calls that overlap a connection

ASSUME AsyncAssumption ==
  MaxSends \in Nat /\ MaxDisconnects \in Nat /\ MaxOverlaps \in Nat

VARIABLES
  unsent,      \* commands in each context's output buffer
  unanswered,  \* commands written whose reply was not read
  closing,     \* contexts with hiredis's flag REDIS_DISCONNECTING
  aborted,     \* an assertion of hiredis failed
  habits,      \* history: see above
  overlaps,    \* history: see above
  sends,
  disconnects

commandVars == <<unsent, unanswered, closing, aborted>>
appVars == <<habits, overlaps, sends, disconnects>>
vars == <<contextVars, serviceVars, commandVars, appVars>>

TypeOK ==
  /\ ContextTypeOK
  /\ ServiceTypeOK
  /\ unsent \in [Links -> 0 .. MaxSends]
  /\ unanswered \in [Links -> 0 .. MaxSends]
  /\ closing \subseteq Links
  /\ aborted \in BOOLEAN
  /\ habits \subseteq {"early", "pending"}
  /\ overlaps \in 0 .. MaxOverlaps
  /\ sends \in 0 .. MaxSends
  /\ disconnects \in 0 .. MaxDisconnects

\* hiredis's list of callbacks that wait for a reply.
Replies(l) == unsent[l] + unanswered[l]

\* Everything hiredis keeps with a context is gone.
Forget(L) ==
  /\ unsent' = [l \in Links |-> IF l \in L THEN 0 ELSE unsent[l]]
  /\ unanswered' = [l \in Links |-> IF l \in L THEN 0 ELSE unanswered[l]]
  /\ closing' = closing \ L

Does(h, condition) == habits' = IF condition THEN habits \cup {h} ELSE habits

-----------------------------------------------------------------------------
(* The application                                                         *)

\* A context that is alive stays attached to the loop when it is replaced.
Replaces(l) ==
  /\ Forget({l} \cup {k \in Links : k = current /\ ~Live(k)})
  /\ UNCHANGED <<serviceVars, aborted, habits, sends, disconnects>>

Counts(overlapping) ==
  IF overlapping THEN overlaps < MaxOverlaps /\ overlaps' = overlaps + 1
                 ELSE overlaps' = overlaps

Connect(l, s) ==
  /\ Open(l, s)
  /\ Replaces(l)
  /\ Counts(\E k \in Links : Live(k))

\* Mutant of Reconnect: status_ is not asked.
ReconnectAlways(l, s) ==
  /\ current # NULL
  /\ addressed \/ s = "failed"
  /\ Open(l, s)
  /\ Replaces(l)
  /\ Counts(\E k \in Links : Connecting(k))

Reconnect(l, s) ==
  /\ Reopen(l, s)
  /\ Replaces(l)
  /\ Counts(\E k \in Links : Connecting(k))

\* send_command: hiredis accepts nothing more on a context that is closing.
Send ==
  /\ Current
  /\ current \notin closing
  /\ sends < MaxSends
  /\ sends' = sends + 1
  /\ unsent' = [unsent EXCEPT ![current] = @ + 1]
  /\ UNCHANGED <<contextVars, serviceVars, unanswered, closing, aborted, habits,
                 overlaps, disconnects>>

\* disconnect() outside a callback: at once, if no reply is outstanding.
Disconnect ==
  /\ Current
  /\ disconnects < MaxDisconnects
  /\ disconnects' = disconnects + 1
  /\ habits' = habits \cup (IF Up(current) THEN {} ELSE {"early"})
                      \cup (IF Replies(current) = 0 THEN {} ELSE {"pending"})
  /\ IF Replies(current) = 0
     THEN /\ link' = [link EXCEPT ![current] = "none"]
          /\ status' = IF Up(current) THEN "DISCONNECTED" ELSE "DISCONNECTING"
          /\ Forget({current})
     ELSE /\ status' = "DISCONNECTING"
          /\ closing' = closing \cup {current}
          /\ UNCHANGED <<link, unsent, unanswered>>
  /\ UNCHANGED <<current, addressed, server, stops, serviceVars, aborted, overlaps,
                 sends>>

Service ==
  /\ StartService \/ StopService \/ LoopEnds \/ JoinReturns
  /\ UNCHANGED <<contextVars, commandVars, appVars>>

-----------------------------------------------------------------------------
(* The event loop                                                          *)

Established(l) ==
  /\ loop
  /\ Establish(l)
  /\ UNCHANGED <<serviceVars, commandVars, appVars>>

\* The callbacks of what was sent meanwhile run without a reply, and may
\* disconnect.
Refused(l) ==
  /\ loop
  /\ \/ Refuse(l) /\ UNCHANGED habits
     \/ /\ Replies(l) > 0 /\ l = current
        /\ Refusable(l)
        /\ link' = [link EXCEPT ![l] = "none"]
        /\ status' = "DISCONNECTING"
        /\ habits' = habits \cup {"early"}
        /\ UNCHANGED <<current, addressed, server, stops>>
  /\ Forget({l})
  /\ UNCHANGED <<serviceVars, aborted, overlaps, sends, disconnects>>

\* Mutant of Lost: the callbacks of unanswered commands are dropped, not run.
LostKeepingCallbacks(l) ==
  /\ loop /\ link[l] = "broken" /\ Free(l)
  /\ closing' = closing \ {l}
  /\ UNCHANGED <<unsent, unanswered, serviceVars, aborted, appVars>>

\* The callbacks run without a reply; a disconnect() among them is overtaken
\* by on_disconnect.
Lost(l) ==
  /\ loop
  /\ link[l] = "broken"
  /\ Free(l)
  /\ Forget({l})
  /\ UNCHANGED <<serviceVars, aborted, appVars>>

\* Mutant of Write: what was written stays in the buffer.
WriteKeeping(l, n) ==
  /\ loop /\ link[l] = "connected" /\ n <= unsent[l]
  /\ unanswered' = [unanswered EXCEPT ![l] = @ + n]
  /\ UNCHANGED <<contextVars, serviceVars, unsent, closing, aborted, appVars>>

Write(l, n) ==
  /\ loop
  /\ link[l] = "connected"
  /\ n <= unsent[l]
  /\ unsent' = [unsent EXCEPT ![l] = @ - n]
  /\ unanswered' = [unanswered EXCEPT ![l] = @ + n]
  /\ UNCHANGED <<contextVars, serviceVars, closing, aborted, appVars>>

\* Mutant of Read: a context is freed only by a later read.
ReadNeverFrees(l, n, d) ==
  /\ loop /\ link[l] = "connected" /\ unanswered[l] > 0
  /\ n <= unanswered[l] /\ d <= n /\ (d > 0 => l = current)
  /\ unanswered' = [unanswered EXCEPT ![l] = @ - n]
  /\ closing' = IF d > 0 THEN closing \cup {l} ELSE closing
  /\ status' = IF d > 0 THEN "DISCONNECTING" ELSE status
  /\ Does("pending", d > 0 /\ Replies(l) > d)
  /\ UNCHANGED <<current, link, addressed, server, stops, unsent, serviceVars,
                 aborted, overlaps, sends, disconnects>>

\* Mutant of Read: the context is closed whether or not it was asked for.
ReadCloses(l, n, d) ==
  /\ loop /\ link[l] = "connected" /\ unanswered[l] > 0
  /\ n <= unanswered[l] /\ d <= n /\ (d > 0 => l = current)
  /\ Does("pending", d > 0 /\ Replies(l) > d)
  /\ IF n < unanswered[l]
     THEN aborted' = TRUE /\ UNCHANGED <<link, status, unsent, unanswered, closing>>
     ELSE Free(l) /\ Forget({l}) /\ UNCHANGED aborted
  /\ UNCHANGED <<current, addressed, server, stops, serviceVars, overlaps, sends,
                 disconnects>>

\* One read event: n replies are complete, and the callback of the d-th, if any,
\* disconnects.  When the reader is empty, a closing context with nothing to
\* write is freed; by then no callback may be left (async.c:327).
Read(l, n, d) ==
  LET left   == unanswered[l] - n
      closes == l \in closing \/ d > 0
      ends   == closes /\ unsent[l] = 0
  IN /\ loop
     /\ link[l] = "connected"
     /\ unanswered[l] > 0
     /\ n <= unanswered[l]
     /\ d <= n
     /\ d > 0 => l = current
     /\ Does("pending", d > 0 /\ Replies(l) > d)
     /\ IF ends /\ left = 0
        THEN Free(l) /\ Forget({l}) /\ UNCHANGED aborted
        ELSE /\ aborted' = ends
             /\ unanswered' = [unanswered EXCEPT ![l] = left]
             /\ closing' = IF closes THEN closing \cup {l} ELSE closing
             /\ status' = IF d > 0 THEN "DISCONNECTING" ELSE status
             /\ UNCHANGED <<current, link, addressed, server, stops, unsent>>
     /\ UNCHANGED <<serviceVars, overlaps, sends, disconnects>>

Server ==
  /\ ServerStops \/ ServerStarts
  /\ UNCHANGED <<serviceVars, commandVars, appVars>>

-----------------------------------------------------------------------------
Init ==
  /\ ContextInit
  /\ ServiceInit
  /\ unsent = [l \in Links |-> 0]
  /\ unanswered = [l \in Links |-> 0]
  /\ closing = {} /\ aborted = FALSE
  /\ habits = {} /\ overlaps = 0 /\ sends = 0 /\ disconnects = 0

Amounts == 0 .. MaxSends

Application ==
  \/ \E l \in Links, s \in {"connecting", "failed"} : Connect(l, s) \/ Reconnect(l, s)
  \/ Send
  \/ Disconnect

\* What the loop does about a context.
Handle(l) ==
  \/ Established(l) \/ Refused(l) \/ Lost(l)
  \/ \E n \in Amounts \ {0} : Write(l, n) \/ \E d \in Amounts : Read(l, n, d)

\* Part of a reply has come.
ReadsPart(l) == Read(l, 0, 0)

Next ==
  /\ ~aborted
  /\ Application \/ Service \/ Server \/ \E l \in Links : Handle(l) \/ ReadsPart(l)

Spec == Init /\ [][Next]_vars

\* An application that tries again while it has no connection; the network does
\* not refuse it at once for ever.
Retry ==
  /\ ~aborted
  /\ \A l \in Links : ~Live(l)
  /\ \E l \in Links : Reconnect(l, "connecting")

\* The loop handles the events of every context, stop() is carried out, and
\* the application calls reconnect() again and again, which it has to: no code
\* of the library does.
FairSpec ==
  /\ Spec
  /\ \A l \in Links : WF_vars(~aborted /\ Handle(l))
  /\ WF_vars(~aborted /\ (LoopEnds \/ JoinReturns)
               /\ UNCHANGED <<contextVars, commandVars, appVars>>)
  /\ WF_vars(Retry)

-----------------------------------------------------------------------------
(* Properties                                                              *)

Disciplined == overlaps = 0 /\ "early" \notin habits

\* status_, which hiredis's callbacks and disconnect() set and connect() does
\* not, agrees with the context, through losses, refusals and deferred
\* disconnects; that is what reconnect() relies on.
StatusTruthful ==
  Disciplined /\ ~aborted =>
    status = CASE ~Current \/ ~Up(current) -> "DISCONNECTED"
               [] current \in closing      -> "DISCONNECTING"
               [] OTHER                    -> "CONNECTED"

\* Each call that overlaps a connection costs at most one connection more, for
\* good; nothing else does.  So reconnect(), which asks status_ and not the
\* context, makes none beside one that is up, whatever was lost, refused or
\* disconnected before, except in place of one that an overlap had made.
OverlapsPaid ==
  Cardinality({l \in Links : Live(l)}) <= 1 + overlaps

\* hiredis's assertion is met by no application that disconnects when it has
\* all its replies, or in the callback of the last.
AbortsOnPendingOnly == aborted => "pending" \in habits

\* A callback runs for every command, with or without reply, unless its context
\* never got as far as connecting.
CallbacksRun ==
  \A l \in Links :
    <>[]loop => (Replies(l) > 0 ~> Replies(l) = 0 \/ link[l] = "failed" \/ aborted)

\* A disciplined application whose server stays up has a working connection
\* again and again, whatever was lost or refused before.
Usable == status = "CONNECTED" /\ link[current] = "connected"
Recovers ==
  <>[](loop /\ server) =>
    []<>(Usable \/ aborted \/ ~Disciplined \/ ~addressed)

-----------------------------------------------------------------------------
(* What hiredis says of itself and does not keep.                          *)

\* "For clean disconnects, there should be no pending callbacks" (async.c:327):
\* the assertion under that comment holds.
CleanDisconnect == ~aborted

=============================================================================
