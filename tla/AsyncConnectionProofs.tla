----------------------- MODULE AsyncConnectionProofs -----------------------
(***************************************************************************)
(* What AsyncConnection and AsyncService guarantee to an application, for  *)
(* any number of contexts, commands, losses and restarts of the loop.      *)
(*                                                                         *)
(* TypeInv is inductive alone.  LoopInv (the thread), LiveInv, PaidInv and *)
(* StatusInv (the contexts and status_) and PendingInv (hiredis's          *)
(* assertion) stand on it.                                                 *)
(***************************************************************************)
EXTENDS AsyncConnection, AsyncContextProofs, FiniteSetTheorems

CommandTypeOK ==
  /\ unsent \in [Links -> Nat]
  /\ unanswered \in [Links -> Nat]
  /\ closing \subseteq Links
  /\ aborted \in BOOLEAN
AppTypeOK ==
  /\ habits \subseteq {"early", "pending"}
  /\ overlaps \in 0 .. MaxOverlaps
  /\ sends \in 0 .. MaxSends
  /\ disconnects \in 0 .. MaxDisconnects

\* No context has more callbacks than commands were sent.
RepliesCounted == \A l \in Links : Replies(l) <= sends

TypeInv ==
  /\ ContextTypeOK /\ ServiceTypeOK /\ CommandTypeOK /\ AppTypeOK
  /\ RepliesCounted

\* An application that pairs start() with stop() has the thread that
\* dispatches in event_thread_.
LoopInv == ~restarted /\ loop => event_thread = "looping"

\* Without overlaps async_context_ is all there is.
LiveInv == overlaps = 0 => Alone

\* What reconnect() relies on: when status_ is DISCONNECTED and no connect is in
\* flight, one connection less than the overlaps allow is up.
LiveLinks == {l \in Links : Live(l)}
Quiet == status = "DISCONNECTED" /\ \A l \in Links : ~Connecting(l)
PaidInv ==
  /\ Cardinality(LiveLinks) <= 1 + overlaps
  /\ Quiet => Cardinality(LiveLinks) <= overlaps

\* hiredis defers a disconnect of connected contexts only.
StatusInv ==
  Disciplined /\ ~aborted => /\ \A l \in closing : Up(l)
                             /\ Tells(closing)

\* A deferred disconnect, and the assertion, take a reply that is outstanding.
PendingInv == closing # {} \/ aborted => "pending" \in habits

-----------------------------------------------------------------------------
(* Types                                                                   *)

LEMMA TypeInvTypes == TypeInv => TypeOK
<1> SUFFICES ASSUME TypeInv PROVE TypeOK
  OBVIOUS
<1>1. \A l \in Links : unsent[l] \in 0 .. MaxSends /\ unanswered[l] \in 0 .. MaxSends
  BY AsyncAssumption
  DEF TypeInv, CommandTypeOK, AppTypeOK, RepliesCounted, Replies
<1>2. /\ unsent \in [Links -> 0 .. MaxSends]
      /\ unanswered \in [Links -> 0 .. MaxSends]
  BY <1>1 DEF TypeInv, CommandTypeOK
<1> QED
  BY <1>2 DEF TypeInv, CommandTypeOK, AppTypeOK, TypeOK

\* What is forgotten with a context leaves fewer callbacks.
LEMMA Forgotten ==
  ASSUME CommandTypeOK, RepliesCounted, NEW L, Forget(L),
         aborted' \in BOOLEAN, sends' = sends, sends \in Nat
  PROVE  CommandTypeOK' /\ RepliesCounted'
<1>2. CommandTypeOK'
  <2>1. unsent' \in [Links -> Nat] /\ unanswered' \in [Links -> Nat]
    BY DEF Forget, CommandTypeOK
  <2>2. closing' \subseteq Links
    BY DEF Forget, CommandTypeOK
  <2> QED
    BY <2>1, <2>2 DEF CommandTypeOK
<1>3. RepliesCounted'
  <2> SUFFICES ASSUME NEW l \in Links PROVE unsent'[l] + unanswered'[l] <= sends
    BY DEF RepliesCounted, Replies
  <2>1. /\ unsent[l] \in Nat /\ unanswered[l] \in Nat
        /\ unsent[l] + unanswered[l] <= sends
    BY DEF CommandTypeOK, RepliesCounted, Replies
  <2>2. \/ unsent'[l] = 0 /\ unanswered'[l] = 0
        \/ unsent'[l] = unsent[l] /\ unanswered'[l] = unanswered[l]
    BY DEF Forget
  <2> QED
    BY <2>1, <2>2
<1> QED
  BY <1>2, <1>3

LEMMA ServiceTyped ==
  ASSUME ServiceTypeOK, StartService \/ StopService \/ LoopEnds \/ JoinReturns
  PROVE  ServiceTypeOK'
<1>1. starts' \in 0 .. MaxStarts
  BY ServiceAssumption
  DEF ServiceTypeOK, StartService, StopService, LoopEnds, JoinReturns
<1>2. event_thread' \in {"null", "looping", "ended", "joined"}
  BY DEF ServiceTypeOK, StartService, StopService, LoopEnds, JoinReturns
<1> QED
  BY <1>1, <1>2, Zenon
  DEF ServiceTypeOK, StartService, StopService, LoopEnds, JoinReturns

LEMMA ServiceStays ==
  ASSUME ServiceTypeOK, UNCHANGED serviceVars
  PROVE  ServiceTypeOK'
BY DEF ServiceTypeOK, serviceVars

LEMMA CommandsStay ==
  ASSUME CommandTypeOK, RepliesCounted, UNCHANGED <<commandVars, sends>>
  PROVE  CommandTypeOK' /\ RepliesCounted'
BY DEF CommandTypeOK, RepliesCounted, Replies, commandVars

LEMMA AppStays ==
  ASSUME AppTypeOK, UNCHANGED <<overlaps, sends, disconnects>>,
         habits' \subseteq {"early", "pending"}
  PROVE  AppTypeOK'
BY DEF AppTypeOK

LEMMA HabitsTyped ==
  ASSUME AppTypeOK, NEW h \in {"early", "pending"}, NEW c, Does(h, c)
  PROVE  habits' \subseteq {"early", "pending"}
BY DEF AppTypeOK, Does

LEMMA TypeInit == Init => TypeInv
<1> SUFFICES ASSUME Init PROVE TypeInv
  OBVIOUS
<1>1. ContextTypeOK
  BY ContextTyped DEF Init
<1>2. ServiceTypeOK
  <2>1. starts \in 0 .. MaxStarts
    BY ServiceAssumption DEF Init, ServiceInit
  <2> QED
    BY <2>1, Zenon DEF Init, ServiceInit, ServiceTypeOK
<1>3. CommandTypeOK
  BY DEF Init, CommandTypeOK
<1>4. AppTypeOK /\ RepliesCounted
  BY AsyncAssumption DEF Init, AppTypeOK, RepliesCounted, Replies
<1> QED
  BY <1>1, <1>2, <1>3, <1>4 DEF TypeInv

LEMMA TypeStep ==
  ASSUME TypeInv, [Next]_vars
  PROVE  TypeInv'
<1>t. /\ ContextTypeOK /\ ServiceTypeOK /\ CommandTypeOK /\ AppTypeOK
      /\ RepliesCounted
      /\ habits \subseteq {"early", "pending"} /\ aborted \in BOOLEAN
      /\ sends \in Nat
  BY AsyncAssumption DEF TypeInv, AppTypeOK, CommandTypeOK
<1>1. ASSUME NEW l \in Links, NEW s \in {"connecting", "failed"},
             Connect(l, s) \/ Reconnect(l, s)
      PROVE  TypeInv'
  <2>1. Open(l, s) /\ Replaces(l)
    BY <1>1 DEF Connect, Reconnect, Reopen
  <2>2. PICK L : Forget(L)
    BY <2>1 DEF Replaces
  <2>3. UNCHANGED <<serviceVars, aborted, habits, sends, disconnects>>
    BY <2>1 DEF Replaces
  <2>4. overlaps' \in 0 .. MaxOverlaps
    BY <1>t, <1>1, AsyncAssumption DEF Connect, Reconnect, Counts, AppTypeOK
  <2>5. AppTypeOK'
    BY <1>t, <2>3, <2>4 DEF AppTypeOK
  <2> QED
    BY <1>t, <2>1, <2>2, <2>3, <2>5, OpenTyped, ServiceStays, Forgotten DEF TypeInv
<1>2. CASE Send
  <2>1. current \in Links
    BY <1>t, <1>2 DEF Send, Current, ContextTypeOK
  <2>2. ContextTypeOK' /\ ServiceTypeOK'
    BY <1>t, <1>2, StaysTyped, ServiceStays DEF Send
  <2>3. AppTypeOK'
    BY <1>t, <1>2, AsyncAssumption DEF Send, AppTypeOK
  <2>4. CommandTypeOK'
    BY <1>t, <1>2, <2>1 DEF Send, CommandTypeOK
  <2>5. RepliesCounted'
    BY <1>t, <1>2, <2>1
    DEF Send, CommandTypeOK, AppTypeOK, RepliesCounted, Replies
  <2> QED
    BY <2>2, <2>3, <2>4, <2>5 DEF TypeInv
<1>3. CASE Disconnect
  <2>1. current \in Links
    BY <1>t, <1>3 DEF Disconnect, Current, ContextTypeOK
  <2>2. ContextTypeOK'
    BY <1>t, <1>3 DEF Disconnect, ContextTypeOK
  <2>3. ServiceTypeOK'
    BY <1>t, <1>3, ServiceStays DEF Disconnect
  <2>4. AppTypeOK'
    <3>1. disconnects' \in 0 .. MaxDisconnects
      BY <1>t, <1>3, AsyncAssumption DEF Disconnect, AppTypeOK
    <3> QED
      BY <1>t, <1>3, <3>1 DEF Disconnect, AppTypeOK
  <2>5. CommandTypeOK' /\ RepliesCounted'
    <3>1. CASE Replies(current) = 0
      BY <1>t, <1>3, <3>1, Forgotten DEF Disconnect
    <3>2. CASE Replies(current) # 0
      BY <1>t, <1>3, <2>1, <3>2
      DEF Disconnect, CommandTypeOK, RepliesCounted, Replies
    <3> QED
      BY <3>1, <3>2
  <2> QED
    BY <2>2, <2>3, <2>4, <2>5 DEF TypeInv
<1>4. CASE Service
  BY <1>t, <1>4, StaysTyped, ServiceTyped, CommandsStay, AppStays
  DEF Service, TypeInv, appVars
<1>5. CASE Server
  BY <1>t, <1>5, ServerTyped, ServiceStays, CommandsStay, AppStays
  DEF Server, TypeInv, appVars
<1>6. ASSUME NEW l \in Links, Established(l) PROVE TypeInv'
  BY <1>t, <1>6, EventTyped, ServiceStays, CommandsStay, AppStays
  DEF Established, TypeInv, appVars
<1>7. ASSUME NEW l \in Links, Refused(l) PROVE TypeInv'
  <2>1. Forget({l}) /\ UNCHANGED <<serviceVars, aborted, overlaps, sends, disconnects>>
    BY <1>7 DEF Refused
  <2>2. ContextTypeOK'
    <3>1. CASE Refuse(l)
      BY <1>t, <3>1, EventTyped
    <3>2. CASE ~Refuse(l)
      BY <1>t, <1>7, <3>2 DEF Refused, ContextTypeOK
    <3> QED
      BY <3>1, <3>2
  <2>3. habits' \subseteq {"early", "pending"}
    BY <1>t, <1>7 DEF Refused
  <2> QED
    BY <1>t, <2>1, <2>2, <2>3, ServiceStays, Forgotten, AppStays DEF TypeInv
<1>8. ASSUME NEW l \in Links, Lost(l) PROVE TypeInv'
  BY <1>t, <1>8, EventTyped, ServiceStays, Forgotten, AppStays
  DEF Lost, TypeInv, appVars
<1>9. ASSUME NEW l \in Links, NEW n \in Amounts \ {0}, Write(l, n) PROVE TypeInv'
  <2>1. n \in Nat /\ unsent[l] \in Nat /\ unanswered[l] \in Nat
    BY <1>t, <1>9, AsyncAssumption DEF Amounts, CommandTypeOK
  <2>2. /\ unsent' = [unsent EXCEPT ![l] = @ - n]
        /\ unanswered' = [unanswered EXCEPT ![l] = @ + n]
        /\ n <= unsent[l]
        /\ UNCHANGED <<closing, aborted, sends>>
    BY <1>9 DEF Write, appVars
  <2>3. CommandTypeOK'
    BY <1>t, <2>1, <2>2 DEF CommandTypeOK
  <2>4. RepliesCounted'
    BY <1>t, <2>1, <2>2 DEF CommandTypeOK, RepliesCounted, Replies
  <2>5. ContextTypeOK' /\ ServiceTypeOK' /\ AppTypeOK'
    BY <1>t, <1>9, StaysTyped, ServiceStays, AppStays DEF Write, appVars
  <2> QED
    BY <2>3, <2>4, <2>5 DEF TypeInv
<1>10. ASSUME NEW l \in Links, NEW n \in Amounts, NEW d \in Amounts, Read(l, n, d)
       PROVE  TypeInv'
  <2> DEFINE left == unanswered[l] - n
             closes == l \in closing \/ d > 0
             ends == closes /\ unsent[l] = 0
  <2>1. /\ n \in Nat /\ unanswered[l] \in Nat /\ n <= unanswered[l]
        /\ Does("pending", d > 0 /\ Replies(l) > d)
        /\ UNCHANGED <<serviceVars, overlaps, sends, disconnects>>
    BY <1>t, <1>10, AsyncAssumption DEF Amounts, CommandTypeOK, Read
  <2>2. habits' \subseteq {"early", "pending"}
    BY <1>t, <2>1, HabitsTyped
  <2>3. ServiceTypeOK' /\ AppTypeOK'
    BY <1>t, <2>1, <2>2, ServiceStays, AppStays
  <2>4. CASE ends /\ left = 0
    <3>1. Free(l) /\ Forget({l}) /\ UNCHANGED aborted
      BY <1>10, <2>4 DEF Read
    <3> QED
      BY <1>t, <2>1, <2>3, <3>1, EventTyped, Forgotten DEF TypeInv
  <2>5. CASE ~(ends /\ left = 0)
    <3>1. /\ aborted' = ends
          /\ unanswered' = [unanswered EXCEPT ![l] = left]
          /\ closing' = IF closes THEN closing \cup {l} ELSE closing
          /\ status' = IF d > 0 THEN "DISCONNECTING" ELSE status
          /\ UNCHANGED <<current, link, addressed, server, stops, unsent>>
      BY <1>10, <2>5 DEF Read
    <3>2. left \in Nat /\ left <= unanswered[l]
      BY <2>1
    <3>3. aborted' \in BOOLEAN
      BY <3>1
    <3> HIDE DEF left, closes, ends
    <3>4. ContextTypeOK'
      BY <1>t, <3>1 DEF ContextTypeOK
    <3>5. CommandTypeOK'
      BY <1>t, <3>1, <3>2, <3>3 DEF CommandTypeOK
    <3>6. RepliesCounted'
      <4> SUFFICES ASSUME NEW k \in Links
                   PROVE  unsent[k] + unanswered'[k] <= sends
        BY <2>1, <3>1 DEF RepliesCounted, Replies
      <4>1. /\ unsent[k] \in Nat /\ unanswered[k] \in Nat /\ sends \in Nat
            /\ unsent[k] + unanswered[k] <= sends
        BY <1>t, AsyncAssumption DEF CommandTypeOK, AppTypeOK, RepliesCounted, Replies
      <4>2. unanswered'[k] = IF k = l THEN left ELSE unanswered[k]
        BY <1>t, <3>1 DEF CommandTypeOK
      <4> QED
        BY <3>2, <4>1, <4>2
    <3> QED
      BY <2>3, <3>4, <3>5, <3>6 DEF TypeInv
  <2> QED
    BY <2>4, <2>5
<1>11. CASE UNCHANGED vars
  BY <1>t, <1>11, StaysTyped, ServiceStays, CommandsStay, AppStays
  DEF vars, TypeInv, appVars
<1>12. 0 \in Amounts
  BY AsyncAssumption DEF Amounts
<1> QED
  BY <1>1, <1>2, <1>3, <1>4, <1>5, <1>6, <1>7, <1>8, <1>9, <1>10, <1>11, <1>12
  DEF Next, Application, Handle, ReadsPart

LEMMA TypeInvariant == Spec => []TypeInv
BY TypeInit, TypeStep, PTL DEF Spec

\* Every variable keeps its type: hiredis never holds more callbacks than
\* commands were sent, through losses, refusals and reconnects.
THEOREM TypeCorrect == Spec => []TypeOK
BY TypeInvTypes, TypeInvariant, PTL

-----------------------------------------------------------------------------
(* The thread of AsyncService                                              *)

\* When stop() has returned no callback runs until the next start(), provided
\* start() and stop() were paired.
THEOREM StopIsQuiet == Spec => []QuietAfterStop
<1>1. Init => LoopInv /\ QuietAfterStop
  BY DEF Init, ServiceInit, LoopInv, QuietAfterStop
<1>2. TypeInv /\ LoopInv /\ QuietAfterStop /\ [Next]_vars =>
        LoopInv' /\ QuietAfterStop'
  <2> SUFFICES ASSUME TypeInv, LoopInv, QuietAfterStop, [Next]_vars
               PROVE  LoopInv' /\ QuietAfterStop'
    OBVIOUS
  <2>1. CASE UNCHANGED serviceVars
    BY <2>1 DEF serviceVars, LoopInv, QuietAfterStop
  <2>2. CASE StartService
    BY <2>2 DEF TypeInv, ServiceTypeOK, StartService, LoopInv, QuietAfterStop
  <2>3. CASE StopService
    BY <2>3 DEF StopService, LoopInv, QuietAfterStop
  <2>4. CASE LoopEnds
    BY <2>4 DEF LoopEnds, LoopInv, QuietAfterStop
  <2>5. CASE JoinReturns
    BY <2>5 DEF JoinReturns, LoopInv, QuietAfterStop
  <2>6. UNCHANGED serviceVars \/ Service
    <3>1. CASE Application
      BY <3>1 DEF Application, Connect, Reconnect, Replaces, Send, Disconnect
    <3>2. CASE Server
      BY <3>2 DEF Server
    <3>3. ASSUME NEW l \in Links, Handle(l) PROVE UNCHANGED serviceVars
      BY <3>3 DEF Handle, Established, Refused, Lost, Write, Read
    <3>4. ASSUME NEW l \in Links, ReadsPart(l) PROVE UNCHANGED serviceVars
      BY <3>4 DEF ReadsPart, Read
    <3>5. CASE UNCHANGED vars
      BY <3>5 DEF vars
    <3> QED
      BY <3>1, <3>2, <3>3, <3>4, <3>5 DEF Next
  <2> QED
    BY <2>1, <2>2, <2>3, <2>4, <2>5, <2>6 DEF Service
<1> QED
  BY <1>1, <1>2, TypeInvariant, PTL DEF Spec

-----------------------------------------------------------------------------
(* hiredis's assertion                                                     *)

\* Only an application that disconnects while another reply is outstanding
\* meets the assertion.
THEOREM AbortsTakePending == Spec => []AbortsOnPendingOnly
<1>1. Init => PendingInv
  BY DEF Init, PendingInv
<1>2. TypeInv /\ PendingInv /\ [Next]_vars => PendingInv'
  <2> SUFFICES ASSUME TypeInv, PendingInv, [Next]_vars PROVE PendingInv'
    OBVIOUS
  <2>1. CASE closing' \subseteq closing /\ aborted' = aborted /\ habits \subseteq habits'
    BY <2>1 DEF PendingInv
  <2>2. CASE Disconnect
    BY <2>2 DEF Disconnect, Forget, PendingInv
  <2>3. ASSUME NEW l \in Links, NEW n \in Amounts, NEW d \in Amounts, Read(l, n, d)
        PROVE  PendingInv'
    <3> DEFINE closes == l \in closing \/ d > 0
               ends == closes /\ unsent[l] = 0
    <3>1. /\ n \in Nat /\ d \in Nat /\ n <= unanswered[l] /\ d <= n
          /\ unsent[l] \in Nat /\ unanswered[l] \in Nat
          /\ Does("pending", d > 0 /\ Replies(l) > d)
      BY <2>3, AsyncAssumption DEF Amounts, TypeInv, CommandTypeOK, Read
    <3>2. habits \subseteq habits'
      BY <3>1 DEF Does
    <3>3. CASE ends /\ unanswered[l] - n = 0
      BY <2>1, <2>3, <3>2, <3>3 DEF Read, Forget
    <3>4. CASE ~(ends /\ unanswered[l] - n = 0)
      <4>1. /\ aborted' = ends
            /\ closing' = IF closes THEN closing \cup {l} ELSE closing
        BY <2>3, <3>4 DEF Read
      <4>2. CASE ~closes
        BY <4>1, <4>2, <3>2 DEF PendingInv
      <4>3. CASE l \in closing
        BY <3>2, <4>3 DEF PendingInv
      <4>4. CASE d > 0
        <5>1. Replies(l) > d
          BY <3>1, <3>4, <4>4 DEF Replies
        <5> QED
          BY <3>1, <4>4, <5>1 DEF Does, PendingInv
      <4> QED
        BY <4>2, <4>3, <4>4
    <3> QED
      BY <3>3, <3>4
  <2>4. \/ closing' \subseteq closing /\ aborted' = aborted /\ habits \subseteq habits'
        \/ Disconnect
        \/ \E l \in Links : \E n, d \in Amounts : Read(l, n, d)
    <3>1. 0 \in Amounts
      BY AsyncAssumption DEF Amounts
    <3> QED
      BY <3>1
      DEF Next, vars, commandVars, appVars, Application, Connect, Reconnect, Send,
          Service, Server, Handle, Established, Refused, Lost, Write, ReadsPart,
          Replaces, Forget
  <2> QED
    BY <2>1, <2>2, <2>3, <2>4
<1>3. PendingInv => AbortsOnPendingOnly
  BY DEF PendingInv, AbortsOnPendingOnly
<1> QED
  BY <1>1, <1>2, <1>3, TypeInvariant, PTL DEF Spec

-----------------------------------------------------------------------------
(* The contexts and status_                                                *)

LEMMA LiveLinksFinite == IsFiniteSet(LiveLinks) /\ Cardinality(LiveLinks) \in Nat
<1>1. IsFiniteSet(LiveLinks)
  BY ContextAssumption, FS_Subset DEF LiveLinks
<1> QED
  BY <1>1, FS_CardinalityType

\* Steps that open no connection: one has gone if status_ turns DISCONNECTED, or
\* the last connect in flight ends, unless they said so before.
Fades ==
  /\ UNCHANGED <<current, overlaps>>
  /\ LiveLinks' \subseteq LiveLinks
  /\ Quiet' => Quiet \/ \E l \in LiveLinks : l \notin LiveLinks'

LEMMA ContextFades ==
  ASSUME ContextTypeOK, NEW l \in Links, overlaps' = overlaps,
         Establish(l) \/ Refuse(l) \/ (Free(l) /\ Live(l))
  PROVE  Fades
<1>1. current' = current /\ LiveLinks' \subseteq LiveLinks
  BY EventLinks DEF LiveLinks
<1>2. CASE Establish(l)
  BY <1>1, <1>2 DEF Establish, Quiet, Fades
<1>3. CASE Refuse(l) \/ (Free(l) /\ Live(l))
  <2>1. Live(l) /\ ~Live(l)'
    BY <1>3 DEF ContextTypeOK, Refuse, Refusable, Free, Live, Up, Connecting
  <2> QED
    BY <1>1, <2>1 DEF LiveLinks, Fades
<1> QED
  BY <1>2, <1>3

LEMMA ServerFades ==
  ASSUME ContextTypeOK, ServerStops \/ ServerStarts, overlaps' = overlaps
  PROVE  Fades
<1>1. \A k \in Links : Connecting(k)' <=> Connecting(k)
  BY DEF ContextTypeOK, ServerStops, ServerStarts, Interrupted, Connecting
<1> QED
  BY <1>1, ServerLinks DEF Fades, LiveLinks, Quiet

LEMMA StatusFades ==
  ASSUME UNCHANGED <<current, link, overlaps>>,
         status' = status \/ status' = "DISCONNECTING"
  PROVE  Fades
BY DEF Fades, LiveLinks, Quiet, Live, Up, Connecting

LEMMA StepFades ==
  ASSUME TypeInv, [Next]_vars
  PROVE  \/ Fades
         \/ \E l \in Links, s \in {"connecting", "failed"} : Connect(l, s) \/ Reconnect(l, s)
<1>t. ContextTypeOK
  BY DEF TypeInv
<1>1. CASE Disconnect
  <2>1. current \in Links /\ current' = current /\ overlaps' = overlaps
    BY <1>t, <1>1 DEF Disconnect, Current, ContextTypeOK
  <2>2. CASE Replies(current) = 0
    <3>1. /\ link' = [link EXCEPT ![current] = "none"]
          /\ status' = IF Up(current) THEN "DISCONNECTED" ELSE "DISCONNECTING"
      BY <1>1, <2>2 DEF Disconnect
    <3>2. LiveLinks' \subseteq LiveLinks /\ current \notin LiveLinks'
      BY <1>t, <2>1, <3>1 DEF ContextTypeOK, LiveLinks, Live, Up, Connecting
    <3>3. Quiet' => current \in LiveLinks
      BY <2>1, <3>1 DEF Quiet, LiveLinks, Live
    <3> QED
      BY <2>1, <3>2, <3>3 DEF Fades
  <2>3. CASE Replies(current) # 0
    BY <1>1, <2>1, <2>3, StatusFades DEF Disconnect
  <2> QED
    BY <2>2, <2>3
<1>2. CASE Server
  BY <1>t, <1>2, ServerFades DEF Server, appVars
<1>3. ASSUME NEW l \in Links, Established(l) \/ Refused(l) \/ Lost(l)
      PROVE  Fades
  <2>1. overlaps' = overlaps
    BY <1>3 DEF Established, Refused, Lost, appVars
  <2>2. CASE Establish(l) \/ Refuse(l) \/ (Free(l) /\ Live(l))
    BY <1>t, <2>1, <2>2, ContextFades
  <2>3. CASE ~(Establish(l) \/ Refuse(l) \/ (Free(l) /\ Live(l)))
    <3>1. /\ Refusable(l) /\ link' = [link EXCEPT ![l] = "none"]
          /\ current' = current
      BY <1>3, <2>3 DEF Established, Refused, Lost, Live, Up
    <3>2. l \in LiveLinks /\ l \notin LiveLinks' /\ LiveLinks' \subseteq LiveLinks
      BY <1>t, <3>1 DEF Refusable, ContextTypeOK, LiveLinks, Live, Up, Connecting
    <3> QED
      BY <2>1, <3>1, <3>2 DEF Fades
  <2> QED
    BY <2>2, <2>3
<1>4. ASSUME NEW l \in Links, NEW n \in Amounts, NEW d \in Amounts, Read(l, n, d)
      PROVE  Fades
  <2>1. overlaps' = overlaps /\ Live(l)
    BY <1>4 DEF Read, Live, Up
  <2>2. \/ Free(l)
        \/ /\ UNCHANGED <<current, link>>
           /\ status' = status \/ status' = "DISCONNECTING"
    BY <1>4 DEF Read
  <2> QED
    BY <1>t, <2>1, <2>2, ContextFades, StatusFades
<1>5. (Send \/ Service \/ UNCHANGED vars
          \/ \E l \in Links, n \in Amounts \ {0} : Write(l, n)) => Fades
  <2>1. (Send \/ Service \/ UNCHANGED vars
           \/ \E l \in Links, n \in Amounts \ {0} : Write(l, n)) =>
          UNCHANGED <<status, current, link, overlaps>>
    BY DEF Send, Service, Write, vars, contextVars, appVars
  <2> QED
    BY <2>1, StatusFades
<1>6. 0 \in Amounts
  BY AsyncAssumption DEF Amounts
<1> QED
  BY <1>1, <1>2, <1>3, <1>4, <1>5, <1>6 DEF Next, Application, Handle, ReadsPart

\* What reconnect() finds when it overlaps nothing.
LEMMA NoneLive ==
  ASSUME PaidInv, TypeInv, overlaps' = 0, NEW l \in Links,
         NEW s \in {"connecting", "failed"}, Connect(l, s) \/ Reconnect(l, s)
  PROVE  \A k \in Links : ~Live(k)
<1>t. overlaps \in Nat
  BY AsyncAssumption DEF TypeInv, AppTypeOK
<1>1. CASE Connect(l, s)
  BY <1>t, <1>1 DEF Connect, Counts
<1>2. CASE Reconnect(l, s)
  <2>1. Quiet /\ overlaps = 0
    BY <1>t, <1>2 DEF Reconnect, Reopen, Counts, Quiet
  <2>2. Cardinality(LiveLinks) = 0
    BY <2>1, LiveLinksFinite DEF PaidInv
  <2>3. LiveLinks = {}
    BY <2>2, LiveLinksFinite, FS_EmptySet
  <2> QED
    BY <2>3 DEF LiveLinks
<1> QED
  BY <1>1, <1>2

LEMMA LiveStep ==
  ASSUME TypeInv, LiveInv, PaidInv, [Next]_vars
  PROVE  LiveInv'
<1>1. CASE Fades
  BY <1>1, StaysAlone DEF Fades, LiveInv, LiveLinks
<1>2. ASSUME NEW l \in Links, NEW s \in {"connecting", "failed"},
             Connect(l, s) \/ Reconnect(l, s)
      PROVE  LiveInv'
  BY <1>2, NoneLive, OpenAlone DEF Connect, Reconnect, Reopen, TypeInv, LiveInv
<1> QED
  BY <1>1, <1>2, StepFades

\* connect() and reconnect() open one connection at most.
LEMMA PaidStep ==
  ASSUME TypeInv, PaidInv, [Next]_vars
  PROVE  PaidInv'
<1>t. /\ ContextTypeOK /\ overlaps \in Nat
      /\ IsFiniteSet(LiveLinks) /\ Cardinality(LiveLinks) \in Nat
      /\ IsFiniteSet(LiveLinks') /\ Cardinality(LiveLinks') \in Nat
  <2>1. IsFiniteSet(LiveLinks')
    BY ContextAssumption, FS_Subset DEF LiveLinks
  <2> QED
    BY <2>1, AsyncAssumption, LiveLinksFinite, FS_CardinalityType DEF TypeInv, AppTypeOK
<1>1. CASE Fades
  <2>1. Cardinality(LiveLinks') <= Cardinality(LiveLinks)
    BY <1>t, <1>1, FS_Subset DEF Fades
  <2>2. ASSUME NEW l \in LiveLinks, l \notin LiveLinks'
        PROVE  Cardinality(LiveLinks') < Cardinality(LiveLinks)
    <3>1. LiveLinks' \subseteq LiveLinks \ {l}
      BY <1>1, <2>2 DEF Fades
    <3>2. /\ IsFiniteSet(LiveLinks \ {l})
          /\ Cardinality(LiveLinks \ {l}) = Cardinality(LiveLinks) - 1
      BY <1>t, <2>2, FS_RemoveElement
    <3>3. Cardinality(LiveLinks') <= Cardinality(LiveLinks \ {l})
      BY <3>1, <3>2, FS_Subset
    <3> QED
      BY <1>t, <3>2, <3>3
  <2> QED
    BY <1>t, <1>1, <2>1, <2>2 DEF Fades, PaidInv
<1>2. ASSUME NEW l \in Links, NEW s \in {"connecting", "failed"},
             Connect(l, s) \/ Reconnect(l, s)
      PROVE  PaidInv'
  <2>1. Open(l, s)
    BY <1>2 DEF Connect, Reconnect, Reopen
  <2>2. l \notin LiveLinks
    BY <2>1 DEF Open, Unused, LiveLinks, Live, Up, Connecting
  <2>3. CASE s = "failed"
    <3>1. LiveLinks' = LiveLinks
      BY <1>t, <2>1, <2>2, <2>3, OpenLinks DEF LiveLinks, Live, Up, Connecting
    <3>2. \/ overlaps' = overlaps + 1
          \/ overlaps' = overlaps /\ LiveLinks = {}
          \/ overlaps' = overlaps /\ Quiet
      BY <1>2 DEF Connect, Reconnect, Reopen, Counts, Quiet, LiveLinks
    <3>3. LiveLinks = {} => Cardinality(LiveLinks) = 0
      BY FS_EmptySet
    <3> QED
      BY <1>t, <3>1, <3>2, <3>3 DEF PaidInv
  <2>4. CASE s = "connecting"
    <3>1. LiveLinks' = LiveLinks \cup {l} /\ ~Quiet'
      BY <1>t, <2>1, <2>4, OpenLinks DEF LiveLinks, Live, Up, Connecting, Quiet
    <3>2. Cardinality(LiveLinks') = Cardinality(LiveLinks) + 1
      BY <1>t, <2>2, <3>1, FS_AddElement
    <3>3. \/ overlaps' = overlaps + 1
          \/ overlaps' = overlaps /\ LiveLinks = {}
          \/ overlaps' = overlaps /\ Quiet
      BY <1>2 DEF Connect, Reconnect, Reopen, Counts, Quiet, LiveLinks
    <3>4. LiveLinks = {} => Cardinality(LiveLinks) = 0
      BY FS_EmptySet
    <3> QED
      BY <1>t, <3>1, <3>2, <3>3, <3>4 DEF PaidInv
  <2> QED
    BY <2>3, <2>4
<1> QED
  BY <1>1, <1>2, StepFades

\* No step unlearns a habit, or follows a failed assertion.
LEMMA HabitsGrow ==
  ASSUME TypeInv, [Next]_vars
  PROVE  /\ habits \subseteq habits'
         /\ overlaps' = 0 => overlaps = 0
         /\ aborted => aborted'
<1>1. aborted => aborted'
  BY DEF Next, vars, commandVars
<1>o. overlaps' = 0 => overlaps = 0
  <2>1. overlaps \in Nat
    BY AsyncAssumption DEF TypeInv, AppTypeOK
  <2>2. overlaps' = overlaps \/ overlaps' = overlaps + 1
    BY StepFades DEF Fades, Connect, Reconnect, Counts
  <2> QED
    BY <2>1, <2>2
<1>2. CASE UNCHANGED vars
  BY <1>1, <1>o, <1>2 DEF vars, appVars
<1>3. CASE Application \/ Service \/ Server
  <2>1. habits \subseteq habits'
    BY <1>3
    DEF Application, Connect, Reconnect, Send, Disconnect, Service, Server,
        Replaces, appVars
  <2> QED
    BY <1>1, <1>o, <2>1
<1>4. ASSUME NEW l \in Links, Handle(l) \/ ReadsPart(l)
      PROVE  habits \subseteq habits'
  <2>1. CASE \E n, d : Read(l, n, d)
    BY <2>1 DEF Read, Does
  <2>2. CASE Established(l) \/ Refused(l) \/ Lost(l) \/ \E n : Write(l, n)
    BY <2>2 DEF Established, Refused, Lost, Write, appVars
  <2> QED
    BY <1>4, <2>1, <2>2 DEF Handle, ReadsPart
<1> QED
  BY <1>1, <1>o, <1>2, <1>3, <1>4 DEF Next

LEMMA StatusStep ==
  ASSUME TypeInv, LiveInv, PaidInv, StatusInv, [Next]_vars
  PROVE  StatusInv'
<1> DEFINE Truth == /\ \A l \in closing : Up(l)
                    /\ Tells(closing)
<1> SUFFICES ASSUME Disciplined', ~aborted' PROVE Truth'
  BY DEF StatusInv
<1>t. /\ ContextTypeOK /\ CommandTypeOK /\ closing \subseteq Links
      /\ overlaps' = 0 /\ "early" \notin habits'
      /\ Alone /\ ~aborted
      /\ (\A l \in closing : Up(l)) /\ Tells(closing)
  BY HabitsGrow
  DEF TypeInv, CommandTypeOK, LiveInv, StatusInv, Disciplined
<1>1. ASSUME NEW l \in Links, NEW s \in {"connecting", "failed"},
             Connect(l, s) \/ Reconnect(l, s)
      PROVE  Truth'
  <2>1. Open(l, s) /\ \A k \in Links : ~Live(k)
    BY <1>t, <1>1, NoneLive DEF Connect, Reconnect, Reopen
  <2>2. closing = {} /\ closing' = {}
    BY <1>t, <1>1, <2>1 DEF Live, Connect, Reconnect, Replaces, Forget
  <2>3. Tells({})'
    BY <1>t, <2>1, <2>2, OpenAlone
  <2> QED
    BY <2>2, <2>3 DEF Tells
<1>2. CASE UNCHANGED <<status, current, link, closing>>
  BY <1>t, <1>2 DEF Tells, Up
<1>3. CASE Disconnect
  <2>1. current \in Links /\ Up(current)
    BY <1>t, <1>3 DEF Disconnect, Current, ContextTypeOK
  <2>2. CASE Replies(current) = 0
    <3>1. /\ link' = [link EXCEPT ![current] = "none"]
          /\ status' = "DISCONNECTED" /\ current' = current
          /\ closing' = closing \ {current}
      BY <1>3, <2>1, <2>2 DEF Disconnect, Forget
    <3> QED
      BY <1>t, <2>1, <3>1 DEF Tells, Up, ContextTypeOK
  <2>3. CASE Replies(current) # 0
    BY <1>t, <1>3, <2>1, <2>3 DEF Disconnect, Tells, Up
  <2> QED
    BY <2>2, <2>3
<1>4. CASE Server
  BY <1>t, <1>4, ServerLinks DEF Server, commandVars, Tells
<1>5. ASSUME NEW l \in Links, Established(l) PROVE Truth'
  <2>1. Establish(l) /\ closing' = closing
    BY <1>5 DEF Established, commandVars
  <2>2. l \notin closing
    BY <1>t, <2>1 DEF Establish, Up, Connecting
  <2>3. PICK C : C = closing
    OBVIOUS
  <2>4. Tells(C)'
    BY <1>t, <2>1, <2>2, <2>3, EstablishTells
  <2>5. \A k \in Links : Up(k) => Up(k)'
    BY <1>t, <2>1 DEF Establish, Up, Connecting, ContextTypeOK
  <2> QED
    BY <1>t, <2>1, <2>3, <2>4, <2>5 DEF Tells
<1>6. ASSUME NEW l \in Links, Refused(l) PROVE Truth'
  <2>1. Refuse(l) /\ closing' = closing \ {l}
    BY <1>t, <1>6 DEF Refused, Forget
  <2>2. l \notin closing
    BY <1>t, <2>1 DEF Refuse, Refusable, Up, Connecting
  <2>3. PICK C : C = closing
    OBVIOUS
  <2>4. Tells(C)'
    BY <1>t, <2>1, <2>3, RefuseTells
  <2>5. \A k \in Links : Up(k) => Up(k)'
    BY <1>t, <2>1 DEF Refuse, Refusable, Up, Connecting, ContextTypeOK
  <2> QED
    BY <1>t, <2>1, <2>2, <2>3, <2>4, <2>5 DEF Tells
<1>7. ASSUME NEW l \in Links, Free(l), Up(l), closing' = closing \ {l}
      PROVE  Truth'
  <2>1. PICK C : C = closing'
    OBVIOUS
  <2>2. Tells(C)'
    BY <1>t, <1>7, FreeTells
  <2>3. \A k \in Links : k # l /\ Up(k) => Up(k)'
    BY <1>t, <1>7 DEF Free, Up, ContextTypeOK
  <2> QED
    BY <1>t, <1>7, <2>1, <2>2, <2>3 DEF Tells
<1>8. ASSUME NEW l \in Links, Lost(l) PROVE Truth'
  BY <1>7, <1>8 DEF Lost, Forget, Up
<1>9. ASSUME NEW l \in Links, NEW n \in Amounts, NEW d \in Amounts, Read(l, n, d)
      PROVE  Truth'
  <2>1. Up(l) /\ d \in Nat /\ (d > 0 => l = current)
    BY <1>9, AsyncAssumption DEF Read, Amounts, Up
  <2>2. CASE Free(l) /\ Forget({l})
    BY <1>7, <2>1, <2>2 DEF Forget
  <2>3. CASE ~(Free(l) /\ Forget({l}))
    <3>1. /\ closing' = IF l \in closing \/ d > 0 THEN closing \cup {l} ELSE closing
          /\ status' = IF d > 0 THEN "DISCONNECTING" ELSE status
          /\ UNCHANGED <<current, link>>
      BY <1>9, <2>3 DEF Read
    <3>2. CASE d > 0
      BY <1>t, <2>1, <3>1, <3>2 DEF Tells, Up
    <3>3. CASE ~(d > 0)
      <4>1. closing' = closing /\ status' = status
        BY <3>1, <3>3
      <4> QED
        BY <1>2, <3>1, <4>1
    <3> QED
      BY <3>2, <3>3
  <2> QED
    BY <2>2, <2>3
<1>10. (Send \/ Service \/ UNCHANGED vars
          \/ \E l \in Links, n \in Amounts \ {0} : Write(l, n)) =>
         UNCHANGED <<status, current, link, closing>>
  BY DEF Send, Service, Write, vars, contextVars, commandVars
<1>11. 0 \in Amounts
  BY AsyncAssumption DEF Amounts
<1> QED
  BY <1>1, <1>2, <1>3, <1>4, <1>5, <1>6, <1>8, <1>9, <1>10, <1>11
  DEF Next, Application, Handle, ReadsPart

LEMMA StatusInvariant == Spec => [](TypeInv /\ LiveInv /\ PaidInv /\ StatusInv)
<1>1. Init => LiveInv /\ PaidInv /\ StatusInv
  <2>1. ASSUME Init PROVE \A l \in Links : ~Live(l)
    BY <2>1 DEF Init, ContextInit, Live, Up, Connecting
  <2>2. ASSUME Init PROVE PaidInv
    <3>1. LiveLinks = {} /\ overlaps = 0
      BY <2>1, <2>2 DEF Init, LiveLinks
    <3>2. Cardinality(LiveLinks) = 0
      BY <3>1, FS_EmptySet
    <3> QED
      BY <3>1, <3>2 DEF PaidInv
  <2> QED
    BY <2>1, <2>2 DEF Init, ContextInit, LiveInv, StatusInv, Alone, Tells, Live
<1>2. TypeInv /\ LiveInv /\ PaidInv /\ StatusInv /\ [Next]_vars =>
        LiveInv' /\ PaidInv' /\ StatusInv'
  BY LiveStep, PaidStep, StatusStep
<1> QED
  BY <1>1, <1>2, TypeInvariant, PTL DEF Spec

\* reconnect() looks at status_, which speaks of one context and is late, and
\* still makes no connection beside one that is up, except where a call that
\* overlapped one has paid for it.
THEOREM ConnectionsArePaidFor == Spec => []OverlapsPaid
<1>1. PaidInv => OverlapsPaid
  BY DEF PaidInv, LiveLinks, OverlapsPaid
<1> QED
  BY <1>1, StatusInvariant, PTL

\* What reconnect() relies on: status_ agrees with the context, for an
\* application that disconnects only what is connected, and whose calls overlap
\* no connection.
THEOREM StatusTellsTheTruth == Spec => []StatusTruthful
<1>1. TypeInv /\ StatusInv => StatusTruthful
  <2> SUFFICES ASSUME TypeInv, StatusInv, Disciplined, ~aborted
               PROVE  status = CASE ~Current \/ ~Up(current) -> "DISCONNECTED"
                                 [] current \in closing      -> "DISCONNECTING"
                                 [] OTHER                    -> "CONNECTED"
    BY DEF StatusTruthful
  <2>1. /\ \A l \in closing : Up(l)
        /\ Tells(closing)
        /\ closing \subseteq Links /\ current \in Links \cup {NULL}
    BY DEF StatusInv, TypeInv, CommandTypeOK, ContextTypeOK
  <2>2. CASE current \in Links /\ Up(current)
    <3>1. Current
      BY <2>2, ContextAssumption DEF Current, Up
    <3> QED
      BY <2>1, <2>2, <3>1 DEF Tells
  <2>3. CASE ~(current \in Links /\ Up(current))
    <3>1. status = "DISCONNECTED"
      BY <2>1, <2>3 DEF Tells
    <3>2. ~Current \/ ~Up(current)
      BY <2>1, <2>3 DEF Current
    <3>3. current \notin closing
      BY <2>1, <2>3
    <3> QED
      BY <3>1, <3>2, <3>3
  <2> QED
    BY <2>2, <2>3
<1> QED
  BY <1>1, StatusInvariant, PTL

=============================================================================
