------------------------- MODULE AsyncContextProofs -------------------------
(***************************************************************************)
(* Lemmas about the building blocks of AsyncContext, for the two modules   *)
(* that are built from them: what an operation on a hiredis context does   *)
(* to the types, and to the context that is alive.                         *)
(***************************************************************************)
EXTENDS AsyncContext, TLAPS

\* No context is connecting or connected but the one in async_context_.
Alone == \A l \in Links : Live(l) => l = current

\* status_ tells whether async_context_ is connected.  A disconnect() that is
\* still to be carried out says so.
Tells(C) ==
  status = IF current \in Links /\ Up(current)
           THEN IF current \in C THEN "DISCONNECTING" ELSE "CONNECTED"
           ELSE "DISCONNECTED"

LEMMA ContextTyped == ContextInit => ContextTypeOK
<1>1. ContextInit => stops \in 0 .. MaxStops
  BY ContextAssumption DEF ContextInit
<1> QED
  BY <1>1, Zenon DEF ContextInit, ContextTypeOK

LEMMA OpenTyped ==
  ASSUME ContextTypeOK, NEW l \in Links, NEW s \in {"connecting", "failed"},
         Open(l, s)
  PROVE  ContextTypeOK'
<1>1. link' \in [Links -> {"none", "failed", "connecting", "interrupted",
                          "connected", "broken"}]
  <2> SUFFICES ASSUME NEW k \in Links
               PROVE  (CASE k = l -> s
                         [] k = current /\ k # l /\ link[k] = "failed" -> "none"
                         [] OTHER -> link[k])
                        \in {"none", "failed", "connecting", "interrupted",
                             "connected", "broken"}
    BY DEF Open, Unused
  <2> QED
    BY DEF ContextTypeOK
<1> QED
  BY <1>1 DEF Open, Unused, ContextTypeOK

LEMMA EventTyped ==
  ASSUME ContextTypeOK, NEW l \in Links, Establish(l) \/ Refuse(l) \/ Free(l)
  PROVE  ContextTypeOK'
BY DEF ContextTypeOK, Establish, Refuse, Free

LEMMA ServerTyped ==
  ASSUME ContextTypeOK, ServerStops \/ ServerStarts
  PROVE  ContextTypeOK'
<1>1. stops' \in 0 .. MaxStops
  BY ContextAssumption DEF ContextTypeOK, ServerStops, ServerStarts
<1>2. link' \in [Links -> {"none", "failed", "connecting", "interrupted",
                          "connected", "broken"}]
  BY DEF ContextTypeOK, ServerStops, ServerStarts, Interrupted
<1>3. server' \in BOOLEAN
  BY DEF ServerStops, ServerStarts
<1> QED
  BY <1>1, <1>2, <1>3 DEF ContextTypeOK, ServerStops, ServerStarts

LEMMA StaysTyped ==
  ASSUME ContextTypeOK, UNCHANGED contextVars
  PROVE  ContextTypeOK'
BY DEF ContextTypeOK, contextVars

\* What opening does to the slots.
LEMMA OpenLinks ==
  ASSUME ContextTypeOK, NEW l \in Links, NEW s \in {"connecting", "failed"},
         Open(l, s)
  PROVE  /\ link'[l] = s /\ current' = l /\ status' = status
         /\ \A k \in Links : k # l =>
              /\ Live(k)' <=> Live(k)
              /\ Up(k)' <=> Up(k)
         /\ ~Up(l)'
<1>1. \A k \in Links : link'[k] = CASE k = l -> s
                         [] k = current /\ k # l /\ link[k] = "failed" -> "none"
                         [] OTHER -> link[k]
  BY DEF Open, Unused
<1>2. link'[l] = s
  BY <1>1
<1>3. \A k \in Links : k # l =>
        \/ link'[k] = link[k]
        \/ link'[k] = "none" /\ link[k] = "failed"
  BY <1>1
<1> QED
  BY <1>2, <1>3 DEF Open, Unused, Live, Up, Connecting

\* connect() leaves one context alive when there was none.
LEMMA OpenAlone ==
  ASSUME ContextTypeOK, NEW l \in Links, NEW s \in {"connecting", "failed"},
         Open(l, s), \A k \in Links : ~Live(k)
  PROVE  Alone' /\ \A C : Tells(C) => Tells(C)'
<1>1. Alone'
  BY OpenLinks DEF Alone
<1>2. ASSUME NEW C, Tells(C) PROVE Tells(C)'
  BY <1>2, OpenLinks DEF Tells, Live
<1> QED
  BY <1>1, <1>2

\* What else happens to a context leaves at most that one alive ...
LEMMA StaysAlone ==
  ASSUME Alone, UNCHANGED current, \A l \in Links : Live(l)' => Live(l)
  PROVE  Alone'
BY DEF Alone

LEMMA EventLinks ==
  ASSUME ContextTypeOK, NEW l \in Links, Establish(l) \/ Refuse(l) \/ Free(l)
  PROVE  /\ current' = current /\ addressed' = addressed
         /\ \A k \in Links : Live(k)' => Live(k)
BY DEF ContextTypeOK, Establish, Refuse, Refusable, Free, Live, Up, Connecting

LEMMA ServerLinks ==
  ASSUME ContextTypeOK, ServerStops \/ ServerStarts
  PROVE  /\ current' = current /\ addressed' = addressed /\ status' = status
         /\ \A k \in Links : /\ Live(k)' <=> Live(k)
                             /\ Up(k)' <=> Up(k)
BY DEF ContextTypeOK, ServerStops, ServerStarts, Interrupted, Live, Up, Connecting

\* ... and status_ telling the truth about it.
LEMMA EstablishTells ==
  ASSUME ContextTypeOK, Alone, NEW l \in Links, Establish(l),
         NEW C, l \notin C
  PROVE  Tells(C)'
BY DEF ContextTypeOK, Alone, Establish, Tells, Live, Up, Connecting

LEMMA RefuseTells ==
  ASSUME ContextTypeOK, Alone, NEW l \in Links, Refuse(l),
         NEW C, Tells(C)
  PROVE  Tells(C)'
BY DEF ContextTypeOK, Alone, Refuse, Refusable, Tells, Live, Up, Connecting

LEMMA FreeTells ==
  ASSUME ContextTypeOK, Alone, NEW l \in Links, Free(l), Up(l), NEW C
  PROVE  Tells(C)'
BY DEF ContextTypeOK, Alone, Free, Tells, Live, Up, Connecting

=============================================================================
