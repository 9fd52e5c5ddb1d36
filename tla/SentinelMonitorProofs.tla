----------------------- MODULE SentinelMonitorProofs -----------------------
(***************************************************************************)
(* What discovery does to the list of Sentinels, for every list and every  *)
(* sequence of outages, lost connections and partial views.                *)
(*                                                                         *)
(* The list never changes while the loop runs: only the answer that ends   *)
(* it reorders it.  So the Sentinels asked in vain are a prefix of the     *)
(* list until then, and that prefix, moved back by one place, afterwards.  *)
(***************************************************************************)
EXTENDS SentinelMonitor, SequenceTheorems, TLAPS

LOCAL INSTANCE SequencesExt

Distinct(s) == \A i, j \in 1 .. Len(s) : s[i] = s[j] => i = j
Slice(s, a, b) == {s[k] : k \in a .. b}

ListInv == UrlsKept /\ Distinct(urls)

\* Where a discovery is, and which Sentinels it has asked in vain.
DiscoveryInv ==
  /\ pc = "probe" => addr = NULL /\ silent = Slice(urls, 1, it - 1)
  /\ pc = "decide" /\ addr = NULL =>
       silent = Slice(InitialUrls, 1, Len(InitialUrls))
  /\ pc = "decide" /\ addr # NULL =>
       /\ it \in 1 .. Len(urls)
       /\ url = urls[1]
       /\ silent = Slice(urls, 2, it)

Inv == TypeOK /\ ListInv /\ DiscoveryInv

-----------------------------------------------------------------------------
(* The list                                                                *)

LEMMA ToSetIsSlice ==
  ASSUME NEW S, NEW s \in Seq(S)
  PROVE  ToSet(s) = Slice(s, 1, Len(s))
BY LenProperties DEF ToSet, Slice

LEMMA ToSetOfSubSeq ==
  ASSUME NEW S, NEW s \in Seq(S), NEW a \in Nat \ {0}, NEW b \in 1 .. Len(s)
  PROVE  ToSet(SubSeq(s, a, b)) = Slice(s, a, b)
<1> DEFINE q == SubSeq(s, a, b)
<1>1. a \in Int /\ b \in Int /\ Len(s) \in Nat
  BY LenProperties
<1>2. \A k \in a .. b : s[k] \in S
  BY <1>1, ElementOfSeq
<1>3. /\ q \in Seq(S)
      /\ Len(q) = IF a <= b THEN b - a + 1 ELSE 0
      /\ \A k \in 1 .. b - a + 1 : q[k] = s[a + k - 1]
  BY <1>1, <1>2, SubSeqProperties
<1> HIDE DEF q
<1>4. ToSet(q) = Slice(q, 1, Len(q))
  BY <1>3, ToSetIsSlice
<1>5. ASSUME NEW k \in 1 .. Len(q) PROVE q[k] \in Slice(s, a, b)
  <2>1. k \in 1 .. b - a + 1 /\ a + k - 1 \in a .. b
    BY <1>1, <1>3
  <2> QED
    BY <1>3, <2>1 DEF Slice
<1>6. ASSUME NEW k \in a .. b PROVE s[k] \in Slice(q, 1, Len(q))
  <2>1. k - a + 1 \in 1 .. b - a + 1 /\ k - a + 1 \in 1 .. Len(q)
    BY <1>1, <1>3
  <2>2. q[k - a + 1] = s[k]
    <3>1. a + (k - a + 1) - 1 = k
      BY <1>1
    <3> QED
      BY <1>3, <2>1, <3>1
  <2> QED
    BY <2>1, <2>2 DEF Slice
<1> QED
  BY <1>4, <1>5, <1>6 DEF Slice, q

\* Erasing the n-th element and inserting it at the front.
LEMMA MovedToFront ==
  ASSUME NEW S, NEW s \in Seq(S), NEW n \in 1 .. Len(s)
  PROVE  LET r == <<s[n]>> \o RemoveAt(s, n)
         IN /\ r \in Seq(S)
            /\ Len(r) = Len(s)
            /\ r[1] = s[n]
            /\ \A k \in 2 .. n : r[k] = s[k - 1]
            /\ \A k \in n + 1 .. Len(s) : r[k] = s[k]
<1> DEFINE a == SubSeq(s, 1, n - 1)
           b == SubSeq(s, n + 1, Len(s))
           r == <<s[n]>> \o RemoveAt(s, n)
<1>1. n \in Int /\ n - 1 \in Int /\ n + 1 \in Int /\ Len(s) \in Nat
  BY LenProperties
<1>2. \A k \in 1 .. Len(s) : s[k] \in S
  BY ElementOfSeq
<1>3. /\ a \in Seq(S) /\ Len(a) = n - 1
      /\ \A k \in 1 .. n - 1 : a[k] = s[k]
  <2>1. \A k \in 1 .. n - 1 : s[k] \in S
    BY <1>1, <1>2
  <2>2. /\ a \in Seq(S)
        /\ Len(a) = IF 1 <= n - 1 THEN (n - 1) - 1 + 1 ELSE 0
        /\ \A k \in 1 .. (n - 1) - 1 + 1 : a[k] = s[1 + k - 1]
    BY <1>1, <2>1, SubSeqProperties
  <2> HIDE DEF a
  <2> QED
    BY <1>1, <2>2
<1>4. /\ b \in Seq(S) /\ Len(b) = Len(s) - n
      /\ \A k \in 1 .. Len(s) - n : b[k] = s[n + k]
  <2>1. \A k \in n + 1 .. Len(s) : s[k] \in S
    BY <1>1, <1>2
  <2>2. /\ b \in Seq(S)
        /\ Len(b) = IF n + 1 <= Len(s) THEN Len(s) - (n + 1) + 1 ELSE 0
        /\ \A k \in 1 .. Len(s) - (n + 1) + 1 : b[k] = s[(n + 1) + k - 1]
    BY <1>1, <2>1, SubSeqProperties
  <2> HIDE DEF b
  <2>3. \A k \in 1 .. Len(s) - n : (n + 1) + k - 1 = n + k
    BY <1>1
  <2> QED
    BY <1>1, <2>2, <2>3
<1>5. /\ <<s[n]>> \in Seq(S) /\ Len(<<s[n]>>) = 1 /\ <<s[n]>>[1] = s[n]
  BY <1>2
<1>6. r = <<s[n]>> \o (a \o b)
  BY DEF RemoveAt
<1> HIDE DEF a, b, r
<1>7. /\ a \o b \in Seq(S)
      /\ Len(a \o b) = Len(s) - 1
      /\ \A k \in 1 .. Len(s) - 1 :
           (a \o b)[k] = IF k <= n - 1 THEN a[k] ELSE b[k - (n - 1)]
  <2>1. Len(a) + Len(b) = Len(s) - 1
    BY <1>1, <1>3, <1>4
  <2>2. /\ a \o b \in Seq(S)
        /\ Len(a \o b) = Len(a) + Len(b)
        /\ \A k \in 1 .. Len(a) + Len(b) :
             (a \o b)[k] = IF k <= Len(a) THEN a[k] ELSE b[k - Len(a)]
    BY <1>3, <1>4, ConcatProperties
  <2> QED
    BY <1>3, <2>1, <2>2
<1>8. /\ r \in Seq(S)
      /\ Len(r) = Len(s)
      /\ \A k \in 1 .. Len(s) :
           r[k] = IF k <= 1 THEN s[n] ELSE (a \o b)[k - 1]
  <2> DEFINE h == <<s[n]>>
             ab == a \o b
  <2>1. h \in Seq(S) /\ Len(h) = 1 /\ h[1] = s[n]
    BY <1>5
  <2>2. ab \in Seq(S) /\ Len(ab) = Len(s) - 1
    BY <1>7
  <2>3. r = h \o ab
    BY <1>6
  <2> HIDE DEF h, ab
  <2>4. /\ r \in Seq(S) /\ Len(r) = Len(h) + Len(ab)
        /\ \A k \in 1 .. Len(h) + Len(ab) :
             r[k] = IF k <= Len(h) THEN h[k] ELSE ab[k - Len(h)]
    BY <2>1, <2>2, <2>3, ConcatProperties
  <2>5. Len(h) + Len(ab) = Len(s)
    BY <1>1, <2>1, <2>2
  <2>6. \A k \in 1 .. Len(s) : r[k] = IF k <= 1 THEN s[n] ELSE ab[k - 1]
    BY <1>1, <2>1, <2>4, <2>5
  <2> QED
    BY <2>4, <2>5, <2>6 DEF ab
<1>9. ASSUME NEW k \in 2 .. n PROVE r[k] = s[k - 1]
  <2>1. k \in 1 .. Len(s) /\ ~(k <= 1) /\ k - 1 \in 1 .. n - 1
        /\ k - 1 \in 1 .. Len(s) - 1
    BY <1>1
  <2> QED
    BY <1>3, <1>7, <1>8, <2>1
<1>10. ASSUME NEW k \in n + 1 .. Len(s) PROVE r[k] = s[k]
  <2>1. /\ k \in 1 .. Len(s) /\ ~(k <= 1)
        /\ k - 1 \in 1 .. Len(s) - 1 /\ ~(k - 1 <= n - 1)
        /\ k - 1 - (n - 1) = k - n
        /\ k - n \in 1 .. Len(s) - n /\ n + (k - n) = k
    BY <1>1
  <2>2. r[k] = (a \o b)[k - 1]
    BY <1>8, <2>1
  <2>3. (a \o b)[k - 1] = b[k - n]
    BY <1>7, <2>1
  <2> QED
    BY <1>4, <2>1, <2>2, <2>3
<1>11. r[1] = s[n]
  BY <1>1, <1>8
<1> QED
  BY <1>8, <1>9, <1>10, <1>11 DEF r

\* So the list keeps its length and its elements, and lists none twice.
LEMMA MoveKeepsElements ==
  ASSUME NEW S, NEW s \in Seq(S), NEW r \in Seq(S), NEW n \in 1 .. Len(s),
         Len(r) = Len(s),
         r[1] = s[n],
         \A k \in 2 .. n : r[k] = s[k - 1],
         \A k \in n + 1 .. Len(s) : r[k] = s[k]
  PROVE  /\ Slice(r, 1, Len(r)) = Slice(s, 1, Len(s))
         /\ Distinct(s) => Distinct(r)
         /\ Slice(r, 2, n) = Slice(s, 1, n - 1)
<1> DEFINE from == [k \in 1 .. Len(s) |->
                     IF k = 1 THEN n ELSE IF k <= n THEN k - 1 ELSE k]
           to == [k \in 1 .. Len(s) |->
                   IF k = n THEN 1 ELSE IF k < n THEN k + 1 ELSE k]
<1>1. Len(s) \in Nat
  BY LenProperties
<1>2. \A k \in 1 .. Len(s) : from[k] \in 1 .. Len(s) /\ r[k] = s[from[k]]
  BY <1>1
<1>3. \A k \in 1 .. Len(s) : to[k] \in 1 .. Len(s) /\ s[k] = r[to[k]]
  <2> TAKE k \in 1 .. Len(s)
  <2>1. CASE k = n
    BY <1>1, <2>1
  <2>2. CASE k < n
    <3>1. k + 1 \in 2 .. n /\ (k + 1) - 1 = k /\ k + 1 \in 1 .. Len(s)
      BY <1>1, <2>2
    <3> QED
      BY <1>1, <2>2, <3>1
  <2>3. CASE k > n
    BY <1>1, <2>3
  <2> QED
    BY <1>1, <2>1, <2>2, <2>3
<1>4. \A j, k \in 1 .. Len(s) : from[j] = from[k] => j = k
  BY <1>1
<1> HIDE DEF from, to
<1>5. Slice(r, 1, Len(r)) = Slice(s, 1, Len(s))
  <2>1. \A k \in 1 .. Len(s) : r[k] \in Slice(s, 1, Len(s))
    BY <1>2 DEF Slice
  <2>2. \A k \in 1 .. Len(s) : s[k] \in Slice(r, 1, Len(r))
    BY <1>3 DEF Slice
  <2> QED
    BY <2>1, <2>2 DEF Slice
<1>6. Distinct(s) => Distinct(r)
  <2> SUFFICES ASSUME Distinct(s), NEW j \in 1 .. Len(s), NEW k \in 1 .. Len(s),
                      r[j] = r[k]
               PROVE  j = k
    BY DEF Distinct
  <2>1. s[from[j]] = s[from[k]]
    BY <1>2
  <2>2. from[j] = from[k]
    BY <1>2, <2>1 DEF Distinct
  <2> QED
    BY <1>4, <2>2
<1>7. Slice(r, 2, n) = Slice(s, 1, n - 1)
  <2>1. \A k \in 2 .. n : k - 1 \in 1 .. n - 1
    BY <1>1
  <2>2. \A k \in 1 .. n - 1 : k + 1 \in 2 .. n /\ (k + 1) - 1 = k
    BY <1>1
  <2>3. \A k \in 1 .. n - 1 : s[k] = r[k + 1]
    BY <2>2
  <2>4. \A k \in 2 .. n : r[k] \in Slice(s, 1, n - 1)
    BY <2>1 DEF Slice
  <2>5. \A k \in 1 .. n - 1 : s[k] \in Slice(r, 2, n)
    BY <2>2, <2>3 DEF Slice
  <2> QED
    BY <2>4, <2>5 DEF Slice
<1> QED
  BY <1>5, <1>6, <1>7

-----------------------------------------------------------------------------
(* Discovery                                                               *)

LEMMA InvInit == Init => Inv
<1> SUFFICES ASSUME Init PROVE Inv
  OBVIOUS
<1>1. TypeOK
  BY MonitorAssumption, LenProperties DEF Init, TypeOK
<1>2. ListInv
  BY MonitorAssumption DEF Init, ListInv, UrlsKept, Distinct
<1>3. DiscoveryInv
  BY DEF Init, DiscoveryInv
<1> QED
  BY <1>1, <1>2, <1>3 DEF Inv

\* Outside the loop, and outside the decision that follows it, only the list
\* matters.
LEMMA AtRest ==
  ASSUME Inv, pc' = "idle", UNCHANGED urls
  PROVE  ListInv' /\ DiscoveryInv'
BY DEF Inv, ListInv, UrlsKept, DiscoveryInv

\* The answer that ends the loop.
LEMMA RepliesStep ==
  ASSUME Inv, ProbeReplies
  PROVE  Inv'
<1>1. /\ urls \in Seq(Sentinels) /\ it \in 1 .. Len(urls)
      /\ pc = "probe" /\ pc' = "decide" /\ it' = it /\ silent' = silent
      /\ urls[it] \in Sentinels
      /\ view[urls[it]] \in Masters /\ addr' = view[urls[it]]
      /\ url' = urls[it]
      /\ urls' = <<urls[it]>> \o RemoveAt(urls, it)
  <2>1. /\ urls \in Seq(Sentinels) /\ it \in 1 .. Len(urls) + 1
        /\ it <= Len(urls) /\ Len(urls) \in Nat
    BY LenProperties DEF Inv, TypeOK, ProbeReplies
  <2>2. it \in 1 .. Len(urls) /\ urls[it] \in Sentinels
    BY <2>1, ElementOfSeq
  <2> QED
    BY <2>1, <2>2 DEF Inv, TypeOK, ProbeReplies
<1>2. /\ urls' \in Seq(Sentinels)
      /\ Len(urls') = Len(urls)
      /\ urls'[1] = urls[it]
      /\ \A k \in 2 .. it : urls'[k] = urls[k - 1]
      /\ \A k \in it + 1 .. Len(urls) : urls'[k] = urls[k]
  BY <1>1, MovedToFront
<1>3. /\ Slice(urls', 1, Len(urls')) = Slice(urls, 1, Len(urls))
      /\ Distinct(urls) => Distinct(urls')
      /\ Slice(urls', 2, it) = Slice(urls, 1, it - 1)
  BY ZenonT(30), <1>1, <1>2, MoveKeepsElements
<1>4. TypeOK'
  BY <1>1, <1>2
  DEF Inv, TypeOK, ProbeReplies, clientVars, memberVars, envVars
<1>5. ListInv'
  <2>1. ToSet(urls') = ToSet(urls)
    BY <1>1, <1>2, <1>3, ToSetIsSlice
  <2> QED
    BY <1>2, <1>3, <2>1 DEF Inv, ListInv, UrlsKept
<1>6. DiscoveryInv'
  BY <1>1, <1>2, <1>3, MonitorAssumption DEF Inv, DiscoveryInv
<1> QED
  BY <1>4, <1>5, <1>6 DEF Inv

LEMMA InvStep ==
  ASSUME Inv, [Next]_vars
  PROVE  Inv'
<1>t. /\ TypeOK /\ ListInv /\ DiscoveryInv /\ UrlsKept
      /\ urls \in Seq(Sentinels) /\ Len(urls) \in Nat
  BY LenProperties DEF Inv, ListInv, TypeOK
<1> USE DEF clientVars, memberVars, localVars, envVars
<1>1. CASE Begin
  <2>1. TypeOK'
    BY <1>t, <1>1 DEF Begin, TypeOK
  <2>2. ListInv'
    BY <1>t, <1>1 DEF Begin, ListInv, UrlsKept
  <2>3. DiscoveryInv'
    BY <1>1 DEF Begin, DiscoveryInv, Slice
  <2> QED
    BY <2>1, <2>2, <2>3 DEF Inv
<1>2. CASE ProbeSilent
  <2>1. it \in 1 .. Len(urls) /\ urls[it] \in Sentinels
    BY <1>t, <1>2, ElementOfSeq DEF ProbeSilent, TypeOK
  <2>2. TypeOK'
    BY <1>t, <1>2, <2>1 DEF ProbeSilent, TypeOK
  <2>3. ListInv'
    BY <1>t, <1>2 DEF ProbeSilent, ListInv, UrlsKept
  <2>4. Slice(urls, 1, it) = Slice(urls, 1, it - 1) \cup {urls[it]}
    <3>1. 1 .. it = (1 .. it - 1) \cup {it}
      BY <2>1
    <3> QED
      BY <3>1 DEF Slice
  <2>5. (it + 1) - 1 = it
    BY <2>1
  <2>6. DiscoveryInv'
    BY <1>t, <1>2, <2>4, <2>5 DEF ProbeSilent, DiscoveryInv
  <2> QED
    BY <2>2, <2>3, <2>6 DEF Inv
<1>3. CASE ProbeReplies
  BY <1>3, RepliesStep
<1>4. CASE ProbeExhausted
  <2>1. TypeOK' /\ ListInv'
    BY <1>t, <1>4 DEF ProbeExhausted, TypeOK, ListInv, UrlsKept
  <2>2. it - 1 = Len(urls)
    BY <1>t, <1>4 DEF ProbeExhausted, TypeOK
  <2>3. Slice(urls, 1, Len(urls)) = Slice(InitialUrls, 1, Len(InitialUrls))
    BY <1>t, MonitorAssumption, ToSetIsSlice DEF UrlsKept
  <2>4. DiscoveryInv'
    BY <1>t, <1>4, <2>2, <2>3 DEF ProbeExhausted, DiscoveryInv
  <2> QED
    BY <2>1, <2>4 DEF Inv
<1>5. CASE ProbeLost
  <2>1. TypeOK'
    BY <1>t, <1>5, MonitorAssumption DEF ProbeLost, Change, TypeOK
  <2> QED
    BY <1>t, <1>5, <2>1, AtRest DEF ProbeLost, Inv
<1>6. CASE StartConnects
  <2>1. TypeOK'
    BY <1>t, <1>6 DEF StartConnects, Reconnect, Subscribe, TypeOK
  <2> QED
    BY <1>t, <1>6, <2>1, AtRest DEF StartConnects, Inv
<1>7. CASE StartFails
  <2>1. TypeOK'
    BY <1>t, <1>7 DEF StartFails, TypeOK
  <2> QED
    BY <1>t, <1>7, <2>1, AtRest DEF StartFails, Inv
<1>8. CASE ReconnectThrows
  <2>1. TypeOK'
    BY <1>t, <1>8, MonitorAssumption DEF ReconnectThrows, Reconnect, TypeOK
  <2> QED
    BY <1>t, <1>8, <2>1, AtRest DEF ReconnectThrows, Inv
<1>9. CASE CheckMaster
  <2>1. TypeOK'
    BY <1>t, <1>9 DEF CheckMaster, Reconnect, Subscribe, TypeOK
  <2> QED
    BY <1>t, <1>9, <2>1, AtRest DEF CheckMaster, Inv
<1>10. ASSUME UNCHANGED <<urls, clientVars, memberVars, localVars>>,
              up' \subseteq Sentinels,
              view' \in [Sentinels -> Masters \cup {NULL}],
              serving' \subseteq Masters, changes' \in 0 .. MaxChanges
       PROVE  Inv'
  <2>1. TypeOK'
    BY <1>t, <1>10 DEF TypeOK
  <2>2. ListInv' /\ DiscoveryInv'
    BY <1>t, <1>10 DEF ListInv, UrlsKept, DiscoveryInv
  <2> QED
    BY <2>1, <2>2 DEF Inv
<1>11. ASSUME NEW s \in Sentinels, SentinelToggles(s) PROVE Inv'
  BY <1>t, <1>10, <1>11, MonitorAssumption DEF SentinelToggles, Change, TypeOK
<1>12. ASSUME NEW s \in Sentinels, NEW m \in Masters \cup {NULL},
              ViewChanges(s, m)
       PROVE  Inv'
  BY <1>t, <1>10, <1>12, MonitorAssumption DEF ViewChanges, Change, TypeOK
<1>13. ASSUME NEW m \in Masters, MasterToggles(m) PROVE Inv'
  BY <1>t, <1>10, <1>13, MonitorAssumption DEF MasterToggles, Change, TypeOK
<1>14. CASE UNCHANGED vars
  BY <1>t, <1>10, <1>14 DEF vars, TypeOK
<1> QED
  BY <1>1, <1>2, <1>3, <1>4, <1>5, <1>6, <1>7, <1>8, <1>9, <1>11, <1>12, <1>13,
     <1>14
  DEF Next, Monitor, Environment

LEMMA Invariant == Spec => []Inv
BY InvInit, InvStep, PTL DEF Spec

\* Every variable keeps its type; the iterator in particular stays within the
\* list or one past its end.
THEOREM TypeCorrect == Spec => []TypeOK
<1>1. Inv => TypeOK
  BY DEF Inv
<1> QED
  BY <1>1, Invariant, PTL

\* Erasing the replying Sentinel while iterating and inserting it again loses
\* no Sentinel of any list.
THEOREM NoSentinelIsLost == Spec => []UrlsKept
<1>1. Inv => UrlsKept
  BY DEF Inv, ListInv
<1> QED
  BY <1>1, Invariant, PTL

\* Failure is reported only after every Sentinel of the list was asked; the one
\* that replied is none of those asked in vain, and they were asked in order.
THEOREM EverySentinelIsAsked == Spec => []AsksInOrder
<1>1. Inv => AsksInOrder
  <2> SUFFICES ASSUME Inv, pc = "decide"
               PROVE  IF addr = NULL
                      THEN silent = ToSet(InitialUrls)
                      ELSE url \notin silent /\ silent = ToSet(SubSeq(urls, 2, it))
    BY DEF AsksInOrder
  <2>1. CASE addr = NULL
    BY <2>1, MonitorAssumption, ToSetIsSlice DEF Inv, DiscoveryInv
  <2>2. CASE addr # NULL
    <3>1. /\ it \in 1 .. Len(urls) /\ url = urls[1] /\ silent = Slice(urls, 2, it)
          /\ Distinct(urls) /\ urls \in Seq(Sentinels) /\ Len(urls) \in Nat
      BY <2>2, LenProperties DEF Inv, DiscoveryInv, ListInv, TypeOK
    <3>2. url \notin silent
      <4>1. \A k \in 2 .. it : k \in 1 .. Len(urls) /\ k # 1
        BY <3>1
      <4>2. 1 \in 1 .. Len(urls)
        BY <3>1
      <4>3. \A k \in 2 .. it : urls[k] # urls[1]
        BY <3>1, <4>1, <4>2 DEF Distinct
      <4> QED
        BY <3>1, <4>3 DEF Slice
    <3>3. ToSet(SubSeq(urls, 2, it)) = Slice(urls, 2, it)
      BY <3>1, ToSetOfSubSeq
    <3> QED
      BY <2>2, <3>1, <3>2, <3>3
  <2> QED
    BY <2>1, <2>2
<1> QED
  BY <1>1, Invariant, PTL

\* The Sentinel that replied is first in the list when discovery returns.
THEOREM ReplierIsAskedFirst == Spec => []ReplierFirst
<1>1. Inv => ReplierFirst
  <2> SUFFICES ASSUME Inv, pc = "decide", addr # NULL PROVE Head(urls) = url
    BY DEF ReplierFirst
  <2>1. it \in 1 .. Len(urls) /\ url = urls[1] /\ urls \in Seq(Sentinels)
    BY DEF Inv, DiscoveryInv, TypeOK
  <2>2. urls # <<>>
    BY <2>1, EmptySeq
  <2> QED
    BY <2>1, <2>2, HeadTailProperties
<1> QED
  BY <1>1, Invariant, PTL

=============================================================================
