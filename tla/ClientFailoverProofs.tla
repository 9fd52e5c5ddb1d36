------------------------ MODULE ClientFailoverProofs ------------------------
(***************************************************************************)
(* What ClientFailover guarantees for any number of threads, masters and   *)
(* replacements of the pool.  ControlInv is inductive alone: types, which  *)
(* pools exist, and who holds mtx_.  On top of it stand three independent  *)
(* invariants: which calls have met a replacement (DangerInv), where the   *)
(* connections of a pool lead to (PurityInv) and how many initialize and   *)
(* acquire have opened (CountInv).  That every call is answered once, and  *)
(* by the master of its pool, follows from PurityInv and AnswerInv: it is  *)
(* the refinement of FailoverService.                                      *)
(***************************************************************************)
EXTENDS ClientFailover, SequenceTheorems, TLAPS

Connections == Masters \cup {NULL}

\* Which pools exist, and what a call in progress has.
PoolInv ==
  /\ step = "new" => built < MaxPools
  /\ step # "new" => pool \in live
  /\ \A t \in Threads : pc[t] # "idle" => at[t] \in 1 .. built
  /\ \A t \in Threads : pc[t] = "send" => held[t] # NULL
  /\ \A p \in Pools :
       p > built => connq[p] = <<>> /\ opened[p] = 0 /\ crowded[p] = 0

\* mtx_ is exclusive, and its holder still finds room in the pool.
GrowInv ==
  /\ \A t, u \in Threads :
       pc[t] = "grow" /\ pc[u] = "grow" /\ at[t] = at[u] => t = u
  /\ \A t \in Threads : pc[t] = "grow" => size[at[t]] < MaxSize

ControlInv == TypeOK /\ PoolInv /\ GrowInv

\* A call that has met no replacement is on the current pool, and connect is
\* not running.
DangerInv ==
  \A t \in Threads :
    pc[t] # "idle" /\ t \notin overlapped => step = "idle" /\ at[t] = pool

\* Whatever a pool queues, lends and answers with leads to its own master.
QueuesPure ==
  \A p \in Pools : \A k \in 1 .. Len(connq[p]) : connq[p][k] \in {master[p], NULL}
ThreadPure(t) ==
  /\ pc[t] = "idle" => held[t] = NULL
  /\ pc[t] # "idle" => held[t] \in {master[at[t]], NULL}
  /\ pc[t] = "release" /\ outcome[t] \in Masters => outcome[t] = master[at[t]]
PurityInv == QueuesPure /\ \A t \in Threads : ThreadPure(t)

\* size_ counts growths; while initialize runs, all of them were crowded, and
\* its loop counter stays within the bound they raise.
Counted(p) ==
  /\ opened[p] <= size[p] + crowded[p]
  /\ crowded[p] <= size[p] - InitSize
CountedSoFar ==
  step = "initialize" =>
    /\ i <= size[pool]
    /\ crowded[pool] = size[pool] - InitSize
    /\ opened[pool] = i + crowded[pool]
CountInv == CountedSoFar /\ \A p \in Pools : Counted(p)

\* A pool that was built has a master, a thread at rest has no guard, and a call
\* has an outcome exactly while its guard is about to give back.
MastersKnown == \A p \in 1 .. built : master[p] \in Masters
CallAnswered(t) ==
  /\ pc[t] = "idle" => at[t] = 0
  /\ pc[t] = "release" <=> outcome[t] # "none"
AnswerInv == MastersKnown /\ \A t \in Threads : CallAnswered(t)

-----------------------------------------------------------------------------
(* Control                                                                 *)

\* acquire's result reaches the guard.
LEMMA ReceiveControl ==
  ASSUME TypeOK, NEW t \in Threads, NEW c \in Connections, Receive(t, c)
  PROVE  /\ held' = [held EXCEPT ![t] = c]
         /\ held' \in [Threads -> Connections]
         /\ pc' = [pc EXCEPT ![t] = IF c = NULL THEN "release" ELSE "send"]
         /\ \A u \in Threads : u # t => outcome'[u] = outcome[u]
         /\ c # NULL => outcome' = outcome
         /\ c = NULL => outcome'[t] = "ConnectionException"
         /\ outcome' \in [Threads -> Masters \cup {"none", "ConnectionException"}]
         /\ UNCHANGED <<at, calls, overlapped>>
BY DEF Receive, TypeOK, ThreadTypeOK, Connections

\* What acquire takes from the front of a queue.
LEMMA FrontOfQueue ==
  ASSUME TypeOK, NEW p \in Pools, connq[p] # <<>>
  PROVE  /\ Head(connq[p]) \in Connections
         /\ Head(connq[p]) = connq[p][1]
         /\ Tail(connq[p]) \in Seq(Connections)
         /\ 1 \in 1 .. Len(connq[p])
         /\ \A k \in 1 .. Len(Tail(connq[p])) :
              /\ k + 1 \in 1 .. Len(connq[p])
              /\ Tail(connq[p])[k] = connq[p][k + 1]
<1>1. connq[p] \in Seq(Connections)
  BY DEF TypeOK, QueueTypeOK, Connections
<1>2. Len(connq[p]) \in Nat \ {0}
  BY <1>1, EmptySeq
<1> QED
  BY <1>1, <1>2, HeadTailProperties

\* push: initialize, acquire and release append at the back.
LEMMA BackOfQueue ==
  ASSUME TypeOK, NEW p \in Pools, NEW c \in Connections
  PROVE  /\ Append(connq[p], c) \in Seq(Connections)
         /\ Append(connq[p], c) # <<>>
         /\ \A k \in 1 .. Len(Append(connq[p], c)) :
              \/ k \in 1 .. Len(connq[p]) /\ Append(connq[p], c)[k] = connq[p][k]
              \/ Append(connq[p], c)[k] = c
<1>1. connq[p] \in Seq(Connections)
  BY DEF TypeOK, QueueTypeOK, Connections
<1>2. Len(connq[p]) \in Nat
  BY <1>1, LenProperties
<1> QED
  BY <1>1, <1>2, AppendProperties

\* push and pop of a growth: a connection comes out of the front.
LEMMA ThroughQueue ==
  ASSUME TypeOK, NEW p \in Pools, NEW c \in Connections
  PROVE  LET q == Append(connq[p], c)
         IN /\ Head(q) \in Connections
            /\ Tail(q) \in Seq(Connections)
            /\ 1 \in 1 .. Len(q) /\ Head(q) = q[1]
            /\ \A k \in 1 .. Len(Tail(q)) :
                 k + 1 \in 1 .. Len(q) /\ Tail(q)[k] = q[k + 1]
<1> DEFINE q == Append(connq[p], c)
<1>1. q \in Seq(Connections) /\ q # <<>>
  BY BackOfQueue
<1> HIDE DEF q
<1>2. Len(q) \in Nat \ {0}
  BY <1>1, EmptySeq
<1>3. /\ Head(q) \in Connections /\ Head(q) = q[1]
      /\ Tail(q) \in Seq(Connections)
      /\ Len(Tail(q)) = Len(q) - 1
      /\ \A k \in 1 .. Len(Tail(q)) : Tail(q)[k] = q[k + 1]
  BY <1>1, <1>2, HeadTailProperties
<1> QED
  BY <1>2, <1>3 DEF q

LEMMA ControlInit == Init => ControlInv
<1> SUFFICES ASSUME Init PROVE ControlInv
  OBVIOUS
<1> USE FailoverAssumption
<1>1. PICK m \in Masters :
        /\ master = [p \in Pools |-> IF p = 1 THEN m ELSE NULL]
        /\ connq = [p \in Pools |->
                      IF p = 1 THEN [k \in 1 .. InitSize |-> m] ELSE <<>>]
  BY DEF Init
<1>2. [k \in 1 .. InitSize |-> m] \in Seq(Connections)
  BY DEF Connections
<1>3. connq \in [Pools -> Seq(Connections)]
  BY <1>1, <1>2, EmptySeq
<1>4. TypeOK
  <2>1. ClientTypeOK
    BY <1>1 DEF Init, ClientTypeOK, Pools
  <2>2. QueueTypeOK
    BY <1>3 DEF Init, QueueTypeOK, Connections
  <2>3. ThreadTypeOK
    BY DEF Init, ThreadTypeOK
  <2> QED
    BY <2>1, <2>2, <2>3 DEF Init, TypeOK
<1>5. PoolInv
  BY <1>1 DEF Init, PoolInv, Pools
<1>6. GrowInv
  BY DEF Init, GrowInv
<1> QED
  BY <1>4, <1>5, <1>6 DEF ControlInv

\* The parts of ControlInv that a step can leave alone.
LEMMA ClientStays ==
  ASSUME TypeOK, UNCHANGED clientVars
  PROVE  ClientTypeOK'
BY DEF TypeOK, ClientTypeOK, clientVars

LEMMA QueueStays ==
  ASSUME TypeOK, UNCHANGED queueVars
  PROVE  QueueTypeOK'
BY DEF TypeOK, QueueTypeOK, queueVars

LEMMA ThreadStays ==
  ASSUME TypeOK, UNCHANGED <<threadVars, built>>
  PROVE  ThreadTypeOK'
BY DEF TypeOK, ThreadTypeOK, threadVars

LEMMA ReceiveType ==
  ASSUME TypeOK, NEW t \in Threads, NEW c \in Connections, Receive(t, c),
         built' = built
  PROVE  ThreadTypeOK'
BY ReceiveControl DEF TypeOK, ThreadTypeOK, Connections

LEMMA PoolsInUse ==
  ASSUME TypeOK
  PROVE  /\ pool \in Pools
         /\ built \in Nat
         /\ Pools \subseteq Nat
         /\ \A p \in 1 .. built : p \in Pools
         /\ \A p \in Pools : master[p] \in Connections
BY FailoverAssumption DEF TypeOK, ClientTypeOK, Pools, Connections

LEMMA ControlStep == ControlInv /\ [Next]_vars => ControlInv'
<1> SUFFICES ASSUME ControlInv, [Next]_vars PROVE ControlInv'
  OBVIOUS
<1>t. TypeOK /\ PoolInv /\ GrowInv
  BY DEF ControlInv
<1>1. CASE Defined(Delete)
  <2>1. ClientTypeOK'
    BY <1>t, <1>1 DEF Defined, Delete, TypeOK, ClientTypeOK
  <2>2. QueueTypeOK'
    BY <1>t, <1>1, EmptySeq DEF Defined, Delete, TypeOK, QueueTypeOK
  <2>3. ThreadTypeOK'
    BY <1>t, <1>1 DEF Defined, Delete, TypeOK, ThreadTypeOK, Inside
  <2>4. PoolInv'
    BY <1>t, <1>1, PoolsInUse
    DEF Defined, Delete, TypeOK, QueueTypeOK, PoolInv
  <2>5. GrowInv'
    BY <1>t, <1>1 DEF Defined, Delete, GrowInv
  <2> QED
    BY <1>t, <1>1, <2>1, <2>2, <2>3, <2>4, <2>5
    DEF Defined, TypeOK, ControlInv
<1>2. ASSUME NEW m \in Masters, Defined(New(m)) PROVE ControlInv'
  <2>1. built + 1 \in Pools /\ built \in Nat
    BY <1>t, <1>2, PoolsInUse, FailoverAssumption
    DEF Defined, New, PoolInv, Pools
  <2>2. ClientTypeOK'
    BY <1>t, <1>2, <2>1, FailoverAssumption
    DEF Defined, New, TypeOK, ClientTypeOK
  <2>3. QueueTypeOK'
    BY SMTT(30), <1>t, <1>2, <2>1, FailoverAssumption
    DEF Defined, New, TypeOK, QueueTypeOK
  <2>4. ThreadTypeOK'
    BY <1>t, <1>2, <2>1 DEF Defined, New, TypeOK, ThreadTypeOK, threadVars
  <2>5. PoolInv'
    BY <1>t, <1>2, <2>1, PoolsInUse DEF Defined, New, PoolInv, threadVars
  <2>6. GrowInv'
    <3>1. \A t \in Threads :
            pc[t] = "grow" => at[t] \in Pools /\ at[t] # built + 1
      BY <1>t, <2>1, PoolsInUse DEF PoolInv
    <3> QED
      BY <1>t, <1>2, <3>1
      DEF Defined, New, TypeOK, QueueTypeOK, GrowInv, threadVars
  <2> QED
    BY <1>t, <1>2, <2>2, <2>3, <2>4, <2>5, <2>6
    DEF Defined, TypeOK, ControlInv
<1>3. CASE Defined(InitializeOpens)
  <2>1. pool \in Pools /\ master[pool] \in Connections
    BY <1>t, PoolsInUse
  <2>2. Append(connq[pool], master[pool]) \in Seq(Connections)
    BY <1>t, <2>1, BackOfQueue
  <2>3. ClientTypeOK'
    BY <1>t, <1>3, <2>1, FailoverAssumption
    DEF Defined, InitializeOpens, TypeOK, ClientTypeOK, QueueTypeOK
  <2>4. QueueTypeOK'
    BY <1>t, <1>3, <2>1, <2>2
    DEF Defined, InitializeOpens, TypeOK, QueueTypeOK, Connections
  <2>5. ThreadTypeOK'
    BY <1>t, <1>3, ThreadStays DEF Defined, InitializeOpens
  <2>6. PoolInv'
    BY <1>t, <1>3, <2>1
    DEF Defined, InitializeOpens, TypeOK, ClientTypeOK, QueueTypeOK, PoolInv,
        threadVars, Pools
  <2>7. GrowInv'
    BY <1>t, <1>3 DEF Defined, InitializeOpens, GrowInv, threadVars
  <2> QED
    BY <1>t, <1>3, <2>3, <2>4, <2>5, <2>6, <2>7
    DEF Defined, TypeOK, ControlInv
<1>4. CASE Defined(InitializeReturns)
  <2>1. ClientTypeOK'
    BY <1>t, <1>4 DEF Defined, InitializeReturns, TypeOK, ClientTypeOK
  <2>2. QueueTypeOK' /\ ThreadTypeOK'
    BY <1>t, <1>4, QueueStays, ThreadStays DEF Defined, InitializeReturns
  <2>3. PoolInv' /\ GrowInv'
    BY <1>t, <1>4
    DEF Defined, InitializeReturns, PoolInv, GrowInv, queueVars, threadVars
  <2> QED
    BY <1>t, <1>4, <2>1, <2>2, <2>3 DEF Defined, TypeOK, ControlInv
<1>5. ASSUME NEW t \in Threads, Defined(Start(t)) PROVE ControlInv'
  <2>1. ClientTypeOK' /\ QueueTypeOK'
    BY <1>t, <1>5, ClientStays, QueueStays DEF Defined, Start
  <2>2. ThreadTypeOK'
    BY <1>t, <1>5, PoolsInUse, FailoverAssumption
    DEF Defined, Start, TypeOK, ClientTypeOK, ThreadTypeOK, clientVars
  <2>3. PoolInv'
    BY <1>t, <1>5
    DEF Defined, Start, TypeOK, ClientTypeOK, ThreadTypeOK, PoolInv,
        clientVars, queueVars
  <2>4. GrowInv'
    BY <1>t, <1>5
    DEF Defined, Start, TypeOK, ThreadTypeOK, GrowInv, clientVars, queueVars
  <2> QED
    BY <1>t, <1>5, <2>1, <2>2, <2>3, <2>4 DEF Defined, TypeOK, ControlInv
<1>6. ASSUME NEW t \in Threads, Defined(AcquirePop(t)) PROVE ControlInv'
  <2>1. at[t] \in 1 .. built /\ at[t] \in Pools
    BY <1>t, <1>6, PoolsInUse DEF Defined, AcquirePop, PoolInv
  <2>2. /\ Head(connq[at[t]]) \in Connections
        /\ Tail(connq[at[t]]) \in Seq(Connections)
    BY <1>t, <1>6, <2>1, FrontOfQueue DEF Defined, AcquirePop
  <2>3. /\ Receive(t, Head(connq[at[t]]))
        /\ connq' = [connq EXCEPT ![at[t]] = Tail(@)]
        /\ UNCHANGED <<clientVars, size, opened, crowded, victim>>
    BY <1>6 DEF Defined, AcquirePop
  <2>4. ClientTypeOK' /\ ThreadTypeOK'
    BY <1>t, <2>2, <2>3, ClientStays, ReceiveType DEF clientVars
  <2>5. QueueTypeOK'
    BY <1>t, <2>1, <2>2, <2>3 DEF TypeOK, QueueTypeOK, Connections
  <2>6. PoolInv'
    <3>1. \A r \in Pools : r > built => r # at[t]
      BY <1>t, <2>1, PoolsInUse
    <3>2. \A r \in Pools : r > built => connq'[r] = <<>>
      BY <1>t, <2>3, <3>1 DEF TypeOK, QueueTypeOK, PoolInv
    <3>3. pc[t] = "acquire" /\ at' = at
      BY <1>t, <1>6, <2>2, <2>3, ReceiveControl DEF Defined, AcquirePop
    <3>4. \A u \in Threads :
            /\ pc'[u] # "idle" => at'[u] \in 1 .. built
            /\ pc'[u] = "send" => held'[u] # NULL
      BY <1>t, <2>2, <2>3, <3>3, ReceiveControl
      DEF TypeOK, ThreadTypeOK, PoolInv
    <3> QED
      BY <1>t, <2>3, <3>2, <3>4 DEF PoolInv, clientVars
  <2>7. GrowInv'
    BY <1>t, <2>2, <2>3, ReceiveControl DEF TypeOK, ThreadTypeOK, GrowInv
  <2> QED
    BY <1>t, <2>3, <2>4, <2>5, <2>6, <2>7 DEF TypeOK, ControlInv
<1>7. ASSUME NEW t \in Threads, Defined(AcquireFull(t) \/ GrowRefused(t))
      PROVE  ControlInv'
  <2>1. NULL \in Connections
    BY DEF Connections
  <2>2. /\ Receive(t, NULL)
        /\ UNCHANGED <<clientVars, queueVars, victim>>
        /\ pc[t] # "idle"
    BY <1>7 DEF Defined, AcquireFull, GrowRefused
  <2>3. ClientTypeOK' /\ QueueTypeOK' /\ ThreadTypeOK'
    BY <1>t, <2>1, <2>2, ClientStays, QueueStays, ReceiveType DEF clientVars
  <2>4. PoolInv' /\ GrowInv'
    BY <1>t, <2>1, <2>2, ReceiveControl
    DEF TypeOK, ThreadTypeOK, PoolInv, GrowInv, clientVars, queueVars
  <2> QED
    BY <1>t, <2>2, <2>3, <2>4 DEF TypeOK, ControlInv
<1>8. ASSUME NEW t \in Threads, Defined(GrowBegin(t)) PROVE ControlInv'
  <2>1. ClientTypeOK' /\ QueueTypeOK'
    BY <1>t, <1>8, ClientStays, QueueStays DEF Defined, GrowBegin
  <2>2. ThreadTypeOK'
    BY <1>t, <1>8 DEF Defined, GrowBegin, TypeOK, ThreadTypeOK, clientVars
  <2>3. GrowInv'
    BY <1>t, <1>8
    DEF Defined, GrowBegin, Locks, Growing, TypeOK, ThreadTypeOK, GrowInv,
        queueVars
  <2>4. PoolInv'
    BY <1>t, <1>8
    DEF Defined, GrowBegin, TypeOK, ThreadTypeOK, PoolInv, clientVars, queueVars
  <2> QED
    BY <1>t, <1>8, <2>1, <2>2, <2>3, <2>4 DEF Defined, TypeOK, ControlInv
<1>9. ASSUME NEW t \in Threads, Defined(GrowOpened(t)) PROVE ControlInv'
  <2> DEFINE p == at[t]
             q == Append(connq[p], master[p])
  <2>1. p \in 1 .. built /\ pc[t] = "grow"
    BY <1>t, <1>9 DEF Defined, GrowOpened, PoolInv
  <2>2. p \in Pools /\ master[p] \in Connections
    BY <1>t, <2>1, PoolsInUse
  <2>3. Head(q) \in Connections /\ Tail(q) \in Seq(Connections)
    BY <1>t, <2>2, ThroughQueue
  <2>4. size[p] \in 0 .. MaxSize /\ size[p] < MaxSize
    BY <1>t, <2>1, <2>2 DEF TypeOK, QueueTypeOK, GrowInv
  <2>5. /\ Receive(t, Head(q))
        /\ connq' = [connq EXCEPT ![p] = Tail(q)]
        /\ size' = [size EXCEPT ![p] = @ + 1]
        /\ opened' = [opened EXCEPT ![p] = @ + 1]
        /\ crowded' \in {crowded, [crowded EXCEPT ![p] = @ + 1]}
        /\ UNCHANGED <<clientVars, victim>>
    BY <1>9 DEF Defined, GrowOpened
  <2> HIDE DEF p, q
  <2>6. ClientTypeOK' /\ ThreadTypeOK'
    BY <1>t, <2>3, <2>5, ClientStays, ReceiveType DEF clientVars
  <2>7. QueueTypeOK'
    <3>1. connq' \in [Pools -> Seq(Masters \cup {NULL})]
      BY <1>t, <2>2, <2>3, <2>5 DEF TypeOK, QueueTypeOK, Connections
    <3>2. size' \in [Pools -> 0 .. MaxSize]
      BY <1>t, <2>2, <2>4, <2>5, FailoverAssumption DEF TypeOK, QueueTypeOK
    <3>3. opened' \in [Pools -> Nat]
      BY <1>t, <2>2, <2>5 DEF TypeOK, QueueTypeOK
    <3>4. [crowded EXCEPT ![p] = @ + 1] \in [Pools -> Nat]
      BY <1>t, <2>2 DEF TypeOK, QueueTypeOK
    <3>5. crowded' \in [Pools -> Nat]
      BY <1>t, <2>5, <3>4 DEF TypeOK, QueueTypeOK
    <3> QED
      BY <3>1, <3>2, <3>3, <3>5 DEF QueueTypeOK
  <2>8. \A u \in Threads : u # t /\ pc[u] = "grow" => at[u] # p
    BY <1>t, <2>1 DEF GrowInv, p
  <2>9. \A r \in Pools : r # p => size'[r] = size[r]
    BY <1>t, <2>5 DEF TypeOK, QueueTypeOK
  <2>10. GrowInv'
    <3>1. \A u \in Threads : pc'[u] = "grow" => u # t /\ pc[u] = "grow"
      BY <1>t, <2>3, <2>5, ReceiveControl DEF TypeOK, ThreadTypeOK
    <3>2. \A u \in Threads : pc[u] = "grow" => at[u] \in Pools
      BY <1>t, PoolsInUse DEF PoolInv
    <3> QED
      BY <1>t, <2>3, <2>5, <2>8, <2>9, <3>1, <3>2, ReceiveControl DEF GrowInv
  <2>11. PoolInv'
    <3>1. \A r \in Pools : r > built => r # p
      BY <1>t, <2>1, PoolsInUse
    <3>2. \A r \in Pools : r # p => /\ connq'[r] = connq[r]
                                    /\ opened'[r] = opened[r]
                                    /\ crowded'[r] = crowded[r]
      BY <1>t, <2>5 DEF TypeOK, QueueTypeOK
    <3> QED
      BY <1>t, <2>1, <2>3, <2>5, <3>1, <3>2, ReceiveControl
      DEF TypeOK, ThreadTypeOK, PoolInv, clientVars
  <2> QED
    BY <1>t, <2>5, <2>6, <2>7, <2>10, <2>11 DEF TypeOK, ControlInv
<1>10. ASSUME NEW t \in Threads, Defined(Send(t)) PROVE ControlInv'
  <2>1. ClientTypeOK' /\ QueueTypeOK'
    BY <1>t, <1>10, ClientStays, QueueStays DEF Defined, Send
  <2>2. ThreadTypeOK'
    BY <1>t, <1>10
    DEF Defined, Send, TypeOK, ThreadTypeOK, PoolInv, clientVars
  <2>3. PoolInv' /\ GrowInv'
    BY <1>t, <1>10
    DEF Defined, Send, TypeOK, ThreadTypeOK, PoolInv, GrowInv, clientVars,
        queueVars
  <2> QED
    BY <1>t, <1>10, <2>1, <2>2, <2>3 DEF Defined, TypeOK, ControlInv
<1>11. ASSUME NEW t \in Threads, Defined(Release(t)) PROVE ControlInv'
  <2>1. at[t] \in 1 .. built /\ at[t] \in Pools
    BY <1>t, <1>11, PoolsInUse DEF Defined, Release, PoolInv
  <2>2. held[t] \in Connections
    BY <1>t DEF TypeOK, ThreadTypeOK, Connections
  <2>3. Append(connq[at[t]], held[t]) \in Seq(Connections)
    BY <1>t, <2>1, <2>2, BackOfQueue
  <2>4. ClientTypeOK'
    BY <1>t, <1>11, ClientStays DEF Defined, Release
  <2>5. QueueTypeOK'
    BY <1>t, <1>11, <2>1, <2>3
    DEF Defined, Release, TypeOK, QueueTypeOK, Connections
  <2>6. ThreadTypeOK'
    BY <1>t, <1>11, PoolsInUse
    DEF Defined, Release, Leave, TypeOK, ThreadTypeOK, clientVars
  <2>7. PoolInv'
    <3>1. \A r \in Pools : r > built => r # at[t]
      BY <1>t, <2>1, PoolsInUse
    <3> QED
      BY <1>t, <1>11, <3>1
      DEF Defined, Release, Leave, TypeOK, ThreadTypeOK, QueueTypeOK, PoolInv,
          clientVars
  <2>8. GrowInv'
    BY <1>t, <1>11 DEF Defined, Release, Leave, TypeOK, ThreadTypeOK, GrowInv
  <2> QED
    BY <1>t, <1>11, <2>4, <2>5, <2>6, <2>7, <2>8
    DEF Defined, TypeOK, ControlInv
<1>12. ASSUME NEW t \in Threads, Undefined(t) PROVE ControlInv'
  BY <1>t, <1>12, ClientStays, QueueStays, ThreadStays
  DEF Undefined, TypeOK, ControlInv, PoolInv, GrowInv, clientVars, queueVars,
      threadVars
<1>13. CASE UNCHANGED vars
  BY <1>t, <1>13, ClientStays, QueueStays, ThreadStays
  DEF vars, TypeOK, ControlInv, PoolInv, GrowInv, clientVars, queueVars,
      threadVars
<1> QED
  BY <1>1, <1>2, <1>3, <1>4, <1>5, <1>6, <1>7, <1>8, <1>9, <1>10, <1>11, <1>12,
     <1>13
  DEF Next, Connect, Run, Defined

LEMMA ControlInvariant == Spec => []ControlInv
BY ControlInit, ControlStep, PTL DEF Spec

\* Every variable keeps its type although connect and execute share the pool
\* without a lock: no pool passes max_size_ in its own count size_, and
\* initialize's counter stays within it.
THEOREM TypeCorrect == Spec => []TypeOK
<1>1. ControlInv => TypeOK
  BY DEF ControlInv
<1> QED
  BY <1>1, ControlInvariant, PTL

-----------------------------------------------------------------------------
(* The calls in danger                                                     *)

LEMMA DangerStep ==
  ASSUME ControlInv, DangerInv, DangerEndsWithConnect, [Next]_vars
  PROVE  DangerInv' /\ DangerEndsWithConnect'
<1>t. TypeOK /\ PoolInv /\ ThreadTypeOK
  BY DEF ControlInv, TypeOK
<1>1. ASSUME victim = NULL, UNCHANGED victim PROVE DangerEndsWithConnect'
  BY <1>1 DEF DangerEndsWithConnect
<1>2. CASE Defined(Delete)
  BY <1>t, <1>1, <1>2 DEF Defined, Delete, DangerInv, Inside
<1>3. ASSUME NEW m \in Masters, Defined(New(m))
      PROVE  DangerInv' /\ DangerEndsWithConnect'
  BY <1>1, <1>3 DEF Defined, New, DangerInv, threadVars
<1>4. CASE Defined(InitializeOpens \/ InitializeReturns)
  BY <1>1, <1>4
  DEF Defined, InitializeOpens, InitializeReturns, DangerInv, threadVars
<1>5. ASSUME NEW t \in Threads, Defined(Start(t))
      PROVE  DangerInv' /\ DangerEndsWithConnect'
  BY <1>t, <1>1, <1>5 DEF Defined, Start, DangerInv, ThreadTypeOK, clientVars
<1>6. ASSUME NEW t \in Threads, Defined(Run(t))
      PROVE  DangerInv' /\ DangerEndsWithConnect'
  <2>1. CASE Release(t)
    BY <1>t, <1>1, <1>6, <2>1
    DEF Defined, Release, Leave, DangerInv, ThreadTypeOK, clientVars
  <2>2. CASE ~Release(t)
    <3>1. /\ pc[t] # "idle"
          /\ \A u \in Threads : u # t => pc'[u] = pc[u]
          /\ UNCHANGED <<pool, step, at, overlapped>>
      BY <1>t, <1>6, <2>2
      DEF Defined, Run, AcquirePop, AcquireFull, GrowBegin, GrowOpened,
          GrowRefused, Send, Receive, ThreadTypeOK, clientVars
    <3> QED
      BY <1>1, <1>6, <3>1 DEF Defined, DangerInv
  <2> QED
    BY <2>1, <2>2
<1>7. ASSUME NEW t \in Threads, victim = NULL, Undefined(t)
      PROVE  DangerInv' /\ DangerEndsWithConnect'
  <2>1. CASE UsesDeleted(t)
    BY <1>t, <1>7, <2>1
    DEF Undefined, UsesDeleted, PoolInv, DangerInv, DangerEndsWithConnect,
        clientVars, threadVars
  <2>2. CASE UsesRaced(t)
    BY <1>7, <2>2
    DEF Undefined, UsesRaced, DangerInv, DangerEndsWithConnect, clientVars,
        threadVars
  <2> QED
    BY <1>7, <2>1, <2>2 DEF Undefined
<1>8. CASE UNCHANGED vars
  BY <1>8 DEF vars, DangerInv, DangerEndsWithConnect, clientVars, threadVars
<1> QED
  BY <1>2, <1>3, <1>4, <1>5, <1>6, <1>7, <1>8 DEF Next, Connect, Defined

\* Only a call under way at the delete of a pool, or begun before connect
\* returned, can use a deleted pool or a queue that initialize is pushing to.
THEOREM DangerIsConfined == Spec => []DangerEndsWithConnect
<1>1. Init => DangerInv /\ DangerEndsWithConnect
  BY DEF Init, DangerInv, DangerEndsWithConnect
<1>2. ControlInv /\ DangerInv /\ DangerEndsWithConnect /\ [Next]_vars =>
        DangerInv' /\ DangerEndsWithConnect'
  BY DangerStep
<1> QED
  BY <1>1, <1>2, ControlInvariant, PTL DEF Spec

-----------------------------------------------------------------------------
(* The master that answers                                                 *)

\* A guard that receives a connection of its own pool stays pure.
LEMMA ReceivePure ==
  ASSUME TypeOK, NEW t \in Threads, NEW c \in Connections, Receive(t, c),
         c \in {master[at[t]], NULL}, UNCHANGED master,
         \A u \in Threads : ThreadPure(u)
  PROVE  \A u \in Threads : ThreadPure(u)'
<1> TAKE u \in Threads
<1>1. CASE u = t
  BY <1>1, ReceiveControl, FailoverAssumption
  DEF ThreadPure, TypeOK, ThreadTypeOK
<1>2. CASE u # t
  BY <1>2, ReceiveControl DEF ThreadPure, TypeOK, ThreadTypeOK
<1> QED
  BY <1>1, <1>2

LEMMA PurityStep ==
  ASSUME ControlInv, PurityInv, [Next]_vars
  PROVE  PurityInv'
<1> SUFFICES QueuesPure' /\ \A t \in Threads : ThreadPure(t)'
  BY DEF PurityInv
<1>t. /\ TypeOK /\ PoolInv /\ ClientTypeOK /\ QueueTypeOK /\ ThreadTypeOK
      /\ QueuesPure /\ \A t \in Threads : ThreadPure(t)
  BY DEF ControlInv, TypeOK, PurityInv
<1>1. CASE Defined(Delete)
  <2>1. Len(<<>>) = 0
    BY EmptySeq
  <2> QED
    BY <1>t, <1>1, <2>1 DEF Defined, Delete, QueuesPure, ThreadPure, QueueTypeOK
<1>2. ASSUME NEW m \in Masters, Defined(New(m))
      PROVE  QueuesPure' /\ \A t \in Threads : ThreadPure(t)'
  <2>1. \A p \in Pools : p <= built => master'[p] = master[p]
    BY <1>t, <1>2, PoolsInUse DEF Defined, New, ClientTypeOK
  <2>2. Len(<<>>) = 0
    BY EmptySeq
  <2>3. QueuesPure'
    BY <1>t, <1>2, <2>1, <2>2, PoolsInUse DEF Defined, New, QueuesPure, PoolInv
  <2>4. \A t \in Threads : pc[t] # "idle" => master'[at[t]] = master[at[t]]
    BY <1>t, <2>1, PoolsInUse DEF PoolInv
  <2> QED
    BY <1>t, <1>2, <2>3, <2>4 DEF Defined, New, ThreadPure, threadVars
<1>3. CASE Defined(InitializeOpens)
  <2>1. QueuesPure'
    BY SMTT(30), <1>t, <1>3, BackOfQueue, PoolsInUse
    DEF Defined, InitializeOpens, QueuesPure, QueueTypeOK
  <2> QED
    BY <1>t, <1>3, <2>1 DEF Defined, InitializeOpens, ThreadPure, threadVars
<1>4. CASE Defined(InitializeReturns)
  BY <1>t, <1>4
  DEF Defined, InitializeReturns, QueuesPure, ThreadPure, queueVars, threadVars
<1>5. ASSUME NEW t \in Threads, Defined(Start(t))
      PROVE  QueuesPure' /\ \A u \in Threads : ThreadPure(u)'
  <2>1. QueuesPure'
    BY <1>t, <1>5 DEF Defined, Start, QueuesPure, clientVars, queueVars
  <2>2. \A u \in Threads : ThreadPure(u)'
    BY <1>t, <1>5 DEF Defined, Start, ThreadPure, ThreadTypeOK, clientVars
  <2> QED
    BY <2>1, <2>2
<1>6. ASSUME NEW t \in Threads, Defined(AcquirePop(t))
      PROVE  QueuesPure' /\ \A u \in Threads : ThreadPure(u)'
  <2>1. at[t] \in Pools /\ connq[at[t]] # <<>>
    BY <1>t, <1>6, PoolsInUse DEF Defined, AcquirePop, PoolInv
  <2>2. QueuesPure'
    BY <1>t, <1>6, <2>1, FrontOfQueue
    DEF Defined, AcquirePop, QueuesPure, QueueTypeOK, clientVars
  <2>3. Head(connq[at[t]]) \in {master[at[t]], NULL}
    BY <1>t, <2>1, FrontOfQueue DEF QueuesPure
  <2>4. Head(connq[at[t]]) \in Connections
    BY <1>t, <2>1, FrontOfQueue
  <2> QED
    BY <1>t, <1>6, <2>2, <2>3, <2>4, ReceivePure
    DEF Defined, AcquirePop, clientVars
<1>7. ASSUME NEW t \in Threads, Defined(AcquireFull(t) \/ GrowRefused(t))
      PROVE  QueuesPure' /\ \A u \in Threads : ThreadPure(u)'
  BY <1>t, <1>7, ReceivePure
  DEF Defined, AcquireFull, GrowRefused, QueuesPure, Connections, clientVars,
      queueVars
<1>8. ASSUME NEW t \in Threads, Defined(GrowBegin(t))
      PROVE  QueuesPure' /\ \A u \in Threads : ThreadPure(u)'
  BY <1>t, <1>8
  DEF Defined, GrowBegin, QueuesPure, ThreadPure, ThreadTypeOK, clientVars,
      queueVars
<1>9. ASSUME NEW t \in Threads, Defined(GrowOpened(t))
      PROVE  QueuesPure' /\ \A u \in Threads : ThreadPure(u)'
  <2> DEFINE p == at[t]
             q == Append(connq[p], master[p])
  <2>1. p \in Pools /\ master[p] \in Connections
    BY <1>t, <1>9, PoolsInUse DEF Defined, GrowOpened, PoolInv
  <2>2. \A k \in 1 .. Len(q) : q[k] \in {master[p], NULL}
    BY <1>t, <2>1, BackOfQueue DEF QueuesPure
  <2>3. /\ Head(q) \in Connections /\ Head(q) \in {master[p], NULL}
        /\ \A k \in 1 .. Len(Tail(q)) : Tail(q)[k] \in {master[p], NULL}
    BY <1>t, <2>1, <2>2, ThroughQueue
  <2>4. /\ Receive(t, Head(q))
        /\ connq' = [connq EXCEPT ![p] = Tail(q)]
        /\ UNCHANGED master
    BY <1>9 DEF Defined, GrowOpened, clientVars
  <2> HIDE DEF q
  <2>5. QueuesPure'
    BY <1>t, <2>1, <2>3, <2>4 DEF QueuesPure, QueueTypeOK
  <2> QED
    BY <1>t, <2>3, <2>4, <2>5, ReceivePure
<1>10. ASSUME NEW t \in Threads, Defined(Send(t))
       PROVE  QueuesPure' /\ \A u \in Threads : ThreadPure(u)'
  BY <1>t, <1>10, FailoverAssumption
  DEF Defined, Send, QueuesPure, ThreadPure, ThreadTypeOK, PoolInv, clientVars,
      queueVars
<1>11. ASSUME NEW t \in Threads, Defined(Release(t))
       PROVE  QueuesPure' /\ \A u \in Threads : ThreadPure(u)'
  <2>1. at[t] \in Pools /\ held[t] \in Connections
    BY <1>t, <1>11, PoolsInUse
    DEF Defined, Release, PoolInv, ThreadTypeOK, Connections
  <2>2. held[t] \in {master[at[t]], NULL}
    BY <1>t, <1>11 DEF Defined, Release, ThreadPure
  <2>3. QueuesPure'
    BY SMTT(30), <1>t, <1>11, <2>1, <2>2, BackOfQueue
    DEF Defined, Release, QueuesPure, QueueTypeOK, clientVars
  <2> QED
    BY <1>t, <1>11, <2>3
    DEF Defined, Release, Leave, ThreadPure, ThreadTypeOK, clientVars
<1>12. ASSUME NEW t \in Threads, Undefined(t)
       PROVE  QueuesPure' /\ \A u \in Threads : ThreadPure(u)'
  BY <1>t, <1>12
  DEF Undefined, QueuesPure, ThreadPure, clientVars, queueVars, threadVars
<1>13. CASE UNCHANGED vars
  BY <1>t, <1>13
  DEF vars, QueuesPure, ThreadPure, clientVars, queueVars, threadVars
<1> QED
  BY <1>1, <1>2, <1>3, <1>4, <1>5, <1>6, <1>7, <1>8, <1>9, <1>10, <1>11, <1>12,
     <1>13
  DEF Next, Connect, Run, Defined

LEMMA PurityInvariant == Spec => [](ControlInv /\ PurityInv)
<1>1. Init => PurityInv
  <2> SUFFICES ASSUME Init PROVE PurityInv
    OBVIOUS
  <2>1. PICK m \in Masters :
          /\ master = [p \in Pools |-> IF p = 1 THEN m ELSE NULL]
          /\ connq = [p \in Pools |->
                        IF p = 1 THEN [k \in 1 .. InitSize |-> m] ELSE <<>>]
    BY DEF Init
  <2>2. /\ Len(<<>>) = 0
        /\ \A k \in 1 .. Len([j \in 1 .. InitSize |-> m]) :
             [j \in 1 .. InitSize |-> m][k] = m
    BY EmptySeq, FailoverAssumption
  <2>3. QueuesPure
    <3> SUFFICES ASSUME NEW p \in Pools, NEW k \in 1 .. Len(connq[p])
                 PROVE  connq[p][k] \in {master[p], NULL}
      BY DEF QueuesPure
    <3>1. CASE p = 1
      <4>1. connq[p] = [j \in 1 .. InitSize |-> m] /\ master[p] = m
        BY <2>1, <3>1
      <4> QED
        BY <2>2, <4>1
    <3>2. CASE p # 1
      <4>1. connq[p] = <<>>
        BY <2>1, <3>2
      <4> QED
        BY <2>2, <4>1
    <3> QED
      BY <3>1, <3>2
  <2>4. \A t \in Threads : ThreadPure(t)
    BY DEF Init, ThreadPure
  <2> QED
    BY <2>3, <2>4 DEF PurityInv
<1>2. ControlInv /\ PurityInv /\ [Next]_vars => PurityInv'
  BY PurityStep
<1> QED
  BY <1>1, <1>2, ControlInvariant, PTL DEF Spec

\* A call on the client's current pool is answered by the master that pool was
\* built for.
AnsweredByCurrentMaster ==
  \A t \in Threads :
    pc[t] = "release" /\ outcome[t] \in Masters /\ at[t] = pool /\ pool \in live =>
      outcome[t] = master[pool]

\* A connection to an old master never reaches a pool built for another, although
\* guards give connections back after their pool was replaced.
THEOREM AnswersFollowThePool == Spec => []AnsweredByCurrentMaster
<1>1. PurityInv => AnsweredByCurrentMaster
  BY DEF PurityInv, ThreadPure, AnsweredByCurrentMaster
<1> QED
  BY <1>1, PurityInvariant, PTL

-----------------------------------------------------------------------------
(* The connections opened                                                  *)

\* A step that leaves the counts alone, and does not enter initialize.
LEMMA CountStays ==
  ASSUME CountInv, UNCHANGED <<size, opened, crowded, pool, i>>,
         step' = "initialize" => step = "initialize"
  PROVE  CountInv'
BY DEF CountInv, Counted, CountedSoFar

LEMMA CountTypes ==
  ASSUME TypeOK
  PROVE  /\ \A p \in Pools : /\ size[p] \in 0 .. MaxSize
                             /\ size[p] \in Int
                             /\ opened[p] \in Nat
                             /\ crowded[p] \in Nat
         /\ i \in Nat /\ pool \in Pools
         /\ InitSize \in Nat /\ MaxSize \in Nat
BY PoolsInUse, FailoverAssumption DEF TypeOK, ClientTypeOK, QueueTypeOK

LEMMA CountStep ==
  ASSUME ControlInv, CountInv, [Next]_vars
  PROVE  CountInv'
<1>t. /\ TypeOK /\ PoolInv /\ ClientTypeOK /\ QueueTypeOK
      /\ CountedSoFar /\ \A p \in Pools : Counted(p)
  BY DEF ControlInv, TypeOK, CountInv
<1>1. CASE Defined(Delete)
  BY <1>1, CountStays DEF Defined, Delete
<1>2. ASSUME NEW m \in Masters, Defined(New(m)) PROVE CountInv'
  <2> DEFINE b == built + 1
  <2>1. b \in Pools /\ b > built
    BY <1>t, <1>2, PoolsInUse, FailoverAssumption
    DEF Defined, New, PoolInv, Pools
  <2>2. opened[b] = 0 /\ crowded[b] = 0
    BY <1>t, <2>1 DEF PoolInv
  <2>3. /\ size' = [size EXCEPT ![b] = InitSize]
        /\ pool' = b /\ i' = 0
        /\ UNCHANGED <<opened, crowded>>
    BY <1>2 DEF Defined, New
  <2> HIDE DEF b
  <2>4. size'[b] = InitSize
    BY <1>t, <2>1, <2>3 DEF QueueTypeOK
  <2>5. CountedSoFar'
    BY <2>2, <2>3, <2>4, FailoverAssumption DEF CountedSoFar
  <2>6. ASSUME NEW p \in Pools PROVE Counted(p)'
    <3>1. CASE p = b
      BY <2>2, <2>3, <2>4, <3>1, FailoverAssumption DEF Counted
    <3>2. CASE p # b
      BY <1>t, <2>3, <3>2 DEF Counted, QueueTypeOK
    <3> QED
      BY <3>1, <3>2
  <2> QED
    BY <2>5, <2>6 DEF CountInv
<1>3. CASE Defined(InitializeOpens)
  <2>1. /\ step = "initialize" /\ i < size[pool]
        /\ opened' = [opened EXCEPT ![pool] = @ + 1]
        /\ i' = i + 1
        /\ UNCHANGED <<pool, step, size, crowded>>
    BY <1>3 DEF Defined, InitializeOpens
  <2>2. opened'[pool] = opened[pool] + 1
    BY <1>t, <2>1, CountTypes DEF QueueTypeOK
  <2>3. CountedSoFar'
    BY <1>t, <2>1, <2>2, CountTypes DEF CountedSoFar
  <2>4. ASSUME NEW p \in Pools PROVE Counted(p)'
    <3>1. CASE p = pool
      BY <1>t, <2>1, <2>2, <3>1, CountTypes DEF Counted, CountedSoFar
    <3>2. CASE p # pool
      BY <1>t, <2>1, <3>2 DEF Counted, QueueTypeOK
    <3> QED
      BY <3>1, <3>2
  <2> QED
    BY <2>3, <2>4 DEF CountInv
<1>4. CASE Defined(InitializeReturns)
  BY <1>4, CountStays DEF Defined, InitializeReturns, queueVars
<1>5. ASSUME NEW t \in Threads, Defined(GrowOpened(t)) PROVE CountInv'
  <2> PICK p \in Pools : p = at[t]
    BY <1>t, <1>5, PoolsInUse DEF Defined, GrowOpened, PoolInv
  <2> DEFINE busy == step = "initialize" /\ p = pool
  <2>2. /\ size' = [size EXCEPT ![p] = @ + 1]
        /\ opened' = [opened EXCEPT ![p] = @ + 1]
        /\ crowded' = IF busy THEN [crowded EXCEPT ![p] = @ + 1] ELSE crowded
        /\ UNCHANGED <<pool, step, i>>
    BY <1>5 DEF Defined, GrowOpened, clientVars
  <2> HIDE DEF busy
  <2>3. /\ size'[p] = size[p] + 1
        /\ opened'[p] = opened[p] + 1
        /\ crowded'[p] = IF busy THEN crowded[p] + 1 ELSE crowded[p]
    BY <1>t, <2>2 DEF QueueTypeOK
  <2>4. \A r \in Pools : r # p =>
          /\ size'[r] = size[r] /\ opened'[r] = opened[r]
          /\ crowded'[r] = crowded[r]
    BY <1>t, <2>2 DEF QueueTypeOK
  <2>5. Counted(p)'
    <3>1. CASE busy
      BY <1>t, <2>3, <3>1, CountTypes DEF Counted
    <3>2. CASE ~busy
      BY <1>t, <2>3, <3>2, CountTypes DEF Counted
    <3> QED
      BY <3>1, <3>2
  <2>6. \A r \in Pools : r # p => Counted(r)'
    BY <1>t, <2>4 DEF Counted
  <2>7. CountedSoFar'
    <3>1. CASE p = pool
      BY <1>t, <2>2, <2>3, <3>1, CountTypes DEF CountedSoFar, busy
    <3>2. CASE p # pool
      BY <1>t, <2>2, <2>4, <3>2, CountTypes DEF CountedSoFar
    <3> QED
      BY <3>1, <3>2
  <2> QED
    BY <2>5, <2>6, <2>7 DEF CountInv
<1>6. ASSUME NEW t \in Threads,
             Defined(Start(t) \/ Run(t)) \/ Undefined(t),
             ~Defined(GrowOpened(t))
      PROVE  CountInv'
  <2>1. UNCHANGED <<size, opened, crowded, pool, i, step>>
    BY <1>6
    DEF Defined, Start, Run, AcquirePop, AcquireFull, GrowBegin, GrowRefused,
        Send, Release, Undefined, clientVars, queueVars
  <2> QED
    BY <2>1, CountStays
<1>7. CASE UNCHANGED vars
  BY <1>7, CountStays DEF vars, clientVars, queueVars
<1> QED
  BY <1>1, <1>2, <1>3, <1>4, <1>5, <1>6, <1>7 DEF Next, Connect, Run, Defined

\* initialize without mtx_ opens past max_size_ once for every growth it meets,
\* and growths it meets are no more than the room the pool has.
THEOREM OvershootIsBounded == Spec => []OvershootCounted
<1>1. Init => CountInv
  BY FailoverAssumption
  DEF Init, CountInv, CountedSoFar, Counted, Pools
<1>2. ControlInv /\ CountInv /\ [Next]_vars => CountInv'
  BY CountStep
<1>3. ControlInv /\ CountInv => OvershootCounted
  <2>1. ASSUME TypeOK, CountInv, NEW p \in Pools
        PROVE  /\ opened[p] <= MaxSize + crowded[p]
               /\ crowded[p] <= MaxSize - InitSize
    BY <2>1, CountTypes DEF CountInv, Counted
  <2> QED
    BY <2>1 DEF ControlInv, OvershootCounted
<1> QED
  BY <1>1, <1>2, <1>3, ControlInvariant, PTL DEF Spec

-----------------------------------------------------------------------------
(* Refinement                                                              *)

\* Each way that acquire ends, by what the guard receives.
LEMMA Receives ==
  ASSUME ControlInv, NEW t \in Threads,
         AcquirePop(t) \/ AcquireFull(t) \/ GrowOpened(t) \/ GrowRefused(t)
  PROVE  /\ pc[t] \in {"acquire", "grow"} /\ UNCHANGED clientVars
         /\ \E c \in Connections : Receive(t, c)
<1>1. TypeOK /\ PoolInv /\ QueueTypeOK
  BY DEF ControlInv, TypeOK
<1>2. CASE AcquirePop(t)
  <2>1. at[t] \in Pools /\ connq[at[t]] # <<>>
    BY <1>1, <1>2, PoolsInUse DEF AcquirePop, PoolInv
  <2>2. Head(connq[at[t]]) \in Connections
    BY <1>1, <2>1, FrontOfQueue
  <2> QED
    BY <1>2, <2>2 DEF AcquirePop
<1>3. CASE AcquireFull(t) \/ GrowRefused(t)
  BY <1>3 DEF AcquireFull, GrowRefused, Connections
<1>4. CASE GrowOpened(t)
  <2> DEFINE q == Append(connq[at[t]], master[at[t]])
  <2>1. at[t] \in Pools /\ master[at[t]] \in Connections
    BY <1>1, <1>4, PoolsInUse DEF GrowOpened, PoolInv
  <2>2. Head(q) \in Connections
    BY <1>1, <2>1, ThroughQueue
  <2> QED
    BY <1>4, <2>2 DEF GrowOpened
<1> QED
  BY <1>2, <1>3, <1>4

\* A guard that receives a connection, or NULL, answers its call only by throwing.
LEMMA ReceiveAnswered ==
  ASSUME TypeOK, NEW t \in Threads, NEW c \in Connections, Receive(t, c),
         pc[t] \in {"acquire", "grow"}, \A u \in Threads : CallAnswered(u)
  PROVE  \A u \in Threads : CallAnswered(u)'
<1> TAKE u \in Threads
<1>1. CASE u = t
  BY <1>1, ReceiveControl DEF CallAnswered, TypeOK, ThreadTypeOK
<1>2. CASE u # t
  BY <1>2, ReceiveControl DEF CallAnswered, TypeOK, ThreadTypeOK
<1> QED
  BY <1>1, <1>2

LEMMA AnswerStep ==
  ASSUME ControlInv, AnswerInv, [Next]_vars
  PROVE  AnswerInv'
<1>t. /\ TypeOK /\ PoolInv /\ ClientTypeOK /\ QueueTypeOK /\ ThreadTypeOK
      /\ MastersKnown /\ \A t \in Threads : CallAnswered(t)
  BY DEF ControlInv, TypeOK, AnswerInv
<1>1. CASE Defined(Delete \/ InitializeOpens \/ InitializeReturns) \/ UNCHANGED vars
  BY <1>t, <1>1
  DEF Defined, Delete, InitializeOpens, InitializeReturns, AnswerInv, MastersKnown,
      CallAnswered, vars, clientVars, threadVars
<1>2. ASSUME NEW m \in Masters, Defined(New(m)) PROVE AnswerInv'
  <2>1. /\ built' = built + 1 /\ built' \in Pools /\ built \in Nat
        /\ master' = [master EXCEPT ![built + 1] = m]
        /\ master \in [Pools -> Masters \cup {NULL}]
    BY <1>t, <1>2, PoolsInUse, FailoverAssumption
    DEF Defined, New, PoolInv, ClientTypeOK, Pools
  <2>2. MastersKnown'
    BY <1>t, <2>1 DEF MastersKnown, Pools
  <2> QED
    BY <1>t, <1>2, <2>2 DEF Defined, New, AnswerInv, CallAnswered, threadVars
<1>3. ASSUME NEW t \in Threads, Defined(Start(t)) PROVE AnswerInv'
  BY <1>t, <1>3
  DEF Defined, Start, AnswerInv, MastersKnown, CallAnswered, ThreadTypeOK, clientVars
<1>4. ASSUME NEW t \in Threads, NEW c \in Connections, Receive(t, c),
             pc[t] \in {"acquire", "grow"}, UNCHANGED clientVars
      PROVE  AnswerInv'
  BY <1>t, <1>4, ReceiveAnswered DEF AnswerInv, MastersKnown, clientVars
<1>5. ASSUME NEW t \in Threads,
             Defined(AcquirePop(t) \/ AcquireFull(t) \/ GrowOpened(t) \/ GrowRefused(t))
      PROVE  AnswerInv'
  <2>1. /\ pc[t] \in {"acquire", "grow"} /\ UNCHANGED clientVars
        /\ \E c \in Connections : Receive(t, c)
    BY <1>5, Receives DEF Defined
  <2> QED
    BY <1>4, <2>1
<1>6. ASSUME NEW t \in Threads, Defined(GrowBegin(t)) PROVE AnswerInv'
  BY <1>t, <1>6
  DEF Defined, GrowBegin, AnswerInv, MastersKnown, CallAnswered, ThreadTypeOK, clientVars
<1>7. ASSUME NEW t \in Threads, Defined(Send(t)) PROVE AnswerInv'
  BY <1>t, <1>7, FailoverAssumption
  DEF Defined, Send, AnswerInv, MastersKnown, CallAnswered, ThreadTypeOK, PoolInv,
      clientVars
<1>8. ASSUME NEW t \in Threads, Defined(Release(t)) PROVE AnswerInv'
  BY <1>t, <1>8
  DEF Defined, Release, Leave, AnswerInv, MastersKnown, CallAnswered, ThreadTypeOK,
      clientVars
<1>9. ASSUME NEW t \in Threads, Undefined(t) PROVE AnswerInv'
  BY <1>t, <1>9
  DEF Undefined, AnswerInv, MastersKnown, CallAnswered, clientVars, threadVars
<1> QED
  BY <1>1, <1>2, <1>3, <1>5, <1>6, <1>7, <1>8, <1>9 DEF Next, Connect, Run, Defined

\* What FailoverService sees of a step of a call, the pools being as they were.
Bound == [t \in Threads |-> IF at[t] = 0 THEN NULL ELSE master[at[t]]]

\* A guard that receives NULL answers its call with an exception; one that
\* receives a connection does nothing a caller can tell.
LEMMA ReceiveServes ==
  ASSUME ControlInv, AnswerInv, NEW t \in Threads, NEW c \in Connections,
         Receive(t, c), pc[t] \in {"acquire", "grow"}, UNCHANGED clientVars
  PROVE  Service!Answer(t) \/ UNCHANGED Service!vars
<1>t. /\ TypeOK /\ PoolInv /\ ThreadTypeOK /\ MastersKnown /\ CallAnswered(t)
  BY DEF ControlInv, TypeOK, AnswerInv
<1>1. at' = at /\ master' = master /\ pool' = pool
  BY <1>t, ReceiveControl DEF clientVars
<1>2. Bound[t] # NULL
  BY <1>t, FailoverAssumption DEF Bound, PoolInv, MastersKnown, ThreadTypeOK
<1>3. CASE c = NULL
  <2>1. outcome' = [outcome EXCEPT ![t] = "ConnectionException"] /\ outcome[t] = "none"
    BY <1>t, <1>3 DEF Receive, CallAnswered
  <2> QED
    BY <1>1, <1>2, <2>1 DEF Bound, Service!Answer
<1>4. CASE c # NULL
  BY <1>1, <1>t, <1>4, ReceiveControl DEF Service!vars
<1> QED
  BY <1>3, <1>4

\* Every step is a step of FailoverService or changes nothing a caller can tell.
LEMMA ServiceStep ==
  ASSUME ControlInv, PurityInv, AnswerInv, [Next]_vars
  PROVE  [Service!Next]_(Service!vars)
<1>t. /\ TypeOK /\ PoolInv /\ ClientTypeOK /\ ThreadTypeOK
      /\ MastersKnown /\ \A t \in Threads : CallAnswered(t) /\ ThreadPure(t)
  BY DEF ControlInv, TypeOK, PurityInv, AnswerInv
<1> USE DEF Service!Next, Service!vars
<1>1. CASE Defined(Delete \/ InitializeOpens \/ InitializeReturns) \/ UNCHANGED vars
  BY <1>1
  DEF Defined, Delete, InitializeOpens, InitializeReturns, vars, clientVars, threadVars
<1>2. ASSUME NEW m \in Masters, Defined(New(m)) PROVE Service!Move(m)
  <2>1. /\ pool' = built + 1 /\ built + 1 \in Pools /\ built \in Nat
        /\ master' = [master EXCEPT ![built + 1] = m]
        /\ master \in [Pools -> Masters \cup {NULL}]
        /\ UNCHANGED threadVars
    BY <1>t, <1>2, PoolsInUse, FailoverAssumption
    DEF Defined, New, PoolInv, ClientTypeOK, Pools
  <2>2. master'[pool'] = m
    BY <2>1
  <2>3. \A t \in Threads : at[t] # 0 => master'[at[t]] = master[at[t]]
    BY <1>t, <2>1 DEF ThreadTypeOK, Pools
  <2>4. Bound' = Bound
    BY <2>1, <2>3 DEF Bound, threadVars
  <2> QED
    BY <2>1, <2>2, <2>4 DEF Bound, Service!Move, threadVars
<1>3. ASSUME NEW t \in Threads, Defined(Start(t)) PROVE Service!Begin(t)
  <2>1. /\ at[t] = 0 /\ at' = [at EXCEPT ![t] = pool] /\ pool # 0
        /\ master' = master /\ pool' = pool /\ outcome' = outcome
    BY <1>t, <1>3, PoolsInUse
    DEF Defined, Start, CallAnswered, ClientTypeOK, Pools, clientVars
  <2>2. Bound[t] = NULL /\ Bound' = [Bound EXCEPT ![t] = master[pool]]
    BY <1>t, <2>1 DEF Bound, ThreadTypeOK
  <2> QED
    BY <2>1, <2>2 DEF Bound, Service!Begin
<1>4. ASSUME NEW t \in Threads,
             Defined(AcquirePop(t) \/ AcquireFull(t) \/ GrowOpened(t) \/ GrowRefused(t))
      PROVE  Service!Answer(t) \/ UNCHANGED Service!vars
  <2>1. /\ pc[t] \in {"acquire", "grow"} /\ UNCHANGED clientVars
        /\ \E c \in Connections : Receive(t, c)
    BY <1>4, Receives DEF Defined
  <2> QED
    BY <2>1, ReceiveServes
<1>5. ASSUME NEW t \in Threads, Defined(GrowBegin(t))
      PROVE  UNCHANGED Service!vars
  BY <1>5 DEF Defined, GrowBegin, clientVars
<1>6. ASSUME NEW t \in Threads, Defined(Send(t)) PROVE Service!Answer(t)
  <2>1. /\ outcome' = [outcome EXCEPT ![t] = held[t]] /\ outcome[t] = "none"
        /\ UNCHANGED <<pool, master, at>>
    BY <1>t, <1>6 DEF Defined, Send, CallAnswered, clientVars
  <2>2. Bound[t] = held[t] /\ Bound[t] # NULL
    BY <1>t, <1>6, FailoverAssumption
    DEF Defined, Send, Bound, ThreadPure, PoolInv, ThreadTypeOK
  <2> QED
    BY <2>1, <2>2 DEF Bound, Service!Answer
<1>7. ASSUME NEW t \in Threads, Defined(Release(t)) PROVE Service!End(t)
  <2>1. /\ at' = [at EXCEPT ![t] = 0] /\ outcome' = [outcome EXCEPT ![t] = "none"]
        /\ outcome[t] # "none" /\ UNCHANGED <<pool, master>>
    BY <1>t, <1>7 DEF Defined, Release, Leave, CallAnswered, clientVars
  <2>2. Bound' = [Bound EXCEPT ![t] = NULL]
    BY <1>t, <2>1 DEF Bound, ThreadTypeOK
  <2> QED
    BY <2>1, <2>2 DEF Bound, Service!End
<1>8. ASSUME NEW t \in Threads, Undefined(t) PROVE UNCHANGED Service!vars
  BY <1>8 DEF Undefined, clientVars, threadVars
<1> QED
  BY <1>1, <1>2, <1>3, <1>4, <1>5, <1>6, <1>7, <1>8 DEF Next, Connect, Run, Defined

\* Whatever replaces the pool and whenever, a call is answered once, by the
\* master the client was on when it began or by an exception.
THEOREM FailoverImplementsService == Spec => ServiceSpec
<1>1. Init => AnswerInv /\ Service!Init
  <2> SUFFICES ASSUME Init PROVE AnswerInv /\ Service!Init
    OBVIOUS
  <2>1. \E m \in Masters : master = [p \in Pools |-> IF p = 1 THEN m ELSE NULL]
    BY DEF Init
  <2>2. master[1] \in Masters
    BY <2>1, FailoverAssumption DEF Pools
  <2> QED
    BY <2>2 DEF Init, AnswerInv, MastersKnown, CallAnswered, Service!Init
<1>2. ControlInv /\ AnswerInv /\ [Next]_vars => AnswerInv'
  BY AnswerStep
<1>3. ControlInv /\ PurityInv /\ AnswerInv /\ [Next]_vars
        => [Service!Next]_(Service!vars)
  BY ServiceStep
<1> QED
  BY <1>1, <1>2, <1>3, PurityInvariant, PTL DEF Spec, ServiceSpec, Service!Spec

=============================================================================
