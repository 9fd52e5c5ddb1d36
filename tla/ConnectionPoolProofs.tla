------------------------ MODULE ConnectionPoolProofs ------------------------
(***************************************************************************)
(* What ConnectionPool guarantees for any number of threads and any sizes. *)
(* The inductive invariant is built in layers: ControlInv (types, mtx_,    *)
(* the pool's life, the guards), OwnershipInv (where each connection is),  *)
(* Accounting (how many there are).  Each layer is proved from the ones    *)
(* below it; the last section maps the pool to ConnectionLease.            *)
(***************************************************************************)
EXTENDS ConnectionPool, FiniteSetTheorems, SequenceTheorems, TLAPS

-----------------------------------------------------------------------------
(* Control                                                                 *)

\* What the two ways of opening a connection leave of the network's types.
LEMMA ConnectsType ==
  ASSUME TypeOK, NEW c \in Conns, NEW s \in {"open", "error"}, Connects(c, s)
  PROVE  /\ ctx' \in [Conns -> {"unborn", "open", "dropped", "error", "freed"}]
         /\ selected' \subseteq Conns
         /\ UNCHANGED <<server, selectErrors>>
BY DEF TypeOK, Connects

LEMMA SelectThrowsType ==
  ASSUME TypeOK, NEW c \in Conns, SelectThrows(c)
  PROVE  /\ ctx' \in [Conns -> {"unborn", "open", "dropped", "error", "freed"}]
         /\ selectErrors' \in 0 .. MaxSelectErrors
         /\ UNCHANGED <<selected, server>>
BY PoolAssumption DEF TypeOK, SelectThrows

\* acquire's result reaches the guard: the thread sends when it is a
\* connection and is about to release when it is NULL.
LEMMA ReceiveControl ==
  ASSUME ControlInv, NEW t \in Threads, NEW p \in Pointers, Receive(t, p)
  PROVE  /\ pc' = [pc EXCEPT ![t] = IF p = NULL THEN "release" ELSE "send"]
         /\ conn' = [conn EXCEPT ![t] = p]
         /\ conn' \in [Threads -> Pointers]
         /\ outcome' \in [Threads -> Outcomes]
         /\ GuardInv'
         /\ UNCHANGED calls
<1>1. pc' = [pc EXCEPT ![t] = IF p = NULL THEN "release" ELSE "send"]
  BY DEF Receive
<1>2. outcome' \in [Threads -> Outcomes]
  BY DEF Receive, ControlInv, TypeOK, Outcomes
<1>3. conn' = [conn EXCEPT ![t] = p] /\ conn' \in [Threads -> Pointers]
  BY DEF Receive, ControlInv, TypeOK
<1>4. GuardInv'
  BY <1>1, <1>3 DEF ControlInv, TypeOK, GuardInv
<1> QED
  BY <1>1, <1>2, <1>3, <1>4 DEF Receive

LEMMA ControlInit == Init => ControlInv
<1> SUFFICES ASSUME Init PROVE ControlInv
  OBVIOUS
<1>1. TypeOK
  BY PoolAssumption, EmptySeq DEF Init, TypeOK, Pointers, Outcomes
<1>2. LockInv /\ GuardInv
  BY PoolAssumption DEF Init, LockInv, GuardInv
<1>3. PhaseInv
  BY EmptySeq DEF Init, PhaseInv
<1> QED
  BY <1>1, <1>2, <1>3 DEF ControlInv

LEMMA ControlStep == ControlInv /\ [Next]_vars => ControlInv'
<1> SUFFICES ASSUME ControlInv, [Next]_vars PROVE ControlInv'
  OBVIOUS
<1> USE PoolAssumption
<1>1. ASSUME NEW c \in Conns, InitOpen(c) PROVE ControlInv'
  <2>1. /\ Append(connq, c) \in Seq(Pointers)
        /\ Len(Append(connq, c)) = Len(connq) + 1
    BY AppendProperties DEF ControlInv, TypeOK, Pointers
  <2>2. opened + 1 \in 0 .. InitSize
    BY <1>1 DEF InitOpen, ControlInv, TypeOK, PhaseInv
  <2>3. TypeOK'
    BY <1>1, <2>1, <2>2, ConnectsType
    DEF InitOpen, ControlInv, TypeOK, threadVars
  <2>4. LockInv' /\ GuardInv'
    BY <1>1 DEF InitOpen, ControlInv, TypeOK, LockInv, PhaseInv, GuardInv,
                threadVars
  <2>5. PhaseInv'
    BY <1>1, <2>1 DEF InitOpen, ControlInv, TypeOK, PhaseInv, threadVars
  <2> QED
    BY <2>3, <2>4, <2>5 DEF ControlInv
<1>2. ASSUME NEW c \in Conns, InitSelectThrows(c) PROVE ControlInv'
  <2>1. TypeOK'
    BY <1>2, SelectThrowsType
    DEF InitSelectThrows, ControlInv, TypeOK, threadVars
  <2> QED
    BY <1>2, <2>1 DEF InitSelectThrows, ControlInv, LockInv, PhaseInv,
                      GuardInv, threadVars
<1>3. CASE InitRefused
  BY <1>3 DEF InitRefused, ControlInv, TypeOK, LockInv, PhaseInv, GuardInv,
              threadVars, netVars
<1>4. CASE InitDone
  BY <1>4 DEF InitDone, ControlInv, TypeOK, LockInv, PhaseInv, GuardInv,
              threadVars, netVars
<1>5. ASSUME NEW t \in Threads, StartExecute(t) PROVE ControlInv'
  <2>1. TypeOK'
    BY <1>5 DEF StartExecute, ControlInv, TypeOK, poolVars, netVars, Outcomes
  <2> QED
    BY <1>5, <2>1 DEF StartExecute, ControlInv, TypeOK, LockInv, PhaseInv,
                      GuardInv, poolVars, netVars
<1>6. ASSUME NEW t \in Threads, AcquirePop(t) PROVE ControlInv'
  <2>1. Head(connq) \in Pointers /\ Tail(connq) \in Seq(Pointers)
    BY <1>6, HeadTailProperties DEF AcquirePop, ControlInv, TypeOK
  <2>2. TypeOK'
    BY <1>6, <2>1, ReceiveControl DEF AcquirePop, ControlInv, TypeOK, netVars
  <2>3. LockInv' /\ GuardInv' /\ PhaseInv'
    BY <1>6, <2>1, ReceiveControl
    DEF AcquirePop, ControlInv, TypeOK, LockInv, PhaseInv
  <2> QED
    BY <2>2, <2>3 DEF ControlInv
<1>7. ASSUME NEW t \in Threads, AcquireFull(t) PROVE ControlInv'
  <2>1. NULL \in Pointers
    BY DEF Pointers
  <2>2. TypeOK'
    BY <1>7, <2>1, ReceiveControl
    DEF AcquireFull, ControlInv, TypeOK, poolVars, netVars
  <2>3. LockInv' /\ GuardInv' /\ PhaseInv'
    BY <1>7, <2>1, ReceiveControl
    DEF AcquireFull, ControlInv, TypeOK, LockInv, PhaseInv, poolVars
  <2> QED
    BY <2>2, <2>3 DEF ControlInv
<1>8. ASSUME NEW t \in Threads, GrowBegin(t) PROVE ControlInv'
  <2>1. TypeOK'
    BY <1>8 DEF GrowBegin, ControlInv, TypeOK, netVars
  <2> QED
    BY <1>8, <2>1 DEF GrowBegin, ControlInv, TypeOK, LockInv, PhaseInv, GuardInv
<1>9. ASSUME NEW t \in Threads, NEW c \in Conns, GrowOpened(t, c)
      PROVE  ControlInv'
  <2> DEFINE q == Append(connq, c)
  <2>1. mtx = t /\ connq = <<>> /\ size < MaxSize
    BY <1>9 DEF GrowOpened, ControlInv, LockInv
  <2>2. q = <<c>> /\ Head(q) = c /\ Tail(q) = <<>>
    BY <2>1
  <2>3. Receive(t, c) /\ connq' = <<>> /\ c \in Pointers
    BY <1>9, <2>2 DEF GrowOpened, Pointers
  <2>4. TypeOK'
    BY <1>9, <2>1, <2>3, ReceiveControl, ConnectsType, EmptySeq
    DEF GrowOpened, ControlInv, TypeOK
  <2>5. LockInv' /\ GuardInv' /\ PhaseInv'
    BY <1>9, <2>1, <2>3, ReceiveControl
    DEF GrowOpened, ControlInv, TypeOK, LockInv, PhaseInv
  <2> QED
    BY <2>4, <2>5 DEF ControlInv
<1>10. ASSUME NEW t \in Threads, GrowRefused(t) PROVE ControlInv'
  <2>1. NULL \in Pointers
    BY DEF Pointers
  <2>2. TypeOK'
    BY <1>10, <2>1, ReceiveControl DEF GrowRefused, ControlInv, TypeOK, netVars
  <2>3. LockInv' /\ GuardInv' /\ PhaseInv'
    BY <1>10, <2>1, ReceiveControl
    DEF GrowRefused, ControlInv, TypeOK, LockInv, PhaseInv
  <2> QED
    BY <2>2, <2>3 DEF ControlInv
<1>11. ASSUME NEW t \in Threads, NEW c \in Conns, GrowSelectThrows(t, c)
       PROVE  ControlInv'
  <2>1. TypeOK'
    BY <1>11, SelectThrowsType
    DEF GrowSelectThrows, ControlInv, TypeOK, Outcomes
  <2> QED
    BY <1>11, <2>1
    DEF GrowSelectThrows, ControlInv, TypeOK, LockInv, PhaseInv, GuardInv
<1>12. ASSUME NEW t \in Threads, SendReply(t) PROVE ControlInv'
  <2>1. TypeOK'
    BY <1>12 DEF SendReply, ControlInv, TypeOK, poolVars, netVars, Outcomes
  <2> QED
    BY <1>12, <2>1 DEF SendReply, ControlInv, TypeOK, LockInv, PhaseInv,
                       GuardInv, poolVars
<1>13. ASSUME NEW t \in Threads, SendFails(t) PROVE ControlInv'
  <2>1. TypeOK'
    BY <1>13 DEF SendFails, ControlInv, TypeOK, poolVars, Outcomes
  <2> QED
    BY <1>13, <2>1 DEF SendFails, ControlInv, TypeOK, LockInv, PhaseInv,
                       GuardInv, poolVars
<1>14. ASSUME NEW t \in Threads, Release(t) PROVE ControlInv'
  <2>1. Append(connq, conn[t]) \in Seq(Pointers)
    BY AppendProperties DEF ControlInv, TypeOK
  <2>2. TypeOK'
    BY <1>14, <2>1 DEF Release, ControlInv, TypeOK, netVars, Pointers
  <2> QED
    BY <1>14, <2>2 DEF Release, ControlInv, TypeOK, LockInv, PhaseInv, GuardInv
<1>15. CASE Destroy
  <2>1. TypeOK'
    BY <1>15, EmptySeq DEF Destroy, ControlInv, TypeOK, threadVars
  <2> QED
    BY <1>15, <2>1 DEF Destroy, ControlInv, LockInv, PhaseInv, GuardInv,
                       threadVars
<1>16. CASE Environment
  <2>1. TypeOK'
    BY <1>16 DEF Environment, Drop, ServerCrash, ServerRestart, ControlInv,
                 TypeOK, poolVars, threadVars
  <2>2. UNCHANGED <<poolVars, threadVars>>
    BY <1>16 DEF Environment, Drop, ServerCrash, ServerRestart
  <2> QED
    BY <2>1, <2>2 DEF ControlInv, LockInv, PhaseInv, GuardInv, poolVars,
                      threadVars
<1>17. CASE UNCHANGED vars
  BY <1>17 DEF vars, poolVars, threadVars, netVars, ControlInv, TypeOK,
               LockInv, PhaseInv, GuardInv
<1> QED
  BY <1>1, <1>2, <1>3, <1>4, <1>5, <1>6, <1>7, <1>8, <1>9, <1>10, <1>11,
     <1>12, <1>13, <1>14, <1>15, <1>16, <1>17
  DEF Next, Initialize, Run

LEMMA ControlInvariant == Spec => []ControlInv
BY ControlInit, ControlStep, PTL DEF Spec

\* Every variable keeps the type its C++ member has; in particular size_
\* never passes max_size_ and initialize never opens more than size.
THEOREM TypeCorrect == Spec => []TypeOK
<1>1. ControlInv => TypeOK
  BY DEF ControlInv
<1> QED
  BY <1>1, ControlInvariant, PTL

-----------------------------------------------------------------------------
(* Ownership: how each way of moving a pointer changes what is reachable.  *)

LEMMA StayOwned ==
  ASSUME connq' = connq, conn' = conn
  PROVE  /\ InQueue' = InQueue /\ Held' = Held /\ Reachable' = Reachable
         /\ ExclusiveUse => ExclusiveUse'
BY DEF InQueue, Held, Reachable, ExclusiveUse

\* acquire: the front of the queue moves to a guard that held nothing.
LEMMA PopOwned ==
  ASSUME TypeOK, ExclusiveUse, NEW t \in Threads, conn[t] = NULL,
         connq # <<>>, connq' = Tail(connq),
         conn' = [conn EXCEPT ![t] = Head(connq)]
  PROVE  ExclusiveUse' /\ Reachable' = Reachable
<1> DEFINE p == Head(connq)
<1>1. /\ Len(connq) \in Nat \ {0}
      /\ \A i \in 1 .. Len(connq) : connq[i] \in Pointers
      /\ Len(connq') = Len(connq) - 1
      /\ \A i \in 1 .. Len(connq') : connq'[i] = connq[i + 1]
      /\ p = connq[1]
  <2>1. connq \in Seq(Pointers)
    BY DEF TypeOK
  <2>2. Len(connq) \in Nat \ {0} /\ p = connq[1]
    BY <2>1, EmptySeq
  <2>3. \A i \in 1 .. Len(connq) : connq[i] \in Pointers
    BY <2>1, ElementOfSeq
  <2> QED
    BY <2>1, <2>2, <2>3, HeadTailProperties
<1>2. \A i \in 1 .. Len(connq) :
        i = 1 \/ \E j \in 1 .. Len(connq') : i = j + 1
  <2> TAKE i \in 1 .. Len(connq)
  <2>1. CASE i = 1
    BY <2>1
  <2>2. CASE i # 1
    <3>1. i - 1 \in 1 .. Len(connq') /\ i = (i - 1) + 1
      BY <1>1, <2>2
    <3> QED
      BY <3>1
  <2> QED
    BY <2>1, <2>2
<1>3. \A j \in 1 .. Len(connq') : j + 1 \in 1 .. Len(connq) /\ j + 1 # 1
  BY <1>1
<1>4. \A j \in 1 .. Len(connq') : connq'[j] = p => p = NULL
  BY <1>1, <1>3 DEF ExclusiveUse
<1>5. InQueue' = InQueue \ {p}
  <2>1. ASSUME NEW c \in InQueue' PROVE c \in InQueue \ {p}
    <3>1. PICK j \in 1 .. Len(connq') : c = connq'[j] /\ c # NULL
      BY DEF InQueue
    <3>2. c = connq[j + 1] /\ j + 1 \in 1 .. Len(connq) /\ c # p
      BY <1>1, <1>3, <1>4, <3>1
    <3> QED
      BY <3>1, <3>2 DEF InQueue
  <2>2. ASSUME NEW c \in InQueue \ {p} PROVE c \in InQueue'
    <3>1. PICK i \in 1 .. Len(connq) : c = connq[i] /\ c # NULL
      BY DEF InQueue
    <3>2. PICK j \in 1 .. Len(connq') : i = j + 1
      BY <1>1, <1>2, <3>1
    <3> QED
      BY <1>1, <3>1, <3>2 DEF InQueue
  <2> QED
    BY <2>1, <2>2
<1>6. conn' = [u \in Threads |-> IF u = t THEN p ELSE conn[u]]
  BY DEF TypeOK
<1>7. Held' = Held \cup ({p} \ {NULL})
  BY <1>6 DEF Held, TypeOK
<1>8. p # NULL => p \in InQueue
  BY <1>1 DEF InQueue
<1>9. \A i, j \in 1 .. Len(connq') :
        connq'[i] = connq'[j] /\ connq'[i] # NULL => i = j
  BY <1>1, <1>3 DEF ExclusiveUse
<1>10. \A u \in Threads : conn[u] # NULL => conn[u] # p
  BY <1>8 DEF ExclusiveUse, Held
<1>11. \A u, v \in Threads : conn'[u] = conn'[v] /\ conn'[u] # NULL => u = v
  BY <1>6, <1>10 DEF ExclusiveUse
<1>12. InQueue' \cap Held' = {}
  BY <1>5, <1>7 DEF ExclusiveUse
<1>13. Reachable' = Reachable
  BY <1>5, <1>7, <1>8 DEF Reachable, InQueue
<1> QED
  BY <1>9, <1>11, <1>12, <1>13 DEF ExclusiveUse

\* release: what a guard holds, NULL included, moves to the back of the queue.
LEMMA PushOwned ==
  ASSUME TypeOK, ExclusiveUse, NEW t \in Threads,
         connq' = Append(connq, conn[t]),
         conn' = [conn EXCEPT ![t] = NULL]
  PROVE  ExclusiveUse' /\ Reachable' = Reachable
<1> DEFINE p == conn[t]
<1>1. /\ Len(connq) \in Nat
      /\ Len(connq') = Len(connq) + 1
      /\ \A i \in 1 .. Len(connq) : connq'[i] = connq[i]
      /\ connq'[Len(connq) + 1] = p
  BY LenProperties, AppendProperties DEF TypeOK
<1>2. 1 .. Len(connq') = 1 .. Len(connq) \cup {Len(connq) + 1}
  BY <1>1
<1>3. InQueue' = InQueue \cup ({p} \ {NULL})
  BY <1>1, <1>2 DEF InQueue
<1>4. conn' = [u \in Threads |-> IF u = t THEN NULL ELSE conn[u]]
  BY DEF TypeOK
<1>5. Held' = Held \ {p}
  BY <1>4 DEF Held, TypeOK, ExclusiveUse
<1>6. p # NULL => p \in Held
  BY DEF Held
<1>7. \A i \in 1 .. Len(connq) : connq[i] = p => p = NULL
  BY <1>6 DEF ExclusiveUse, InQueue
<1>8. \A i, j \in 1 .. Len(connq') :
        connq'[i] = connq'[j] /\ connq'[i] # NULL => i = j
  BY <1>1, <1>2, <1>7 DEF ExclusiveUse
<1>9. \A u, v \in Threads : conn'[u] = conn'[v] /\ conn'[u] # NULL => u = v
  BY <1>4 DEF ExclusiveUse
<1>10. InQueue' \cap Held' = {}
  BY <1>3, <1>5 DEF ExclusiveUse
<1>11. Reachable' = Reachable
  BY <1>3, <1>5, <1>6 DEF Reachable, Held
<1> QED
  BY <1>8, <1>9, <1>10, <1>11 DEF ExclusiveUse

\* initialize: a new connection enters the queue.
LEMMA QueueOwned ==
  ASSUME TypeOK, ExclusiveUse, NEW c \in Conns \ Reachable, c # NULL,
         connq' = Append(connq, c), conn' = conn
  PROVE  ExclusiveUse' /\ Reachable' = Reachable \cup {c}
<1>1. /\ Len(connq) \in Nat
      /\ Len(connq') = Len(connq) + 1
      /\ \A i \in 1 .. Len(connq) : connq'[i] = connq[i]
      /\ connq'[Len(connq) + 1] = c
  BY LenProperties, AppendProperties DEF TypeOK, Pointers
<1>2. 1 .. Len(connq') = 1 .. Len(connq) \cup {Len(connq) + 1}
  BY <1>1
<1>3. InQueue' = InQueue \cup {c} /\ Held' = Held
  BY <1>1, <1>2 DEF InQueue, Held
<1>4. \A i \in 1 .. Len(connq) : connq[i] # c
  BY DEF Reachable, InQueue
<1>5. \A i, j \in 1 .. Len(connq') :
        connq'[i] = connq'[j] /\ connq'[i] # NULL => i = j
  BY <1>1, <1>2, <1>4 DEF ExclusiveUse
<1> QED
  BY <1>3, <1>5 DEF ExclusiveUse, Reachable

\* acquire's growth: a new connection goes straight to a guard.
LEMMA HoldOwned ==
  ASSUME TypeOK, ExclusiveUse, NEW t \in Threads, conn[t] = NULL,
         NEW c \in Conns \ Reachable, c # NULL,
         connq' = connq, conn' = [conn EXCEPT ![t] = c]
  PROVE  ExclusiveUse' /\ Reachable' = Reachable \cup {c}
<1>1. conn' = [u \in Threads |-> IF u = t THEN c ELSE conn[u]]
  BY DEF TypeOK
<1>2. InQueue' = InQueue /\ Held' = Held \cup {c}
  BY <1>1 DEF InQueue, Held
<1>3. \A u \in Threads : conn[u] # c
  BY DEF Reachable, Held
<1> QED
  BY <1>1, <1>2, <1>3 DEF ExclusiveUse, Reachable

-----------------------------------------------------------------------------
(* Every step of the pool moves pointers in one of six ways.               *)

Counters == <<size, opened, phase>>

Stays ==
  /\ Reachable' = Reachable
  /\ conn' = conn
  /\ UNCHANGED <<size, opened>>
  /\ \/ phase # "destroyed" /\ phase' # "destroyed"
     \/ UNCHANGED phase

Borrows(t, c) ==
  /\ c \in Reachable /\ \A u \in Threads : conn[u] # c
  /\ conn[t] = NULL /\ conn' = [conn EXCEPT ![t] = c]
  /\ Reachable' = Reachable
  /\ UNCHANGED Counters

Returns(t) ==
  /\ conn[t] # NULL /\ conn' = [conn EXCEPT ![t] = NULL]
  /\ Reachable' = Reachable
  /\ UNCHANGED Counters

Opens(c) ==
  /\ c \in Conns \ Reachable /\ Reachable' = Reachable \cup {c}
  /\ conn' = conn
  /\ opened' = opened + 1
  /\ UNCHANGED <<size, phase>>

OpensFor(t, c) ==
  /\ c \in Conns \ Reachable /\ Reachable' = Reachable \cup {c}
  /\ conn[t] = NULL /\ conn' = [conn EXCEPT ![t] = c]
  /\ size' = size + 1
  /\ UNCHANGED <<opened, phase>>

Closes ==
  /\ Reachable' = {}
  /\ conn = [t \in Threads |-> NULL] /\ conn' = conn
  /\ phase' = "destroyed"

Moves ==
  \/ Stays
  \/ \E t \in Threads, c \in Conns : Borrows(t, c) \/ OpensFor(t, c)
  \/ \E t \in Threads : Returns(t)
  \/ \E c \in Conns : Opens(c)
  \/ Closes

\* A step that leaves the queue and the guards alone.
LEMMA Untouched ==
  ASSUME OwnershipInv, connq' = connq, conn' = conn,
         UNCHANGED <<size, opened>>,
         \/ phase # "destroyed" /\ phase' # "destroyed"
         \/ UNCHANGED phase,
         \A c \in Conns : ctx[c] \in {"open", "dropped", "error"} =>
                            ctx'[c] \in {"open", "dropped", "error"}
  PROVE  ExclusiveUse' /\ LiveInv' /\ Moves
<1>1. Reachable' = Reachable /\ ExclusiveUse'
  BY StayOwned DEF OwnershipInv
<1>2. Reachable \subseteq Conns
  BY ElementOfSeq DEF OwnershipInv, ControlInv, TypeOK, Reachable, InQueue,
                      Held, Pointers
<1>3. LiveInv'
  BY <1>1, <1>2 DEF OwnershipInv, LiveInv
<1> QED
  BY <1>1, <1>3 DEF Moves, Stays

\* A connection that has just been opened was not reachable before.
LEMMA NewIsUnreachable ==
  ASSUME OwnershipInv, NEW c \in Conns, ctx[c] = "unborn"
  PROVE  c \in Conns \ Reachable /\ c # NULL
BY PoolAssumption DEF OwnershipInv, LiveInv

LEMMA OwnershipStep ==
  ASSUME OwnershipInv, [Next]_vars
  PROVE  ExclusiveUse' /\ LiveInv' /\ Moves
<1> USE DEF OwnershipInv, ControlInv
<1>1. ASSUME NEW c \in Conns, InitOpen(c)
      PROVE  ExclusiveUse' /\ LiveInv' /\ Moves
  <2>1. PICK s \in {"open", "error"} : Connects(c, s)
    BY <1>1 DEF InitOpen
  <2>2. c \in Conns \ Reachable /\ c # NULL
    BY <2>1, NewIsUnreachable DEF Connects
  <2>3. ExclusiveUse' /\ Reachable' = Reachable \cup {c}
    BY <1>1, <2>2, QueueOwned DEF InitOpen, threadVars
  <2>4. LiveInv'
    BY <2>1, <2>3 DEF LiveInv, Connects, TypeOK
  <2>5. Opens(c)
    BY <1>1, <2>2, <2>3 DEF Opens, InitOpen, threadVars
  <2> QED
    BY <2>3, <2>4, <2>5 DEF Moves
<1>2. ASSUME NEW c \in Conns, InitSelectThrows(c)
      PROVE  ExclusiveUse' /\ LiveInv' /\ Moves
  BY <1>2, Untouched DEF InitSelectThrows, SelectThrows, TypeOK, threadVars
<1>3. CASE InitRefused
  BY <1>3, Untouched DEF InitRefused, threadVars, netVars
<1>4. CASE InitDone
  BY <1>4, Untouched DEF InitDone, threadVars, netVars
<1>5. ASSUME NEW t \in Threads, StartExecute(t)
      PROVE  ExclusiveUse' /\ LiveInv' /\ Moves
  BY <1>5, Untouched DEF StartExecute, poolVars, netVars
<1>6. ASSUME NEW t \in Threads, AcquirePop(t)
      PROVE  ExclusiveUse' /\ LiveInv' /\ Moves
  <2>1. connq # <<>> /\ connq' = Tail(connq)
    BY <1>6 DEF AcquirePop
  <2>2. conn[t] = NULL /\ conn' = [conn EXCEPT ![t] = Head(connq)]
    BY <1>6 DEF AcquirePop, Receive, GuardInv
  <2>3. ExclusiveUse' /\ Reachable' = Reachable
    BY <2>1, <2>2, PopOwned
  <2>4. LiveInv'
    BY <1>6, <2>3 DEF AcquirePop, LiveInv, netVars
  <2>5. UNCHANGED Counters
    BY <1>6 DEF AcquirePop, Counters
  <2>6. CASE Head(connq) = NULL
    <3>1. conn' = conn
      BY <2>2, <2>6 DEF TypeOK
    <3> QED
      BY <2>3, <2>4, <2>5, <3>1 DEF Moves, Stays, Counters
  <2>7. CASE Head(connq) # NULL
    <3>1. Head(connq) \in InQueue /\ Head(connq) \in Conns
      BY <2>1, <2>7, EmptySeq, HeadTailProperties DEF TypeOK, InQueue, Pointers
    <3>2. \A u \in Threads : conn[u] # Head(connq)
      BY <2>7, <3>1 DEF ExclusiveUse, Held
    <3>3. Borrows(t, Head(connq))
      BY <2>2, <2>3, <2>5, <3>1, <3>2 DEF Borrows, Reachable
    <3> QED
      BY <2>3, <2>4, <3>1, <3>3 DEF Moves
  <2> QED
    BY <2>6, <2>7
<1>7. ASSUME NEW t \in Threads, AcquireFull(t) \/ GrowRefused(t)
      PROVE  ExclusiveUse' /\ LiveInv' /\ Moves
  <2>1. conn[t] = NULL /\ conn' = [conn EXCEPT ![t] = NULL]
    BY <1>7 DEF AcquireFull, GrowRefused, Receive, GuardInv
  <2>2. conn' = conn
    BY <2>1 DEF TypeOK
  <2> QED
    BY <1>7, <2>2, Untouched DEF AcquireFull, GrowRefused, poolVars, netVars
<1>8. ASSUME NEW t \in Threads, GrowBegin(t)
      PROVE  ExclusiveUse' /\ LiveInv' /\ Moves
  BY <1>8, Untouched DEF GrowBegin, netVars
<1>9. ASSUME NEW t \in Threads, NEW c \in Conns, GrowOpened(t, c)
      PROVE  ExclusiveUse' /\ LiveInv' /\ Moves
  <2>1. PICK s \in {"open", "error"} : Connects(c, s)
    BY <1>9 DEF GrowOpened
  <2>2. c \in Conns \ Reachable /\ c # NULL
    BY <2>1, NewIsUnreachable DEF Connects
  <2>3. connq = <<>> /\ conn[t] = NULL
    BY <1>9, PoolAssumption DEF GrowOpened, LockInv, GuardInv
  <2>4. connq' = connq /\ conn' = [conn EXCEPT ![t] = c]
    BY <1>9, <2>3 DEF GrowOpened, Receive
  <2>5. ExclusiveUse' /\ Reachable' = Reachable \cup {c}
    BY <2>2, <2>3, <2>4, HoldOwned
  <2>6. LiveInv'
    BY <2>1, <2>5 DEF LiveInv, Connects, TypeOK
  <2>7. OpensFor(t, c)
    BY <1>9, <2>2, <2>3, <2>4, <2>5 DEF OpensFor, GrowOpened
  <2> QED
    BY <2>5, <2>6, <2>7 DEF Moves
<1>10. ASSUME NEW t \in Threads, NEW c \in Conns, GrowSelectThrows(t, c)
       PROVE  ExclusiveUse' /\ LiveInv' /\ Moves
  BY <1>10, Untouched DEF GrowSelectThrows, SelectThrows, TypeOK
<1>11. ASSUME NEW t \in Threads, SendReply(t)
       PROVE  ExclusiveUse' /\ LiveInv' /\ Moves
  BY <1>11, Untouched DEF SendReply, poolVars, netVars
<1>12. ASSUME NEW t \in Threads, SendFails(t)
       PROVE  ExclusiveUse' /\ LiveInv' /\ Moves
  BY <1>12, Untouched DEF SendFails, poolVars, TypeOK
<1>13. ASSUME NEW t \in Threads, Release(t)
       PROVE  ExclusiveUse' /\ LiveInv' /\ Moves
  <2>1. connq' = Append(connq, conn[t]) /\ conn' = [conn EXCEPT ![t] = NULL]
    BY <1>13 DEF Release
  <2>2. ExclusiveUse' /\ Reachable' = Reachable
    BY <2>1, PushOwned
  <2>3. LiveInv'
    BY <1>13, <2>2 DEF Release, LiveInv, netVars
  <2>4. UNCHANGED Counters
    BY <1>13 DEF Release, Counters
  <2>5. CASE conn[t] = NULL
    <3>1. conn' = conn
      BY <2>1, <2>5 DEF TypeOK
    <3> QED
      BY <2>2, <2>3, <2>4, <3>1 DEF Moves, Stays, Counters
  <2>6. CASE conn[t] # NULL
    BY <2>1, <2>2, <2>3, <2>4, <2>6 DEF Moves, Returns
  <2> QED
    BY <2>5, <2>6
<1>14. CASE Destroy
  <2>1. conn = [t \in Threads |-> NULL] /\ conn' = conn /\ connq' = <<>>
    BY <1>14 DEF Destroy, GuardInv, TypeOK, threadVars
  <2>2. InQueue' = {} /\ Held' = {}
    BY <2>1, EmptySeq DEF InQueue, Held
  <2> QED
    BY <1>14, <2>1, <2>2, EmptySeq
    DEF Moves, Closes, Destroy, Reachable, LiveInv, ExclusiveUse
<1>15. CASE Environment
  <2>1. \A c \in Conns : ctx[c] \in {"open", "dropped", "error"} =>
                           ctx'[c] \in {"open", "dropped", "error"}
    BY <1>15 DEF Environment, Drop, ServerCrash, ServerRestart, TypeOK
  <2> QED
    BY <1>15, <2>1, Untouched DEF Environment, Drop, ServerCrash, ServerRestart,
                                  poolVars, threadVars
<1>16. CASE UNCHANGED vars
  BY <1>16, Untouched DEF vars, poolVars, threadVars, netVars
<1> QED
  BY <1>1, <1>2, <1>3, <1>4, <1>5, <1>6, <1>7, <1>8, <1>9, <1>10, <1>11,
     <1>12, <1>13, <1>14, <1>15, <1>16
  DEF Next, Initialize, Run

LEMMA NothingReachable ==
  ASSUME connq = <<>>, conn = [t \in Threads |-> NULL]
  PROVE  Reachable = {} /\ ExclusiveUse /\ LiveInv
<1>1. InQueue = {} /\ Held = {}
  BY EmptySeq DEF InQueue, Held
<1> QED
  BY <1>1, EmptySeq DEF Reachable, ExclusiveUse, LiveInv

LEMMA OwnershipInvariant == Spec => []OwnershipInv
<1>1. Init => OwnershipInv
  BY ControlInit, NothingReachable DEF Init, OwnershipInv
<1>2. OwnershipInv /\ [Next]_vars => OwnershipInv'
  BY ControlStep, OwnershipStep DEF OwnershipInv
<1> QED
  BY <1>1, <1>2, PTL DEF Spec

\* No interleaving of acquire, growth, failures and release ever lets two
\* threads use one hiredis context, or leaves a lent connection in the queue.
THEOREM ConnectionsAreExclusive == Spec => []ExclusiveUse
<1>1. OwnershipInv => ExclusiveUse
  BY DEF OwnershipInv
<1> QED
  BY <1>1, OwnershipInvariant, PTL

-----------------------------------------------------------------------------
(* Counting                                                                *)

LEMMA ReachableFinite ==
  ASSUME TypeOK
  PROVE  /\ Reachable \subseteq Conns
         /\ IsFiniteSet(Reachable)
         /\ Cardinality(Reachable) \in Nat
<1>1. Reachable \subseteq Conns
  BY ElementOfSeq DEF TypeOK, Reachable, InQueue, Held, Pointers
<1> QED
  BY <1>1, PoolAssumption, FS_Subset, FS_CardinalityType

LEMMA AccountingStep ==
  ASSUME OwnershipInv, Accounting, [Next]_vars
  PROVE  Accounting'
<1> USE DEF Accounting
<1>1. /\ Cardinality(Reachable) \in Nat
      /\ size \in Nat
      /\ opened \in Nat
      /\ InitSize \in Nat
  BY ReachableFinite, PoolAssumption DEF OwnershipInv, ControlInv, TypeOK
<1>2. Moves
  BY OwnershipStep
<1>3. CASE Stays
  BY <1>3 DEF Stays
<1>4. ASSUME NEW t \in Threads, NEW c \in Conns, Borrows(t, c)
      PROVE  Accounting'
  BY <1>4 DEF Borrows, Counters
<1>5. ASSUME NEW t \in Threads, Returns(t) PROVE Accounting'
  BY <1>5 DEF Returns, Counters
<1>6. ASSUME NEW c \in Conns \ Reachable, Reachable' = Reachable \cup {c}
      PROVE  Cardinality(Reachable') = Cardinality(Reachable) + 1
  BY <1>6, ReachableFinite, FS_AddElement DEF OwnershipInv, ControlInv
<1>7. ASSUME NEW c \in Conns, Opens(c) PROVE Accounting'
  <2>1. Cardinality(Reachable') = Cardinality(Reachable) + 1
    BY <1>6, <1>7 DEF Opens
  <2> QED
    BY <1>1, <1>7, <2>1 DEF Opens
<1>8. ASSUME NEW t \in Threads, NEW c \in Conns, OpensFor(t, c)
      PROVE  Accounting'
  <2>1. Cardinality(Reachable') = Cardinality(Reachable) + 1
    BY <1>6, <1>8 DEF OpensFor
  <2> QED
    BY <1>1, <1>8, <2>1 DEF OpensFor
<1>9. CASE Closes
  BY <1>9 DEF Closes
<1> QED
  BY <1>2, <1>3, <1>4, <1>5, <1>7, <1>8, <1>9 DEF Moves

LEMMA CountingInvariant == Spec => [](OwnershipInv /\ Accounting)
<1>1. Init => Accounting
  <2> SUFFICES ASSUME Init PROVE Accounting
    OBVIOUS
  <2>1. Cardinality(Reachable) = 0
    BY NothingReachable, FS_EmptySet DEF Init
  <2> QED
    BY <2>1, PoolAssumption DEF Init, Accounting
<1>2. OwnershipInv /\ Accounting /\ [Next]_vars => Accounting'
  BY AccountingStep
<1> QED
  BY <1>1, <1>2, OwnershipInvariant, PTL DEF Spec

\* size_ counts exactly the connections the pool can reach, plus what a
\* failed initialize never opened.
THEOREM SizeAccountsForConnections == Spec => []Accounting
BY CountingInvariant, PTL

LEMMA AccountingBounds == OwnershipInv /\ Accounting => PoolBound
<1> SUFFICES ASSUME OwnershipInv, Accounting PROVE PoolBound
  OBVIOUS
<1>1. TypeOK /\ PhaseInv /\ GuardInv
  BY DEF OwnershipInv, ControlInv
<1>2. CASE phase # "destroyed"
  BY <1>1, <1>2, ReachableFinite, PoolAssumption
  DEF Accounting, PoolBound, TypeOK
<1>3. CASE phase = "destroyed"
  <2>1. connq = <<>> /\ conn = [t \in Threads |-> NULL]
    BY <1>1, <1>3 DEF PhaseInv, GuardInv, TypeOK
  <2> QED
    BY <2>1, NothingReachable, FS_EmptySet, PoolAssumption DEF PoolBound
<1> QED
  BY <1>2, <1>3

\* However initialize, growth and failures interleave, the pool never reaches
\* more than max_size connections.
THEOREM PoolStaysBounded == Spec => []PoolBound
BY CountingInvariant, AccountingBounds, PTL

-----------------------------------------------------------------------------
(* Refinement                                                              *)

\* The pool keeps its promise to its threads: every step is a step of
\* ConnectionLease or changes nothing a thread can tell.
THEOREM PoolImplementsLease == Spec => LeaseSpec
<1>1. Init => Lease!Init
  BY NothingReachable DEF Init, Lease!Init
<1>2. ASSUME OwnershipInv, PoolBound, PoolBound', [Next]_vars
      PROVE  [Lease!Next]_(Lease!vars)
  <2> USE DEF Lease!Next, Lease!vars
  <2>1. TypeOK /\ ExclusiveUse
    BY <1>2 DEF OwnershipInv, ControlInv
  <2>2. Moves
    BY <1>2, OwnershipStep
  <2>3. CASE Stays
    BY <2>3 DEF Stays
  <2>4. ASSUME NEW t \in Threads, NEW c \in Conns, Borrows(t, c)
        PROVE  Lease!Lease(t, c)
    BY <2>4 DEF Borrows, Lease!Lease, Lease!Idle
  <2>5. ASSUME NEW t \in Threads, Returns(t) PROVE Lease!Return(t)
    BY <2>5 DEF Returns, Lease!Return
  <2>6. ASSUME NEW c \in Conns \ Reachable, Reachable' = Reachable \cup {c}
        PROVE  Reachable \cup {c} \in Affordable
    BY <1>2, <2>1, <2>6, ReachableFinite DEF PoolBound, Affordable
  <2>7. ASSUME NEW c \in Conns, Opens(c) PROVE Lease!Create(c)
    BY <2>6, <2>7 DEF Opens, Lease!Create
  <2>8. ASSUME NEW t \in Threads, NEW c \in Conns, OpensFor(t, c)
        PROVE  Lease!CreateAndLease(t, c)
    BY <2>6, <2>8 DEF OpensFor, Lease!CreateAndLease
  <2>9. CASE Closes
    BY <2>9 DEF Closes, Lease!Close
  <2> QED
    BY <2>2, <2>3, <2>4, <2>5, <2>7, <2>8, <2>9 DEF Moves
<1> QED
  BY <1>1, <1>2, OwnershipInvariant, PoolStaysBounded, PTL
     DEF Spec, LeaseSpec, Lease!Spec

=============================================================================
