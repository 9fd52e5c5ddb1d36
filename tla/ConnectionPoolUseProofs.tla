----------------------- MODULE ConnectionPoolUseProofs -----------------------
(***************************************************************************)
(* What the users of a ConnectionPool can rely on, for any number of       *)
(* threads and any sizes: the database that answers, the sockets left      *)
(* open, the NULLs in the queue and the refusals.  It rests on the         *)
(* invariants of ConnectionPoolProofs; what is added here relates the      *)
(* contexts to what the pool can reach.                                    *)
(***************************************************************************)
EXTENDS ConnectionPoolProofs

-----------------------------------------------------------------------------
(* Every step treats the contexts in one of four ways.                     *)

Alive(state) == state \notin {"unborn", "freed"}

Keeps ==
  /\ Reachable' = Reachable
  /\ \A c \in Conns : Alive(ctx'[c]) <=> Alive(ctx[c])
  /\ \A c \in Conns : ctx'[c] = "open" => ctx[c] = "open"
  /\ UNCHANGED <<selected, selectErrors>>

Gains(c) ==
  /\ c \in Conns \ Reachable
  /\ Reachable' = Reachable \cup {c}
  /\ \E s \in {"open", "error"} : Connects(c, s)

Leaks(c) ==
  /\ c \in Conns \ Reachable
  /\ Reachable' = Reachable
  /\ SelectThrows(c)

Frees ==
  /\ Reachable' = {}
  /\ ctx' = [c \in Conns |-> IF c \in Reachable THEN "freed" ELSE ctx[c]]
  /\ UNCHANGED <<selected, selectErrors>>

Treats ==
  \/ Keeps
  \/ \E c \in Conns : Gains(c) \/ Leaks(c)
  \/ Frees

LEMMA KeepsContexts ==
  ASSUME Reachable' = Reachable, UNCHANGED netVars
  PROVE  Treats
BY DEF Treats, Keeps, netVars

LEMMA TreatsStep ==
  ASSUME OwnershipInv, [Next]_vars
  PROVE  Treats
<1> USE DEF OwnershipInv, ControlInv
<1>1. ASSUME NEW c \in Conns, InitOpen(c) PROVE Treats
  <2>1. PICK s \in {"open", "error"} : Connects(c, s)
    BY <1>1 DEF InitOpen
  <2>2. c \in Conns \ Reachable /\ c # NULL
    BY <2>1, NewIsUnreachable DEF Connects
  <2>3. Reachable' = Reachable \cup {c}
    BY <1>1, <2>2, QueueOwned DEF InitOpen, threadVars
  <2> QED
    BY <2>1, <2>2, <2>3 DEF Treats, Gains
<1>2. ASSUME NEW c \in Conns, InitSelectThrows(c) PROVE Treats
  <2>1. c \in Conns \ Reachable
    BY <1>2, NewIsUnreachable DEF InitSelectThrows, SelectThrows
  <2> QED
    BY <1>2, <2>1, StayOwned DEF InitSelectThrows, threadVars, Treats, Leaks
<1>3. CASE InitRefused \/ InitDone
  BY <1>3, StayOwned, KeepsContexts DEF InitRefused, InitDone, threadVars
<1>4. ASSUME NEW t \in Threads, StartExecute(t) \/ GrowBegin(t) \/ SendReply(t)
      PROVE  Treats
  BY <1>4, StayOwned, KeepsContexts
  DEF StartExecute, GrowBegin, SendReply, poolVars
<1>5. ASSUME NEW t \in Threads, AcquirePop(t) PROVE Treats
  <2>1. conn[t] = NULL /\ conn' = [conn EXCEPT ![t] = Head(connq)]
    BY <1>5 DEF AcquirePop, Receive, GuardInv
  <2>2. Reachable' = Reachable
    BY <1>5, <2>1, PopOwned DEF AcquirePop
  <2> QED
    BY <1>5, <2>2, KeepsContexts DEF AcquirePop
<1>6. ASSUME NEW t \in Threads, AcquireFull(t) \/ GrowRefused(t) PROVE Treats
  <2>1. conn[t] = NULL /\ conn' = [conn EXCEPT ![t] = NULL]
    BY <1>6 DEF AcquireFull, GrowRefused, Receive, GuardInv
  <2>2. conn' = conn
    BY <2>1 DEF TypeOK
  <2> QED
    BY <1>6, <2>2, StayOwned, KeepsContexts
    DEF AcquireFull, GrowRefused, poolVars
<1>7. ASSUME NEW t \in Threads, NEW c \in Conns, GrowOpened(t, c) PROVE Treats
  <2>1. PICK s \in {"open", "error"} : Connects(c, s)
    BY <1>7 DEF GrowOpened
  <2>2. c \in Conns \ Reachable /\ c # NULL
    BY <2>1, NewIsUnreachable DEF Connects
  <2>3. connq = <<>> /\ conn[t] = NULL
    BY <1>7, PoolAssumption DEF GrowOpened, LockInv, GuardInv
  <2>4. connq' = connq /\ conn' = [conn EXCEPT ![t] = c]
    BY <1>7, <2>3 DEF GrowOpened, Receive
  <2>5. Reachable' = Reachable \cup {c}
    BY <2>2, <2>3, <2>4, HoldOwned
  <2> QED
    BY <2>1, <2>2, <2>5 DEF Treats, Gains
<1>8. ASSUME NEW t \in Threads, NEW c \in Conns, GrowSelectThrows(t, c)
      PROVE  Treats
  <2>1. c \in Conns \ Reachable
    BY <1>8, NewIsUnreachable DEF GrowSelectThrows, SelectThrows
  <2> QED
    BY <1>8, <2>1, StayOwned DEF GrowSelectThrows, Treats, Leaks
<1>9. ASSUME NEW t \in Threads, SendFails(t) PROVE Treats
  <2>1. Reachable' = Reachable
    BY <1>9, StayOwned DEF SendFails, poolVars
  <2>2. /\ \A c \in Conns : Alive(ctx'[c]) <=> Alive(ctx[c])
        /\ \A c \in Conns : ctx'[c] = "open" => ctx[c] = "open"
    BY <1>9 DEF SendFails, TypeOK, Alive
  <2> QED
    BY <1>9, <2>1, <2>2 DEF SendFails, Treats, Keeps
<1>10. ASSUME NEW t \in Threads, Release(t) PROVE Treats
  <2>1. Reachable' = Reachable
    BY <1>10, PushOwned DEF Release
  <2> QED
    BY <1>10, <2>1, KeepsContexts DEF Release
<1>11. CASE Destroy
  <2>1. conn = [t \in Threads |-> NULL] /\ conn' = conn /\ connq' = <<>>
    BY <1>11 DEF Destroy, GuardInv, TypeOK, threadVars
  <2>2. Held = {} /\ InQueue' = {} /\ Held' = {}
    BY <2>1, EmptySeq DEF InQueue, Held
  <2> QED
    BY <1>11, <2>2 DEF Destroy, Reachable, Treats, Frees
<1>12. CASE Environment
  <2>1. Reachable' = Reachable
    BY <1>12, StayOwned
    DEF Environment, Drop, ServerCrash, ServerRestart, poolVars, threadVars
  <2>2. /\ \A c \in Conns : Alive(ctx'[c]) <=> Alive(ctx[c])
        /\ \A c \in Conns : ctx'[c] = "open" => ctx[c] = "open"
    BY <1>12 DEF Environment, Drop, ServerCrash, ServerRestart, TypeOK, Alive
  <2> QED
    BY <1>12, <2>1, <2>2
    DEF Environment, Drop, ServerCrash, ServerRestart, Treats, Keeps
<1>13. CASE UNCHANGED vars
  BY <1>13, StayOwned, KeepsContexts DEF vars, poolVars, threadVars
<1> QED
  BY <1>1, <1>2, <1>3, <1>4, <1>5, <1>6, <1>7, <1>8, <1>9, <1>10, <1>11, <1>12,
     <1>13
  DEF Next, Initialize, Run

-----------------------------------------------------------------------------
(* The database that answers                                               *)

\* What the pool can reach and use has been selected.
SelectedInv == \A c \in Reachable : ctx[c] = "open" => c \in selected

LEMMA SelectedStep ==
  ASSUME OwnershipInv, SelectedInv, [Next]_vars
  PROVE  SelectedInv'
<1>1. Treats /\ TypeOK
  BY TreatsStep DEF OwnershipInv, ControlInv
<1>2. Reachable \subseteq Conns
  BY <1>1, ReachableFinite
<1>3. CASE Keeps
  BY <1>2, <1>3 DEF Keeps, SelectedInv
<1>4. ASSUME NEW c \in Conns, Gains(c) PROVE SelectedInv'
  BY <1>1, <1>2, <1>4 DEF Gains, Connects, SelectedInv, TypeOK
<1>5. ASSUME NEW c \in Conns, Leaks(c) PROVE SelectedInv'
  BY <1>1, <1>2, <1>5 DEF Leaks, SelectThrows, SelectedInv, TypeOK
<1>6. CASE Frees
  BY <1>6 DEF Frees, SelectedInv
<1> QED
  BY <1>1, <1>3, <1>4, <1>5, <1>6 DEF Treats

LEMMA SelectedInvariant == Spec => [](OwnershipInv /\ SelectedInv)
<1>1. Init => SelectedInv
  BY NothingReachable DEF Init, SelectedInv
<1>2. OwnershipInv /\ SelectedInv /\ [Next]_vars => SelectedInv'
  BY SelectedStep
<1> QED
  BY <1>1, <1>2, OwnershipInvariant, PTL DEF Spec

\* selected only grows: what was acknowledged stays acknowledged.
LEMMA SelectedGrows ==
  ASSUME OwnershipInv, [Next]_vars
  PROVE  selected \subseteq selected'
BY TreatsStep
DEF Treats, Keeps, Gains, Leaks, Frees, Connects, SelectThrows

LEMMA AnsweredStep ==
  ASSUME OwnershipInv, SelectedInv, AnsweredInDb, [Next]_vars
  PROVE  AnsweredInDb'
<1> USE DEF OwnershipInv, ControlInv
<1> SUFFICES ASSUME NEW u \in Threads, pc'[u] = "release", outcome'[u] = "reply"
             PROVE  conn'[u] \in selected'
  BY DEF AnsweredInDb
<1>1. CASE UNCHANGED threadVars
  BY <1>1, SelectedGrows DEF AnsweredInDb, threadVars
<1>2. ASSUME NEW t \in Threads, NEW p \in Pointers, Receive(t, p)
      PROVE  conn'[u] \in selected'
  <2>1. u # t
    BY <1>2 DEF Receive, TypeOK
  <2> QED
    BY <1>2, <2>1, SelectedGrows DEF AnsweredInDb, Receive, TypeOK
<1>3. ASSUME NEW t \in Threads, StartExecute(t) PROVE conn'[u] \in selected'
  BY <1>3, SelectedGrows DEF AnsweredInDb, StartExecute, TypeOK
<1>4. ASSUME NEW t \in Threads, AcquirePop(t) PROVE conn'[u] \in selected'
  <2>1. Head(connq) \in Pointers
    BY <1>4, HeadTailProperties DEF AcquirePop, TypeOK
  <2> QED
    BY <1>2, <1>4, <2>1 DEF AcquirePop
<1>5. ASSUME NEW t \in Threads, AcquireFull(t) \/ GrowRefused(t)
      PROVE  conn'[u] \in selected'
  BY <1>2, <1>5 DEF AcquireFull, GrowRefused, Pointers
<1>6. ASSUME NEW t \in Threads, GrowBegin(t) PROVE conn'[u] \in selected'
  BY <1>6, SelectedGrows DEF AnsweredInDb, GrowBegin, TypeOK
<1>7. ASSUME NEW t \in Threads, NEW c \in Conns, GrowOpened(t, c)
      PROVE  conn'[u] \in selected'
  <2>1. connq = <<>>
    BY <1>7, PoolAssumption DEF GrowOpened, LockInv
  <2>2. Head(Append(connq, c)) = c
    BY <2>1
  <2> QED
    BY <1>2, <1>7, <2>2 DEF GrowOpened, Pointers
<1>8. ASSUME NEW t \in Threads, NEW c \in Conns, GrowSelectThrows(t, c)
      PROVE  conn'[u] \in selected'
  BY <1>8, SelectedGrows DEF AnsweredInDb, GrowSelectThrows, TypeOK
<1>9. ASSUME NEW t \in Threads, SendReply(t) PROVE conn'[u] \in selected'
  <2>1. CASE u = t
    <3>1. conn[t] \in Reachable /\ ctx[conn[t]] = "open"
      BY <1>9 DEF SendReply, GuardInv, Reachable, Held
    <3> QED
      BY <1>9, <2>1, <3>1, SelectedGrows DEF SelectedInv, SendReply
  <2>2. CASE u # t
    BY <1>9, <2>2, SelectedGrows DEF AnsweredInDb, SendReply, TypeOK
  <2> QED
    BY <2>1, <2>2
<1>10. ASSUME NEW t \in Threads, SendFails(t) PROVE conn'[u] \in selected'
  BY <1>10, SelectedGrows DEF AnsweredInDb, SendFails, TypeOK
<1>11. ASSUME NEW t \in Threads, Release(t) PROVE conn'[u] \in selected'
  BY <1>11, SelectedGrows DEF AnsweredInDb, Release, TypeOK
<1>12. CASE Initialize \/ Destroy \/ Environment \/ UNCHANGED vars
  BY <1>1, <1>12
  DEF Initialize, InitOpen, InitSelectThrows, InitRefused, InitDone, Destroy,
      Environment, Drop, ServerCrash, ServerRestart, vars
<1> QED
  BY <1>3, <1>4, <1>5, <1>6, <1>7, <1>8, <1>9, <1>10, <1>11, <1>12
  DEF Next, Run

\* Although initialize and acquire ignore what select returns, no command is
\* ever answered by a connection whose SELECT was not acknowledged.
THEOREM RepliesComeFromTheSelectedDb == Spec => []AnsweredInDb
<1>1. Init => AnsweredInDb
  BY DEF Init, AnsweredInDb
<1>2. OwnershipInv /\ SelectedInv /\ AnsweredInDb /\ [Next]_vars => AnsweredInDb'
  BY AnsweredStep
<1> QED
  BY <1>1, <1>2, SelectedInvariant, PTL DEF Spec

-----------------------------------------------------------------------------
(* The sockets left open                                                   *)

LEMMA LeakStep ==
  ASSUME OwnershipInv, OnlyThrownSelectsLeak, [Next]_vars
  PROVE  OnlyThrownSelectsLeak'
<1>1. Treats /\ TypeOK /\ LiveInv
  BY TreatsStep DEF OwnershipInv, ControlInv
<1>2. Reachable \subseteq Conns /\ IsFiniteSet(Orphans)
  BY <1>1, ReachableFinite, PoolAssumption, FS_Subset DEF Orphans
<1>3. CASE Keeps
  <2>1. Orphans' = Orphans
    BY <1>3 DEF Keeps, Orphans, Alive
  <2> QED
    BY <1>3, <2>1 DEF Keeps, OnlyThrownSelectsLeak
<1>4. ASSUME NEW c \in Conns, Gains(c) PROVE OnlyThrownSelectsLeak'
  <2>1. Orphans' = Orphans
    BY <1>1, <1>4 DEF Gains, Connects, Orphans, TypeOK
  <2> QED
    BY <1>4, <2>1 DEF Gains, Connects, OnlyThrownSelectsLeak
<1>5. ASSUME NEW c \in Conns, Leaks(c) PROVE OnlyThrownSelectsLeak'
  <2>1. Orphans' = Orphans \cup {c} /\ c \notin Orphans
    BY <1>1, <1>5 DEF Leaks, SelectThrows, Orphans, TypeOK
  <2>2. Cardinality(Orphans') = Cardinality(Orphans) + 1
    BY <1>2, <2>1, FS_AddElement
  <2> QED
    BY <1>5, <2>2 DEF Leaks, SelectThrows, OnlyThrownSelectsLeak
<1>6. CASE Frees
  <2>1. Orphans' = Orphans
    BY <1>2, <1>6 DEF Frees, Orphans
  <2> QED
    BY <1>6, <2>1 DEF Frees, OnlyThrownSelectsLeak
<1> QED
  BY <1>1, <1>3, <1>4, <1>5, <1>6 DEF Treats

\* A socket outlives the pool's pointers to it only if its SELECT was answered
\* with an error; growth, failures and the destructor leak nothing.
THEOREM OnlyErrorsLeakSockets == Spec => []OnlyThrownSelectsLeak
<1>1. Init => OnlyThrownSelectsLeak
  <2> SUFFICES ASSUME Init PROVE OnlyThrownSelectsLeak
    OBVIOUS
  <2>1. Orphans = {}
    BY DEF Init, Orphans
  <2> QED
    BY <2>1, FS_EmptySet DEF Init, OnlyThrownSelectsLeak
<1>2. OwnershipInv /\ OnlyThrownSelectsLeak /\ [Next]_vars => OnlyThrownSelectsLeak'
  BY LeakStep
<1> QED
  BY <1>1, <1>2, OwnershipInvariant, PTL DEF Spec
-----------------------------------------------------------------------------
(* The NULLs in the queue                                                  *)

LEMMA HoldersFinite ==
  /\ IsFiniteSet(Holders)
  /\ Cardinality(Holders) \in Nat
  /\ Cardinality(Threads) \in Nat
  /\ Cardinality(Holders) <= Cardinality(Threads)
<1>1. Holders \subseteq Threads
  BY DEF Holders
<1> QED
  BY <1>1, PoolAssumption, FS_Subset, FS_CardinalityType

\* An empty queue leaves one token for each thread.
LEMMA TokensOfThreads ==
  ASSUME connq' = <<>>
  PROVE  TokenBound'
<1>1. Len(connq') = 0
  BY EmptySeq
<1>2. Holders' \in SUBSET Threads
  BY DEF Holders
<1>3. /\ Cardinality(Holders') \in Nat
      /\ Cardinality(Threads) \in Nat
      /\ Cardinality(Holders') <= Cardinality(Threads)
  BY <1>2, PoolAssumption, FS_Subset, FS_CardinalityType
<1> QED
  BY <1>1, <1>3, PoolAssumption DEF TokenBound

\* What TokenBound counts changes in one of three ways.
LEMMA TokensSame ==
  ASSUME TokenBound, connq' = connq, Holders' = Holders
  PROVE  TokenBound'
BY DEF TokenBound

LEMMA TokenStep ==
  ASSUME ControlInv, TokenBound, [Next]_vars
  PROVE  TokenBound'
<1> USE DEF ControlInv
<1>1. Len(connq) \in Nat
  BY LenProperties DEF TypeOK
<1>2. ASSUME NEW c \in Conns, InitOpen(c) PROVE TokenBound'
  <2>1. Len(connq') = Len(connq) + 1 /\ Len(connq) < InitSize
    BY <1>2, AppendProperties DEF InitOpen, PhaseInv, TypeOK, Pointers
  <2>2. Holders' = {}
    BY <1>2 DEF InitOpen, PhaseInv, Holders, threadVars
  <2>3. Cardinality(Holders') = 0
    BY <2>2, FS_EmptySet
  <2> QED
    BY <1>1, <2>1, <2>3, HoldersFinite, PoolAssumption DEF TokenBound
<1>3. CASE \E c \in Conns : InitSelectThrows(c)
  BY <1>3, TokensSame DEF InitSelectThrows, Holders, threadVars
<1>4. CASE InitRefused \/ InitDone
  BY <1>4, TokensSame DEF InitRefused, InitDone, Holders, threadVars
<1>5. ASSUME NEW t \in Threads, StartExecute(t) \/ GrowBegin(t) PROVE TokenBound'
  <2>1. Holders' = Holders
    BY <1>5 DEF StartExecute, GrowBegin, Holders, TypeOK
  <2> QED
    BY <1>5, <2>1, TokensSame DEF StartExecute, GrowBegin, poolVars
<1>6. ASSUME NEW t \in Threads, AcquirePop(t) PROVE TokenBound'
  <2>1. Len(connq') = Len(connq) - 1
    BY <1>6, HeadTailProperties DEF AcquirePop, TypeOK
  <2>2. Holders' = Holders \cup {t} /\ t \notin Holders
    BY <1>6 DEF AcquirePop, Receive, Holders, TypeOK
  <2>3. Cardinality(Holders') = Cardinality(Holders) + 1
    BY <2>2, HoldersFinite, FS_AddElement
  <2> QED
    BY <1>1, <2>1, <2>3, HoldersFinite, PoolAssumption DEF TokenBound
<1>7. ASSUME NEW t \in Threads, AcquireFull(t) PROVE TokenBound'
  <2>1. connq' = <<>>
    BY <1>7 DEF AcquireFull, poolVars
  <2> QED
    BY <2>1, TokensOfThreads
<1>8. ASSUME NEW t \in Threads,
             \/ GrowRefused(t)
             \/ \E c \in Conns : GrowOpened(t, c) \/ GrowSelectThrows(t, c)
      PROVE  TokenBound'
  <2>1. connq = <<>>
    BY <1>8, PoolAssumption
    DEF GrowOpened, GrowRefused, GrowSelectThrows, LockInv
  <2>2. \A c \in Conns : Tail(Append(connq, c)) = <<>>
    BY <2>1
  <2>3. connq' = <<>>
    BY <1>8, <2>1, <2>2 DEF GrowOpened, GrowRefused, GrowSelectThrows
  <2> QED
    BY <2>3, TokensOfThreads
<1>9. ASSUME NEW t \in Threads, SendReply(t) \/ SendFails(t) PROVE TokenBound'
  <2>1. Holders' = Holders
    BY <1>9 DEF SendReply, SendFails, Holders, TypeOK
  <2> QED
    BY <1>9, <2>1, TokensSame DEF SendReply, SendFails, poolVars
<1>10. ASSUME NEW t \in Threads, Release(t) PROVE TokenBound'
  <2>1. Len(connq') = Len(connq) + 1
    BY <1>10, AppendProperties DEF Release, TypeOK
  <2>2. Holders' = Holders \ {t} /\ t \in Holders
    BY <1>10 DEF Release, Holders, TypeOK
  <2>3. Cardinality(Holders') = Cardinality(Holders) - 1
    BY <2>2, HoldersFinite, FS_RemoveElement
  <2> QED
    BY <1>1, <2>1, <2>3, HoldersFinite, PoolAssumption DEF TokenBound
<1>11. CASE Destroy
  BY <1>11, TokensOfThreads DEF Destroy
<1>12. CASE Environment \/ UNCHANGED vars
  BY <1>12, TokensSame
  DEF Environment, Drop, ServerCrash, ServerRestart, Holders, poolVars,
      threadVars, vars
<1> QED
  BY <1>2, <1>3, <1>4, <1>5, <1>6, <1>7, <1>8, <1>9, <1>10, <1>11, <1>12
  DEF Next, Initialize, Run

\* The NULLs that refused calls push into the queue never pile up, whatever the
\* number of calls.
THEOREM NullsNeverPileUp == Spec => []TokenBound
<1>1. Init => TokenBound
  <2> SUFFICES ASSUME Init PROVE TokenBound
    OBVIOUS
  <2>1. Len(connq) = 0 /\ Holders = {}
    BY EmptySeq DEF Init, Holders
  <2>2. Cardinality(Holders) = 0
    BY <2>1, FS_EmptySet
  <2>3. 0 + 0 <= Cardinality(Threads) /\ 0 + 0 <= InitSize
    BY HoldersFinite, PoolAssumption
  <2> QED
    BY <2>1, <2>2, <2>3 DEF TokenBound
<1>2. ControlInv /\ TokenBound /\ [Next]_vars => TokenBound'
  BY TokenStep
<1> QED
  BY <1>1, <1>2, ControlInvariant, PTL DEF Spec

-----------------------------------------------------------------------------
(* The refusals                                                            *)

\* A thread that holds nothing leaves at most the others with a connection.
LEMMA OthersHold ==
  ASSUME TypeOK, NEW t \in Threads, conn[t] = NULL
  PROVE  Cardinality(Held) < Cardinality(Threads)
<1> DEFINE S == {u \in Threads : conn[u] # NULL}
           f == [u \in S |-> conn[u]]
<1>1. S \in SUBSET (Threads \ {t})
  OBVIOUS
<1>2. /\ IsFiniteSet(Threads \ {t})
      /\ Cardinality(Threads \ {t}) = Cardinality(Threads) - 1
  BY PoolAssumption, FS_RemoveElement
<1>3. IsFiniteSet(S) /\ Cardinality(S) <= Cardinality(Threads \ {t})
  BY <1>1, <1>2, FS_Subset
<1>4. f \in Surjection(S, Held)
  BY DEF Surjection, Held
<1>5. IsFiniteSet(Held) /\ Cardinality(Held) <= Cardinality(S)
  <2> HIDE DEF S, f
  <2> QED
    BY <1>3, <1>4, FS_Surjection
<1>6. /\ Cardinality(Held) \in Nat
      /\ Cardinality(S) \in Nat
      /\ Cardinality(Threads) \in Nat
  BY <1>3, <1>5, PoolAssumption, FS_CardinalityType
<1> QED
  BY <1>2, <1>3, <1>5, <1>6

\* The queue is empty and the pool may not grow: everything it reaches is held.
LEMMA FullMeansHeld ==
  ASSUME OwnershipInv, Accounting, NEW t \in Threads, AcquireFull(t)
  PROVE  Cardinality(Threads) > MaxSize - (InitSize - opened)
<1> USE DEF OwnershipInv, ControlInv
<1>1. phase = "ready"
  BY DEF AcquireFull, PhaseInv, TypeOK
<1>2. conn[t] = NULL
  BY DEF AcquireFull, GuardInv
<1>3. InQueue = {}
  BY EmptySeq DEF AcquireFull, InQueue
<1>4. Cardinality(Held) = Cardinality(Reachable)
  BY <1>3 DEF Reachable
<1>5. Cardinality(Reachable) + InitSize = size + opened /\ size = MaxSize
  BY <1>1, PoolAssumption DEF Accounting, AcquireFull, TypeOK
<1>6. Cardinality(Held) < Cardinality(Threads)
  BY <1>2, OthersHold
<1>7. /\ Cardinality(Reachable) \in Nat
      /\ Cardinality(Threads) \in Nat
      /\ MaxSize \in Nat
      /\ InitSize \in Nat
      /\ opened \in Nat
  BY ReachableFinite, FS_CardinalityType, PoolAssumption DEF TypeOK
<1> QED
  BY <1>4, <1>5, <1>6, <1>7

Refused(t) ==
  outcome[t] # "ConnectionException" /\ outcome'[t] = "ConnectionException"
Excused(t) ==
  \/ pc[t] = "grow"
  \/ connq # <<>> /\ Head(connq) = NULL
  \/ Cardinality(Threads) > MaxSize - (InitSize - opened)

LEMMA RefusalStep ==
  ASSUME OwnershipInv, Accounting, [Next]_vars, NEW u \in Threads, Refused(u)
  PROVE  Excused(u)
<1> USE DEF Refused
<1>1. TypeOK /\ LockInv
  BY DEF OwnershipInv, ControlInv
<1>2. ASSUME NEW t \in Threads, NEW p \in Pointers, Receive(t, p)
      PROVE  t = u /\ p = NULL
  BY <1>1, <1>2 DEF Receive, TypeOK
<1>3. ASSUME NEW t \in Threads, AcquirePop(t) PROVE Excused(u)
  <2>1. Head(connq) \in Pointers
    BY <1>1, <1>3, HeadTailProperties DEF AcquirePop, TypeOK
  <2> QED
    BY <1>2, <1>3, <2>1 DEF AcquirePop, Excused
<1>4. ASSUME NEW t \in Threads, AcquireFull(t) PROVE Excused(u)
  BY <1>4, FullMeansHeld DEF Excused
<1>5. ASSUME NEW t \in Threads, GrowRefused(t) PROVE Excused(u)
  BY <1>2, <1>5 DEF GrowRefused, Excused, Pointers
<1>6. ASSUME NEW t \in Threads, NEW c \in Conns, GrowOpened(t, c)
      PROVE  Excused(u)
  <2>1. connq = <<>>
    BY <1>1, <1>6, PoolAssumption DEF GrowOpened, LockInv
  <2>2. Head(Append(connq, c)) = c
    BY <2>1
  <2> QED
    BY <1>2, <1>6, <2>2, PoolAssumption DEF GrowOpened, Pointers
<1>7. ASSUME NEW t \in Threads,
             \/ StartExecute(t) \/ GrowBegin(t)
             \/ \E c \in Conns : GrowSelectThrows(t, c)
             \/ SendReply(t) \/ SendFails(t) \/ Release(t)
      PROVE  FALSE
  BY <1>1, <1>7
  DEF StartExecute, GrowBegin, GrowSelectThrows, SendReply, SendFails, Release,
      TypeOK
<1>8. CASE Initialize \/ Destroy \/ Environment \/ UNCHANGED vars
  BY <1>8
  DEF Initialize, InitOpen, InitSelectThrows, InitRefused, InitDone, Destroy,
      Environment, Drop, ServerCrash, ServerRestart, threadVars, vars
<1> QED
  BY <1>3, <1>4, <1>5, <1>6, <1>7, <1>8 DEF Next, Run

\* execute finds no connection only when the server refused one, now or in the
\* call that left the NULL, or with more threads than there is room for.
THEOREM RefusalsHaveAReason == Spec => RefusedOnlyAfterFailure
<1>1. OwnershipInv /\ Accounting /\ [Next]_vars =>
        [\A t \in Threads : Refused(t) => Excused(t)]_vars
  BY RefusalStep
<1>2. (\A t \in Threads : Refused(t) => Excused(t)) <=>
        \A t \in Threads :
          outcome[t] # "ConnectionException" /\ outcome'[t] = "ConnectionException" =>
            \/ pc[t] = "grow"
            \/ connq # <<>> /\ Head(connq) = NULL
            \/ Cardinality(Threads) > MaxSize - (InitSize - opened)
  BY DEF Refused, Excused
<1> QED
  BY <1>1, <1>2, CountingInvariant, PTL DEF Spec, RefusedOnlyAfterFailure

=============================================================================
