--------------------------- MODULE ConnectionPool ---------------------------
(***************************************************************************)
(* redis::ConnectionPool, the ConnectionGuard that borrows from it and the *)
(* way Client::execute uses both (src/src/connection_pool.cpp and .hpp,    *)
(* connection.cpp, redis_client.cpp:50-58).                                *)
(*                                                                         *)
(* One pool, from its constructor to its destructor, shared by Threads     *)
(* that run commands through it.  initialize() runs before the threads     *)
(* see the pool, as in the first Client::connect; every later step is one  *)
(* critical section of mtx_, the blocking connect and SELECT inside        *)
(* acquire() (which keeps mtx_), or one command on a borrowed connection.  *)
(*                                                                         *)
(* ctx[c] is the hiredis context of Connection c.  A context that has seen *)
(* an I/O error keeps its err flag, and every later command on it fails.   *)
(***************************************************************************)
EXTENDS Integers, Sequences, FiniteSets

CONSTANTS
  Threads,          \* application threads
  Conns,            \* identities of Connection objects
  NULL,             \* the null Connection pointer; also "nobody holds mtx_"
  InitSize,         \* the constructor's size
  MaxSize,          \* the constructor's max_size
  MaxCalls,         \* bound: calls of execute() in a behaviour
  MaxSelectErrors,  \* bound: SELECTs the server answers with an error
  Faults            \* which of "crash", "drop" and "select" can happen

ASSUME PoolAssumption ==
  /\ IsFiniteSet(Threads)
  /\ IsFiniteSet(Conns)
  /\ NULL \notin Threads \cup Conns
  /\ InitSize \in Nat
  /\ MaxSize \in Nat
  /\ InitSize <= MaxSize
  /\ MaxCalls \in Nat
  /\ MaxSelectErrors \in Nat
  /\ Faults \subseteq {"crash", "drop", "select"}

VARIABLES
  connq,         \* connq_: pointers ready to be borrowed, NULL included
  size,          \* size_: what the pool believes it has opened
  mtx,           \* mtx_: the thread inside acquire's blocking connect, or NULL
  phase,         \* which part of the pool's life this is
  opened,        \* initialize's loop counter i
  pc,            \* where each thread is
  conn,          \* ConnectionGuard::conn_ of each thread, NULL without guard
  outcome,       \* how a thread's last call of execute ended
  ctx,           \* the state of each Connection's context
  selected,      \* connections whose SELECT the server acknowledged
  server,        \* the server is up
  calls,         \* calls of execute() so far (bounded by MaxCalls)
  selectErrors   \* SELECT errors so far (bounded by MaxSelectErrors)

poolVars   == <<connq, size, mtx, phase, opened>>
threadVars == <<pc, conn, outcome, calls>>
netVars    == <<ctx, selected, server, selectErrors>>
vars == <<poolVars, threadVars, netVars>>

Pointers == Conns \cup {NULL}
Outcomes == {"none", "reply", "CommandException", "ConnectionException",
             "ValueException"}

TypeOK ==
  /\ connq \in Seq(Pointers)
  /\ size \in 0 .. MaxSize
  /\ mtx \in Threads \cup {NULL}
  /\ phase \in {"initialize", "ready", "destroyed"}
  /\ opened \in 0 .. InitSize
  /\ pc \in [Threads -> {"idle", "acquire", "grow", "send", "release"}]
  /\ conn \in [Threads -> Pointers]
  /\ outcome \in [Threads -> Outcomes]
  /\ ctx \in [Conns -> {"unborn", "open", "dropped", "error", "freed"}]
  /\ selected \subseteq Conns
  /\ server \in BOOLEAN
  /\ calls \in 0 .. MaxCalls
  /\ selectErrors \in 0 .. MaxSelectErrors

-----------------------------------------------------------------------------
(* What the pool can still reach.                                          *)

InQueue == {connq[i] : i \in 1 .. Len(connq)} \ {NULL}
Held == {conn[t] : t \in Threads} \ {NULL}
Reachable == InQueue \cup Held

\* Threads inside a ConnectionGuard's scope, with a connection or with NULL.
Holders == {t \in Threads : pc[t] \in {"send", "release"}}

\* Contexts that are live although no pointer of the pool leads to them.
Orphans == {c \in Conns \ Reachable : ctx[c] \notin {"unborn", "freed"}}

-----------------------------------------------------------------------------
(* new Connection, a connect() that succeeds and a select() that returns:  *)
(* the pool keeps the connection whether SELECT succeeded or its reply was *)
(* lost, because both callers ignore select's result.                      *)

Connects(c, s) ==
  /\ server
  /\ ctx[c] = "unborn"
  /\ \/ s = "open" /\ selected' = selected \cup {c}
     \/ s = "error" /\ Faults \cap {"crash", "drop"} # {} /\ UNCHANGED selected
  /\ ctx' = [ctx EXCEPT ![c] = s]
  /\ UNCHANGED <<server, selectErrors>>

\* SELECT is answered with an error: select() throws, the caller's local
\* pointer dies and the context stays open for ever.
SelectThrows(c) ==
  /\ server
  /\ "select" \in Faults
  /\ selectErrors < MaxSelectErrors
  /\ ctx[c] = "unborn"
  /\ ctx' = [ctx EXCEPT ![c] = "open"]
  /\ selectErrors' = selectErrors + 1
  /\ UNCHANGED <<selected, server>>

-----------------------------------------------------------------------------
(* initialize()                                                            *)

InitOpen(c) ==
  /\ phase = "initialize"
  /\ opened < size
  /\ \E s \in {"open", "error"} : Connects(c, s)
  /\ connq' = Append(connq, c)
  /\ opened' = opened + 1
  /\ UNCHANGED <<size, mtx, phase, threadVars>>

\* connect() is refused: initialize returns -1.  Client::connect hands that
\* to its caller, who still has a Client with a pool.
InitRefused ==
  /\ phase = "initialize"
  /\ opened < size
  /\ ~server
  /\ phase' = "ready"
  /\ UNCHANGED <<connq, size, mtx, opened, threadVars, netVars>>

InitSelectThrows(c) ==
  /\ phase = "initialize"
  /\ opened < size
  /\ SelectThrows(c)
  /\ phase' = "ready"
  /\ UNCHANGED <<connq, size, mtx, opened, threadVars>>

InitDone ==
  /\ phase = "initialize"
  /\ opened >= size
  /\ phase' = "ready"
  /\ UNCHANGED <<connq, size, mtx, opened, threadVars, netVars>>

-----------------------------------------------------------------------------
(* Client::execute: the guard's constructor calls acquire() ...            *)

StartExecute(t) ==
  /\ phase = "ready"
  /\ pc[t] = "idle"
  /\ calls < MaxCalls
  /\ calls' = calls + 1
  /\ pc' = [pc EXCEPT ![t] = "acquire"]
  /\ outcome' = [outcome EXCEPT ![t] = "none"]
  /\ UNCHANGED <<poolVars, conn, netVars>>

\* The guard now holds pointer p.  With NULL, execute throws
\* ConnectionException("no available redis Connection").
Receive(t, p) ==
  /\ conn' = [conn EXCEPT ![t] = p]
  /\ IF p = NULL
     THEN /\ pc' = [pc EXCEPT ![t] = "release"]
          /\ outcome' = [outcome EXCEPT ![t] = "ConnectionException"]
     ELSE /\ pc' = [pc EXCEPT ![t] = "send"]
          /\ UNCHANGED outcome
  /\ UNCHANGED calls

\* Mutants of AcquirePop: pop() forgotten; and forgotten only for a NULL.
AcquireWithoutPop(t) ==
  /\ pc[t] = "acquire" /\ mtx = NULL /\ connq # <<>>
  /\ Receive(t, Head(connq))
  /\ UNCHANGED <<poolVars, netVars>>

AcquireKeepingNulls(t) ==
  /\ pc[t] = "acquire" /\ mtx = NULL /\ connq # <<>>
  /\ Receive(t, Head(connq))
  /\ connq' = IF Head(connq) = NULL THEN connq ELSE Tail(connq)
  /\ UNCHANGED <<size, mtx, phase, opened, netVars>>

AcquirePop(t) ==
  /\ pc[t] = "acquire"
  /\ mtx = NULL
  /\ connq # <<>>
  /\ Receive(t, Head(connq))
  /\ connq' = Tail(connq)
  /\ UNCHANGED <<size, mtx, phase, opened, netVars>>

\* Mutant of AcquireFull: refuses without asking whether the pool may grow.
AcquireNeverGrowing(t) ==
  /\ pc[t] = "acquire" /\ mtx = NULL /\ connq = <<>>
  /\ Receive(t, NULL)
  /\ UNCHANGED <<poolVars, netVars>>

AcquireFull(t) ==
  /\ pc[t] = "acquire"
  /\ mtx = NULL
  /\ connq = <<>>
  /\ size >= MaxSize
  /\ Receive(t, NULL)
  /\ UNCHANGED <<poolVars, netVars>>

\* Mutant of GrowBegin: the bound is off by one.
GrowPastMax(t) ==
  /\ pc[t] = "acquire" /\ mtx = NULL /\ connq = <<>>
  /\ size <= MaxSize
  /\ mtx' = t
  /\ pc' = [pc EXCEPT ![t] = "grow"]
  /\ UNCHANGED <<connq, size, phase, opened, conn, outcome, calls, netVars>>

\* Below max_size_: connect while holding mtx_.
GrowBegin(t) ==
  /\ pc[t] = "acquire"
  /\ mtx = NULL
  /\ connq = <<>>
  /\ size < MaxSize
  /\ mtx' = t
  /\ pc' = [pc EXCEPT ![t] = "grow"]
  /\ UNCHANGED <<connq, size, phase, opened, conn, outcome, calls, netVars>>

\* Mutant of GrowOpened: ++size_ forgotten.
GrowUncounted(t, c) ==
  /\ pc[t] = "grow"
  /\ \E s \in {"open", "error"} : Connects(c, s)
  /\ Receive(t, c)
  /\ mtx' = NULL
  /\ UNCHANGED <<connq, size, phase, opened>>

GrowOpened(t, c) ==
  /\ pc[t] = "grow"
  /\ \E s \in {"open", "error"} : Connects(c, s)
  /\ LET q == Append(connq, c)
     IN /\ Receive(t, Head(q))
        /\ connq' = Tail(q)
  /\ size' = size + 1
  /\ mtx' = NULL
  /\ UNCHANGED <<phase, opened>>

GrowRefused(t) ==
  /\ pc[t] = "grow"
  /\ ~server
  /\ Receive(t, NULL)
  /\ mtx' = NULL
  /\ UNCHANGED <<connq, size, phase, opened, netVars>>

\* Mutant of GrowSelectThrows: mtx_ locked and unlocked by hand.
GrowThrowsLocked(t, c) ==
  /\ pc[t] = "grow"
  /\ SelectThrows(c)
  /\ pc' = [pc EXCEPT ![t] = "idle"]
  /\ outcome' = [outcome EXCEPT ![t] = "ValueException"]
  /\ UNCHANGED <<connq, size, mtx, phase, opened, conn, calls>>

\* The exception leaves acquire before the guard exists: lock_guard unlocks
\* and nothing is released.
GrowSelectThrows(t, c) ==
  /\ pc[t] = "grow"
  /\ SelectThrows(c)
  /\ mtx' = NULL
  /\ pc' = [pc EXCEPT ![t] = "idle"]
  /\ outcome' = [outcome EXCEPT ![t] = "ValueException"]
  /\ UNCHANGED <<connq, size, phase, opened, conn, calls>>

-----------------------------------------------------------------------------
(* ... send_command runs, and the guard's destructor calls release().      *)

\* Mutant of SendReply: a command works on a context that has seen an error.
SendOnErrorContext(t) ==
  /\ pc[t] = "send"
  /\ ctx[conn[t]] \in {"open", "error"}
  /\ outcome' = [outcome EXCEPT ![t] = "reply"]
  /\ pc' = [pc EXCEPT ![t] = "release"]
  /\ UNCHANGED <<poolVars, conn, calls, netVars>>

SendReply(t) ==
  /\ pc[t] = "send"
  /\ ctx[conn[t]] = "open"
  /\ outcome' = [outcome EXCEPT ![t] = "reply"]
  /\ pc' = [pc EXCEPT ![t] = "release"]
  /\ UNCHANGED <<poolVars, conn, calls, netVars>>

SendFails(t) ==
  /\ pc[t] = "send"
  /\ ctx[conn[t]] \in {"dropped", "error"}
  /\ ctx' = [ctx EXCEPT ![conn[t]] = "error"]
  /\ outcome' = [outcome EXCEPT ![t] = "CommandException"]
  /\ pc' = [pc EXCEPT ![t] = "release"]
  /\ UNCHANGED <<poolVars, conn, calls, selected, server, selectErrors>>

\* Mutant of Release: a broken connection is dropped without --size_.
ReleaseDroppingBroken(t) ==
  /\ pc[t] = "release" /\ mtx = NULL
  /\ connq' = IF conn[t] # NULL /\ ctx[conn[t]] = "error"
              THEN connq ELSE Append(connq, conn[t])
  /\ conn' = [conn EXCEPT ![t] = NULL]
  /\ pc' = [pc EXCEPT ![t] = "idle"]
  /\ UNCHANGED <<size, mtx, phase, opened, outcome, calls, netVars>>

\* Whatever the guard holds goes back: a broken connection, and NULL too.
Release(t) ==
  /\ pc[t] = "release"
  /\ mtx = NULL
  /\ connq' = Append(connq, conn[t])
  /\ conn' = [conn EXCEPT ![t] = NULL]
  /\ pc' = [pc EXCEPT ![t] = "idle"]
  /\ UNCHANGED <<size, mtx, phase, opened, outcome, calls, netVars>>

-----------------------------------------------------------------------------
\* Mutant of Destroy: the queue is emptied and nothing deleted.
DestroyWithoutDelete ==
  /\ phase = "ready"
  /\ \A t \in Threads : pc[t] = "idle"
  /\ connq' = <<>>
  /\ phase' = "destroyed"
  /\ UNCHANGED <<size, mtx, opened, threadVars, netVars>>

\* ~ConnectionPool, once the threads are done with the pool.
Destroy ==
  /\ phase = "ready"
  /\ \A t \in Threads : pc[t] = "idle"
  /\ ctx' = [c \in Conns |-> IF c \in InQueue THEN "freed" ELSE ctx[c]]
  /\ connq' = <<>>
  /\ phase' = "destroyed"
  /\ UNCHANGED <<size, mtx, opened, threadVars, selected, server, selectErrors>>

(* The environment: the server closes one connection, or goes down and     *)
(* takes every open connection with it, and comes back.                    *)

Drop(c) ==
  /\ "drop" \in Faults
  /\ ctx[c] = "open"
  /\ ctx' = [ctx EXCEPT ![c] = "dropped"]
  /\ UNCHANGED <<poolVars, threadVars, selected, server, selectErrors>>

ServerCrash ==
  /\ "crash" \in Faults
  /\ server
  /\ server' = FALSE
  /\ ctx' = [c \in Conns |-> IF ctx[c] = "open" THEN "dropped" ELSE ctx[c]]
  /\ UNCHANGED <<poolVars, threadVars, selected, selectErrors>>

ServerRestart ==
  /\ ~server
  /\ server' = TRUE
  /\ UNCHANGED <<poolVars, threadVars, ctx, selected, selectErrors>>

-----------------------------------------------------------------------------
Init ==
  /\ connq = <<>>
  /\ size = InitSize
  /\ mtx = NULL
  /\ phase = "initialize"
  /\ opened = 0
  /\ pc = [t \in Threads |-> "idle"]
  /\ conn = [t \in Threads |-> NULL]
  /\ outcome = [t \in Threads |-> "none"]
  /\ ctx = [c \in Conns |-> "unborn"]
  /\ selected = {}
  /\ server = TRUE
  /\ calls = 0
  /\ selectErrors = 0

Initialize ==
  \/ \E c \in Conns : InitOpen(c) \/ InitSelectThrows(c)
  \/ InitRefused
  \/ InitDone

\* A call in progress: the steps the scheduler owes a running thread.
Run(t) ==
  \/ AcquirePop(t) \/ AcquireFull(t) \/ GrowBegin(t)
  \/ \E c \in Conns : GrowOpened(t, c) \/ GrowSelectThrows(t, c)
  \/ GrowRefused(t)
  \/ SendReply(t) \/ SendFails(t)
  \/ Release(t)

Environment ==
  \/ \E c \in Conns : Drop(c)
  \/ ServerCrash
  \/ ServerRestart

Next ==
  \/ Initialize
  \/ \E t \in Threads : StartExecute(t) \/ Run(t)
  \/ Destroy
  \/ Environment

Spec == Init /\ [][Next]_vars

\* A thread that started a call keeps running.  mtx_ promises no queueing
\* order; weak fairness is enough because the calls in a behaviour are finite.
FairSpec == Spec /\ \A t \in Threads : WF_vars(Run(t))

-----------------------------------------------------------------------------
(* Safety                                                                  *)

\* A connection is in one place: two threads never run commands on the same
\* hiredis context, and a borrowed connection cannot be borrowed again
\* (acquire and release, whatever was pushed back).
ExclusiveUse ==
  /\ \A i, j \in 1 .. Len(connq) :
       connq[i] = connq[j] /\ connq[i] # NULL => i = j
  /\ \A t, u \in Threads : conn[t] = conn[u] /\ conn[t] # NULL => t = u
  /\ InQueue \cap Held = {}

\* max_size_ bounds the connections the pool can reach at any time, however
\* initialize, growth, failures and NULLs interleave.
PoolBound == Cardinality(Reachable) <= MaxSize

\* size_ is what is reachable plus what a failed initialize never opened:
\* capacity that is lost for good, and nothing else is.
Accounting ==
  phase # "destroyed" =>
    Cardinality(Reachable) + InitSize = size + opened

\* A command is answered only by a connection whose SELECT succeeded,
\* although initialize and acquire ignore what select returns.
AnsweredInDb ==
  \A t \in Threads :
    pc[t] = "release" /\ outcome[t] = "reply" => conn[t] \in selected

\* The NULLs that failed calls push never pile up: queue entries and guards
\* together are no more than the larger of size and the number of threads.
TokenBound ==
  Len(connq) + Cardinality(Holders) <=
    IF InitSize > Cardinality(Threads) THEN InitSize ELSE Cardinality(Threads)

\* A live context escapes the pool only through a SELECT that threw, one for
\* each; after the destructor those are the only sockets left open.
OnlyThrownSelectsLeak == Cardinality(Orphans) = selectErrors

\* execute throws "no available redis Connection" only when the server refused
\* a connect, now or in the call that left the NULL, or when there are more
\* threads than the connections max_size_ leaves room for: what initialize did
\* not open is room the pool has lost.
RefusedOnlyAfterFailure ==
  [][\A t \in Threads :
       outcome[t] # "ConnectionException" /\ outcome'[t] = "ConnectionException" =>
         \/ pc[t] = "grow"
         \/ connq # <<>> /\ Head(connq) = NULL
         \/ Cardinality(Threads) > MaxSize - (InitSize - opened)]_vars

(* The inductive invariant behind them: who holds mtx_ and what that       *)
(* implies, what each part of a pool's life rules out, when a guard holds  *)
(* a connection, and that what the pool reaches is a live context.         *)

LockInv ==
  /\ \A t \in Threads : pc[t] = "grow" <=> mtx = t
  /\ mtx # NULL => connq = <<>> /\ size < MaxSize

PhaseInv ==
  /\ phase = "initialize" => size = InitSize /\ Len(connq) = opened
  /\ phase # "ready" => \A t \in Threads : pc[t] = "idle"
  /\ phase = "destroyed" => connq = <<>>

GuardInv ==
  \A t \in Threads :
    /\ pc[t] \notin {"send", "release"} => conn[t] = NULL
    /\ pc[t] = "send" => conn[t] # NULL

ControlInv == TypeOK /\ LockInv /\ PhaseInv /\ GuardInv

LiveInv == \A c \in Reachable : ctx[c] \in {"open", "dropped", "error"}

OwnershipInv == ControlInv /\ ExclusiveUse /\ LiveInv

\* The pool's promise to its threads, with max_size_ as what is affordable.
Affordable == {S \in SUBSET Conns : Cardinality(S) <= MaxSize}
Lease == INSTANCE ConnectionLease WITH known <- Reachable, lessee <- conn
LeaseSpec == Lease!Spec

\* Every call of execute ends, with a reply or an exception: nobody leaves
\* with mtx_ held, and the connect under mtx_ blocks no one for ever.
EveryCallReturns == \A t \in Threads : pc[t] = "acquire" ~> pc[t] = "idle"

-----------------------------------------------------------------------------
(* What the code says of itself and does not keep.                         *)

\* execute throws "no available redis Connection" (redis_client.cpp:55) only
\* when no connection is idle in the queue.
RefusedOnlyWithoutIdle ==
  [][\A t \in Threads :
       outcome[t] # "ConnectionException" /\ outcome'[t] = "ConnectionException"
         => InQueue = {}]_vars

=============================================================================
