--------------------------- MODULE ClientFailover ---------------------------
(***************************************************************************)
(* Client::connect against Client::execute: what check_master does to the  *)
(* threads that run commands meanwhile (src/src/redis_client.cpp:23-30,    *)
(* 50-58, connection_pool.cpp).                                            *)
(*                                                                         *)
(* connect runs on the event loop thread.  It deletes the pool, builds the *)
(* next one and initializes it, and no lock is shared with execute, which  *)
(* reads pool_ and then uses what it points to.  Pools are numbered in the *)
(* order they are built.  Two things are undefined behaviour and end the   *)
(* behaviour: a thread uses a deleted pool, or it uses connq_ in the       *)
(* middle of a push by initialize, which takes no lock.                    *)
(*                                                                         *)
(* Any replacement can come at any time, with any master: more than        *)
(* SentinelMonitor lets happen.                                            *)
(***************************************************************************)
EXTENDS Integers, Sequences, FiniteSets

CONSTANTS
  Threads,    \* application threads
  Masters,    \* addresses a pool can connect to
  NULL,       \* the null Connection pointer, and "nobody" and "nothing"
  InitSize,   \* ConnectionPool's size
  MaxSize,    \* ConnectionPool's max_size
  MaxPools,   \* bound: pools built in a behaviour
  MaxCalls    \* bound: calls of execute() in a behaviour

ASSUME FailoverAssumption ==
  /\ IsFiniteSet(Threads)
  /\ NULL \notin Threads \cup Masters
  /\ Masters \cap {"none", "ConnectionException"} = {}
  /\ InitSize \in Nat
  /\ MaxSize \in Nat
  /\ InitSize <= MaxSize
  /\ MaxPools \in Nat \ {0}
  /\ MaxCalls \in Nat

Pools == 1 .. MaxPools

VARIABLES
  pool,        \* pool_
  built,       \* how many pools there have been
  live,        \* the pools that are not deleted
  master,      \* (host_, port_) of each pool
  connq,       \* connq_ of each pool: NULL, or the master a connection is to
  size,        \* size_ of each pool
  step,        \* where connect is: "idle", "new" or "initialize"
  i,           \* initialize's loop counter
  pc,          \* where each thread is in execute
  at,          \* the guard's pool_ of each thread, 0 without guard
  held,        \* the guard's conn_ of each thread: NULL or its master
  outcome,     \* until execute returns: the master that answered, or
               \* "ConnectionException"
  calls,       \* calls of execute() so far
  opened,      \* history: connections each pool opened
  crowded,     \* history: growths of each pool while it was being initialized
  overlapped,  \* history: threads whose call met a replacement of the pool
  victim       \* the thread whose step was undefined behaviour, if any

clientVars  == <<pool, built, live, master, step, i>>
queueVars   == <<connq, size, opened, crowded>>
threadVars  == <<pc, at, held, outcome, calls, overlapped>>
vars == <<clientVars, queueVars, threadVars, victim>>

ClientTypeOK ==
  /\ built \in Pools /\ pool \in 1 .. built /\ live \subseteq 1 .. built
  /\ master \in [Pools -> Masters \cup {NULL}]
  /\ step \in {"idle", "new", "initialize"}
  /\ i \in 0 .. MaxSize

QueueTypeOK ==
  /\ connq \in [Pools -> Seq(Masters \cup {NULL})]
  /\ size \in [Pools -> 0 .. MaxSize]
  /\ opened \in [Pools -> Nat]
  /\ crowded \in [Pools -> Nat]

ThreadTypeOK ==
  /\ pc \in [Threads -> {"idle", "acquire", "grow", "send", "release"}]
  /\ at \in [Threads -> 0 .. built]
  /\ held \in [Threads -> Masters \cup {NULL}]
  /\ outcome \in [Threads -> Masters \cup {"none", "ConnectionException"}]
  /\ calls \in 0 .. MaxCalls
  /\ overlapped \subseteq Threads

TypeOK ==
  /\ ClientTypeOK
  /\ QueueTypeOK
  /\ ThreadTypeOK
  /\ victim \in Threads \cup {NULL}

\* Mutant of Growing: the guard keeps mtx_ for as long as it has a connection.
LockedByGuard(p) ==
  {t \in Threads : pc[t] \in {"grow", "send", "release"} /\ at[t] = p}

\* Who holds mtx_ of pool p across its blocking connect.
Growing(p) == {t \in Threads : pc[t] = "grow" /\ at[t] = p}
Inside == {t \in Threads : pc[t] # "idle"}

-----------------------------------------------------------------------------
(* Client::connect(host, port, db) on the event loop thread                *)

\* delete pool_: the destructor closes what is queued and takes no lock; what
\* is lent stays open.
Delete ==
  /\ step = "idle"
  /\ built < MaxPools
  /\ live' = live \ {pool}
  /\ connq' = [connq EXCEPT ![pool] = <<>>]
  /\ step' = "new"
  /\ overlapped' = overlapped \cup Inside
  /\ UNCHANGED <<pool, built, master, i, size, opened, crowded, pc, at, held,
                 outcome, calls>>

\* Mutant of New: pool_ is not assigned.
NewUnassigned(m) ==
  /\ step = "new"
  /\ built' = built + 1 /\ live' = live \cup {built + 1}
  /\ master' = [master EXCEPT ![built + 1] = m]
  /\ size' = [size EXCEPT ![built + 1] = InitSize]
  /\ step' = "initialize" /\ i' = 0
  /\ UNCHANGED <<pool, connq, opened, crowded, threadVars>>

\* pool_ = new ConnectionPool: the threads see it before it is initialized.
New(m) ==
  /\ step = "new"
  /\ built' = built + 1
  /\ pool' = built + 1
  /\ live' = live \cup {built + 1}
  /\ master' = [master EXCEPT ![built + 1] = m]
  /\ size' = [size EXCEPT ![built + 1] = InitSize]
  /\ step' = "initialize"
  /\ i' = 0
  /\ UNCHANGED <<connq, opened, crowded, threadVars>>

\* Mutant of InitializeOpens: <= for < in its loop.
InitializeOpensOneMore ==
  /\ step = "initialize"
  /\ i <= size[pool] /\ i < MaxSize
  /\ connq' = [connq EXCEPT ![pool] = Append(@, master[pool])]
  /\ opened' = [opened EXCEPT ![pool] = @ + 1]
  /\ i' = i + 1
  /\ UNCHANGED <<pool, built, live, master, step, size, crowded, threadVars>>

\* One round of initialize's loop, without mtx_.  Its bound size_ is read anew
\* each time, and acquire may have raised it.
InitializeOpens ==
  /\ step = "initialize"
  /\ i < size[pool]
  /\ connq' = [connq EXCEPT ![pool] = Append(@, master[pool])]
  /\ opened' = [opened EXCEPT ![pool] = @ + 1]
  /\ i' = i + 1
  /\ UNCHANGED <<pool, built, live, master, step, size, crowded, threadVars>>

\* The loop is done, or connect is refused and ends it.
InitializeReturns ==
  /\ step = "initialize"
  /\ step' = "idle"
  /\ UNCHANGED <<pool, built, live, master, i, queueVars, threadVars>>

-----------------------------------------------------------------------------
(* Client::execute                                                         *)

\* The guard copies pool_, dangling or not.
Start(t) ==
  /\ pc[t] = "idle"
  /\ calls < MaxCalls
  /\ calls' = calls + 1
  /\ at' = [at EXCEPT ![t] = pool]
  /\ pc' = [pc EXCEPT ![t] = "acquire"]
  /\ overlapped' = IF step = "idle" THEN overlapped ELSE overlapped \cup {t}
  /\ UNCHANGED <<clientVars, queueVars, held, outcome>>

\* mtx_, connq_ or size_ of a deleted pool ...
UsesDeleted(t) ==
  pc[t] \in {"acquire", "grow", "release"} /\ at[t] \notin live

\* ... and connq_ while initialize, without mtx_, is pushing.
UsesRaced(t) ==
  /\ pc[t] \in {"acquire", "grow", "release"}
  /\ at[t] = pool /\ step = "initialize" /\ i < size[pool]

Undefined(t) ==
  /\ UsesDeleted(t) \/ UsesRaced(t)
  /\ victim' = t
  /\ UNCHANGED <<clientVars, queueVars, threadVars>>

Locks(t) == at[t] \in live /\ Growing(at[t]) = {}

\* execute throws when the guard holds NULL.
Receive(t, c) ==
  /\ held' = [held EXCEPT ![t] = c]
  /\ IF c = NULL
     THEN /\ pc' = [pc EXCEPT ![t] = "release"]
          /\ outcome' = [outcome EXCEPT ![t] = "ConnectionException"]
     ELSE pc' = [pc EXCEPT ![t] = "send"] /\ UNCHANGED outcome
  /\ UNCHANGED <<at, calls, overlapped>>

AcquirePop(t) ==
  /\ pc[t] = "acquire"
  /\ Locks(t)
  /\ connq[at[t]] # <<>>
  /\ Receive(t, Head(connq[at[t]]))
  /\ connq' = [connq EXCEPT ![at[t]] = Tail(@)]
  /\ UNCHANGED <<clientVars, size, opened, crowded>>

AcquireFull(t) ==
  /\ pc[t] = "acquire"
  /\ Locks(t)
  /\ connq[at[t]] = <<>>
  /\ size[at[t]] >= MaxSize
  /\ Receive(t, NULL)
  /\ UNCHANGED <<clientVars, queueVars>>

\* Mutant of GrowBegin: the bound is off by one.
GrowPastMax(t) ==
  /\ pc[t] = "acquire" /\ Locks(t)
  /\ connq[at[t]] = <<>> /\ size[at[t]] <= MaxSize
  /\ pc' = [pc EXCEPT ![t] = "grow"]
  /\ UNCHANGED <<clientVars, queueVars, at, held, outcome, calls, overlapped>>

GrowBegin(t) ==
  /\ pc[t] = "acquire"
  /\ Locks(t)
  /\ connq[at[t]] = <<>>
  /\ size[at[t]] < MaxSize
  /\ pc' = [pc EXCEPT ![t] = "grow"]
  /\ UNCHANGED <<clientVars, queueVars, at, held, outcome, calls, overlapped>>

\* push, ++size_ and pop: initialize may have pushed in front meanwhile.
GrowOpened(t) ==
  LET p == at[t]
      q == Append(connq[p], master[p])
  IN /\ pc[t] = "grow"
     /\ p \in live
     /\ Receive(t, Head(q))
     /\ connq' = [connq EXCEPT ![p] = Tail(q)]
     /\ size' = [size EXCEPT ![p] = @ + 1]
     /\ opened' = [opened EXCEPT ![p] = @ + 1]
     /\ crowded' = IF step = "initialize" /\ p = pool
                   THEN [crowded EXCEPT ![p] = @ + 1] ELSE crowded
     /\ UNCHANGED clientVars

GrowRefused(t) ==
  /\ pc[t] = "grow"
  /\ at[t] \in live
  /\ Receive(t, NULL)
  /\ UNCHANGED <<clientVars, queueVars>>

\* The borrowed connection is the thread's own: no pool is touched.
Send(t) ==
  /\ pc[t] = "send"
  /\ outcome' = [outcome EXCEPT ![t] = held[t]]
  /\ pc' = [pc EXCEPT ![t] = "release"]
  /\ UNCHANGED <<clientVars, queueVars, at, held, calls, overlapped>>

\* The guard is gone and execute has returned or thrown.
Leave(t) ==
  /\ pc' = [pc EXCEPT ![t] = "idle"]
  /\ at' = [at EXCEPT ![t] = 0]
  /\ held' = [held EXCEPT ![t] = NULL]
  /\ outcome' = [outcome EXCEPT ![t] = "none"]
  /\ overlapped' = overlapped \ {t}
  /\ UNCHANGED calls

\* Mutant of Release: the guard gives back to the client's pool of the moment.
ReleaseToCurrent(t) ==
  /\ pc[t] = "release"
  /\ pool \in live /\ Growing(pool) = {}
  /\ connq' = [connq EXCEPT ![pool] = Append(@, held[t])]
  /\ Leave(t)
  /\ UNCHANGED <<clientVars, size, opened, crowded>>

Release(t) ==
  /\ pc[t] = "release"
  /\ Locks(t)
  /\ connq' = [connq EXCEPT ![at[t]] = Append(@, held[t])]
  /\ Leave(t)
  /\ UNCHANGED <<clientVars, size, opened, crowded>>

-----------------------------------------------------------------------------
\* The first connect is over: one pool, initialized, and idle threads.
Init ==
  /\ pool = 1 /\ built = 1 /\ live = {1} /\ step = "idle" /\ i = 0
  /\ \E m \in Masters :
       /\ master = [p \in Pools |-> IF p = 1 THEN m ELSE NULL]
       /\ connq = [p \in Pools |->
                     IF p = 1 THEN [k \in 1 .. InitSize |-> m] ELSE <<>>]
  /\ size = [p \in Pools |-> InitSize]
  /\ opened = [p \in Pools |-> IF p = 1 THEN InitSize ELSE 0]
  /\ crowded = [p \in Pools |-> 0]
  /\ pc = [t \in Threads |-> "idle"]
  /\ at = [t \in Threads |-> 0]
  /\ held = [t \in Threads |-> NULL]
  /\ outcome = [t \in Threads |-> "none"]
  /\ calls = 0 /\ overlapped = {} /\ victim = NULL

Connect ==
  \/ (\E m \in Masters : New(m)) \/ InitializeOpens \/ InitializeReturns

Run(t) ==
  \/ AcquirePop(t) \/ AcquireFull(t)
  \/ GrowBegin(t) \/ GrowOpened(t) \/ GrowRefused(t)
  \/ Send(t) \/ Release(t)

\* A step of a behaviour that is defined so far.
Defined(A) == victim = NULL /\ A /\ UNCHANGED victim

Next ==
  \/ Defined(Delete)
  \/ Defined(Connect)
  \/ \E t \in Threads : Defined(Start(t)) \/ Defined(Run(t))
  \/ \E t \in Threads : victim = NULL /\ Undefined(t)

Spec == Init /\ [][Next]_vars

\* Running threads run and blocking calls end.
FairSpec ==
  /\ Spec
  /\ \A t \in Threads : WF_vars(Defined(Run(t)) \/ (victim = NULL /\ Undefined(t)))

-----------------------------------------------------------------------------
(* What holds although nothing synchronizes connect with execute           *)

\* Only a call that met the replacement of the pool is in danger: one under way
\* at the delete, or begun before connect returned.  A client that is quiet for
\* as long as connect takes never uses a deleted pool, nor a queue half pushed.
DangerEndsWithConnect == victim # NULL => victim \in overlapped

\* initialize outside mtx_ counts a connection that acquire opens meanwhile
\* again: each such growth takes the pool one past max_size, nothing else does.
OvershootCounted ==
  \A p \in Pools :
    /\ opened[p] <= MaxSize + crowded[p]
    /\ crowded[p] <= MaxSize - InitSize

\* Every call ends although initialize and acquire share the queue without a
\* lock, unless undefined behaviour ends everything.
CallsEnd ==
  \A t \in Threads : pc[t] = "acquire" ~> pc[t] = "idle" \/ victim # NULL

\* A call belongs to the master the pool it found was built for: a replacement
\* moves the client, and never a call in progress.
Service == INSTANCE FailoverService
  WITH current <- master[pool],
       bound   <- [t \in Threads |-> IF at[t] = 0 THEN NULL ELSE master[at[t]]],
       answer  <- outcome,
       None    <- "none",
       Failed  <- "ConnectionException"

\* Whatever replaces the pool and whenever, a call is answered once, by the
\* master the client was on when execute read pool_ or by a ConnectionException:
\* connections to an old master never reach a new pool, although calls that
\* began on the old pool end, and give back, after the new one is in place.
ServiceSpec == Service!Spec

=============================================================================
