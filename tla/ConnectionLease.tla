-------------------------- MODULE ConnectionLease --------------------------
(***************************************************************************)
(* What a pool of connections promises to the threads that share it: a     *)
(* connection is leased to one thread at a time, it comes back when the    *)
(* lease ends, and the pool only opens what it can afford.                 *)
(* ConnectionPool is shown to implement this specification.                *)
(***************************************************************************)
CONSTANTS
  Threads,   \* the threads that use the pool
  Conns,     \* the identities a connection can have
  NULL,      \* "no connection"
  Affordable \* the sets of connections the pool may keep open

VARIABLES
  known,     \* the connections the pool created and still accounts for
  lessee     \* the connection each thread has leased, or NULL

vars == <<known, lessee>>

Idle(c) == \A t \in Threads : lessee[t] # c

Init ==
  /\ known = {}
  /\ lessee = [t \in Threads |-> NULL]

\* The pool opens a connection nobody asked for yet.
Create(c) ==
  /\ c \in Conns \ known
  /\ known \cup {c} \in Affordable
  /\ known' = known \cup {c}
  /\ UNCHANGED lessee

\* A thread leases a connection that nobody else has.
Lease(t, c) ==
  /\ c \in known
  /\ Idle(c)
  /\ lessee[t] = NULL
  /\ lessee' = [lessee EXCEPT ![t] = c]
  /\ UNCHANGED known

\* The pool opens a connection on behalf of the thread that leases it.
CreateAndLease(t, c) ==
  /\ c \in Conns \ known
  /\ known \cup {c} \in Affordable
  /\ lessee[t] = NULL
  /\ known' = known \cup {c}
  /\ lessee' = [lessee EXCEPT ![t] = c]

Return(t) ==
  /\ lessee[t] # NULL
  /\ lessee' = [lessee EXCEPT ![t] = NULL]
  /\ UNCHANGED known

\* The pool closes everything, which it may do only when nothing is leased.
Close ==
  /\ lessee = [t \in Threads |-> NULL]
  /\ known' = {}
  /\ UNCHANGED lessee

Next ==
  \/ \E c \in Conns : Create(c)
  \/ \E t \in Threads, c \in Conns : Lease(t, c) \/ CreateAndLease(t, c)
  \/ \E t \in Threads : Return(t)
  \/ Close

Spec == Init /\ [][Next]_vars

=============================================================================
