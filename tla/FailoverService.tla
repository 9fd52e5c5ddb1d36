-------------------------- MODULE FailoverService --------------------------
(***************************************************************************)
(* What a client that is moved from master to master promises to the calls *)
(* in progress: a call belongs to the master the client was on when it     *)
(* began, and is answered once, by that master or by an exception, however *)
(* often the client moves meanwhile.                                       *)
(* ClientFailover is shown to implement this specification.                *)
(***************************************************************************)
CONSTANTS
  Threads,  \* the threads that call
  Masters,  \* where the client can be
  NULL,     \* "no call"
  None,     \* "no answer yet"
  Failed    \* the answer of a call that no master answered

VARIABLES
  current,  \* the master the client is on
  bound,    \* the master the call of each thread belongs to, or NULL
  answer    \* what the call of each thread has been answered

vars == <<current, bound, answer>>

Init ==
  /\ current \in Masters
  /\ bound = [t \in Threads |-> NULL]
  /\ answer = [t \in Threads |-> None]

Move(m) ==
  /\ current' = m
  /\ UNCHANGED <<bound, answer>>

Begin(t) ==
  /\ bound[t] = NULL
  /\ bound' = [bound EXCEPT ![t] = current]
  /\ UNCHANGED <<current, answer>>

Answer(t) ==
  /\ bound[t] # NULL
  /\ answer[t] = None
  /\ \E a \in {bound[t], Failed} : answer' = [answer EXCEPT ![t] = a]
  /\ UNCHANGED <<current, bound>>

End(t) ==
  /\ answer[t] # None
  /\ bound' = [bound EXCEPT ![t] = NULL]
  /\ answer' = [answer EXCEPT ![t] = None]
  /\ UNCHANGED current

Next ==
  \/ \E m \in Masters : Move(m)
  \/ \E t \in Threads : Begin(t) \/ Answer(t) \/ End(t)

Spec == Init /\ [][Next]_vars

=============================================================================
