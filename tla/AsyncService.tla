---------------------------- MODULE AsyncService ----------------------------
(***************************************************************************)
(* redis::AsyncService: the thread that dispatches libevent's loop         *)
(* (src/src/async_service.cpp).  event_thread_ is the std::thread object.  *)
(*                                                                         *)
(* stop() does not end the loop: it asks libevent to leave it in a second, *)
(* and joins the thread.  start() does not ask whether a loop runs: a      *)
(* second dispatch of the same base returns at once.  stop() without a     *)
(* start, or without a start since the last stop, dereferences NULL or     *)
(* joins twice; neither is modelled.                                       *)
(***************************************************************************)
EXTENDS Integers

CONSTANT MaxStarts  \* bound: calls of start()

ASSUME ServiceAssumption == MaxStarts \in Nat

VARIABLES
  loop,         \* a thread is dispatching events
  event_thread, \* event_thread_: "null", "looping", "ended" or "joined"
  exiting,      \* event_base_loopexit is due
  stopping,     \* the application is inside stop()
  starts,       \* calls of start() so far
  restarted     \* history: start() was called before the loop was stopped

serviceVars == <<loop, event_thread, exiting, stopping, starts, restarted>>

ServiceTypeOK ==
  /\ loop \in BOOLEAN
  /\ event_thread \in {"null", "looping", "ended", "joined"}
  /\ exiting \in BOOLEAN
  /\ stopping \in BOOLEAN
  /\ starts \in 0 .. MaxStarts
  /\ restarted \in BOOLEAN

ServiceInit ==
  /\ loop = FALSE /\ event_thread = "null" /\ exiting = FALSE
  /\ stopping = FALSE /\ starts = 0 /\ restarted = FALSE

StartService ==
  /\ ~stopping
  /\ starts < MaxStarts
  /\ starts' = starts + 1
  /\ event_thread' = IF loop THEN "ended" ELSE "looping"
  /\ loop' = TRUE
  /\ restarted' = (restarted \/ event_thread \in {"looping", "ended"})
  /\ UNCHANGED <<exiting, stopping>>

StopService ==
  /\ ~stopping
  /\ event_thread \in {"looping", "ended"}
  /\ exiting' = TRUE
  /\ stopping' = TRUE
  /\ UNCHANGED <<loop, event_thread, starts, restarted>>

LoopEnds ==
  /\ loop
  /\ exiting
  /\ loop' = FALSE
  /\ exiting' = FALSE
  /\ event_thread' = IF event_thread = "looping" THEN "ended" ELSE event_thread
  /\ UNCHANGED <<stopping, starts, restarted>>

\* Mutant of JoinReturns: the thread is detached.
DetachReturns ==
  /\ stopping
  /\ event_thread' = "joined"
  /\ stopping' = FALSE
  /\ UNCHANGED <<loop, exiting, starts, restarted>>

JoinReturns ==
  /\ stopping
  /\ event_thread = "ended"
  /\ event_thread' = "joined"
  /\ stopping' = FALSE
  /\ UNCHANGED <<loop, exiting, starts, restarted>>

\* After stop() no callback runs until the next start: the application may
\* free what its callbacks use.  It has to pair start() with stop().
QuietAfterStop == event_thread = "joined" /\ ~restarted => ~loop

=============================================================================
