-------------------------- MODULE SentinelMonitor --------------------------
(***************************************************************************)
(* redis::Sentinel: how a Client finds its master through a list of        *)
(* Sentinels, and the check_master that a one-second timer repeats on the  *)
(* event loop thread for as long as the process lives                      *)
(* (src/src/sentinel.cpp, redis_client.cpp:23-44).                         *)
(*                                                                         *)
(* Discovery asks the Sentinels in the order of urls_, one blocking        *)
(* connection after the other, while they come and go and learn of         *)
(* failovers at their own pace.  The pool is reduced to the address it     *)
(* connects to; NULL stands for the address ("", 0), which also is what    *)
(* addr holds until a Sentinel answers.                                    *)
(***************************************************************************)
EXTENDS Integers, Sequences

LOCAL INSTANCE SequencesExt

CONSTANTS
  Sentinels,    \* the Sentinels' urls
  Masters,      \* addresses a master can have
  NULL,         \* the address ("", 0), the url ""
  InitialUrls,  \* the list given to Client::connect
  MaxChanges    \* bound: changes of the environment in a behaviour

ASSUME MonitorAssumption ==
  /\ NULL \notin Sentinels \cup Masters
  /\ InitialUrls \in Seq(Sentinels)
  /\ \A i, j \in 1 .. Len(InitialUrls) :
       InitialUrls[i] = InitialUrls[j] => i = j
  /\ MaxChanges \in Nat

VARIABLES
  urls,         \* urls_
  master,       \* (master_ip_, master_port_)
  sentinelUrl,  \* sentinel_url_
  mode,         \* "starting", then "running" once the timer is set, "failed"
                \* if start_client_connect did not succeed, or "terminated"
  pc,           \* "idle", "probe" (in discover_master's loop) or "decide"
  it,           \* the loop's iterator, as an index of urls
  url,          \* the local url of the caller
  addr,         \* the local addr of the caller
  silent,       \* history: the Sentinels this discovery got no address from
  target,       \* the address client_'s pool connects to
  feed,         \* the Sentinel sentinel_subscriber_ listens to
  up,           \* Sentinels that accept connections
  view,         \* the master each Sentinel names, NULL if it knows none
  serving,      \* masters that accept connections
  changes       \* changes of the environment so far

clientVars == <<target, feed>>
memberVars == <<master, sentinelUrl, mode>>
localVars  == <<pc, it, url, addr, silent>>
envVars    == <<up, view, serving, changes>>
vars == <<urls, clientVars, memberVars, localVars, envVars>>

TypeOK ==
  /\ urls \in Seq(Sentinels)
  /\ master \in Masters \cup {NULL}
  /\ sentinelUrl \in Sentinels \cup {NULL}
  /\ mode \in {"starting", "running", "failed", "terminated"}
  /\ pc \in {"idle", "probe", "decide"}
  /\ it \in 1 .. Len(urls) + 1
  /\ url \in Sentinels \cup {NULL}
  /\ addr \in Masters \cup {NULL}
  /\ silent \subseteq Sentinels
  /\ target \in Masters \cup {NULL}
  /\ feed \in Sentinels \cup {NULL}
  /\ up \subseteq Sentinels
  /\ view \in [Sentinels -> Masters \cup {NULL}]
  /\ serving \subseteq Masters
  /\ changes \in 0 .. MaxChanges

-----------------------------------------------------------------------------
(* discover_master                                                         *)

\* Mutant of Begin: the iterator starts before the first Sentinel.
BeginBefore ==
  /\ pc = "idle" /\ mode \in {"starting", "running"}
  /\ pc' = "probe" /\ it' = 0 /\ url' = NULL /\ addr' = NULL /\ silent' = {}
  /\ UNCHANGED <<urls, clientVars, memberVars, envVars>>

\* The caller, start_client_connect or check_master, enters the loop.
Begin ==
  /\ pc = "idle"
  /\ mode \in {"starting", "running"}
  /\ pc' = "probe"
  /\ it' = 1
  /\ url' = NULL
  /\ addr' = NULL
  /\ silent' = {}
  /\ UNCHANGED <<urls, clientVars, memberVars, envVars>>

\* Mutant of ProbeSilent: the same Sentinel is tried again.
ProbeAgain ==
  /\ pc = "probe" /\ it <= Len(urls)
  /\ urls[it] \notin up \/ view[urls[it]] = NULL
  /\ url' = urls[it]
  /\ silent' = silent \cup {urls[it]}
  /\ UNCHANGED <<urls, pc, it, addr, clientVars, memberVars, envVars>>

\* The Sentinel is down, or it answers nil or an error: try the next one.
ProbeSilent ==
  /\ pc = "probe"
  /\ it <= Len(urls)
  /\ urls[it] \notin up \/ view[urls[it]] = NULL
  /\ url' = urls[it]
  /\ silent' = silent \cup {urls[it]}
  /\ it' = it + 1
  /\ UNCHANGED <<urls, pc, addr, clientVars, memberVars, envVars>>

\* Mutants of ProbeReplies: erase forgotten; and insertion at the end.
ProbeDuplicates ==
  /\ pc = "probe" /\ it <= Len(urls)
  /\ urls[it] \in up /\ view[urls[it]] # NULL
  /\ url' = urls[it] /\ addr' = view[urls[it]]
  /\ urls' = <<urls[it]>> \o urls
  /\ pc' = "decide"
  /\ UNCHANGED <<it, silent, clientVars, memberVars, envVars>>

ProbeDemotes ==
  /\ pc = "probe" /\ it <= Len(urls)
  /\ urls[it] \in up /\ view[urls[it]] # NULL
  /\ url' = urls[it] /\ addr' = view[urls[it]]
  /\ urls' = Append(RemoveAt(urls, it), urls[it])
  /\ pc' = "decide"
  /\ UNCHANGED <<it, silent, clientVars, memberVars, envVars>>

\* An answer ends the loop and moves the Sentinel to the front of the list.
ProbeReplies ==
  /\ pc = "probe"
  /\ it <= Len(urls)
  /\ urls[it] \in up
  /\ view[urls[it]] # NULL
  /\ url' = urls[it]
  /\ addr' = view[urls[it]]
  /\ urls' = <<urls[it]>> \o RemoveAt(urls, it)
  /\ pc' = "decide"
  /\ UNCHANGED <<it, silent, clientVars, memberVars, envVars>>

\* The connection dies between connect and the answer: send_command throws
\* outside get_master_address's try.  The exception leaves
\* start_client_connect, or the timer's callback and with it the process.
ProbeLost ==
  /\ pc = "probe"
  /\ it <= Len(urls)
  /\ urls[it] \in up
  /\ changes < MaxChanges
  /\ changes' = changes + 1
  /\ up' = up \ {urls[it]}
  /\ mode' = IF mode = "running" THEN "terminated" ELSE "failed"
  /\ pc' = "idle"
  /\ UNCHANGED <<urls, it, url, addr, silent, clientVars, master, sentinelUrl,
                 view, serving>>

\* Mutant of ProbeExhausted: the last Sentinel may be left out.
ProbeGivesUpEarly ==
  /\ pc = "probe" /\ it >= Len(urls)
  /\ pc' = "decide"
  /\ UNCHANGED <<urls, it, url, addr, silent, clientVars, memberVars, envVars>>

ProbeExhausted ==
  /\ pc = "probe"
  /\ it > Len(urls)
  /\ pc' = "decide"
  /\ UNCHANGED <<urls, it, url, addr, silent, clientVars, memberVars, envVars>>

-----------------------------------------------------------------------------
\* Client::connect(host, port, db): the old pool is deleted, a new one built.
Reconnect(a) == target' = a

\* subscribe_sentinel_notification: a new subscriber connection; the old one
\* is neither closed nor freed.
Subscribe(u) == feed' = u

\* start_client_connect after a successful discovery; the members are set,
\* the notifications subscribed and the timer started only if the new pool
\* could open its connections.
StartConnects ==
  /\ pc = "decide" /\ mode = "starting"
  /\ addr # NULL
  /\ Reconnect(addr)
  /\ pc' = "idle"
  /\ IF addr \in serving
     THEN /\ master' = addr
          /\ sentinelUrl' = url
          /\ Subscribe(url)
          /\ mode' = "running"
     ELSE /\ mode' = "failed"
          /\ UNCHANGED <<master, sentinelUrl, feed>>
  /\ UNCHANGED <<urls, it, url, addr, silent, envVars>>

StartFails ==
  /\ pc = "decide" /\ mode = "starting"
  /\ addr = NULL
  /\ mode' = "failed"
  /\ pc' = "idle"
  /\ UNCHANGED <<urls, it, url, addr, silent, clientVars, master, sentinelUrl,
                 envVars>>

\* The new pool's SELECT is answered with an error: the exception leaves
\* Client::connect and, as in ProbeLost, start_client_connect or the process.
ReconnectThrows ==
  /\ pc = "decide"
  /\ addr \in serving
  /\ addr # master
  /\ changes < MaxChanges
  /\ changes' = changes + 1
  /\ Reconnect(addr)
  /\ mode' = IF mode = "running" THEN "terminated" ELSE "failed"
  /\ pc' = "idle"
  /\ UNCHANGED <<urls, it, url, addr, silent, feed, master, sentinelUrl,
                 up, view, serving>>

\* Mutant of CheckMaster: reconnects only when the replying Sentinel changed.
CheckUrlFirst ==
  /\ pc = "decide" /\ mode = "running"
  /\ IF addr # master /\ url # sentinelUrl
     THEN Reconnect(addr) ELSE UNCHANGED target
  /\ IF url # sentinelUrl THEN Subscribe(url) ELSE UNCHANGED feed
  /\ pc' = "idle"
  /\ UNCHANGED <<urls, it, url, addr, silent, memberVars, envVars>>

\* check_master after its discovery, whether or not that succeeded; it never
\* assigns the members it compares with.
CheckMaster ==
  /\ pc = "decide" /\ mode = "running"
  /\ IF addr # master THEN Reconnect(addr) ELSE UNCHANGED target
  /\ IF url # sentinelUrl THEN Subscribe(url) ELSE UNCHANGED feed
  /\ pc' = "idle"
  /\ UNCHANGED <<urls, it, url, addr, silent, memberVars, envVars>>

-----------------------------------------------------------------------------
(* The environment                                                         *)

Change == changes < MaxChanges /\ changes' = changes + 1

SentinelToggles(s) ==
  /\ Change
  /\ up' = IF s \in up THEN up \ {s} ELSE up \cup {s}
  /\ UNCHANGED <<urls, clientVars, memberVars, localVars, view, serving>>

\* A Sentinel learns of a failover, or forgets the master's name.
ViewChanges(s, m) ==
  /\ Change
  /\ view[s] # m
  /\ view' = [view EXCEPT ![s] = m]
  /\ UNCHANGED <<urls, clientVars, memberVars, localVars, up, serving>>

MasterToggles(m) ==
  /\ Change
  /\ serving' = IF m \in serving THEN serving \ {m} ELSE serving \cup {m}
  /\ UNCHANGED <<urls, clientVars, memberVars, localVars, up, view>>

-----------------------------------------------------------------------------
Init ==
  /\ urls = InitialUrls
  /\ master = NULL /\ sentinelUrl = NULL /\ mode = "starting"
  /\ pc = "idle" /\ it = 1 /\ url = NULL /\ addr = NULL /\ silent = {}
  /\ target = NULL /\ feed = NULL
  /\ up = Sentinels
  /\ \E m \in Masters : view = [s \in Sentinels |-> m]
  /\ serving = Masters
  /\ changes = 0

Monitor ==
  \/ Begin \/ ProbeSilent \/ ProbeReplies \/ ProbeExhausted
  \/ StartConnects \/ StartFails \/ CheckMaster

Environment ==
  \/ ProbeLost
  \/ ReconnectThrows
  \/ \E s \in Sentinels :
       SentinelToggles(s) \/ \E m \in Masters \cup {NULL} : ViewChanges(s, m)
  \/ \E m \in Masters : MasterToggles(m)

Next == Monitor \/ Environment

Spec == Init /\ [][Next]_vars

\* The timer is persistent and every probe ends: a connection is accepted or
\* refused, a command answered or lost.
FairSpec == Spec /\ WF_vars(Monitor)

-----------------------------------------------------------------------------
(* What discovery and the monitor guarantee                                *)

\* Erasing the replying Sentinel while iterating and inserting it again loses
\* no Sentinel and lists none twice.
UrlsKept ==
  /\ Len(urls) = Len(InitialUrls)
  /\ ToSet(urls) = ToSet(InitialUrls)

\* Discovery reports failure only after every Sentinel of the list was asked
\* and gave no address, and success only past Sentinels that gave none.
AsksInOrder ==
  pc = "decide" =>
    IF addr = NULL
    THEN silent = ToSet(InitialUrls)
    ELSE url \notin silent /\ silent = ToSet(SubSeq(urls, 2, it))

\* The Sentinel that replied is asked first next time
\* (sentinel.cpp:73, "give priority to the replying Sentinel").
ReplierFirst == pc = "decide" /\ addr # NULL => Head(urls) = url

\* When the Sentinels settle on a master other than the one the client
\* started with, the client's pool ends up on it and stays there, whatever
\* outages and partial views came before.
Agreed(m) ==
  /\ \E s \in up : s \in ToSet(InitialUrls) /\ view[s] = m
  /\ \A s \in up : view[s] \in {m, NULL}
FollowsFailover ==
  \A m \in Masters :
    <>[](mode = "running" /\ Agreed(m) /\ m # master) => <>[](target = m)

\* A check never hangs: the event loop thread leaves discovery even if every
\* Sentinel fails while it is being asked.
ChecksEnd == pc = "probe" ~> pc = "idle"

-----------------------------------------------------------------------------
(* What check_master says it does and does not do                          *)

\* "master change, do reconnect" (sentinel.cpp:138): a check that discovered
\* the master leaves the pool on it.
CheckedPoolOnMaster ==
  [][mode = "running" /\ pc = "decide" /\ pc' = "idle" /\ addr # NULL =>
       target' = addr]_vars

=============================================================================
