------------------------------- MODULE Client -------------------------------
(***************************************************************************)
(* The network client of one node (node/src/network_client.rs): calls with *)
(* retries and timeouts, and the per-host connection limiter they share.   *)
(*                                                                         *)
(* The limiter sits behind an asynchronous mutex.  An attempt waits for    *)
(* it; the task a ConnectionGuard spawns when it is dropped only tries it, *)
(* once.  The runtime is multi-threaded, so whatever holds the mutex may   *)
(* be overtaken there by any other task.  Instant::now() is abstracted to  *)
(* the age of every entry, counted in cleanup intervals.                   *)
(***************************************************************************)
EXTENDS Integers, FiniteSets

CONSTANTS
    Tasks,                     \* tasks of the node that call other nodes
    Hosts,                     \* the addresses they call
    None,                      \* nothing
    MAX_CONNECTIONS_PER_HOST,  \* 5 in the code
    MAX_RETRIES,               \* attempts per call (3)
    MaxPending                 \* bound: guard-drop tasks waiting per host

ASSUME TasksAssumption  == IsFiniteSet(Tasks)
ASSUME NamesAssumption  == Tasks \cap Hosts = {} /\ None \notin Tasks \cup Hosts \cup Nat
ASSUME LimitsAssumption == /\ MAX_CONNECTIONS_PER_HOST \in Nat \ {0}
                           /\ MAX_RETRIES \in Nat \ {0}
                           /\ MaxPending \in Nat \ {0}

VARIABLES
    pc,       \* pc[t]: "idle", "lock", "check", "open", "backoff"
    host,     \* host[t]: the host t calls
    attempt,  \* attempt[t]: attempts begun
    owner,    \* the holder of the limiter's mutex: a task, a host (a dropped
              \*   guard of a connection to it), or None
    active,   \* active[h]: the active_count of h, or None without an entry
    age,      \* age[h]: 0 below one cleanup interval, 1 below two, 2 above
    pending   \* pending[h]: spawned guard-drop tasks that did not run yet

vars == <<pc, host, attempt, owner, active, age, pending>>

TypeOK ==
    /\ pc \in [Tasks -> {"idle", "lock", "check", "open", "backoff"}]
    /\ host \in [Tasks -> Hosts \cup {None}]
    /\ \A t \in Tasks : /\ pc[t] # "idle" => host[t] \in Hosts
                        /\ pc[t] = "backoff" => attempt[t] < MAX_RETRIES
    /\ attempt \in [Tasks -> 0 .. MAX_RETRIES]
    /\ owner \in Tasks \cup Hosts \cup {None}
    /\ active \in [Hosts -> Nat \cup {None}]
    /\ age \in [Hosts -> 0 .. 2]
    /\ pending \in [Hosts -> 0 .. MaxPending]

Init ==
    /\ pc = [t \in Tasks |-> "idle"]
    /\ host = [t \in Tasks |-> None]
    /\ attempt = [t \in Tasks |-> 0]
    /\ owner = None
    /\ active = [h \in Hosts |-> None]
    /\ age = [h \in Hosts |-> 0]
    /\ pending = [h \in Hosts |-> 0]

-----------------------------------------------------------------------------
(* call_node_with_retry                                                    *)

CallNode(t, h) ==
    /\ pc[t] = "idle"
    /\ pc' = [pc EXCEPT ![t] = "lock"]
    /\ host' = [host EXCEPT ![t] = h]
    /\ attempt' = [attempt EXCEPT ![t] = 1]
    /\ UNCHANGED <<owner, active, age, pending>>

\* The call is over.
Return(t) ==
    /\ pc' = [pc EXCEPT ![t] = "idle"]
    /\ host' = [host EXCEPT ![t] = None]
    /\ attempt' = [attempt EXCEPT ![t] = 0]

\* Error seeded for the runs: every failure starts the count again.
AttemptFailsForever(t) ==
    /\ pc' = [pc EXCEPT ![t] = "backoff"]
    /\ attempt' = [attempt EXCEPT ![t] = 0]
    /\ UNCHANGED host

\* Error seeded for the runs: one attempt too many.
AttemptFailsLate(t) ==
    IF attempt[t] <= MAX_RETRIES
    THEN pc' = [pc EXCEPT ![t] = "backoff"] /\ UNCHANGED <<host, attempt>>
    ELSE Return(t)

\* An attempt failed: sleep and try again, or give up.
AttemptFails(t) ==
    IF attempt[t] < MAX_RETRIES
    THEN pc' = [pc EXCEPT ![t] = "backoff"] /\ UNCHANGED <<host, attempt>>
    ELSE Return(t)

\* The backoff is over.
Retry(t) ==
    /\ pc[t] = "backoff"
    /\ pc' = [pc EXCEPT ![t] = "lock"]
    /\ attempt' = [attempt EXCEPT ![t] = @ + 1]
    /\ UNCHANGED <<host, owner, active, age, pending>>

-----------------------------------------------------------------------------
(* call_node_internal                                                      *)

\* limiter.lock().await
Lock(t) ==
    /\ pc[t] = "lock"
    /\ owner = None
    /\ owner' = t
    /\ pc' = [pc EXCEPT ![t] = "check"]
    /\ UNCHANGED <<host, attempt, active, age, pending>>

\* Error seeded for the runs: an old entry goes, whatever its count.
CleanedAny(h) ==
    IF (\E g \in Hosts : active[g] # None /\ age[g] >= 1)
          /\ active[h] # None /\ age[h] = 2
    THEN None ELSE active[h]

\* can_connect, first half: once an entry is older than the cleanup
\* interval, entries without connections and twice as old are dropped.
Cleaned(h) ==
    IF /\ \E g \in Hosts : active[g] # None /\ age[g] >= 1
       /\ active[h] = 0
       /\ age[h] = 2
    THEN None ELSE active[h]

\* can_connect, second half: insert the entry, compare its count with the
\* limit, count the connection, release the mutex.
CheckLimit(t) ==
    LET h     == host[t]
        count == IF Cleaned(h) = None THEN 0 ELSE Cleaned(h)
        ok    == count < MAX_CONNECTIONS_PER_HOST
    IN  /\ pc[t] = "check"
        /\ active' = [g \in Hosts |-> IF g # h THEN Cleaned(g)
                                      ELSE IF ok THEN count + 1 ELSE count]
        /\ age' = [age EXCEPT ![h] = IF Cleaned(h) = None THEN 0 ELSE @]
        /\ owner' = None
        /\ IF ok
           THEN pc' = [pc EXCEPT ![t] = "open"] /\ UNCHANGED <<host, attempt>>
           ELSE AttemptFails(t)
        /\ UNCHANGED pending

\* The connection ends: answered, refused, broken or timed out.  Its guard
\* is dropped, which spawns a task.
Close(t) ==
    /\ pc[t] = "open"
    /\ pending[host[t]] < MaxPending
    /\ pending' = [pending EXCEPT ![host[t]] = @ + 1]
    /\ Return(t) \/ AttemptFails(t)
    /\ UNCHANGED <<owner, active, age>>

-----------------------------------------------------------------------------
(* ConnectionGuard::drop, the spawned task                                 *)

\* try_lock succeeds ...
TryLock(h) ==
    /\ pending[h] > 0
    /\ owner = None
    /\ owner' = h
    /\ pending' = [pending EXCEPT ![h] = @ - 1]
    /\ UNCHANGED <<pc, host, attempt, active, age>>

\* ... or fails, and the connection stays counted ...
TryLockFails(h) ==
    /\ pending[h] > 0
    /\ owner # None
    /\ pending' = [pending EXCEPT ![h] = @ - 1]
    /\ UNCHANGED <<pc, host, attempt, owner, active, age>>

\* ... decrement_count: saturating, nothing without an entry.
Decrement(h) ==
    /\ owner = h
    /\ owner' = None
    /\ active' = [active EXCEPT ![h] = IF @ = None \/ @ = 0 THEN @ ELSE @ - 1]
    /\ UNCHANGED <<pc, host, attempt, age, pending>>

-----------------------------------------------------------------------------
\* Time passes.  last_cleanup is never renewed: an entry only gets older.
Tick(h) ==
    /\ active[h] # None
    /\ age[h] < 2
    /\ age' = [age EXCEPT ![h] = @ + 1]
    /\ UNCHANGED <<pc, host, attempt, owner, active, pending>>

\* What the runtime does with a call that was made.
Progress(t) == Retry(t) \/ Lock(t) \/ CheckLimit(t) \/ Close(t)
Dropped(h) == TryLock(h) \/ TryLockFails(h) \/ Decrement(h)

Next ==
    \/ \E t \in Tasks : Progress(t) \/ \E h \in Hosts : CallNode(t, h)
    \/ \E h \in Hosts : Dropped(h) \/ Tick(h)

Spec == Init /\ [][Next]_vars

\* Every task is run, every operation on a socket ends or times out, and the
\* mutex is fair: tokio queues its waiters.
Fairness ==
    /\ \A t \in Tasks : /\ WF_vars(Retry(t) \/ CheckLimit(t))
                        /\ SF_vars(Lock(t)) /\ SF_vars(Close(t))
    /\ \A h \in Hosts : WF_vars(Dropped(h))

FairSpec == Spec /\ Fairness

-----------------------------------------------------------------------------

Open(h) == {t \in Tasks : pc[t] = "open" /\ host[t] = h}

Count(h) == IF active[h] = None THEN 0 ELSE active[h]

\* A guard-drop task that has the mutex but did not decrement yet.
Dropping(h) == IF owner = h THEN 1 ELSE 0

\* The count never falls below the connections it stands for, although
\* decrements arrive late, get lost, or find their entry cleaned up and made
\* anew.
CountCovers ==
    \A h \in Hosts : Count(h) >= Cardinality(Open(h)) + pending[h] + Dropping(h)

\* No host ever gets more connections than the limit.
LimitHolds == \A h \in Hosts : Cardinality(Open(h)) <= MAX_CONNECTIONS_PER_HOST

\* Every call returns, however many attempts are refused or fail.
CallsReturn == \A t \in Tasks : pc[t] # "idle" ~> pc[t] = "idle"

\* "Create connection with auto-cleanup on drop": a host nobody is connected
\* to, with no guard left to drop, has no connection counted.
AutoCleanup ==
    \A h \in Hosts :
        (Open(h) = {} /\ pending[h] = 0 /\ Dropping(h) = 0) => Count(h) = 0

=============================================================================
