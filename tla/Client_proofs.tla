---------------------------- MODULE Client_proofs ---------------------------
(***************************************************************************)
(* The per-host limit of the network client holds for any number of tasks, *)
(* hosts, connections and retries.  The limit itself is not inductive: a   *)
(* connection is admitted because of the count, so the invariant says that *)
(* the count covers every open connection and every guard still dropping.  *)
(***************************************************************************)
EXTENDS Client, FiniteSetTheorems, TLAPS

USE TasksAssumption, NamesAssumption, LimitsAssumption

\* Open(h) is finite, so it has a cardinality.
LEMMA OpenFinite ==
    ASSUME NEW h \in Hosts
    PROVE  IsFiniteSet(Open(h)) /\ Cardinality(Open(h)) \in Nat
<1>1. IsFiniteSet(Open(h))
  BY FS_Subset DEF Open
<1> QED BY <1>1, FS_CardinalityType

LEMMA ReturnTyped ==
    ASSUME TypeOK, NEW t \in Tasks, Return(t)
    PROVE  /\ pc' \in [Tasks -> {"idle", "lock", "check", "open", "backoff"}]
           /\ host' \in [Tasks -> Hosts \cup {None}]
           /\ \A u \in Tasks : /\ pc'[u] # "idle" => host'[u] \in Hosts
                               /\ pc'[u] = "backoff" => attempt'[u] < MAX_RETRIES
           /\ attempt' \in [Tasks -> 0 .. MAX_RETRIES]
           /\ pc'[t] # "open"
           /\ \A u \in Tasks \ {t} : pc'[u] = pc[u] /\ host'[u] = host[u]
  BY DEF TypeOK, Return

LEMMA FailsTyped ==
    ASSUME TypeOK, NEW t \in Tasks, pc[t] # "idle", AttemptFails(t)
    PROVE  /\ pc' \in [Tasks -> {"idle", "lock", "check", "open", "backoff"}]
           /\ host' \in [Tasks -> Hosts \cup {None}]
           /\ \A u \in Tasks : /\ pc'[u] # "idle" => host'[u] \in Hosts
                               /\ pc'[u] = "backoff" => attempt'[u] < MAX_RETRIES
           /\ attempt' \in [Tasks -> 0 .. MAX_RETRIES]
           /\ pc'[t] # "open"
           /\ \A u \in Tasks \ {t} : pc'[u] = pc[u] /\ host'[u] = host[u]
<1>1. CASE Return(t)
  BY <1>1, ReturnTyped
<1>2. CASE /\ attempt[t] < MAX_RETRIES
           /\ pc' = [pc EXCEPT ![t] = "backoff"] /\ UNCHANGED <<host, attempt>>
  <2>1. pc'[t] = "backoff" /\ \A u \in Tasks \ {t} : pc'[u] = pc[u]
    BY <1>2 DEF TypeOK
  <2> QED BY <1>2, <2>1 DEF TypeOK
<1> QED BY <1>1, <1>2 DEF AttemptFails

LEMMA ClientTyped == TypeOK /\ [Next]_vars => TypeOK'
<1> SUFFICES ASSUME TypeOK, [Next]_vars PROVE TypeOK'
  OBVIOUS
<1>1. ASSUME NEW t \in Tasks, NEW h \in Hosts, CallNode(t, h) PROVE TypeOK'
  BY <1>1 DEF CallNode, TypeOK
<1>2. ASSUME NEW t \in Tasks, Retry(t) PROVE TypeOK'
  <2>1. attempt' \in [Tasks -> 0 .. MAX_RETRIES]
    BY <1>2 DEF Retry, TypeOK
  <2> QED BY <1>2, <2>1 DEF Retry, TypeOK
<1>3. ASSUME NEW t \in Tasks, Lock(t) PROVE TypeOK'
  BY <1>3 DEF Lock, TypeOK
<1>4. ASSUME NEW t \in Tasks, CheckLimit(t) PROVE TypeOK'
  <2>1. \A g \in Hosts : Cleaned(g) \in Nat \cup {None}
    BY DEF Cleaned, TypeOK
  <2>2. active' \in [Hosts -> Nat \cup {None}] /\ age' \in [Hosts -> 0 .. 2]
    BY <1>4, <2>1 DEF CheckLimit, TypeOK
  <2>3. CASE pc' = [pc EXCEPT ![t] = "open"] /\ UNCHANGED <<host, attempt>>
    BY <1>4, <2>2, <2>3 DEF CheckLimit, TypeOK
  <2>4. CASE AttemptFails(t)
    BY <1>4, <2>2, <2>4, FailsTyped DEF CheckLimit, TypeOK
  <2> QED BY <1>4, <2>3, <2>4 DEF CheckLimit
<1>5. ASSUME NEW t \in Tasks, Close(t) PROVE TypeOK'
  <2>1. pending' \in [Hosts -> 0 .. MaxPending]
    BY <1>5 DEF Close, TypeOK
  <2> QED BY <1>5, <2>1, ReturnTyped, FailsTyped DEF Close, TypeOK
<1>6. ASSUME NEW h \in Hosts, TryLock(h) \/ TryLockFails(h) PROVE TypeOK'
  BY <1>6 DEF TryLock, TryLockFails, TypeOK
<1>7. ASSUME NEW h \in Hosts, Decrement(h) PROVE TypeOK'
  BY <1>7 DEF Decrement, TypeOK
<1>8. ASSUME NEW h \in Hosts, Tick(h) PROVE TypeOK'
  BY <1>8 DEF Tick, TypeOK
<1>9. CASE UNCHANGED vars
  BY <1>9 DEF vars, TypeOK
<1> QED
  BY <1>1, <1>2, <1>3, <1>4, <1>5, <1>6, <1>7, <1>8, <1>9
  DEF Next, Progress, Dropped

\* One step of the invariant: the count covers, and the limit holds.
LEMMA CoverNext ==
    ASSUME TypeOK, CountCovers, LimitHolds, [Next]_vars
    PROVE  CountCovers' /\ LimitHolds'
<1> DEFINE Covers(h) ==
              Count(h) >= Cardinality(Open(h)) + pending[h] + Dropping(h)
<1>0. /\ \A h \in Hosts : Covers(h) /\ Count(h) \in Nat /\ Dropping(h) \in Nat
      /\ \A h \in Hosts : pending[h] \in Nat
      /\ \A h \in Hosts : Cardinality(Open(h)) \in Nat
  BY OpenFinite DEF CountCovers, Count, Dropping, TypeOK
<1> SUFFICES ASSUME NEW h \in Hosts
             PROVE  Covers(h)' /\ Cardinality(Open(h)') <= MAX_CONNECTIONS_PER_HOST
  BY DEF CountCovers, LimitHolds
<1> DEFINE Goal == Covers(h)' /\ Cardinality(Open(h)') <= MAX_CONNECTIONS_PER_HOST
<1>a. /\ Covers(h) /\ Count(h) \in Nat /\ pending[h] \in Nat
      /\ Dropping(h) \in Nat /\ Cardinality(Open(h)) \in Nat
      /\ Cardinality(Open(h)) <= MAX_CONNECTIONS_PER_HOST
  BY <1>0 DEF LimitHolds
<1>1. ASSUME NEW t \in Tasks, NEW g \in Hosts, CallNode(t, g) PROVE Goal
  <2>1. Open(h)' = Open(h)
    BY <1>1 DEF CallNode, Open, TypeOK
  <2> QED BY <1>1, <1>a, <2>1 DEF CallNode, Count, Dropping
<1>2. ASSUME NEW t \in Tasks, Retry(t) PROVE Goal
  <2>1. Open(h)' = Open(h)
    BY <1>2 DEF Retry, Open, TypeOK
  <2> QED BY <1>2, <1>a, <2>1 DEF Retry, Count, Dropping
<1>3. ASSUME NEW t \in Tasks, Lock(t) PROVE Goal
  <2>1. Open(h)' = Open(h)
    BY <1>3 DEF Lock, Open, TypeOK
  <2>2. Dropping(h)' = Dropping(h) /\ Count(h)' = Count(h)
    BY <1>3 DEF Lock, Dropping, Count
  <2> QED BY <1>3, <1>a, <2>1, <2>2 DEF Lock
<1>4. ASSUME NEW t \in Tasks, CheckLimit(t) PROVE Goal
  <2>1. Dropping(h)' = 0 /\ pending'[h] = pending[h]
    BY <1>4 DEF CheckLimit, Dropping
  <2>2. host[t] \in Hosts
    BY <1>4 DEF CheckLimit, TypeOK
  <2>3. active[h] \in Nat \cup {None}
    BY DEF TypeOK
  <2>4. (IF Cleaned(h) = None THEN 0 ELSE Cleaned(h)) = Count(h)
    BY <2>3 DEF Cleaned, Count
  <2>5. CASE h = host[t] /\ Count(h) < MAX_CONNECTIONS_PER_HOST
    <3>1. active'[h] = Count(h) + 1 /\ pc' = [pc EXCEPT ![t] = "open"]
          /\ host' = host
      BY <1>4, <2>2, <2>4, <2>5 DEF CheckLimit
    <3>2. Open(h)' = Open(h) \cup {t} /\ t \notin Open(h)
      BY <1>4, <2>5, <3>1 DEF CheckLimit, Open, TypeOK
    <3>3. Cardinality(Open(h)') = Cardinality(Open(h)) + 1
      BY <3>2, OpenFinite, FS_AddElement
    <3>4. Count(h)' = Count(h) + 1
      BY <1>a, <3>1 DEF Count
    <3> QED BY <1>a, <2>1, <2>5, <3>3, <3>4
  <2>6. CASE h = host[t] /\ ~(Count(h) < MAX_CONNECTIONS_PER_HOST)
    <3>1. active'[h] = Count(h) /\ AttemptFails(t)
      BY <1>4, <2>2, <2>4, <2>6 DEF CheckLimit
    <3>2. Open(h)' = Open(h)
      BY <1>4, <3>1, FailsTyped DEF CheckLimit, Open
    <3>3. Count(h)' = Count(h)
      BY <1>a, <3>1 DEF Count
    <3> QED BY <1>a, <2>1, <3>2, <3>3
  <2>7. CASE h # host[t]
    <3>1. active'[h] = Cleaned(h)
      BY <1>4, <2>7 DEF CheckLimit
    <3>2. Count(h)' = Count(h)
      BY <2>4, <3>1 DEF Count
    <3>3. CASE AttemptFails(t)
      <4>1. Open(h)' = Open(h)
        BY <1>4, <2>7, <3>3, FailsTyped DEF CheckLimit, Open
      <4> QED BY <1>a, <2>1, <3>2, <4>1
    <3>4. CASE pc' = [pc EXCEPT ![t] = "open"] /\ host' = host
      <4>1. Open(h)' = Open(h)
        BY <1>4, <2>7, <3>4 DEF CheckLimit, Open, TypeOK
      <4> QED BY <1>a, <2>1, <3>2, <4>1
    <3> QED BY <1>4, <3>3, <3>4 DEF CheckLimit
  <2> QED BY <2>5, <2>6, <2>7
<1>5. ASSUME NEW t \in Tasks, Close(t) PROVE Goal
  <2>1. /\ pc'[t] # "open"
        /\ \A u \in Tasks \ {t} : pc'[u] = pc[u] /\ host'[u] = host[u]
    BY <1>5, ReturnTyped, FailsTyped DEF Close
  <2>2. Count(h)' = Count(h) /\ Dropping(h)' = Dropping(h)
    BY <1>5 DEF Close, Count, Dropping
  <2>3. CASE h = host[t]
    <3>1. Open(h)' = Open(h) \ {t} /\ t \in Open(h)
      BY <1>5, <2>1, <2>3 DEF Close, Open
    <3>2. Cardinality(Open(h)') = Cardinality(Open(h)) - 1
      BY <3>1, OpenFinite, FS_RemoveElement
    <3>3. pending'[h] = pending[h] + 1
      BY <1>5, <2>3 DEF Close, TypeOK
    <3> QED BY <1>a, <2>2, <3>2, <3>3
  <2>4. CASE h # host[t]
    <3>1. Open(h)' = Open(h)
      BY <1>5, <2>1, <2>4 DEF Close, Open
    <3>2. pending'[h] = pending[h]
      BY <1>5, <2>4 DEF Close, TypeOK
    <3> QED BY <1>a, <2>2, <3>1, <3>2
  <2> QED BY <2>3, <2>4
<1>6. ASSUME NEW g \in Hosts, TryLock(g) PROVE Goal
  <2>1. Open(h)' = Open(h) /\ Count(h)' = Count(h) /\ Dropping(h) = 0
    BY <1>6 DEF TryLock, Open, Count, Dropping
  <2>2. \/ g = h /\ pending'[h] = pending[h] - 1 /\ Dropping(h)' = 1
        \/ g # h /\ pending'[h] = pending[h] /\ Dropping(h)' = 0
    BY <1>6 DEF TryLock, Dropping, TypeOK
  <2> QED BY <1>a, <2>1, <2>2
<1>7. ASSUME NEW g \in Hosts, TryLockFails(g) PROVE Goal
  <2>1. Open(h)' = Open(h) /\ Count(h)' = Count(h) /\ Dropping(h)' = Dropping(h)
    BY <1>7 DEF TryLockFails, Open, Count, Dropping
  <2>2. pending'[h] = pending[h] - 1 \/ pending'[h] = pending[h]
    BY <1>7 DEF TryLockFails, TypeOK
  <2> QED BY <1>a, <2>1, <2>2
<1>8. ASSUME NEW g \in Hosts, Decrement(g) PROVE Goal
  <2>1. Open(h)' = Open(h) /\ pending'[h] = pending[h] /\ Dropping(h)' = 0
    BY <1>8 DEF Decrement, Open, Dropping
  <2>2. CASE g = h
    <3>1. Dropping(h) = 1
      BY <1>8, <2>2 DEF Decrement, Dropping
    <3>2. Count(h) >= 1 /\ active[h] = Count(h)
      BY <1>a, <3>1 DEF Count
    <3>3. Count(h)' = Count(h) - 1
      BY <1>8, <1>a, <2>2, <3>2 DEF Decrement, Count, TypeOK
    <3> QED BY <1>a, <2>1, <3>1, <3>3
  <2>3. CASE g # h
    <3>1. Count(h)' = Count(h)
      BY <1>8, <2>3 DEF Decrement, Count, TypeOK
    <3> QED BY <1>a, <2>1, <3>1
  <2> QED BY <2>2, <2>3
<1>9. ASSUME NEW g \in Hosts, Tick(g) PROVE Goal
  BY <1>9, <1>a DEF Tick, Open, Count, Dropping
<1>10. CASE UNCHANGED vars
  BY <1>10, <1>a DEF vars, Open, Count, Dropping
<1> QED
  BY <1>1, <1>2, <1>3, <1>4, <1>5, <1>6, <1>7, <1>8, <1>9, <1>10
  DEF Next, Progress, Dropped

LEMMA LimitInvariant == Spec => [](TypeOK /\ CountCovers /\ LimitHolds)
<1>1. Init => TypeOK /\ CountCovers /\ LimitHolds
  <2> SUFFICES ASSUME Init PROVE TypeOK /\ CountCovers /\ LimitHolds
    OBVIOUS
  <2>1. \A h \in Hosts : Open(h) = {}
    BY DEF Init, Open
  <2>2. \A h \in Hosts : /\ Cardinality(Open(h)) = 0 /\ pending[h] = 0
                         /\ Count(h) = 0 /\ Dropping(h) = 0
    BY <2>1, FS_EmptySet DEF Init, Count, Dropping
  <2>3. TypeOK
    BY DEF Init, TypeOK
  <2> QED BY <2>2, <2>3 DEF CountCovers, LimitHolds
<1>2. TypeOK /\ CountCovers /\ LimitHolds /\ [Next]_vars
         => (TypeOK /\ CountCovers /\ LimitHolds)'
  BY ClientTyped, CoverNext
<1> QED
  BY <1>1, <1>2, PTL DEF Spec

\* Calls, retries, cleanups and guard drops keep the client's state typed: the
\* counts never go below zero, and no call starts more attempts than allowed.
THEOREM TypeCorrect == Spec => []TypeOK
BY LimitInvariant, PTL

\* The limiter's count never falls below the connections that exist, however
\* guard drops are delayed, lost or overtaken by a cleanup.
THEOREM CountAbove == Spec => []CountCovers
BY LimitInvariant, PTL

\* No host ever gets more than MAX_CONNECTIONS_PER_HOST connections.
THEOREM LimitSafe == Spec => []LimitHolds
BY LimitInvariant, PTL

=============================================================================
