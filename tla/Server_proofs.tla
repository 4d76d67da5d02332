---------------------------- MODULE Server_proofs ---------------------------
(***************************************************************************)
(* The connection limit of the server and the bound on connections taken   *)
(* after a signal, for any number of connections and any limit.            *)
(*                                                                         *)
(* Neither bound is inductive.  The limit follows from the counter being   *)
(* exact; the other one from where the accept loop is (AcceptOnce).        *)
(***************************************************************************)
EXTENDS Server, FiniteSetTheorems, TLAPS

USE ConnsAssumption, LimitAssumption

LEMMA SetsFinite ==
    /\ IsFiniteSet(Counted) /\ Cardinality(Counted) \in Nat
    /\ IsFiniteSet(Served) /\ Cardinality(Served) \in Nat
    /\ Cardinality(Served) <= Cardinality(Counted)
<1>1. IsFiniteSet(Counted) /\ IsFiniteSet(Served)
  BY FS_Subset DEF Counted, Served
<1>2. Served \in SUBSET Counted
  BY DEF Served, Counted
<1>3. Cardinality(Served) <= Cardinality(Counted)
  BY <1>1, <1>2, FS_Subset
<1> QED BY <1>1, <1>3, FS_CardinalityType

\* Closing a counted connection: the counter follows the set.
LEMMA ReleaseCounts ==
    ASSUME TypeOK, CounterExact, WithinLimit, Running, NEW c \in Counted,
           NEW how \in {"answered", "dropped"}, Release(c, how)
    PROVE  TypeOK' /\ CounterExact' /\ WithinLimit'
<1>0. c \in Conns
  BY DEF Counted
<1>1. Counted' = Counted \ {c} /\ Served' = Served \ {c}
  BY <1>0 DEF Release, Counted, Served, TypeOK
<1>2. Cardinality(Counted') = Cardinality(Counted) - 1
  BY <1>1, SetsFinite, FS_RemoveElement
<1>3. Cardinality(Served') <= Cardinality(Served) /\ Cardinality(Served') \in Nat
  <2>1. Served \ {c} \in SUBSET Served
    OBVIOUS
  <2>2. IsFiniteSet(Served \ {c}) /\ Cardinality(Served \ {c}) <= Cardinality(Served)
    BY <2>1, SetsFinite, FS_Subset
  <2> QED BY <1>1, <2>2, FS_CardinalityType
<1>4. Cardinality(Counted) >= 1
  <2>1. Cardinality(Counted) # 0
    BY SetsFinite, FS_EmptySet, Zenon
  <2> QED BY <2>1, SetsFinite
<1>5. active_connections' = Cardinality(Counted) - 1 /\ active_connections' \in Nat
  BY <1>4, SetsFinite DEF Release, CounterExact
<1>6. TypeOK'
  BY <1>0, <1>5 DEF Release, TypeOK, ConnStates
<1>7. CounterExact'
  BY <1>2, <1>5 DEF CounterExact
<1>8. WithinLimit'
  BY <1>3, SetsFinite DEF WithinLimit
<1> QED BY <1>6, <1>7, <1>8

LEMMA LimitNext ==
    ASSUME TypeOK, CounterExact, WithinLimit, [Next]_vars
    PROVE  TypeOK' /\ CounterExact' /\ WithinLimit'
<1> DEFINE Goal == TypeOK' /\ CounterExact' /\ WithinLimit'
<1>a. ASSUME TypeOK', UNCHANGED active_connections, Counted' = Counted,
             Served' = Served, Running
      PROVE  Goal
  BY <1>a DEF CounterExact, WithinLimit
<1>1. CASE \/ Bind \/ AcceptorCheck \/ AcceptError \/ StabCheck \/ StabRound
           \/ Signal \/ Poll \/ Select
  <2>1. TypeOK'
    BY <1>1 DEF Bind, AcceptorCheck, AcceptError, StabCheck, StabRound, Signal,
                Poll, Select, TypeOK
  <2>2. UNCHANGED <<active_connections, conn>> /\ Running
    BY <1>1 DEF Bind, AcceptorCheck, AcceptError, StabCheck, StabRound, Signal,
                Poll, Select
  <2> QED BY <1>a, <2>1, <2>2 DEF Counted, Served
<1>2. CASE Exit
  <2>1. conn' \in [Conns -> ConnStates]
    BY <1>2 DEF Exit, TypeOK, ConnStates
  <2>2. Served' = {}
    BY <1>2 DEF Exit, Served, TypeOK, ConnStates
  <2>3. TypeOK'
    BY <1>2, <2>1 DEF Exit, TypeOK
  <2>4. WithinLimit'
    BY <2>2, FS_EmptySet DEF WithinLimit
  <2> QED BY <1>2, <2>3, <2>4 DEF Exit, CounterExact, Running
<1>3. ASSUME NEW c \in Conns, Accept(c) \/ Arrive(c) PROVE Goal
  <2>1. TypeOK' /\ UNCHANGED active_connections /\ Running
    BY <1>3 DEF Accept, Arrive, TypeOK, ConnStates
  <2>2. /\ conn[c] \notin {"over", "reading", "handling"}
        /\ conn'[c] \notin {"over", "reading", "handling"}
        /\ \A d \in Conns \ {c} : conn'[d] = conn[d]
    BY <1>3 DEF Accept, Arrive, TypeOK
  <2>3. Counted' = Counted /\ Served' = Served
    BY <2>2 DEF Counted, Served
  <2> QED BY <1>a, <2>1, <2>3
<1>4. ASSUME NEW c \in Conns, Admit(c) PROVE Goal
  <2>1. TypeOK'
    BY <1>4 DEF Admit, TypeOK, ConnStates
  <2>2. /\ Counted' = Counted \cup {c} /\ c \notin Counted /\ c \notin Served
        /\ Served' = IF active_connections >= MAX_CONNECTIONS THEN Served
                     ELSE Served \cup {c}
    BY <1>4 DEF Admit, Counted, Served, TypeOK
  <2>3. Cardinality(Counted') = Cardinality(Counted) + 1
    BY <2>2, SetsFinite, FS_AddElement
  <2>4. active_connections = Cardinality(Counted)
    BY <1>4 DEF Admit, CounterExact
  <2>5. CounterExact'
    BY <1>4, <2>3, <2>4 DEF Admit, CounterExact
  <2>6. WithinLimit'
    <3>1. CASE active_connections >= MAX_CONNECTIONS
      BY <2>2, <3>1 DEF WithinLimit
    <3>2. CASE ~(active_connections >= MAX_CONNECTIONS)
      <4>1. Cardinality(Served') = Cardinality(Served) + 1
        BY <2>2, <3>2, SetsFinite, FS_AddElement
      <4> QED BY <2>4, <3>2, <4>1, SetsFinite DEF WithinLimit
    <3> QED BY <3>1, <3>2
  <2> QED BY <2>1, <2>5, <2>6
<1>5. ASSUME NEW c \in Conns, Reject(c) \/ ReadFails(c) \/ Handle(c) PROVE Goal
  <2>1. c \in Counted /\ Running
    BY <1>5 DEF Reject, ReadFails, Handle, Counted
  <2>2. \E how \in {"answered", "dropped"} : Release(c, how)
    BY <1>5 DEF Reject, ReadFails, Handle
  <2> QED BY <2>1, <2>2, ReleaseCounts
<1>6. ASSUME NEW c \in Conns, ReadRequest(c) PROVE Goal
  <2>1. TypeOK' /\ UNCHANGED active_connections /\ Running
    BY <1>6 DEF ReadRequest, TypeOK, ConnStates
  <2>2. Counted' = Counted /\ Served' = Served
    BY <1>6 DEF ReadRequest, Counted, Served, TypeOK
  <2> QED BY <1>a, <2>1, <2>2
<1>7. CASE UNCHANGED vars
  BY <1>7 DEF vars, TypeOK, CounterExact, WithinLimit, Counted, Served, Running
<1> QED
  BY <1>1, <1>2, <1>3, <1>4, <1>5, <1>6, <1>7 DEF Next, Handler, Peer

LEMMA LimitInvariant == Spec => [](TypeOK /\ CounterExact /\ WithinLimit)
<1>1. Init => TypeOK /\ CounterExact /\ WithinLimit
  <2> SUFFICES ASSUME Init PROVE TypeOK /\ CounterExact /\ WithinLimit
    OBVIOUS
  <2>1. Counted = {} /\ Served = {}
    BY DEF Init, Counted, Served
  <2>2. Cardinality(Counted) = 0 /\ Cardinality(Served) = 0
    BY <2>1, FS_EmptySet
  <2>3. TypeOK
    BY DEF Init, TypeOK, ConnStates
  <2> QED BY <2>2, <2>3 DEF Init, CounterExact, WithinLimit
<1>2. TypeOK /\ CounterExact /\ WithinLimit /\ [Next]_vars
         => (TypeOK /\ CounterExact /\ WithinLimit)'
  BY LimitNext
<1> QED
  BY <1>1, <1>2, PTL DEF Spec

\* The acceptor, the handlers and the shutdown keep the server's state typed.
THEOREM TypeCorrect == Spec => []TypeOK
BY LimitInvariant, PTL

\* Whatever connections arrive, fail and finish, and whenever the process is
\* told to stop, active_connections counts the handlers that entered and have
\* not left.
THEOREM CountExact == Spec => []CounterExact
BY LimitInvariant, PTL

\* At most MAX_CONNECTIONS requests are served at a time.
THEOREM LimitSafe == Spec => []WithinLimit
BY LimitInvariant, PTL

\* After the signal the node takes at most one more connection, for any
\* number of connections waiting.
THEOREM OneMore == Spec => []OneAfterSignal
<1>1. Init => AcceptOnce
  BY DEF Init, AcceptOnce, OneAfterSignal
<1>2. TypeOK /\ AcceptOnce /\ [Next]_vars => AcceptOnce'
  <2> SUFFICES ASSUME TypeOK, AcceptOnce, [Next]_vars PROVE AcceptOnce'
    OBVIOUS
  <2> USE DEF AcceptOnce, OneAfterSignal
  <2>1. CASE Bind \/ AcceptorCheck \/ AcceptError
    BY <2>1 DEF Bind, AcceptorCheck, AcceptError, TypeOK
  <2>2. CASE StabCheck \/ StabRound \/ Signal \/ Poll \/ Select \/ Exit
    BY <2>2 DEF StabCheck, StabRound, Signal, Poll, Select, Exit, TypeOK
  <2>3. ASSUME NEW c \in Conns, Accept(c) PROVE AcceptOnce'
    BY <2>3 DEF Accept, TypeOK
  <2>4. ASSUME NEW c \in Conns, Handler(c) \/ Peer(c) PROVE AcceptOnce'
    BY <2>4 DEF Handler, Peer, Admit, Reject, Handle, Release, Arrive,
                ReadRequest, ReadFails
  <2>5. CASE UNCHANGED vars
    BY <2>5 DEF vars
  <2> QED BY <2>1, <2>2, <2>3, <2>4, <2>5 DEF Next
<1>3. AcceptOnce => OneAfterSignal
  BY DEF AcceptOnce
<1> QED
  BY <1>1, <1>2, <1>3, LimitInvariant, PTL DEF Spec

=============================================================================
